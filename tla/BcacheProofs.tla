---------------------------- MODULE BcacheProofs ----------------------------
(* The invariant of the buffer cache holds: nobody loses a buffer or a       *)
(* wakeup.  With it, and as a clean buffer equals the disk, the cache        *)
(* implements the store of blocks of module BlockStore.                      *)
EXTENDS BcacheSteps

-----------------------------------------------------------------------------
(* The drive and its interrupt                                               *)

\* The drive finishes; a write is on the disk then.
LEMMA DriveDoneStep ==
  ASSUME IInv, DriveDone
  PROVE  /\ IInv'
         /\ drive \in Requests /\ queue # <<>> /\ queue[1] \in Bufs
         /\ disk' = IF drive.write THEN [disk EXCEPT ![drive.block] = drive.data] ELSE disk
         /\ drive'.block = drive.block /\ drive'.write = drive.write /\ drive'.data = drive.data
<1> USE DEF IInv
<1>1. /\ drive # None /\ ~drive.done
      /\ drive' = [drive EXCEPT !.done = TRUE]
      /\ disk' = IF drive.write THEN [disk EXCEPT ![drive.block] = drive.data] ELSE disk
      /\ UNCHANGED <<lru, buf, queue, pc, want, mine, asleep, panicked, driver>>
  BY Zenon DEF DriveDone, pvars
<1>2. drive \in Requests /\ queue # <<>>
  BY <1>1, Zenon DEF Types, Driving
<1>3. queue[1] \in Bufs
  BY <1>2 DEF Types
<1>4. /\ drive' \in Requests /\ drive'.block = drive.block /\ drive'.write = drive.write
      /\ drive'.data = drive.data
  BY <1>1, <1>2, Zenon DEF Requests
<1>5. drive.block \in Blocks /\ drive.data \in Values
  BY <1>2, Zenon DEF Requests
<1>6. disk' \in [Blocks -> Values] /\ (drive.write => disk'[drive.block] = drive.data)
  BY <1>1, <1>5, Zenon DEF Types
<1>7. Types'
  BY <1>1, <1>4, <1>6, Zenon DEF Types
<1>8. Driving'
  <2>1. drive' # None
    BY <1>4, NoneAssumption, Zenon
  <2> QED
    BY <1>1, <1>2, <1>4, <1>6, <2>1, Zenon DEF Driving
<1>9. IInv'
  BY <1>1, <1>7, <1>8 DEF Owners, Counts, HasBuffer, Once, Locks, Buffers, Queued, InQueue, Serviced, Sleeping
<1> QED
  BY <1>1, <1>2, <1>3, <1>4, <1>9, Zenon

\* The interrupt: the head of the queue is done, its process is woken, and the
\* drive starts on the next request.
LEMMA IdeintrEffect ==
  ASSUME IInv, ideintr
  PROVE  \E b \in Bufs :
           /\ queue # <<>> /\ b = queue[1] /\ drive \in Requests /\ drive.done
           /\ drive.block = buf[b].block /\ drive.write = buf[b].dirty
           /\ buf[b].block \in Blocks
           /\ buf' \in [Bufs -> BufType]
           /\ \A c \in Bufs : c # b => buf'[c] = buf[c]
           /\ buf'[b].block = buf[b].block /\ buf'[b].refcnt = buf[b].refcnt
           /\ buf'[b].locked = buf[b].locked /\ buf'[b].valid /\ ~buf'[b].dirty
           /\ buf[b].dirty => buf'[b].data = buf[b].data
           /\ ~buf[b].dirty /\ ~ReadErrors => buf'[b].data = disk[drive.block]
<1> USE DEF IInv
<1>1. drive # None /\ drive.done /\ queue # <<>>
  BY Zenon DEF ideintr
<1>2. PICK b \in Bufs : b = queue[1] /\ b = Head(queue)
  BY <1>1 DEF Types
<1>3. drive \in Requests /\ drive.block \in Blocks
  BY <1>1, Zenon DEF Types, Requests
<1>4. drive.block = buf[b].block /\ drive.write = buf[b].dirty
  BY <1>1, <1>2, Zenon DEF Driving
<1>5. PICK s \in ReadStatus :
        buf' = [buf EXCEPT ![b].valid = TRUE, ![b].dirty = FALSE,
                           ![b].data = IF ~buf[b].dirty /\ s = "ok"
                                       THEN disk[drive.block] ELSE buf[b].data]
  BY <1>2, Zenon DEF ideintr
<1>6. buf \in [Bufs -> BufType] /\ buf[b] \in BufType
  BY Zenon DEF Types
<1>7. PICK v \in Values : v = IF ~buf[b].dirty /\ s = "ok" THEN disk[drive.block] ELSE buf[b].data
  BY <1>3, <1>6, Zenon DEF Types, BufType
<1> DEFINE r == [block |-> buf[b].block, valid |-> TRUE, dirty |-> FALSE,
                 refcnt |-> buf[b].refcnt, locked |-> buf[b].locked, data |-> v]
<1>8. buf' = [buf EXCEPT ![b] = buf'[b]] /\ buf'[b] = r
  <2>1. buf' = [buf EXCEPT ![b].valid = TRUE, ![b].dirty = FALSE, ![b].data = v]
    BY <1>5, <1>7, Zenon
  <2> QED
    BY <1>6, <2>1, Transferred, Zenon
<1>9. /\ r \in BufType /\ r.data = v /\ r.valid /\ ~r.dirty
      /\ r.block = buf[b].block /\ r.refcnt = buf[b].refcnt /\ r.locked = buf[b].locked
  BY <1>6, SetServiced, Zenon
<1> HIDE DEF r
<1>10. buf' \in [Bufs -> BufType] /\ \A c \in Bufs : c # b => buf'[c] = buf[c]
  BY <1>8, <1>9, Put, Zenon
<1>11. buf[b].dirty => v = buf[b].data
  BY <1>7, Zenon
<1>12. ~buf[b].dirty /\ ~ReadErrors => v = disk[drive.block]
  BY <1>7, Zenon DEF ReadStatus
<1> QED
  BY <1>1, <1>2, <1>3, <1>4, <1>8, <1>9, <1>10, <1>11, <1>12, Zenon

LEMMA IdeintrStep ==
  ASSUME IInv, ideintr
  PROVE  IInv'
<1> USE DEF IInv
<1>1. PICK b \in Bufs :
           /\ queue # <<>> /\ b = queue[1]
           /\ buf' \in [Bufs -> BufType]
           /\ \A c \in Bufs : c # b => buf'[c] = buf[c]
           /\ buf'[b].block = buf[b].block /\ buf'[b].refcnt = buf[b].refcnt
           /\ buf'[b].locked = buf[b].locked /\ buf'[b].valid /\ ~buf'[b].dirty
           /\ buf[b].block \in Blocks
  BY IdeintrEffect, Zenon
<1>2. /\ queue' \in Seq(Bufs) /\ 1 \in DOMAIN queue /\ Head(queue) = queue[1]
      /\ \A i \in DOMAIN queue' : i \in Nat /\ i + 1 \in DOMAIN queue /\ i + 1 # 1 /\ queue'[i] = queue[i + 1]
      /\ \A i \in DOMAIN queue : i # 1 => \E j \in DOMAIN queue' : queue'[j] = queue[i]
      /\ queue' # <<>> => 1 \in DOMAIN queue' /\ Head(queue') = queue'[1]
  <2>1. queue \in Seq(Bufs) /\ queue' = Tail(queue) /\ queue # <<>>
    BY <1>1, Zenon DEF ideintr, Types
  <2> QED
    BY <2>1, Tailed, Zenon
<1>3. /\ asleep' = [p \in Procs |-> asleep[p] /\ ~(pc[p] = "io" /\ mine[p] = b)]
      /\ IF queue' # <<>> THEN drive' = Request(Head(queue')) ELSE drive' = None
      /\ UNCHANGED <<lru, disk, pc, want, mine, panicked, driver>>
  <2>1. Head(queue) = b /\ queue' = Tail(queue)
    BY <1>1, <1>2, Zenon DEF ideintr
  <2> QED
    BY <2>1, Zenon DEF ideintr, StartNext, idestart
<1>4. \A i \in DOMAIN queue' : queue'[i] \in Bufs /\ queue'[i] # b
  <2>1. \A i \in DOMAIN queue' : queue'[i] # b
    BY <1>1, <1>2 DEF Queued
  <2> QED
    BY <1>2, <2>1
<1>5. /\ asleep' \in [Procs -> BOOLEAN]
      /\ \A q \in Procs : asleep'[q] => asleep[q] /\ ~(pc[q] = "io" /\ mine[q] = b)
  BY <1>3, Zenon
<1>6. queue' # <<>> =>
         /\ drive' \in Requests /\ drive'.block = buf'[queue'[1]].block
         /\ drive'.write = buf'[queue'[1]].dirty /\ drive'.data = buf'[queue'[1]].data
         /\ ~drive'.done
  <2> SUFFICES ASSUME queue' # <<>>
               PROVE  /\ drive' \in Requests /\ drive'.block = buf'[queue'[1]].block
                      /\ drive'.write = buf'[queue'[1]].dirty /\ drive'.data = buf'[queue'[1]].data
                      /\ ~drive'.done
    BY Zenon
  <2>1. PICK c \in Bufs : c = queue'[1] /\ c # b /\ \E i \in DOMAIN queue : c = queue[i]
    BY <1>2, <1>4
  <2>2. buf'[c] = buf[c] /\ buf'[c] \in BufType
    BY <1>1, <2>1, Zenon
  <2>3. buf[c].block \in Blocks
    <3>1. PICK q \in Procs : pc[q] = "io" /\ mine[q] = c
      BY <2>1, ZenonT(60) DEF Queued
    <3> QED
      BY <3>1, Zenon DEF Owners
  <2>4. drive' = [block |-> buf'[c].block, write |-> buf'[c].dirty, data |-> buf'[c].data, done |-> FALSE]
    <3>1. drive' = Request(Head(queue')) /\ Head(queue') = c
      BY <1>2, <1>3, <2>1, Zenon
    <3> QED
      BY <3>1, Zenon DEF Request
  <2> QED
    BY <2>1, <2>2, <2>3, <2>4, RequestFields, Zenon
<1>7. Types'
  <2>1. drive' \in {None} \cup Requests
    BY <1>3, <1>6, Zenon
  <2> QED
    BY <1>1, <1>2, <1>3, <1>5, <2>1, Zenon DEF Types
<1>8. Owners' /\ Counts' /\ Once'
  <2>1. \A c \in Bufs : buf'[c].block = buf[c].block /\ buf'[c].refcnt = buf[c].refcnt
    BY <1>1, Zenon
  <2> QED
    BY <1>3, <2>1, OwnersFrame, Zenon
<1>9. Locks'
  <2>1. \A c \in Bufs : buf'[c].locked = buf[c].locked
    BY <1>1, Zenon
  <2> QED
    BY <1>3, <2>1, LocksFrame, Zenon
<1>10. Buffers'
  <2>1. \A c \in Bufs : (buf'[c].valid => buf'[c].block # None) /\ (buf'[c].dirty => buf'[c].valid)
    BY <1>1, NoneAssumption, Zenon DEF Buffers
  <2>2. \A q \in Procs : pc[q] \in {"held", "stored"} => mine[q] \in Bufs
    BY Zenon DEF Owners
  <2> QED
    BY <1>1, <1>3, <2>1, <2>2, Zenon DEF Buffers
<1>11. Queued'
  <2>1. \A i, j \in DOMAIN queue' : queue'[i] = queue'[j] => i = j
    <3> SUFFICES ASSUME NEW i \in DOMAIN queue', NEW j \in DOMAIN queue', queue'[i] = queue'[j]
                 PROVE  i = j
      BY Zenon
    <3>1. i + 1 \in DOMAIN queue /\ j + 1 \in DOMAIN queue /\ queue[i + 1] = queue[j + 1]
      BY <1>2, Zenon
    <3>2. i + 1 = j + 1
      BY <3>1, Zenon DEF Queued
    <3> QED
      BY <1>2, <3>2
  <2>2. \A i \in DOMAIN queue' : /\ ~(buf'[queue'[i]].valid /\ ~buf'[queue'[i]].dirty)
                                 /\ \E q \in Procs : pc'[q] = "io" /\ mine'[q] = queue'[i]
    <3> SUFFICES ASSUME NEW i \in DOMAIN queue'
                 PROVE  /\ ~(buf'[queue'[i]].valid /\ ~buf'[queue'[i]].dirty)
                        /\ \E q \in Procs : pc'[q] = "io" /\ mine'[q] = queue'[i]
      BY Zenon
    <3>1. PICK m \in DOMAIN queue : queue'[i] = queue[m]
      BY <1>2, Zenon
    <3>2. buf'[queue'[i]] = buf[queue[m]]
      BY <1>1, <1>4, <3>1, Zenon
    <3> QED
      BY <1>3, <3>1, <3>2 DEF Queued, Serviced
  <2>3. \A q \in Procs : pc'[q] = "io" => (Serviced(mine[q]) \/ InQueue(mine[q]))'
    <3> SUFFICES ASSUME NEW q \in Procs, pc[q] = "io"
                 PROVE  (Serviced(mine[q]) \/ InQueue(mine[q]))'
      BY <1>3, Zenon
    <3>1. mine[q] \in Bufs
      BY Zenon DEF Owners
    <3>2. CASE mine[q] = b
      BY <1>1, <1>3, <3>2, Zenon DEF Serviced
    <3>3. CASE mine[q] # b
      <4>1. Serviced(mine[q]) => Serviced(mine[q])'
        BY <1>1, <1>3, <3>1, <3>3, Zenon DEF Serviced
      <4>2. InQueue(mine[q]) => InQueue(mine[q])'
        BY <1>1, <1>2, <1>3, <3>3 DEF InQueue
      <4> QED
        BY <4>1, <4>2, Zenon DEF Queued
    <3> QED
      BY <3>2, <3>3, Zenon
  <2> QED
    BY <2>1, <2>2, <2>3, Zenon DEF Queued, Serviced, InQueue
<1>12. Driving'
  <2>1. CASE queue' = <<>>
    BY <1>3, <2>1, Zenon DEF Driving
  <2>2. CASE queue' # <<>>
    <3>1. drive' # None
      BY <1>6, <2>2, NoneAssumption, Zenon
    <3> QED
      BY <1>6, <2>2, <3>1, Zenon DEF Driving
  <2> QED
    BY <2>1, <2>2, Zenon
<1>13. Sleeping'
  <2>1. \A c \in Bufs : buf'[c].locked = buf[c].locked
    BY <1>1, Zenon
  <2>2. \A q \in Procs : pc[q] = "lock" => mine[q] \in Bufs
    BY Zenon DEF Owners
  <2>3. \A q \in Procs : mine[q] # b /\ InQueue(mine[q]) => InQueue(mine[q])'
    <3> SUFFICES ASSUME NEW q \in Procs, mine[q] # b, InQueue(mine[q]) PROVE InQueue(mine[q])'
      BY Zenon
    <3>1. PICK i \in DOMAIN queue : queue[i] = mine[q]
      BY Zenon DEF InQueue
    <3>2. i # 1
      BY <1>1, <3>1, Zenon
    <3>3. PICK j \in DOMAIN queue' : queue'[j] = queue[i]
      BY <1>2, <3>2, Zenon
    <3> QED
      BY <1>3, <3>1, <3>3, Zenon DEF InQueue
  <2> QED
    BY <1>3, <1>5, <2>1, <2>2, <2>3, Zenon DEF Sleeping
<1> QED
  BY <1>7, <1>8, <1>9, <1>10, <1>11, <1>12, <1>13, Zenon

-----------------------------------------------------------------------------
(* The invariant holds                                                       *)

\* A kernel that has just booted satisfies the invariant.
LEMMA Boot == binit /\ disk \in [Blocks -> Values] /\ driver \in {"ide", "memide"} => IInv
<1> SUFFICES ASSUME binit, disk \in [Blocks -> Values], driver \in {"ide", "memide"}
             PROVE  IInv
  BY Zenon
<1> USE DEF binit
<1>1. EmptyBuf \in BufType
  <2>1. (CHOOSE v \in Values : TRUE) \in Values
    BY SizeAssumption, Zenon
  <2> QED
    BY <2>1, Zenon DEF EmptyBuf, BufType
<1>2. EmptyBuf.block = None /\ ~EmptyBuf.valid /\ ~EmptyBuf.dirty /\ EmptyBuf.refcnt = 0 /\ ~EmptyBuf.locked
  BY Zenon DEF EmptyBuf
<1>3. Types
  <2>1. lru \in [1..Len(BufOrder) -> Bufs] /\ Range(lru) = Bufs
    BY SizeAssumption DEF Bufs
  <2>2. queue \in Seq(Bufs)
    OBVIOUS
  <2> QED
    BY <1>1, <2>1, <2>2, Zenon DEF Types
<1>4. Counts
  <2>1. \A b \in Bufs : HasBuffer(b) = {}
    BY NoneAssumption, Zenon DEF HasBuffer
  <2> QED
    BY <1>2, <2>1, FS_EmptySet, Zenon DEF Counts
<1>5. Owners /\ Once
  BY <1>2, Zenon DEF Owners, Once
<1>6. Locks /\ Buffers
  BY <1>2, Zenon DEF Locks, Buffers, Holding
<1>7. Queued /\ Driving /\ Sleeping
  BY DEF Queued, Driving, Sleeping
<1> QED
  BY <1>3, <1>4, <1>5, <1>6, <1>7, Zenon DEF IInv

\* Every step keeps the invariant.
LEMMA Step == IInv /\ [Next]_vars => IInv'
<1>1. ASSUME IInv, NEW p \in Procs, ProcStep(p) PROVE IInv'
  <2>1. ASSUME NEW k \in Blocks, BgetPanic(p, k) PROVE IInv'
    <3>1. UNCHANGED <<lru, buf, queue, drive, disk, pc, want, mine, asleep, driver>> /\ panicked'
      BY <2>1, Zenon DEF BgetPanic, pvars
    <3>2. Types' /\ Sleeping'
      BY <1>1, <3>1, Zenon DEF IInv, Types, Sleeping, InQueue
    <3> QED
      BY <1>1, <3>1, <3>2, SameBuffers, Zenon DEF IInv
  <2> QED
    BY <1>1, <2>1, HitStep, MissStep, AcquireStep, BreadStep, BwriteStep, LoopStep, StoreStep,
       LogWriteStep, ReleaseStep, BrelseStep, Zenon DEF ProcStep
<1>2. ASSUME IInv, reboot PROVE IInv'
  <2>1. binit' /\ disk' = disk /\ driver' = driver
    BY <1>2, Zenon DEF reboot, binit
  <2>2. disk' \in [Blocks -> Values] /\ driver' \in {"ide", "memide"}
    BY <1>2, <2>1, Zenon DEF IInv, Types
  <2>3. (binit /\ disk \in [Blocks -> Values] /\ driver \in {"ide", "memide"} => IInv)'
    BY Boot, PTL
  <2> QED
    BY <2>1, <2>2, <2>3, Zenon
<1>3. ASSUME IInv, UNCHANGED vars PROVE IInv'
  <2>1. Types' /\ Sleeping'
    BY <1>3, Zenon DEF vars, IInv, Types, Sleeping, InQueue
  <2> QED
    BY <1>3, <2>1, SameBuffers, Zenon DEF vars, IInv
<1> QED
  BY <1>1, <1>2, <1>3, DriveDoneStep, IdeintrStep, Zenon DEF Next

\* The inductive invariant of the buffer cache.
THEOREM Invariance == Spec => []IInv
<1>1. Init => IInv
  BY Boot, Zenon DEF Init
<1> QED
  BY <1>1, Step, PTL DEF Spec

-----------------------------------------------------------------------------
(* What follows from it                                                      *)

\* A buffer nobody has has count zero, a block is in one buffer at most, and a
\* locked buffer has one holder: in terms of cardinalities.
LEMMA Stays == IInv => NeverStolen
<1> SUFFICES ASSUME IInv PROVE NeverStolen
  BY Zenon
<1> USE DEF IInv
<1>1. TypeOK
  <2>1. \A b \in Bufs : buf[b].refcnt \in 0..Cardinality(Procs)
    <3> SUFFICES ASSUME NEW b \in Bufs PROVE buf[b].refcnt \in 0..Cardinality(Procs)
      BY Zenon
    <3>1. HasBuffer(b) \subseteq Procs
      BY Zenon DEF HasBuffer
    <3>2. /\ Cardinality(HasBuffer(b)) \in Nat /\ Cardinality(Procs) \in Nat
          /\ Cardinality(HasBuffer(b)) <= Cardinality(Procs)
      BY <3>1, SizeAssumption, FS_Subset, FS_CardinalityType, Zenon
    <3> QED
      BY <3>2 DEF Counts
  <2> DEFINE B == [block : Blocks \cup {None}, valid : BOOLEAN, dirty : BOOLEAN,
                   refcnt : 0..Cardinality(Procs), locked : BOOLEAN, data : Values]
  <2>2. \A b \in Bufs : buf[b] \in B
    BY <2>1, Zenon DEF Types, BufType
  <2>3. buf \in [Bufs -> B]
    <3> HIDE DEF B
    <3> QED
      BY <2>2, Zenon DEF Types
  <2>4. lru \in Seq(Bufs) /\ Len(lru) = Len(BufOrder) /\ Range(lru) = Bufs
    <3>1. Len(BufOrder) \in Nat
      BY SizeAssumption
    <3> QED
      BY <3>1 DEF Types
  <2> QED
    BY <2>3, <2>4, Zenon DEF TypeOK, Types
<1>2. References
  <2>1. \A k \in Blocks : Cardinality(Cached(k)) <= 1
    <3> SUFFICES ASSUME NEW k \in Blocks PROVE Cardinality(Cached(k)) <= 1
      BY Zenon
    <3>1. CASE Cached(k) = {}
      BY <3>1, FS_EmptySet
    <3>2. CASE \E b \in Bufs : Cached(k) = {b}
      <4>1. Cardinality(Cached(k)) = 1
        BY <3>2, FS_Singleton, Zenon
      <4> QED
        BY <4>1
    <3>3. Cached(k) = {} \/ \E b \in Bufs : Cached(k) = {b}
      BY NoneAssumption DEF Cached, Once
    <3> QED
      BY <3>1, <3>2, <3>3, Zenon
  <2> QED
    BY <2>1, Zenon DEF References, Owners, Counts, HasBuffer
<1>3. OneHolder
  <2> SUFFICES ASSUME NEW b \in Bufs
               PROVE  Cardinality({p \in Procs : pc[p] \in Holding /\ mine[p] = b})
                         = IF buf[b].locked THEN 1 ELSE 0
    BY Zenon DEF OneHolder
  <2> DEFINE H == {p \in Procs : pc[p] \in Holding /\ mine[p] = b}
  <2>1. CASE buf[b].locked
    <3>1. \E p \in Procs : H = {p}
      BY <2>1 DEF Locks
    <3> QED
      BY <2>1, <3>1, FS_Singleton, Zenon
  <2>2. CASE ~buf[b].locked
    <3>1. H = {}
      BY <2>2, Zenon DEF Locks
    <3> QED
      BY <2>2, <3>1, FS_EmptySet, Zenon
  <2> QED
    BY <2>1, <2>2, Zenon
<1> QED
  BY <1>1, <1>2, <1>3, Zenon DEF NeverStolen

\* Who has a buffer keeps it, and has it alone between acquiresleep and
\* releasesleep, for any number of processes, buffers and blocks.
THEOREM BuffersStay == Spec => []NeverStolen
BY Invariance, Stays, PTL

\* No wakeup of the cache or of the driver is lost.
THEOREM WakeupsArrive == Spec => []NoLostWakeup
<1>1. IInv => NoLostWakeup
  <2> SUFFICES ASSUME IInv PROVE NoLostWakeup
    BY Zenon
  <2> USE DEF IInv
  <2>1. IsInjective(queue)
    BY Zenon DEF Queued, IsInjective
  <2>2. queue # <<>> => Head(queue) = queue[1]
    BY DEF Types
  <2> QED
    BY <2>1, <2>2, Zenon DEF NoLostWakeup, Sleeping, InQueue, Driving
<1> QED
  BY <1>1, Invariance, PTL

-----------------------------------------------------------------------------
(* The cache implements the store of blocks                                  *)

\* A buffer that is neither dirty nor just being stored into equals the disk.
Clean == \A b \in Bufs :
    /\ buf[b].valid /\ ~buf[b].dirty
    /\ \A p \in Procs : ~(pc[p] = "stored" /\ mine[p] = b)
    => buf[b].data = disk[buf[b].block]

\* A valid buffer of a block is the contents of the block; without one the
\* contents are on the disk.
Reads ==
    /\ \A b \in Bufs : buf[b].valid => Contents[buf[b].block] = buf[b].data
    /\ \A k \in Blocks : (\A b \in Bufs : ~(buf[b].block = k /\ buf[b].valid)) => Contents[k] = disk[k]

LEMMA ReadsHold == IInv => Reads
<1> SUFFICES ASSUME IInv PROVE Reads
  BY Zenon
<1> USE DEF IInv
<1>1. ASSUME NEW b \in Bufs, buf[b].valid
      PROVE  Contents[buf[b].block] = buf[b].data
  <2>1. buf[b].block \in Blocks
    BY <1>1, Zenon DEF Types, BufType, Buffers
  <2>2. PICK k \in Blocks : k = buf[b].block
    BY <2>1, Zenon
  <2>3. b \in Cached(k) /\ \A c \in Cached(k) : c = b
    BY <2>2, NoneAssumption, Zenon DEF Cached, Once
  <2> DEFINE d == CHOOSE c \in Cached(k) : buf[c].valid
  <2>4. d \in Cached(k)
    BY <1>1, <2>3, Zenon
  <2>5. d = b
    BY <2>3, <2>4, Zenon
  <2>6. \E c \in Cached(k) : buf[c].valid
    BY <1>1, <2>3, Zenon
  <2>7. Contents[k] = buf[d].data
    BY <2>6, Zenon DEF Contents
  <2> HIDE DEF d
  <2> QED
    BY <2>2, <2>5, <2>7, Zenon
<1>2. ASSUME NEW k \in Blocks, \A b \in Bufs : ~(buf[b].block = k /\ buf[b].valid)
      PROVE  Contents[k] = disk[k]
  <2>1. ~\E c \in Cached(k) : buf[c].valid
    BY <1>2, Zenon DEF Cached
  <2> QED
    BY <2>1, Zenon DEF Contents
<1> QED
  BY <1>1, <1>2, Zenon DEF Reads

\* The contents of a block stay if its valid buffer does, or its disk block
\* when it has none.
LEMMA SameBlock ==
  ASSUME Reads, Reads', NEW k \in Blocks,
         \A c \in Bufs : (buf'[c].block = k /\ buf'[c].valid) <=> (buf[c].block = k /\ buf[c].valid),
         \A c \in Bufs : buf[c].block = k /\ buf[c].valid => buf'[c].data = buf[c].data,
         (\A c \in Bufs : ~(buf[c].block = k /\ buf[c].valid)) => disk'[k] = disk[k]
  PROVE  Contents'[k] = Contents[k]
<1>1. CASE \E c \in Bufs : buf[c].block = k /\ buf[c].valid
  <2>1. PICK c \in Bufs : buf[c].block = k /\ buf[c].valid
    BY <1>1, Zenon
  <2>2. buf'[c].block = k /\ buf'[c].valid /\ buf'[c].data = buf[c].data
    BY <2>1, Zenon
  <2>3. Contents[k] = buf[c].data
    BY <2>1, Zenon DEF Reads
  <2>4. Contents'[k] = buf'[c].data
    BY <2>2, Zenon DEF Reads
  <2> QED
    BY <2>2, <2>3, <2>4, Zenon
<1>2. CASE ~\E c \in Bufs : buf[c].block = k /\ buf[c].valid
  <2>1. Contents[k] = disk[k]
    BY <1>2, Zenon DEF Reads
  <2>2. Contents'[k] = disk'[k]
    BY <1>2, Zenon DEF Reads
  <2> QED
    BY <1>2, <2>1, <2>2, Zenon
<1> QED
  BY <1>1, <1>2, Zenon

\* A function on the blocks is what it is at each of them.
LEMMA ContentsEqual ==
  ASSUME \A k \in Blocks : Contents'[k] = Contents[k]
  PROVE  Contents' = Contents
BY Zenon DEF Contents

LEMMA UsersEqual ==
  ASSUME \A q \in Procs : Users'[q] = Users[q]
  PROVE  Users' = Users
BY Zenon DEF Users

LEMMA KeptContents ==
  ASSUME Reads, Reads', Kept
  PROVE  Contents' = Contents
<1>1. ASSUME NEW k \in Blocks PROVE Contents'[k] = Contents[k]
  BY SameBlock, Zenon DEF Kept
<1> QED
  BY <1>1, ContentsEqual, Zenon

\* The steps of the store, or none.
SStep == Store1!SNext \/ UNCHANGED <<Contents, disk, Users>>

\* Who does not step keeps the block it uses.
LEMMA OthersUse ==
  ASSUME NEW p \in Procs,
         \A q \in Procs : q # p => pc'[q] = pc[q] /\ mine'[q] = mine[q] /\ want'[q] = want[q],
         \A q \in Procs : q # p /\ pc[q] = "io" => buf'[mine[q]].valid = buf[mine[q]].valid
  PROVE  \A q \in Procs : q # p => Users'[q] = Users[q]
<1> SUFFICES ASSUME NEW q \in Procs, q # p PROVE Users'[q] = Users[q]
  BY Zenon
<1>1. (pc'[q] = "io" /\ buf'[mine'[q]].valid) <=> (pc[q] = "io" /\ buf[mine[q]].valid)
  BY Zenon
<1> QED
  BY <1>1, Zenon DEF Users

\* In a step that keeps what is cached a clean buffer stays equal to the disk.
LEMMA CleanFrame ==
  ASSUME Clean, Kept, \A q \in Procs : pc[q] = "stored" => pc'[q] = "stored" /\ mine'[q] = mine[q]
  PROVE  Clean'
<1> SUFFICES ASSUME NEW b \in Bufs, buf'[b].valid, ~buf'[b].dirty,
                    \A q \in Procs : ~(pc'[q] = "stored" /\ mine'[q] = b)
             PROVE  buf'[b].data = disk'[buf'[b].block]
  BY Zenon DEF Clean
<1>1. buf[b].valid /\ ~buf[b].dirty
  BY Zenon DEF Kept
<1>2. \A q \in Procs : ~(pc[q] = "stored" /\ mine[q] = b)
  BY Zenon
<1>3. buf[b].data = disk[buf[b].block]
  BY <1>1, <1>2, Zenon DEF Clean
<1> QED
  BY <1>3, Zenon DEF Kept

\* Steps that change neither the cached blocks nor who uses them.
LEMMA QuietStep ==
  ASSUME Clean, Reads, Reads', Kept, IInv, NEW p \in Procs, pc[p] # "stored",
         \A q \in Procs : q # p => pc'[q] = pc[q] /\ mine'[q] = mine[q] /\ want'[q] = want[q],
         Users'[p] = Users[p]
  PROVE  Clean' /\ UNCHANGED <<Contents, disk, Users>>
<1>1. \A q \in Procs : q # p /\ pc[q] = "io" => buf'[mine[q]].valid = buf[mine[q]].valid
  BY Zenon DEF Kept, IInv, Owners
<1>2. Users' = Users
  BY <1>1, OthersUse, UsersEqual, Zenon
<1>3. Clean'
  <2>1. \A q \in Procs : pc[q] = "stored" => pc'[q] = "stored" /\ mine'[q] = mine[q]
    BY Zenon
  <2> QED
    BY <2>1, CleanFrame, Zenon
<1> QED
  BY <1>2, <1>3, KeptContents, Zenon DEF Kept

LEMMA QuietActions ==
  ASSUME Clean, Reads, Reads', IInv, NEW p \in Procs,
         \/ \E k \in Blocks : BgetHit(p, k)
         \/ acquiresleep(p) \/ brelse(p) \/ iderwLoop(p)
  PROVE  Clean' /\ UNCHANGED <<Contents, disk, Users>>
<1> USE DEF IInv
<1>1. ASSUME NEW k \in Blocks, BgetHit(p, k)
      PROVE  Clean' /\ UNCHANGED <<Contents, disk, Users>>
  <2>1. Kept
    BY <1>1, HitStep, Zenon
  <2>2. PICK b \in Bufs : Enter(p, k, b)
    BY <1>1, Zenon DEF BgetHit, Cached
  <2>3. /\ pc[p] = "idle" /\ pc'[p] = "lock"
        /\ \A q \in Procs : q # p => pc'[q] = pc[q] /\ mine'[q] = mine[q] /\ want'[q] = want[q]
    BY <1>1, <2>2 DEF BgetHit, Enter, Types
  <2>4. Users'[p] = Users[p]
    BY <2>3, Zenon DEF Users
  <2> QED
    BY <2>1, <2>3, <2>4, QuietStep, Zenon
<1>2. ASSUME acquiresleep(p)
      PROVE  Clean' /\ UNCHANGED <<Contents, disk, Users>>
  <2>1. Kept
    BY <1>2, AcquireStep, Zenon
  <2>2. /\ pc[p] = "lock" /\ pc'[p] \in {"lock", "locked"}
        /\ \A q \in Procs : q # p => pc'[q] = pc[q] /\ mine'[q] = mine[q] /\ want'[q] = want[q]
    BY <1>2, Zenon DEF acquiresleep, Types
  <2>3. Users'[p] = Users[p]
    BY <2>2, Zenon DEF Users
  <2> QED
    BY <2>1, <2>2, <2>3, QuietStep, Zenon
<1>3. ASSUME brelse(p)
      PROVE  Clean' /\ UNCHANGED <<Contents, disk, Users>>
  <2>1. Kept
    BY <1>3, BrelseStep, Zenon
  <2>2. /\ pc[p] = "drop" /\ pc'[p] = "idle"
        /\ \A q \in Procs : q # p => pc'[q] = pc[q] /\ mine'[q] = mine[q] /\ want'[q] = want[q]
    BY <1>3, Zenon DEF brelse, Types
  <2>3. Users'[p] = Users[p]
    BY <2>2, Zenon DEF Users
  <2> QED
    BY <2>1, <2>2, <2>3, QuietStep, Zenon
<1>4. ASSUME iderwLoop(p)
      PROVE  Clean' /\ UNCHANGED <<Contents, disk, Users>>
  <2>1. Kept
    BY <1>4, LoopStep, Zenon
  <2>2. /\ pc[p] = "io" /\ buf' = buf /\ mine' = mine /\ want' = want
        /\ pc'[p] = "io" \/ (pc'[p] = "held" /\ buf[mine[p]].valid)
        /\ \A q \in Procs : q # p => pc'[q] = pc[q]
    BY <1>4, Zenon DEF iderwLoop, Types
  <2>3. Users'[p] = Users[p]
    BY <2>2, Zenon DEF Users
  <2> QED
    BY <2>1, <2>2, <2>3, QuietStep, Zenon
<1> QED
  BY <1>1, <1>2, <1>3, <1>4, Zenon

\* bget recycles a clean buffer: what it held is on the disk.
LEMMA MissRefines ==
  ASSUME Clean, Reads, Reads', IInv, NEW p \in Procs, NEW k \in Blocks, BgetMiss(p, k)
  PROVE  Clean' /\ UNCHANGED <<Contents, disk, Users>>
<1>1. PICK b \in Bufs : /\ ~buf[b].dirty /\ ~buf'[b].valid
                        /\ (\A q \in Procs : mine[q] # b) /\ mine'[p] = b
                        /\ \A c \in Bufs : c # b => buf'[c] = buf[c]
                        /\ buf'[b].block = k
  BY MissStep, Zenon
<1>2. /\ pc[p] = "idle" /\ pc'[p] = "lock" /\ disk' = disk /\ Cached(k) = {}
      /\ \A q \in Procs : q # p => pc'[q] = pc[q] /\ mine'[q] = mine[q] /\ want'[q] = want[q]
  BY Zenon DEF BgetMiss, Enter, IInv, Types
<1>3. Users' = Users
  <2>1. \A q \in Procs : q # p /\ pc[q] = "io" => buf'[mine[q]].valid = buf[mine[q]].valid
    BY <1>1, Zenon DEF IInv, Owners
  <2>2. Users'[p] = Users[p]
    BY <1>2, Zenon DEF Users
  <2> QED
    BY <1>2, <2>1, <2>2, OthersUse, UsersEqual, Zenon
<1>4. buf[b].valid => buf[b].data = disk[buf[b].block]
  BY <1>1, Zenon DEF Clean
<1>5. ASSUME NEW j \in Blocks PROVE Contents'[j] = Contents[j]
  <2>1. CASE buf[b].valid /\ buf[b].block = j
    <3>1. Contents[j] = disk[j]
      BY <1>4, <2>1, Zenon DEF Reads
    <3>2. \A c \in Bufs : ~(buf'[c].block = j /\ buf'[c].valid)
      BY <1>1, <2>1, NoneAssumption, Zenon DEF IInv, Once
    <3> QED
      BY <1>2, <3>1, <3>2, Zenon DEF Reads
  <2>2. CASE ~(buf[b].valid /\ buf[b].block = j)
    <3>1. \A c \in Bufs : (buf'[c].block = j /\ buf'[c].valid) <=> (buf[c].block = j /\ buf[c].valid)
      BY <1>1, <2>2, Zenon
    <3>2. \A c \in Bufs : buf[c].block = j /\ buf[c].valid => buf'[c].data = buf[c].data
      BY <1>1, <2>2, Zenon
    <3> QED
      BY <1>2, <3>1, <3>2, SameBlock, Zenon
  <2> QED
    BY <2>1, <2>2, Zenon
<1>6. Clean'
  <2> SUFFICES ASSUME NEW c \in Bufs, buf'[c].valid, ~buf'[c].dirty,
                      \A q \in Procs : ~(pc'[q] = "stored" /\ mine'[q] = c)
               PROVE  buf'[c].data = disk'[buf'[c].block]
    BY Zenon DEF Clean
  <2>1. c # b /\ buf'[c] = buf[c]
    BY <1>1, Zenon
  <2>2. \A q \in Procs : ~(pc[q] = "stored" /\ mine[q] = c)
    BY <1>2, Zenon
  <2>3. buf[c].data = disk[buf[c].block]
    BY <2>1, <2>2, Zenon DEF Clean
  <2> QED
    BY <1>2, <2>1, <2>3, Zenon
<1> QED
  BY <1>2, <1>3, <1>5, <1>6, ContentsEqual, Zenon

\* A process that gets a valid buffer takes its block: nobody else uses it.
LEMMA Taken ==
  ASSUME IInv, NEW p \in Procs, pc[p] \in {"locked", "io"}, Users[p] = None,
         \A q \in Procs : q # p => Users'[q] = Users[q], Users'[p] = want[p],
         Contents' = Contents, disk' = disk
  PROVE  SStep
<1> USE DEF IInv
<1>1. want[p] \in Blocks /\ mine[p] \in Bufs /\ buf[mine[p]].block = want[p] /\ pc[p] \in Holding
  BY Zenon DEF Owners, Holding
<1>2. \A q \in Procs : Users[q] # want[p]
  <2> SUFFICES ASSUME NEW q \in Procs, Users[q] = want[p] PROVE FALSE
    BY Zenon
  <2>1. q # p /\ want[q] = want[p] /\ pc[q] \in {"held", "stored", "io"}
    BY <1>1, NoneAssumption, Zenon DEF Users
  <2>2. mine[q] \in Bufs /\ buf[mine[q]].block = want[q] /\ pc[q] \in Holding
    BY <2>1, Zenon DEF Owners, Holding
  <2>3. mine[q] = mine[p]
    BY <1>1, <2>1, <2>2, NoneAssumption, Zenon DEF Once
  <2> QED
    BY <1>1, <2>1, <2>2, <2>3, Zenon DEF Locks
<1>3. Users' = [Users EXCEPT ![p] = want[p]]
  BY Zenon DEF Users
<1>4. Store1!Take(p, want[p])
  BY <1>2, <1>3, Zenon DEF Store1!Take
<1> QED
  BY <1>1, <1>4, Zenon DEF SStep, Store1!SNext

\* A buffer that gets the contents of its block from the disk: the contents of
\* no block change, and the buffer is clean.
LEMMA ReadIn ==
  ASSUME Reads, Reads', Once, Clean, disk' = disk, NEW b \in Bufs, ~buf[b].valid,
         buf[b].block \in Blocks,
         \A c \in Bufs : c # b => buf'[c] = buf[c],
         buf'[b].block = buf[b].block, buf'[b].valid,
         buf'[b].data = disk[buf[b].block],
         \A q \in Procs : pc[q] = "stored" => pc'[q] = "stored" /\ mine'[q] = mine[q]
  PROVE  Contents' = Contents /\ Clean'
<1>1. ASSUME NEW k \in Blocks PROVE Contents'[k] = Contents[k]
  <2>1. CASE k = buf[b].block
    <3>1. \A c \in Bufs : ~(buf[c].block = k /\ buf[c].valid)
      BY <2>1, NoneAssumption, Zenon DEF Once
    <3>2. Contents[k] = disk[k]
      BY <3>1, Zenon DEF Reads
    <3>3. Contents'[k] = buf'[b].data
      BY <2>1 DEF Reads
    <3> QED
      BY <2>1, <3>2, <3>3, Zenon
  <2>2. CASE k # buf[b].block
    <3>1. \A c \in Bufs : (buf'[c].block = k /\ buf'[c].valid) <=> (buf[c].block = k /\ buf[c].valid)
      BY <2>2, Zenon
    <3>2. \A c \in Bufs : buf[c].block = k /\ buf[c].valid => buf'[c].data = buf[c].data
      BY <2>2, Zenon
    <3> QED
      BY <3>1, <3>2, SameBlock, Zenon
  <2> QED
    BY <2>1, <2>2, Zenon
<1>2. Clean'
  <2> SUFFICES ASSUME NEW c \in Bufs, buf'[c].valid, ~buf'[c].dirty,
                      \A q \in Procs : ~(pc'[q] = "stored" /\ mine'[q] = c)
               PROVE  buf'[c].data = disk'[buf'[c].block]
    BY Zenon DEF Clean
  <2>1. CASE c # b
    <3>1. \A q \in Procs : ~(pc[q] = "stored" /\ mine[q] = c)
      BY Zenon
    <3>2. buf[c].data = disk[buf[c].block]
      BY <2>1, <3>1, Zenon DEF Clean
    <3> QED
      BY <2>1, <3>2, Zenon
  <2> QED
    BY <2>1, Zenon
<1> QED
  BY <1>1, <1>2, ContentsEqual, Zenon

\* bread returns the contents of the block, or queues a request.
LEMMA BreadRefines ==
  ASSUME Clean, Reads, Reads', IInv, NEW p \in Procs, bread(p)
  PROVE  Clean' /\ SStep
<1>1. PICK b \in Bufs : b = mine[p]
  BY BreadStep, Zenon
<1>2. /\ pc[p] = "locked" /\ mine' = mine /\ want' = want
      /\ \A q \in Procs : q # p => mine'[q] = mine[q] /\ want'[q] = want[q]
  BY Zenon DEF bread
<1>3. Users[p] = None
  BY <1>2, Zenon DEF Users
<1>4. CASE Kept /\ buf[b].valid /\ pc' = [pc EXCEPT ![p] = "held"]
  <2>1. pc'[p] = "held" /\ \A q \in Procs : q # p => pc'[q] = pc[q]
    BY <1>4, Zenon DEF IInv, Types
  <2>2. Users'[p] = want[p]
    BY <1>2, <2>1, Zenon DEF Users
  <2>3. \A q \in Procs : q # p /\ pc[q] = "io" => buf'[mine[q]].valid = buf[mine[q]].valid
    BY <1>4, Zenon DEF Kept, IInv, Owners
  <2>4. \A q \in Procs : q # p => Users'[q] = Users[q]
    BY <1>2, <2>1, <2>3, OthersUse, Zenon
  <2>5. Contents' = Contents /\ disk' = disk
    BY <1>4, KeptContents, Zenon DEF Kept
  <2>6. Clean'
    <3>1. \A q \in Procs : pc[q] = "stored" => pc'[q] = "stored" /\ mine'[q] = mine[q]
      BY <1>2, <2>1, Zenon
    <3> QED
      BY <1>4, <3>1, CleanFrame, Zenon
  <2> QED
    BY <1>2, <1>3, <2>2, <2>4, <2>5, <2>6, Taken, Zenon
<1>5. CASE Kept /\ ~buf[b].valid /\ pc' = [pc EXCEPT ![p] = "io"]
  <2>1. pc'[p] = "io" /\ \A q \in Procs : q # p => pc'[q] = pc[q]
    BY <1>5, Zenon DEF IInv, Types
  <2>2. ~buf'[mine'[p]].valid
    BY <1>1, <1>2, <1>5, Zenon DEF Kept
  <2>3. Users'[p] = None
    BY <2>1, <2>2, Zenon DEF Users
  <2>4. pc[p] # "stored"
    BY <1>2, Zenon
  <2> QED
    BY <1>2, <1>3, <1>5, <2>1, <2>3, <2>4, QuietStep, Zenon DEF SStep
<1>6. CASE /\ ~buf[b].valid /\ disk' = disk /\ pc' = [pc EXCEPT ![p] = "held"]
           /\ \A c \in Bufs : c # b => buf'[c] = buf[c]
           /\ buf'[b].block = buf[b].block /\ buf'[b].valid
           /\ ~buf'[b].dirty /\ buf'[b].data = disk[buf[b].block]
  <2>1. pc'[p] = "held" /\ \A q \in Procs : q # p => pc'[q] = pc[q]
    BY <1>6, Zenon DEF IInv, Types
  <2>2. Users'[p] = want[p]
    BY <1>2, <2>1, Zenon DEF Users
  <2>3. \A q \in Procs : q # p /\ pc[q] = "io" => mine[q] \in Bufs /\ mine[q] # b
    BY <1>1, <1>2, Zenon DEF IInv, Owners, Locks, Holding
  <2>4. \A q \in Procs : q # p => Users'[q] = Users[q]
    BY <1>2, <1>6, <2>1, <2>3, OthersUse, Zenon
  <2>5. Contents' = Contents /\ Clean'
    <3>1. Once /\ buf[b].block \in Blocks
      BY <1>1, <1>2, Zenon DEF IInv, Owners
    <3>2. \A q \in Procs : pc[q] = "stored" => pc'[q] = "stored" /\ mine'[q] = mine[q]
      BY <1>2, <2>1, Zenon
    <3> QED
      BY <1>6, <3>1, <3>2, ReadIn, Zenon
  <2> QED
    BY <1>2, <1>3, <1>6, <2>2, <2>4, <2>5, Taken, Zenon
<1> QED
  BY <1>1, <1>4, <1>5, <1>6, BreadStep, Zenon

\* The block of a holder reaches the disk: no contents change, and the disk
\* differs from the buffer of no other block.
LEMMA Written ==
  ASSUME IInv, Clean, Reads, Reads', NEW p \in Procs, NEW b \in Bufs, b = mine[p],
         Users[p] = want[p], want[p] \in Blocks, buf[b].block = want[p], buf[b].valid,
         \A c \in Bufs : c # b => buf'[c] = buf[c],
         \A c \in Bufs : /\ buf'[c].block = buf[c].block /\ buf'[c].data = buf[c].data
                         /\ buf'[c].valid = buf[c].valid,
         disk' = [disk EXCEPT ![want[p]] = buf[b].data],
         \A q \in Procs : Users'[q] = Users[q],
         \A q \in Procs : pc[q] = "stored" /\ mine[q] # b => pc'[q] = "stored" /\ mine'[q] = mine[q]
  PROVE  Clean' /\ SStep
<1>1. Contents[want[p]] = buf[b].data
  BY DEF Reads
<1>2. /\ disk'[want[p]] = buf[b].data
      /\ \A k \in Blocks : k # want[p] => disk'[k] = disk[k]
  BY Zenon DEF IInv, Types
<1>3. ASSUME NEW k \in Blocks PROVE Contents'[k] = Contents[k]
  <2>1. (\A c \in Bufs : ~(buf[c].block = k /\ buf[c].valid)) => disk'[k] = disk[k]
    BY <1>2, Zenon
  <2> QED
    BY <2>1, SameBlock, Zenon
<1>4. Store1!Persist(p)
  <2>1. Users[p] # None
    BY NoneAssumption
  <2>2. disk' = [disk EXCEPT ![Users[p]] = Contents[Users[p]]]
    BY <1>1, Zenon
  <2>3. Contents' = Contents /\ Users' = Users
    BY <1>3, ContentsEqual, UsersEqual, Zenon
  <2> QED
    BY <2>1, <2>2, <2>3, Zenon DEF Store1!Persist
<1>5. Clean'
  <2> SUFFICES ASSUME NEW c \in Bufs, buf'[c].valid, ~buf'[c].dirty,
                      \A q \in Procs : ~(pc'[q] = "stored" /\ mine'[q] = c)
               PROVE  buf'[c].data = disk'[buf'[c].block]
    BY Zenon DEF Clean
  <2>1. CASE c = b
    BY <1>2, <2>1, Zenon
  <2>2. CASE c # b
    <3>1. \A q \in Procs : ~(pc[q] = "stored" /\ mine[q] = c)
      BY <2>2, Zenon
    <3>2. buf'[c] = buf[c] /\ buf[c].data = disk[buf[c].block]
      BY <2>2, <3>1, Zenon DEF Clean
    <3>3. buf[c].block \in Blocks /\ buf[c].block # want[p]
      BY <2>2, <3>2, NoneAssumption, SMTT(40), Z3T(40) DEF IInv, Types, BufType, Buffers, Once
    <3> QED
      BY <1>2, <3>2, <3>3, SMTT(40), Z3T(40)
  <2> QED
    BY <2>1, <2>2, Zenon
<1> QED
  BY <1>4, <1>5, Zenon DEF SStep, Store1!SNext

\* A buffer that becomes dirty need not equal the disk; the others are as before.
LEMMA CleanPinned ==
  ASSUME Clean, disk' = disk, NEW b \in Bufs, buf'[b].dirty,
         \A c \in Bufs : c # b => buf'[c] = buf[c],
         \A q \in Procs : pc[q] = "stored" /\ mine[q] # b => pc'[q] = "stored" /\ mine'[q] = mine[q]
  PROVE  Clean'
<1> SUFFICES ASSUME NEW c \in Bufs, buf'[c].valid, ~buf'[c].dirty,
                    \A q \in Procs : ~(pc'[q] = "stored" /\ mine'[q] = c)
             PROVE  buf'[c].data = disk'[buf'[c].block]
  BY Zenon DEF Clean
<1>1. c # b /\ buf'[c] = buf[c]
  BY Zenon
<1>2. \A q \in Procs : ~(pc[q] = "stored" /\ mine[q] = c)
  BY <1>1, Zenon
<1>3. buf[c].data = disk[buf[c].block]
  BY <1>1, <1>2, Zenon DEF Clean
<1> QED
  BY <1>1, <1>3, Zenon

\* bwrite queues the block, or copies it at once.
LEMMA BwriteRefines ==
  ASSUME Clean, Reads, Reads', IInv, NEW p \in Procs, bwrite(p)
  PROVE  Clean' /\ SStep
<1>1. PICK b \in Bufs : b = mine[p]
  BY BwriteStep, Zenon
<1>2. /\ \A c \in Bufs : c # b => buf'[c] = buf[c]
      /\ \A c \in Bufs : /\ buf'[c].block = buf[c].block /\ buf'[c].data = buf[c].data
                         /\ buf'[c].valid = buf[c].valid
      /\ buf[b].valid
  BY <1>1, BwriteStep, Zenon
<1>3. /\ \/ disk' = disk /\ buf'[b].dirty /\ pc' = [pc EXCEPT ![p] = "io"]
         \/ disk' = [disk EXCEPT ![buf[b].block] = buf[b].data] /\ pc' = [pc EXCEPT ![p] = "held"]
  BY <1>1, BwriteStep, Zenon
<1>4. pc[p] = "stored" /\ mine' = mine /\ want' = want
  BY Zenon DEF bwrite
<1>5. /\ pc'[p] \in {"io", "held"} /\ \A q \in Procs : q # p => pc'[q] = pc[q]
  BY <1>3, Zenon DEF IInv, Types
<1>6. Users[p] = want[p] /\ want[p] \in Blocks /\ buf[b].block = want[p]
  BY <1>1, <1>4, Zenon DEF Users, IInv, Owners
<1>7. \A q \in Procs : Users'[q] = Users[q]
  <2>1. buf'[mine'[p]].valid
    BY <1>1, <1>2, <1>4, Zenon
  <2>2. Users'[p] = want[p]
    BY <1>4, <1>5, <2>1, Zenon DEF Users
  <2>3. \A q \in Procs : q # p /\ pc[q] = "io" => buf'[mine[q]].valid = buf[mine[q]].valid
    BY <1>2, Zenon DEF IInv, Owners
  <2>4. \A q \in Procs : q # p => Users'[q] = Users[q]
    BY <1>4, <1>5, <2>3, OthersUse, Zenon
  <2> QED
    BY <1>6, <2>2, <2>4, Zenon
<1>8. \A q \in Procs : pc[q] = "stored" /\ mine[q] # b => pc'[q] = "stored" /\ mine'[q] = mine[q]
  BY <1>1, <1>4, <1>5, Zenon
<1>9. CASE disk' = disk /\ buf'[b].dirty
  <2>1. ASSUME NEW k \in Blocks PROVE Contents'[k] = Contents[k]
    BY <1>2, <1>9, SameBlock, Zenon
  <2>2. Clean'
    BY <1>2, <1>8, <1>9, CleanPinned, Zenon
  <2> QED
    BY <1>7, <1>9, <2>1, <2>2, ContentsEqual, UsersEqual, Zenon DEF SStep
<1>10. CASE disk' = [disk EXCEPT ![buf[b].block] = buf[b].data]
  BY <1>1, <1>2, <1>6, <1>7, <1>8, <1>10, Written, Zenon
<1> QED
  BY <1>3, <1>9, <1>10, Zenon

\* log_write pins the block: the buffer is dirty from now on.
LEMMA LogWriteRefines ==
  ASSUME Clean, Reads, Reads', IInv, NEW p \in Procs, log_write(p)
  PROVE  Clean' /\ SStep
<1>1. PICK b \in Bufs : b = mine[p]
  BY LogWriteStep, Zenon
<1>2. /\ \A c \in Bufs : c # b => buf'[c] = buf[c]
      /\ \A c \in Bufs : /\ buf'[c].block = buf[c].block /\ buf'[c].data = buf[c].data
                         /\ buf'[c].valid = buf[c].valid
      /\ buf'[b].dirty
  BY <1>1, LogWriteStep, Zenon
<1>3. pc[p] = "stored" /\ mine' = mine /\ want' = want /\ disk' = disk
  BY Zenon DEF log_write
<1>4. /\ pc'[p] = "held" /\ \A q \in Procs : q # p => pc'[q] = pc[q]
  BY Zenon DEF log_write, IInv, Types
<1>5. \A q \in Procs : Users'[q] = Users[q]
  <2>1. Users'[p] = Users[p]
    BY <1>3, <1>4, Zenon DEF Users
  <2>2. \A q \in Procs : q # p /\ pc[q] = "io" => buf'[mine[q]].valid = buf[mine[q]].valid
    BY <1>2, Zenon DEF IInv, Owners
  <2>3. \A q \in Procs : q # p => Users'[q] = Users[q]
    BY <1>3, <1>4, <2>2, OthersUse, Zenon
  <2> QED
    BY <2>1, <2>3, Zenon
<1>6. \A q \in Procs : pc[q] = "stored" /\ mine[q] # b => pc'[q] = "stored" /\ mine'[q] = mine[q]
  BY <1>1, <1>3, <1>4, Zenon
<1>7. ASSUME NEW k \in Blocks PROVE Contents'[k] = Contents[k]
  BY <1>2, <1>3, SameBlock, Zenon
<1>8. Clean'
  BY <1>2, <1>3, <1>6, CleanPinned, Zenon
<1> QED
  BY <1>3, <1>5, <1>7, <1>8, ContentsEqual, UsersEqual, Zenon DEF SStep

\* The holder changes the contents.
LEMMA StoreRefines ==
  ASSUME Clean, Reads, Reads', IInv, NEW p \in Procs, NEW v \in Values, Store(p, v)
  PROVE  Clean' /\ SStep
<1>1. PICK b \in Bufs : b = mine[p]
  BY StoreStep, Zenon
<1>2. /\ \A c \in Bufs : c # b => buf'[c] = buf[c]
      /\ buf'[b].block = buf[b].block /\ buf'[b].data = v /\ buf'[b].valid
  BY <1>1, StoreStep, Zenon
<1>3. pc[p] = "held" /\ mine' = mine /\ want' = want /\ disk' = disk
  BY Zenon DEF Store
<1>4. /\ pc'[p] = "stored" /\ \A q \in Procs : q # p => pc'[q] = pc[q]
  BY Zenon DEF Store, IInv, Types
<1>5. Users[p] = want[p] /\ want[p] \in Blocks /\ buf[b].block = want[p] /\ buf[b].valid
  BY <1>1, <1>3, Zenon DEF Users, IInv, Owners, Buffers
<1>6. Users' = Users
  <2>1. Users'[p] = Users[p]
    BY <1>3, <1>4, Zenon DEF Users
  <2>2. \A q \in Procs : q # p /\ pc[q] = "io" => buf'[mine[q]].valid = buf[mine[q]].valid
    <3>1. \A q \in Procs : pc[q] = "io" => mine[q] \in Bufs /\ mine[q] # b
      BY <1>1, <1>3, Zenon DEF IInv, Owners, Locks, Holding
    <3> QED
      BY <1>2, <3>1, Zenon
  <2>3. \A q \in Procs : q # p => Users'[q] = Users[q]
    BY <1>3, <1>4, <2>2, OthersUse, Zenon
  <2> QED
    BY <2>1, <2>3, UsersEqual, Zenon
<1>7. Contents' = [Contents EXCEPT ![want[p]] = v]
  <2>1. Contents'[want[p]] = v
    BY <1>2, <1>5, SMTT(40), Z3T(40) DEF Reads
  <2>2. ASSUME NEW k \in Blocks, k # want[p] PROVE Contents'[k] = Contents[k]
    <3>1. \A c \in Bufs : (buf'[c].block = k /\ buf'[c].valid) <=> (buf[c].block = k /\ buf[c].valid)
      BY <1>2, <1>5, <2>2, Zenon
    <3>2. \A c \in Bufs : buf[c].block = k /\ buf[c].valid => buf'[c].data = buf[c].data
      BY <1>2, <1>5, <2>2, Zenon
    <3> QED
      BY <1>3, <3>1, <3>2, SameBlock, Zenon
  <2>3. Contents = [k \in Blocks |-> Contents[k]] /\ Contents' = [k \in Blocks |-> Contents'[k]]
    BY Zenon DEF Contents
  <2> QED
    BY <2>1, <2>2, <2>3, Zenon
<1>8. Store1!Change(p, v)
  BY <1>3, <1>5, <1>6, <1>7, NoneAssumption, Zenon DEF Store1!Change
<1>9. Clean'
  <2> SUFFICES ASSUME NEW c \in Bufs, buf'[c].valid, ~buf'[c].dirty,
                      \A q \in Procs : ~(pc'[q] = "stored" /\ mine'[q] = c)
               PROVE  buf'[c].data = disk'[buf'[c].block]
    BY Zenon DEF Clean
  <2>1. c # b /\ buf'[c] = buf[c]
    BY <1>1, <1>2, <1>3, <1>4, Zenon
  <2>2. \A q \in Procs : ~(pc[q] = "stored" /\ mine[q] = c)
    BY <1>3, <1>4, Zenon
  <2> QED
    BY <1>3, <2>1, <2>2, Zenon DEF Clean
<1> QED
  BY <1>8, <1>9, Zenon DEF SStep, Store1!SNext

\* The holder lets the block go.
LEMMA ReleaseRefines ==
  ASSUME Clean, Reads, Reads', IInv, NEW p \in Procs, releasesleep(p)
  PROVE  Clean' /\ SStep
<1>1. Kept
  BY ReleaseStep, Zenon
<1>2. pc[p] = "held" /\ mine' = mine /\ want' = want
  BY Zenon DEF releasesleep
<1>3. pc'[p] = "drop" /\ \A q \in Procs : q # p => pc'[q] = pc[q]
  BY Zenon DEF releasesleep, IInv, Types
<1>4. Users[p] # None /\ Users'[p] = None
  BY <1>2, <1>3, NoneAssumption, Zenon DEF Users, IInv, Owners
<1>5. \A q \in Procs : q # p => Users'[q] = Users[q]
  <2>1. \A q \in Procs : q # p /\ pc[q] = "io" => buf'[mine[q]].valid = buf[mine[q]].valid
    BY <1>1, Zenon DEF Kept, IInv, Owners
  <2> QED
    BY <1>2, <1>3, <2>1, OthersUse, Zenon
<1>6. Users' = [Users EXCEPT ![p] = None]
  <2>1. Users = [q \in Procs |-> Users[q]] /\ Users' = [q \in Procs |-> Users'[q]]
    BY Zenon DEF Users
  <2> QED
    BY <1>4, <1>5, <2>1, Zenon
<1>7. Store1!Drop(p)
  BY <1>1, <1>4, <1>6, KeptContents, Zenon DEF Store1!Drop, Kept
<1>8. Clean'
  <2>1. \A q \in Procs : pc[q] = "stored" => pc'[q] = "stored" /\ mine'[q] = mine[q]
    BY <1>2, <1>3, Zenon
  <2> QED
    BY <1>1, <2>1, CleanFrame, Zenon
<1> QED
  BY <1>7, <1>8, Zenon DEF SStep, Store1!SNext

\* The drive finishes: a write is on the disk, a read changes nothing yet.
LEMMA DriveDoneRefines ==
  ASSUME Clean, Reads, Reads', IInv, DriveDone
  PROVE  Clean' /\ SStep
<1> USE DEF IInv
<1>1. UNCHANGED <<buf, pc, want, mine>>
  BY Zenon DEF DriveDone, pvars
<1>2. \A q \in Procs : Users'[q] = Users[q]
  BY <1>1, Zenon DEF Users
<1>3. /\ queue # <<>> /\ queue[1] \in Bufs
      /\ disk' = IF drive.write THEN [disk EXCEPT ![drive.block] = drive.data] ELSE disk
  BY DriveDoneStep, Zenon
<1>4. CASE drive.write
  <2>1. PICK b \in Bufs : b = queue[1]
    BY <1>3, Zenon
  <2>2. drive.block = buf[b].block /\ drive.data = buf[b].data /\ buf[b].dirty
    BY <1>3, <1>4, <2>1, Zenon DEF Driving
  <2>3. buf[b].valid
    BY <2>2, Zenon DEF Buffers
  <2>4. PICK p \in Procs : pc[p] = "io" /\ mine[p] = b
    <3>1. 1 \in DOMAIN queue
      BY <1>3 DEF Types
    <3> QED
      BY <2>1, <3>1, Zenon DEF Queued
  <2>5. want[p] \in Blocks /\ buf[b].block = want[p]
    BY <2>4, Zenon DEF Owners
  <2>6. Users[p] = want[p]
    BY <2>3, <2>4, Zenon DEF Users
  <2>7. disk' = [disk EXCEPT ![want[p]] = buf[b].data]
    BY <1>3, <1>4, <2>2, <2>5, Zenon
  <2> QED
    BY <1>1, <1>2, <2>3, <2>4, <2>5, <2>6, <2>7, Written, Zenon
<1>5. CASE ~drive.write
  <2>1. Kept
    BY <1>1, <1>3, <1>5, Zenon DEF Kept
  <2>2. Clean'
    BY <1>1, <2>1, CleanFrame, Zenon
  <2> QED
    BY <1>2, <2>1, <2>2, KeptContents, UsersEqual, Zenon DEF SStep, Kept
<1> QED
  BY <1>4, <1>5, Zenon

\* The interrupt: after a read the process uses the block, after a write the
\* buffer equals the disk.
LEMMA IdeintrRefines ==
  ASSUME Clean, Reads, Reads', IInv, ReadErrors = FALSE, ideintr
  PROVE  Clean' /\ SStep
<1> USE DEF IInv
<1>1. PICK b \in Bufs :
           /\ queue # <<>> /\ b = queue[1] /\ drive \in Requests /\ drive.done
           /\ drive.block = buf[b].block /\ drive.write = buf[b].dirty
           /\ buf[b].block \in Blocks
           /\ \A c \in Bufs : c # b => buf'[c] = buf[c]
           /\ buf'[b].block = buf[b].block /\ buf'[b].valid /\ ~buf'[b].dirty
           /\ buf[b].dirty => buf'[b].data = buf[b].data
           /\ ~buf[b].dirty => buf'[b].data = disk[drive.block]
  BY IdeintrEffect, Zenon
<1>2. UNCHANGED <<disk, pc, want, mine>>
  BY Zenon DEF ideintr
<1>3. PICK p \in Procs : pc[p] = "io" /\ mine[p] = b
  <2>1. 1 \in DOMAIN queue
    BY <1>1 DEF Types
  <2> QED
    BY <1>1, <2>1, Zenon DEF Queued
<1>4. \A q \in Procs : q # p => Users'[q] = Users[q]
  <2>1. \A q \in Procs : q # p /\ pc[q] = "io" => mine[q] # b /\ mine[q] \in Bufs
    BY <1>3, Zenon DEF Locks, Holding, Owners
  <2>2. \A q \in Procs : q # p /\ pc[q] = "io" => buf'[mine[q]].valid = buf[mine[q]].valid
    BY <1>1, <2>1, Zenon
  <2> QED
    BY <1>2, <2>2, OthersUse, Zenon
<1>5. Users'[p] = want[p]
  BY <1>1, <1>2, <1>3, Zenon DEF Users
<1>6. CASE buf[b].dirty
  <2>1. buf[b].valid
    BY <1>6, Zenon DEF Buffers
  <2>2. Users[p] = want[p]
    BY <1>3, <2>1, Zenon DEF Users
  <2>3. ASSUME NEW k \in Blocks PROVE Contents'[k] = Contents[k]
    <3>1. \A c \in Bufs : (buf'[c].block = k /\ buf'[c].valid) <=> (buf[c].block = k /\ buf[c].valid)
      BY <1>1, <2>1, Zenon
    <3>2. \A c \in Bufs : buf'[c].data = buf[c].data
      BY <1>1, <1>6, Zenon
    <3> QED
      BY <1>2, <3>1, <3>2, SameBlock, Zenon
  <2>4. buf[b].data = disk[buf[b].block]
    BY <1>1, <1>6, Zenon DEF Driving
  <2>5. Clean'
    <3> SUFFICES ASSUME NEW c \in Bufs, buf'[c].valid, ~buf'[c].dirty,
                        \A q \in Procs : ~(pc'[q] = "stored" /\ mine'[q] = c)
                 PROVE  buf'[c].data = disk'[buf'[c].block]
      BY Zenon DEF Clean
    <3>1. CASE c = b
      BY <1>1, <1>2, <1>6, <2>4, <3>1, Zenon
    <3>2. CASE c # b
      BY <1>1, <1>2, <3>2, Zenon DEF Clean
    <3> QED
      BY <3>1, <3>2, Zenon
  <2> QED
    BY <1>2, <1>4, <1>5, <2>2, <2>3, <2>5, ContentsEqual, UsersEqual, Zenon DEF SStep
<1>7. CASE ~buf[b].dirty
  <2>1. ~buf[b].valid
    <3>1. 1 \in DOMAIN queue
      BY <1>1, SMTT(40), Z3T(40) DEF Types
    <3> QED
      BY <1>1, <1>7, <3>1, Zenon DEF Queued, Serviced
  <2>2. Users[p] = None
    BY <1>3, <2>1, Zenon DEF Users
  <2>3. Contents' = Contents /\ Clean'
    <3>1. \A q \in Procs : pc[q] = "stored" => pc'[q] = "stored" /\ mine'[q] = mine[q]
      BY <1>2, Zenon
    <3> QED
      BY <1>1, <1>2, <1>7, <2>1, <3>1, ReadIn, Zenon
  <2> QED
    BY <1>2, <1>3, <1>4, <1>5, <2>2, <2>3, Taken, Zenon
<1> QED
  BY <1>6, <1>7, Zenon

\* Memory is lost: the contents are what is on the disk.
LEMMA RebootRefines ==
  ASSUME IInv, Reads', reboot
  PROVE  Clean' /\ SStep
<1>1. \A b \in Bufs : ~buf'[b].valid
  BY Zenon DEF reboot, EmptyBuf
<1>2. disk' = disk /\ pc' = [p \in Procs |-> "idle"]
  BY Zenon DEF reboot
<1>3. Clean'
  BY <1>1, Zenon DEF Clean
<1>4. Users' = [p \in Procs |-> None]
  BY <1>2, Zenon DEF Users
<1>5. Contents' = disk
  <2>1. \A k \in Blocks : Contents'[k] = disk[k]
    BY <1>1, <1>2, Zenon DEF Reads
  <2>2. Contents' = [k \in Blocks |-> Contents'[k]]
    BY Zenon DEF Contents
  <2> QED
    BY <2>1, <2>2, Zenon DEF IInv, Types
<1>6. Store1!PowerLoss
  BY <1>2, <1>4, <1>5, Zenon DEF Store1!PowerLoss
<1> QED
  BY <1>3, <1>6, Zenon DEF SStep, Store1!SNext

\* Every step of the cache is one of the store, or none.
LEMMA StoreStepLemma ==
  ASSUME ReadErrors = FALSE, IInv, Clean, Reads, Reads', [Next]_vars
  PROVE  Clean' /\ SStep
<1>1. ASSUME NEW p \in Procs, ProcStep(p) PROVE Clean' /\ SStep
  <2>1. ASSUME NEW k \in Blocks, BgetPanic(p, k) PROVE Clean' /\ SStep
    BY <2>1, Zenon DEF BgetPanic, pvars, Clean, SStep, Contents, Cached, Users
  <2>2. ASSUME (\E k \in Blocks : BgetHit(p, k)) \/ acquiresleep(p) \/ brelse(p) \/ iderwLoop(p)
        PROVE  Clean' /\ SStep
    BY <2>2, QuietActions, Zenon DEF SStep
  <2>3. ASSUME NEW k \in Blocks, BgetMiss(p, k) PROVE Clean' /\ SStep
    BY <2>3, MissRefines, Zenon DEF SStep
  <2> QED
    BY <1>1, <2>1, <2>2, <2>3, BreadRefines, BwriteRefines, LogWriteRefines,
       ReleaseRefines, StoreRefines DEF ProcStep
<1>2. ASSUME UNCHANGED vars PROVE Clean' /\ SStep
  BY <1>2, Zenon DEF vars, Clean, SStep, Contents, Cached, Users
<1> QED
  BY <1>1, <1>2, DriveDoneRefines, IdeintrRefines, RebootRefines, Zenon DEF Next

\* Without read errors the cache implements the store of blocks: bread returns
\* what the last holder left, and a reboot what was written.
THEOREM Stored == ASSUME ReadErrors = FALSE PROVE Spec => IsStore
<1>1. Init => Clean /\ Store1!SInit
  <2> SUFFICES ASSUME Init PROVE Clean /\ Store1!SInit
    BY Zenon
  <2>1. IInv
    BY Boot, Zenon DEF Init
  <2>2. Reads
    BY <2>1, ReadsHold, Zenon
  <2>3. \A b \in Bufs : ~buf[b].valid
    BY Zenon DEF Init, binit, EmptyBuf
  <2>4. Users = [p \in Procs |-> None]
    BY Zenon DEF Init, binit, Users
  <2>5. Contents = disk
    <3>1. \A k \in Blocks : Contents[k] = disk[k]
      BY <2>2, <2>3, Zenon DEF Reads
    <3>2. Contents = [k \in Blocks |-> Contents[k]]
      BY Zenon DEF Contents
    <3> QED
      BY <3>1, <3>2, Zenon DEF Init
  <2> QED
    BY <2>3, <2>4, <2>5, Zenon DEF Init, Clean, Store1!SInit
<1>2. IInv /\ Clean /\ Reads /\ Reads' /\ [Next]_vars => Clean' /\ [Store1!SNext]_(Store1!svars)
  BY StoreStepLemma, Zenon DEF SStep, Store1!svars
<1> QED
  BY <1>1, <1>2, Invariance, ReadsHold, PTL DEF Spec, IsStore, Store1!SSpec
=============================================================================
