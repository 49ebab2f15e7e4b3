----------------------------- MODULE BcacheSteps -----------------------------
(* The invariant of the buffer cache, and that every step of a process keeps *)
(* it.                                                                       *)
EXTENDS Bcache, FiniteSetTheorems, TLAPS

BufType == [block : Blocks \cup {None}, valid : BOOLEAN, dirty : BOOLEAN,
            refcnt : Nat, locked : BOOLEAN, data : Values]

\* The types; that a count is at most the number of processes follows.
Types ==
    /\ lru \in [1..Len(BufOrder) -> Bufs] /\ Range(lru) = Bufs
    /\ buf \in [Bufs -> BufType]
    /\ queue \in Seq(Bufs)
    /\ drive \in {None} \cup Requests
    /\ disk \in [Blocks -> Values]
    /\ pc \in [Procs -> Holding \cup {"idle", "lock", "drop"}]
    /\ want \in [Procs -> Blocks \cup {None}]
    /\ mine \in [Procs -> Bufs \cup {None}]
    /\ asleep \in [Procs -> BOOLEAN]
    /\ panicked \in BOOLEAN /\ driver \in {"ide", "memide"}

\* b waits for the disk; its content is what the disk has or will have; who has it.
InQueue(b) == \E i \in DOMAIN queue : queue[i] = b
Serviced(b) == buf[b].valid /\ ~buf[b].dirty
HasBuffer(b) == {p \in Procs : mine[p] = b}

\* A process that has a buffer has one of the block it wants.
Owners ==
    /\ \A p \in Procs : pc[p] = "idle" => mine[p] = None /\ want[p] = None
    /\ \A p \in Procs : pc[p] # "idle" =>
          mine[p] \in Bufs /\ want[p] \in Blocks /\ buf[mine[p]].block = want[p]
\* refcnt counts the processes that have the buffer, and no block is cached twice.
Counts == \A b \in Bufs : buf[b].refcnt = Cardinality(HasBuffer(b))
Once == \A b, c \in Bufs : buf[b].block = buf[c].block /\ buf[b].block # None => b = c

\* The lock of a buffer has one holder.
Locks ==
    /\ \A p \in Procs : pc[p] \in Holding => buf[mine[p]].locked
    /\ \A b \in Bufs : buf[b].locked => \E p \in Procs : pc[p] \in Holding /\ mine[p] = b
    /\ \A p, q \in Procs : pc[p] \in Holding /\ pc[q] \in Holding /\ mine[p] = mine[q] => p = q

\* What the flags of a buffer mean.
Buffers ==
    /\ \A b \in Bufs : buf[b].valid => buf[b].block # None
    /\ \A b \in Bufs : buf[b].dirty => buf[b].valid
    /\ \A p \in Procs : pc[p] \in {"held", "stored"} => buf[mine[p]].valid

\* The queue of the disk is the buffers whose holders wait in iderw, each once.
Queued ==
    /\ \A i, j \in DOMAIN queue : queue[i] = queue[j] => i = j
    /\ \A i \in DOMAIN queue : ~Serviced(queue[i]) /\ \E p \in Procs : pc[p] = "io" /\ mine[p] = queue[i]
    /\ \A p \in Procs : pc[p] = "io" => Serviced(mine[p]) \/ InQueue(mine[p])

\* The drive works on the first of the queue.
Driving ==
    /\ drive = None <=> queue = <<>>
    /\ queue # <<>> => /\ drive.block = buf[queue[1]].block
                       /\ drive.write = buf[queue[1]].dirty
                       /\ drive.data = buf[queue[1]].data
                       /\ drive.done /\ drive.write => disk[drive.block] = drive.data

\* Who sleeps has something to wait for.
Sleeping == \A p \in Procs : asleep[p] =>
          \/ pc[p] = "lock" /\ buf[mine[p]].locked
          \/ pc[p] = "io" /\ InQueue(mine[p])

\* A step that changes neither what is cached nor what is on the disk.
Kept ==
    /\ disk' = disk
    /\ \A c \in Bufs : /\ buf'[c].block = buf[c].block /\ buf'[c].valid = buf[c].valid
                       /\ buf'[c].dirty = buf[c].dirty /\ buf'[c].data = buf[c].data

\* The inductive invariant.
IInv ==
    /\ Types /\ Owners /\ Counts /\ Once /\ Locks
    /\ Buffers /\ Queued /\ Driving /\ Sleeping

-----------------------------------------------------------------------------
(* One buffer changes, one process moves                                     *)

\* One buffer is given new fields, the others keep theirs.
LEMMA Put ==
  ASSUME Types, NEW b \in Bufs, NEW r \in BufType, buf' = [buf EXCEPT ![b] = r]
  PROVE  /\ buf' \in [Bufs -> BufType]
         /\ buf'[b] = r
         /\ \A c \in Bufs : c # b => buf'[c] = buf[c]
BY Zenon DEF Types

\* What the invariant says of the buffers, the queue and who has them depends on these alone.
LEMMA SameBuffers ==
  ASSUME IInv, UNCHANGED <<buf, queue, drive, disk, pc, want, mine>>
  PROVE  Owners' /\ Counts' /\ Once' /\ Locks' /\ Buffers' /\ Queued' /\ Driving'
<1> USE DEF IInv
<1>1. Owners' /\ Once'
  BY Zenon DEF Owners, Once
<1>2. Counts'
  BY Zenon DEF Counts, HasBuffer
<1>3. Locks' /\ Buffers'
  BY Zenon DEF Locks, Buffers
<1>4. Queued'
  BY Zenon DEF Queued, InQueue, Serviced
<1>5. Driving'
  BY Zenon DEF Driving
<1> QED
  BY <1>1, <1>2, <1>3, <1>4, <1>5, Zenon

\* A process that had no buffer gets b: one more process has b.
LEMMA Joins ==
  ASSUME Types, NEW p \in Procs, mine[p] = None, NEW b \in Bufs,
         mine' = [mine EXCEPT ![p] = b]
  PROVE  /\ Cardinality(HasBuffer(b)') = Cardinality(HasBuffer(b)) + 1
         /\ \A c \in Bufs : c # b => HasBuffer(c)' = HasBuffer(c)
<1>1. HasBuffer(b)' = HasBuffer(b) \cup {p} /\ p \notin HasBuffer(b)
  BY NoneAssumption DEF HasBuffer, Types
<1>2. IsFiniteSet(HasBuffer(b))
  BY SizeAssumption, FS_Subset, HasBuffer(b) \subseteq Procs, Zenon DEF HasBuffer
<1>3. \A c \in Bufs : c # b => HasBuffer(c)' = HasBuffer(c)
  BY NoneAssumption, Zenon DEF HasBuffer, Types
<1> QED
  BY <1>1, <1>2, <1>3, FS_AddElement, Zenon

\* A process gives up b: one process less has b.
LEMMA Leaves ==
  ASSUME Types, NEW p \in Procs, NEW b \in Bufs, mine[p] = b,
         mine' = [mine EXCEPT ![p] = None]
  PROVE  /\ Cardinality(HasBuffer(b)) \in Nat \ {0}
         /\ Cardinality(HasBuffer(b)') = Cardinality(HasBuffer(b)) - 1
         /\ \A c \in Bufs : c # b => HasBuffer(c)' = HasBuffer(c)
<1>1. HasBuffer(b)' = HasBuffer(b) \ {p} /\ p \in HasBuffer(b)
  BY NoneAssumption, Zenon DEF HasBuffer, Types
<1>2. IsFiniteSet(HasBuffer(b))
  BY SizeAssumption, FS_Subset, HasBuffer(b) \subseteq Procs, Zenon DEF HasBuffer
<1>3. \A c \in Bufs : c # b => HasBuffer(c)' = HasBuffer(c)
  BY NoneAssumption, Zenon DEF HasBuffer, Types
<1>4. Cardinality(HasBuffer(b)) \in Nat /\ Cardinality(HasBuffer(b)) # 0
  BY <1>1, <1>2, FS_CardinalityType, FS_EmptySet, Zenon
<1> QED
  BY <1>1, <1>2, <1>3, <1>4, FS_RemoveElement, SMTT(40), Z3T(40)

\* Nobody has a buffer whose count is zero.
LEMMA Unused ==
  ASSUME Types, Counts, NEW b \in Bufs, buf[b].refcnt = 0
  PROVE  \A p \in Procs : mine[p] # b
<1>1. IsFiniteSet(HasBuffer(b))
  BY SizeAssumption, FS_Subset, HasBuffer(b) \subseteq Procs, Zenon DEF HasBuffer
<1>2. HasBuffer(b) = {}
  BY <1>1, FS_EmptySet, Zenon DEF Counts
<1> QED
  BY <1>2, Zenon DEF HasBuffer

\* Every nonempty set of numbers has a least one.
LEMMA Least ==
  ASSUME NEW T, T \subseteq Nat, T # {}
  PROVE  \E x \in T : \A y \in T : ~(y < x)
<1>1. \E x \in T : \A y \in T : ~(<<y, x>> \in OpToRel(<, Nat))
  BY NatLessThanWellFounded, WFMin, Zenon
<1> QED
  BY <1>1, Zenon DEF OpToRel

\* If some buffer may be recycled, Victim is one of those.
LEMMA VictimReusable ==
  ASSUME Types, \E b \in Bufs : Reusable(b)
  PROVE  Victim \in Bufs /\ Reusable(Victim)
<1> DEFINE n == Len(BufOrder)
           T == {j \in Nat : j < n /\ Reusable(lru[n - j])}
<1>1. n \in Nat /\ DOMAIN lru = 1..n
  BY SizeAssumption DEF Types
<1>2. PICK i \in 1..n : Reusable(lru[i])
  BY <1>1, Zenon DEF Types, Range
<1>3. n - i \in T
  <2>1. n - i \in Nat /\ n - i < n /\ n - (n - i) = i
    BY <1>1, <1>2
  <2> QED
    BY <2>1, <1>2, Zenon
<1>4. PICK x \in T : \A y \in T : ~(y < x)
  BY <1>3, Least, Zenon
<1>5. n - x \in 1..n /\ Reusable(lru[n - x])
  BY <1>1, <1>4
<1>6. \A j \in 1..n : Reusable(lru[j]) => j <= n - x
  <2> SUFFICES ASSUME NEW j \in 1..n, Reusable(lru[j]) PROVE j <= n - x
    BY Zenon
  <2>1. n - j \in Nat /\ n - j < n /\ n - (n - j) = j
    BY <1>1
  <2>2. n - j \in T
    BY <2>1, Zenon
  <2> QED
    BY <1>1, <1>4, <2>2
<1>7. \E m \in DOMAIN lru : Reusable(lru[m]) /\ \A j \in DOMAIN lru : Reusable(lru[j]) => j <= m
  BY <1>1, <1>5, <1>6, Zenon
<1> DEFINE v == CHOOSE m \in DOMAIN lru :
                 /\ Reusable(lru[m])
                 /\ \A j \in DOMAIN lru : Reusable(lru[j]) => j <= m
<1>8. v \in DOMAIN lru /\ Reusable(lru[v])
  BY <1>7, Zenon
<1>9. Victim = lru[v]
  BY Zenon DEF Victim
<1> HIDE DEF v
<1>10. lru[v] \in Bufs
  BY <1>1, <1>8, Zenon DEF Types
<1> QED
  BY <1>8, <1>9, <1>10, Zenon

\* The list keeps every buffer when one of them moves to the front.
LEMMA ToFrontKeeps ==
  ASSUME Types, NEW b \in Bufs
  PROVE  ToFront(b) \in [1..Len(BufOrder) -> Bufs] /\ Range(ToFront(b)) = Bufs
<1> DEFINE n == Len(BufOrder)
           i == CHOOSE j \in DOMAIN lru : lru[j] = b
           f == [j \in DOMAIN lru |-> IF j = 1 THEN b ELSE IF j <= i THEN lru[j - 1] ELSE lru[j]]
<1>1. n \in Nat /\ DOMAIN lru = 1..n
  BY SizeAssumption DEF Types
<1>2. \E j \in DOMAIN lru : lru[j] = b
  BY Zenon DEF Types, Range
<1>3. i \in DOMAIN lru /\ lru[i] = b
  BY <1>2, Zenon
<1>4. ToFront(b) = f
  BY Zenon DEF ToFront
<1> HIDE DEF i
<1>5. f \in [1..n -> Bufs]
  BY <1>1, <1>3 DEF Types
<1>6. ASSUME NEW c \in Bufs
      PROVE  \E j \in 1..n : f[j] = c
  <2>1. PICK m \in 1..n : lru[m] = c
    BY <1>1, Zenon DEF Types, Range
  <2>2. CASE m = i
    <3>1. 1 \in 1..n /\ f[1] = c
      BY <1>1, <1>3, <2>1, <2>2
    <3> QED
      BY <3>1, Zenon
  <2>3. CASE m < i
    <3>1. m + 1 \in 1..n /\ m + 1 # 1 /\ m + 1 <= i /\ (m + 1) - 1 = m
      BY <1>1, <1>3, <2>1, <2>3
    <3>2. f[m + 1] = c
      BY <1>1, <2>1, <3>1, Zenon
    <3> QED
      BY <3>1, <3>2, Zenon
  <2>4. CASE i < m
    <3>1. m # 1 /\ ~(m <= i)
      BY <1>1, <1>3, <2>1, <2>4
    <3> QED
      BY <1>1, <2>1, <3>1, Zenon
  <2> QED
    BY <1>1, <1>3, <2>1, <2>2, <2>3, <2>4
<1> HIDE DEF f
<1>7. Range(f) = Bufs
  <2>1. DOMAIN f = 1..n /\ \A j \in 1..n : f[j] \in Bufs
    BY <1>5, Zenon
  <2> QED
    BY <2>1, <1>6, Zenon DEF Range
<1> QED
  BY <1>4, <1>5, <1>7, Zenon

-----------------------------------------------------------------------------
(* The fields of a buffer                                                    *)

\* Changing one field keeps the others and the type.
LEMMA SetRefcnt ==
  ASSUME NEW r \in BufType, NEW n \in Nat, NEW s, s = [r EXCEPT !.refcnt = n]
  PROVE  /\ s \in BufType
         /\ s.refcnt = n /\ s.block = r.block /\ s.data = r.data
         /\ s.valid = r.valid /\ s.dirty = r.dirty /\ s.locked = r.locked
BY Zenon DEF BufType

LEMMA SetLocked ==
  ASSUME NEW r \in BufType, NEW s, s = [r EXCEPT !.locked = TRUE]
  PROVE  /\ s \in BufType
         /\ s.locked /\ s.block = r.block /\ s.data = r.data
         /\ s.valid = r.valid /\ s.dirty = r.dirty /\ s.refcnt = r.refcnt
BY Zenon DEF BufType

LEMMA ClearLocked ==
  ASSUME NEW r \in BufType, NEW s, s = [r EXCEPT !.locked = FALSE]
  PROVE  /\ s \in BufType
         /\ ~s.locked /\ s.block = r.block /\ s.data = r.data
         /\ s.valid = r.valid /\ s.dirty = r.dirty /\ s.refcnt = r.refcnt
BY Zenon DEF BufType

LEMMA SetDirty ==
  ASSUME NEW r \in BufType, NEW s, s = [r EXCEPT !.dirty = TRUE]
  PROVE  /\ s \in BufType
         /\ s.dirty /\ s.block = r.block /\ s.data = r.data
         /\ s.valid = r.valid /\ s.locked = r.locked /\ s.refcnt = r.refcnt
BY Zenon DEF BufType

LEMMA SetData ==
  ASSUME NEW r \in BufType, NEW v \in Values, NEW s, s = [r EXCEPT !.data = v]
  PROVE  /\ s \in BufType
         /\ s.data = v /\ s.block = r.block /\ s.refcnt = r.refcnt
         /\ s.valid = r.valid /\ s.dirty = r.dirty /\ s.locked = r.locked
BY Zenon DEF BufType

\* bget gives the buffer to another block.
LEMMA Recycle ==
  ASSUME NEW r \in BufType, NEW k \in Blocks, NEW s,
         s = [block |-> k, valid |-> FALSE, dirty |-> FALSE, refcnt |-> 1,
              locked |-> r.locked, data |-> r.data]
  PROVE  /\ s \in BufType
         /\ s.block = k /\ ~s.valid /\ ~s.dirty /\ s.refcnt = 1
         /\ s.locked = r.locked
BY Zenon DEF BufType

\* The driver is done with the buffer.
LEMMA SetServiced ==
  ASSUME NEW r \in BufType, NEW v \in Values, NEW s,
         s = [block |-> r.block, valid |-> TRUE, dirty |-> FALSE, refcnt |-> r.refcnt,
              locked |-> r.locked, data |-> v]
  PROVE  /\ s \in BufType
         /\ s.data = v /\ s.valid /\ ~s.dirty
         /\ s.block = r.block /\ s.refcnt = r.refcnt /\ s.locked = r.locked
BY Zenon DEF BufType

\* Several fields of one buffer are assigned.
LEMMA Recycled ==
  ASSUME buf \in [Bufs -> BufType], NEW b \in Bufs, NEW k \in Blocks,
         buf' = [buf EXCEPT ![b].block = k, ![b].valid = FALSE,
                            ![b].dirty = FALSE, ![b].refcnt = 1]
  PROVE  /\ buf' = [buf EXCEPT ![b] = buf'[b]]
         /\ buf'[b] = [block |-> k, valid |-> FALSE, dirty |-> FALSE, refcnt |-> 1,
                       locked |-> buf[b].locked, data |-> buf[b].data]
<1>1. buf' = [buf EXCEPT ![b] = buf'[b]]
  BY Zenon
<1>2. buf[b] \in BufType
  BY Zenon
<1>3. buf'[b] = [buf[b] EXCEPT !.block = k, !.valid = FALSE, !.dirty = FALSE, !.refcnt = 1]
  BY Zenon
<1>4. buf'[b] = [block |-> k, valid |-> FALSE, dirty |-> FALSE, refcnt |-> 1,
                       locked |-> buf[b].locked, data |-> buf[b].data]
  BY <1>2, <1>3, Zenon DEF BufType
<1> QED
  BY <1>1, <1>4, Zenon

LEMMA Transferred ==
  ASSUME buf \in [Bufs -> BufType], NEW b \in Bufs, NEW v \in Values,
         buf' = [buf EXCEPT ![b].valid = TRUE, ![b].dirty = FALSE, ![b].data = v]
  PROVE  /\ buf' = [buf EXCEPT ![b] = buf'[b]]
         /\ buf'[b] = [block |-> buf[b].block, valid |-> TRUE, dirty |-> FALSE,
                       refcnt |-> buf[b].refcnt, locked |-> buf[b].locked, data |-> v]
BY ZenonT(60) DEF BufType

LEMMA MemRead ==
  ASSUME Types, NEW b \in Bufs, buf[b].block \in Blocks,
         buf' = [buf EXCEPT ![b].data = disk[buf[b].block], ![b].dirty = FALSE, ![b].valid = TRUE]
  PROVE  /\ buf' \in [Bufs -> BufType]
         /\ \A c \in Bufs : c # b => buf'[c] = buf[c]
         /\ buf'[b].block = buf[b].block /\ buf'[b].refcnt = buf[b].refcnt
         /\ buf'[b].locked = buf[b].locked /\ buf'[b].valid /\ ~buf'[b].dirty
         /\ buf'[b].data = disk[buf[b].block]
<1>1. PICK v \in Values : v = disk[buf[b].block]
  BY Zenon DEF Types
<1> DEFINE r == [block |-> buf[b].block, valid |-> TRUE, dirty |-> FALSE,
                 refcnt |-> buf[b].refcnt, locked |-> buf[b].locked, data |-> v]
<1>2. buf' = [buf EXCEPT ![b].data = v, ![b].dirty = FALSE, ![b].valid = TRUE]
  BY <1>1, Zenon
<1>3. buf \in [Bufs -> BufType] /\ buf[b] \in BufType
  BY Zenon DEF Types
<1>4. buf'[b] = [buf[b] EXCEPT !.data = v, !.dirty = FALSE, !.valid = TRUE]
  BY <1>2, <1>3, Zenon
<1>5. buf'[b] = r
  BY <1>3, <1>4, Zenon DEF BufType
<1>6. buf' = [buf EXCEPT ![b] = buf'[b]]
  BY <1>2, <1>3, Zenon
<1>7. /\ r \in BufType /\ r.data = v /\ r.valid /\ ~r.dirty
      /\ r.block = buf[b].block /\ r.refcnt = buf[b].refcnt /\ r.locked = buf[b].locked
  BY <1>3, SetServiced, Zenon
<1> HIDE DEF r
<1>8. /\ buf' \in [Bufs -> BufType] /\ \A c \in Bufs : c # b => buf'[c] = buf[c]
  BY <1>5, <1>6, <1>7, Put, Zenon
<1> QED
  BY <1>1, <1>5, <1>7, <1>8, Zenon

LEMMA MemWrite ==
  ASSUME Types, NEW b \in Bufs,
         buf' = [[buf EXCEPT ![b].dirty = TRUE]
                    EXCEPT ![b].data = buf[b].data, ![b].dirty = FALSE, ![b].valid = TRUE]
  PROVE  /\ buf' \in [Bufs -> BufType]
         /\ \A c \in Bufs : c # b => buf'[c] = buf[c]
         /\ buf'[b].block = buf[b].block /\ buf'[b].refcnt = buf[b].refcnt
         /\ buf'[b].locked = buf[b].locked /\ buf'[b].valid /\ ~buf'[b].dirty
         /\ buf'[b].data = buf[b].data
<1>1. PICK v \in Values : v = buf[b].data
  BY Zenon DEF Types, BufType
<1> DEFINE r == [block |-> buf[b].block, valid |-> TRUE, dirty |-> FALSE,
                 refcnt |-> buf[b].refcnt, locked |-> buf[b].locked, data |-> v]
<1>2. buf' = [[buf EXCEPT ![b].dirty = TRUE]
                    EXCEPT ![b].data = v, ![b].dirty = FALSE, ![b].valid = TRUE]
  BY <1>1, Zenon
<1>3. buf \in [Bufs -> BufType] /\ buf[b] \in BufType
  BY Zenon DEF Types
<1>4. buf'[b] = [[buf[b] EXCEPT !.dirty = TRUE] EXCEPT !.data = v, !.dirty = FALSE, !.valid = TRUE]
  BY <1>2, <1>3, Zenon
<1>5. buf'[b] = r
  BY <1>3, <1>4, Zenon DEF BufType
<1>6. buf' = [buf EXCEPT ![b] = buf'[b]]
  BY <1>2, <1>3, Zenon
<1>7. /\ r \in BufType /\ r.data = v /\ r.valid /\ ~r.dirty
      /\ r.block = buf[b].block /\ r.refcnt = buf[b].refcnt /\ r.locked = buf[b].locked
  BY <1>3, SetServiced, Zenon
<1> HIDE DEF r
<1>8. /\ buf' \in [Bufs -> BufType] /\ \A c \in Bufs : c # b => buf'[c] = buf[c]
  BY <1>5, <1>6, <1>7, Put, Zenon
<1> QED
  BY <1>1, <1>5, <1>7, <1>8, Zenon

-----------------------------------------------------------------------------
(* bget                                                                      *)

\* A process that is idle sleeps nowhere.
LEMMA IdleAwake ==
  ASSUME Types, Sleeping, NEW p \in Procs, pc[p] = "idle"
  PROVE  ~asleep[p]
BY Zenon DEF Types, Sleeping

\* bget finds the block: only the count changes.
LEMMA HitStep ==
  ASSUME IInv, NEW p \in Procs, NEW k \in Blocks, BgetHit(p, k)
  PROVE  IInv' /\ Kept
<1> USE DEF IInv
<1>1. PICK b \in Cached(k) : buf' = [buf EXCEPT ![b].refcnt = @ + 1] /\ Enter(p, k, b)
  BY Zenon DEF BgetHit
<1>2. pc[p] = "idle" /\ mine[p] = None /\ want[p] = None /\ ~asleep[p]
  BY IdleAwake, Zenon DEF BgetHit, Owners
<1>3. b \in Bufs /\ buf[b].block = k
  BY Zenon DEF Cached
<1> DEFINE r == [buf[b] EXCEPT !.refcnt = buf[b].refcnt + 1]
<1>4. /\ r \in BufType /\ r.refcnt = buf[b].refcnt + 1
      /\ r.block = buf[b].block /\ r.data = buf[b].data
      /\ r.valid = buf[b].valid /\ r.dirty = buf[b].dirty /\ r.locked = buf[b].locked
  <2>1. buf[b] \in BufType /\ buf[b].refcnt + 1 \in Nat
    BY <1>3 DEF Types, BufType
  <2> QED
    BY <2>1, SetRefcnt
<1>5. /\ buf' \in [Bufs -> BufType]
      /\ buf'[b] = r
      /\ \A c \in Bufs : c # b => buf'[c] = buf[c]
  <2>1. buf' = [buf EXCEPT ![b] = r]
    BY <1>1, <1>3, Zenon
  <2> HIDE DEF r
  <2> QED
    BY <1>3, <1>4, <2>1, Put, Zenon
<1> HIDE DEF r
<1>r. \A c \in Bufs : /\ buf'[c].block = buf[c].block /\ buf'[c].valid = buf[c].valid
                      /\ buf'[c].dirty = buf[c].dirty /\ buf'[c].locked = buf[c].locked
                      /\ buf'[c].data = buf[c].data
  BY <1>4, <1>5, Zenon
<1>6. /\ pc' = [pc EXCEPT ![p] = "lock"] /\ mine' = [mine EXCEPT ![p] = b]
      /\ want' = [want EXCEPT ![p] = k]
      /\ UNCHANGED <<lru, queue, drive, disk, asleep, panicked, driver>>
  BY <1>1, Zenon DEF Enter
<1>7. Types'
  BY <1>3, <1>5, <1>6, Zenon DEF Types
<1>8. Owners'
  BY <1>3, <1>r, <1>6, NoneAssumption DEF Types, Owners
<1>9. Counts'
  <2>1. buf'[b].refcnt = buf[b].refcnt + 1
    BY <1>4, <1>5, Zenon
  <2>2. /\ Cardinality(HasBuffer(b)') = Cardinality(HasBuffer(b)) + 1
        /\ \A c \in Bufs : c # b => HasBuffer(c)' = HasBuffer(c)
    BY <1>2, <1>3, <1>6, Joins, Zenon
  <2> QED
    BY <1>3, <1>5, <2>1, <2>2, Zenon DEF Counts
<1>10. Once'
  BY <1>r DEF Once
<1>11. Locks'
  <2>1. \A q \in Procs : pc'[q] \in Holding => q # p /\ pc[q] \in Holding /\ mine'[q] = mine[q]
    BY <1>6, Zenon DEF Types, Holding
  <2>2. \A q \in Procs : pc[q] \in Holding => pc'[q] \in Holding /\ mine'[q] = mine[q]
    BY <1>2, <1>6, Zenon DEF Types, Holding
  <2>3. \A q \in Procs : pc[q] \in Holding => mine[q] \in Bufs
    BY Zenon DEF Owners, Holding
  <2> QED
    BY <1>r, <2>1, <2>2, <2>3 DEF Locks
<1>12. Buffers'
  BY <1>2, <1>3, <1>r, <1>6 DEF Buffers, Types, Owners
<1>13. Queued'
  <2>1. \A q \in Procs : pc'[q] = "io" => pc[q] = "io" /\ mine'[q] = mine[q] /\ mine[q] \in Bufs
    BY <1>6, Zenon DEF Types, Owners
  <2>2. \A q \in Procs : pc[q] = "io" => pc'[q] = "io" /\ mine'[q] = mine[q]
    BY <1>2, <1>6, Zenon DEF Types
  <2>3. queue' = queue /\ \A i \in DOMAIN queue : queue[i] \in Bufs
    BY <1>6 DEF Types
  <2> QED
    BY <1>r, <2>1, <2>2, <2>3 DEF Queued, Serviced, InQueue
<1>14. Driving'
  BY <1>r, <1>6 DEF Driving, Types
<1>15. Sleeping'
  BY <1>2, <1>3, <1>r, <1>6 DEF Sleeping, Types, Owners, InQueue
<1>16. Kept
  BY <1>r, <1>6, Zenon DEF Kept
<1> QED
  BY <1>7, <1>8, <1>9, <1>10, <1>11, <1>12, <1>13, <1>14, <1>15, <1>16, Zenon

\* bget recycles a buffer nobody has.
LEMMA MissStep ==
  ASSUME IInv, NEW p \in Procs, NEW k \in Blocks, BgetMiss(p, k)
  PROVE  /\ IInv'
         /\ \E b \in Bufs : /\ ~buf[b].dirty /\ ~buf'[b].valid
                            /\ (\A q \in Procs : mine[q] # b) /\ mine'[p] = b
                            /\ \A c \in Bufs : c # b => buf'[c] = buf[c]
                            /\ buf'[b].block = k
<1> USE DEF IInv
<1>1. PICK b \in Bufs : b = Victim /\ Reusable(b)
  BY VictimReusable, Zenon DEF BgetMiss
<1> DEFINE r == [block |-> k, valid |-> FALSE, dirty |-> FALSE, refcnt |-> 1,
                 locked |-> buf[b].locked, data |-> buf[b].data]
<1>2. pc[p] = "idle" /\ mine[p] = None /\ want[p] = None /\ ~asleep[p]
  BY IdleAwake, Zenon DEF BgetMiss, Owners
<1>3. /\ buf' = [buf EXCEPT ![b].block = k, ![b].valid = FALSE,
                            ![b].dirty = FALSE, ![b].refcnt = 1]
      /\ Cached(k) = {} /\ Enter(p, k, b)
  BY <1>1, Zenon DEF BgetMiss
<1>4. buf[b].refcnt = 0 /\ \A q \in Procs : mine[q] # b
  BY <1>1, Unused, Zenon DEF Reusable
<1>r. /\ r \in BufType /\ r.block = k /\ ~r.valid /\ ~r.dirty /\ r.refcnt = 1
      /\ r.locked = buf[b].locked
  <2>1. buf[b] \in BufType
    BY <1>1, Zenon DEF Types
  <2> QED
    BY <2>1, Recycle, Zenon
<1>5. /\ buf' \in [Bufs -> BufType]
      /\ buf'[b] = r
      /\ \A c \in Bufs : c # b => buf'[c] = buf[c]
  <2>0. buf \in [Bufs -> BufType]
    BY Zenon DEF Types
  <2>1. buf' = [buf EXCEPT ![b] = buf'[b]] /\ buf'[b] = r
    BY <1>3, <2>0, Recycled, Zenon
  <2> HIDE DEF r
  <2> QED
    BY <1>1, <1>r, <2>1, Put, Zenon
<1> HIDE DEF r
<1>6. buf'[b].block = k /\ ~buf'[b].valid /\ ~buf'[b].dirty /\ buf'[b].refcnt = 1
  BY <1>r, <1>5, Zenon
<1>7. buf'[b].locked = buf[b].locked
  BY <1>r, <1>5, Zenon
<1>8. /\ pc' = [pc EXCEPT ![p] = "lock"] /\ mine' = [mine EXCEPT ![p] = b]
      /\ want' = [want EXCEPT ![p] = k]
      /\ UNCHANGED <<lru, queue, drive, disk, asleep, panicked, driver>>
  BY <1>3, Zenon DEF Enter
<1>9. ~buf[b].locked /\ ~InQueue(b)
  BY <1>1, <1>4 DEF Locks, Queued, InQueue
<1>10. Types'
  BY <1>1, <1>5, <1>8, Zenon DEF Types
<1>11. Owners'
  BY <1>1, <1>4, <1>5, <1>6, <1>8, NoneAssumption DEF Types, Owners
<1>12. Counts'
  <2>1. /\ Cardinality(HasBuffer(b)') = Cardinality(HasBuffer(b)) + 1
        /\ \A c \in Bufs : c # b => HasBuffer(c)' = HasBuffer(c)
    BY <1>1, <1>2, <1>8, Joins, Zenon
  <2>2. Cardinality(HasBuffer(b)) = 0
    BY <1>1, <1>4, Zenon DEF Counts
  <2> QED
    BY <1>1, <1>5, <1>6, <2>1, <2>2 DEF Counts
<1>13. Once'
  BY <1>1, <1>3, <1>5, <1>6 DEF Once, Cached
<1>14. Locks'
  BY <1>1, <1>2, <1>4, <1>5, <1>7, <1>8, <1>9, SMTT(40), Z3T(40) DEF Locks, Types, Owners, Holding
<1>15. Buffers'
  <2>1. \A c \in Bufs : c # b => buf'[c] = buf[c]
    BY <1>5, Zenon
  <2>2. k # None
    BY NoneAssumption, Zenon
  <2>3. \A q \in Procs : pc'[q] \in {"held", "stored"} =>
           pc[q] \in {"held", "stored"} /\ mine'[q] = mine[q] /\ mine[q] # b /\ mine[q] \in Bufs
    BY <1>4, <1>8, Zenon DEF Types, Owners
  <2> QED
    BY <1>6, <2>1, <2>2, <2>3, SMTT(40), Z3T(40) DEF Buffers
<1>16. Queued'
  BY <1>1, <1>2, <1>4, <1>5, <1>8, <1>9 DEF Queued, Types, Owners, Serviced, InQueue
<1>17. Driving'
  BY <1>5, <1>8, <1>9 DEF Driving, Types, InQueue
<1>18. Sleeping'
  BY <1>2, <1>4, <1>5, <1>8, <1>9 DEF Sleeping, Types, Owners, InQueue
<1>19. ~buf[b].dirty /\ mine'[p] = b
  BY <1>1, <1>8, Zenon DEF Reusable, Types
<1> QED
  BY <1>4, <1>5, <1>6, <1>10, <1>11, <1>12, <1>13, <1>14, <1>15, <1>16, <1>17, <1>18, <1>19, Zenon

-----------------------------------------------------------------------------
(* What a step leaves alone                                                  *)

\* Nobody enters or leaves bget, and no buffer changes its block or its count.
LEMMA OwnersFrame ==
  ASSUME Types, Owners, Counts, Once, UNCHANGED <<mine, want>>,
         \A q \in Procs : pc'[q] = "idle" <=> pc[q] = "idle",
         \A c \in Bufs : buf'[c].block = buf[c].block /\ buf'[c].refcnt = buf[c].refcnt
  PROVE  Owners' /\ Counts' /\ Once'
<1>1. Owners'
  BY Zenon DEF Owners
<1>2. \A c \in Bufs : HasBuffer(c)' = HasBuffer(c)
  BY Zenon DEF HasBuffer
<1>3. Counts'
  BY <1>2, Zenon DEF Counts
<1>4. Once'
  BY DEF Once
<1> QED
  BY <1>1, <1>3, <1>4, Zenon

\* Nobody takes or releases a sleeping lock.
LEMMA LocksFrame ==
  ASSUME Owners, Locks, UNCHANGED mine,
         \A q \in Procs : pc'[q] \in Holding <=> pc[q] \in Holding,
         \A c \in Bufs : buf'[c].locked = buf[c].locked
  PROVE  Locks'
<1>1. \A q \in Procs : pc[q] \in Holding => mine[q] \in Bufs
  BY Zenon DEF Owners, Holding
<1> QED
  BY <1>1, Zenon DEF Locks

\* Only the buffer of a process outside of iderw changes: neither the queue nor
\* the request the drive works on is about it.
LEMMA NotQueued ==
  ASSUME Locks, Queued, NEW p \in Procs, pc[p] \in Holding, pc[p] # "io"
  PROVE  ~InQueue(mine[p])
BY DEF Locks, Queued, InQueue, Holding

LEMMA QueueFrame ==
  ASSUME Types, Queued, Driving, Owners, Once, UNCHANGED <<queue, drive, mine>>,
         \A q \in Procs : pc'[q] = "io" <=> pc[q] = "io",
         NEW b \in Bufs, ~InQueue(b), \A q \in Procs : pc[q] = "io" => mine[q] # b,
         \A c \in Bufs : c # b => buf'[c] = buf[c],
         \A k \in Blocks : k # buf[b].block => disk'[k] = disk[k]
  PROVE  Queued' /\ Driving'
<1>1. \A i \in DOMAIN queue : queue[i] \in Bufs /\ queue[i] # b
  BY DEF Types, InQueue
<1>2. \A q \in Procs : pc[q] = "io" => mine[q] \in Bufs
  BY Zenon DEF Owners
<1>3. Queued'
  BY <1>1, <1>2 DEF Queued, InQueue, Serviced
<1>4. queue # <<>> => 1 \in DOMAIN queue
  BY DEF Types
<1>5. Driving'
  <2>1. CASE queue = <<>>
    BY <2>1, Zenon DEF Driving
  <2>2. CASE queue # <<>>
    <3>1. drive \in Requests /\ queue[1] \in Bufs /\ queue[1] # b
      BY <1>1, <1>4, <2>2, Zenon DEF Driving, Types
    <3>2. drive.block \in Blocks /\ drive.block # None
      BY <3>1, NoneAssumption, Zenon DEF Requests
    <3>3. drive.block # buf[b].block
      BY <2>2, <3>1, <3>2, Zenon DEF Driving, Once
    <3>4. disk'[drive.block] = disk[drive.block]
      BY <3>2, <3>3, Zenon
    <3> QED
      BY <2>2, <3>1, <3>4, Zenon DEF Driving
  <2> QED
    BY <2>1, <2>2, Zenon
<1> QED
  BY <1>3, <1>5, Zenon

-----------------------------------------------------------------------------
(* The sleeping lock of a buffer                                             *)

\* A process waits for the lock or takes it.
LEMMA AcquireStep ==
  ASSUME IInv, NEW p \in Procs, acquiresleep(p)
  PROVE  IInv' /\ Kept
<1> USE DEF IInv
<1>1. pc[p] = "lock" /\ ~asleep[p] /\ mine[p] \in Bufs
  BY Zenon DEF acquiresleep, Owners
<1>2. CASE buf[mine[p]].locked
  <2>1. asleep' = [asleep EXCEPT ![p] = TRUE] /\ UNCHANGED <<buf, pc, lru, queue, drive, disk, want, mine, panicked, driver>>
    BY <1>2, Zenon DEF acquiresleep
  <2>2. Types'
    BY <2>1, Zenon DEF Types
  <2>3. Sleeping'
    BY <1>1, <1>2, <2>1, Zenon DEF Sleeping, Types, InQueue
  <2> QED
    BY <2>1, <2>2, <2>3, SMTT(40), Z3T(40) DEF Kept, Owners, Counts, HasBuffer, Once, Locks, Buffers, Queued, InQueue, Serviced, Driving
<1>3. CASE ~buf[mine[p]].locked
  <2>1. PICK b \in Bufs : b = mine[p]
    BY <1>1, Zenon
  <2> DEFINE r == [buf[b] EXCEPT !.locked = TRUE]
  <2>2. /\ r \in BufType /\ r.refcnt = buf[b].refcnt /\ r.locked
        /\ r.block = buf[b].block /\ r.data = buf[b].data
        /\ r.valid = buf[b].valid /\ r.dirty = buf[b].dirty
    <3>1. buf[b] \in BufType
      BY Zenon DEF Types
    <3> QED
      BY <3>1, SetLocked, Zenon
  <2>3. /\ buf' = [buf EXCEPT ![b] = r] /\ pc' = [pc EXCEPT ![p] = "locked"]
        /\ UNCHANGED <<lru, queue, drive, disk, want, mine, asleep, panicked, driver>>
    BY <1>3, <2>1, Zenon DEF acquiresleep
  <2> HIDE DEF r
  <2>4. /\ buf' \in [Bufs -> BufType] /\ buf'[b] = r
        /\ \A c \in Bufs : c # b => buf'[c] = buf[c]
    BY <2>2, <2>3, Put, Zenon
  <2>5. \A c \in Bufs : /\ buf'[c].block = buf[c].block /\ buf'[c].refcnt = buf[c].refcnt
                        /\ buf'[c].data = buf[c].data
                        /\ buf'[c].valid = buf[c].valid /\ buf'[c].dirty = buf[c].dirty
    BY <2>2, <2>4, Zenon
  <2>6. buf'[b].locked /\ ~buf[b].locked
    BY <1>3, <2>1, <2>2, <2>4, Zenon
  <2>7. pc'[p] = "locked" /\ \A q \in Procs : q # p => pc'[q] = pc[q]
    BY <2>3, Zenon DEF Types
  <2>8. Types'
    BY <2>3, <2>4, Zenon DEF Types, Holding
  <2>9. Owners' /\ Counts' /\ Once'
    BY <1>1, <2>3, <2>5, <2>7, OwnersFrame, Zenon
  <2>10. Locks'
    <3>1. \A q \in Procs : pc[q] \in Holding => mine[q] # b /\ mine[q] \in Bufs /\ q # p
      BY <1>1, <2>6, Zenon DEF Locks, Owners, Holding
    <3>2. \A q \in Procs : pc'[q] \in Holding => q = p \/ pc[q] \in Holding
      BY <2>7, Zenon
    <3>3. pc'[p] \in Holding
      BY <2>7, Zenon DEF Holding
    <3> QED
      BY <2>1, <2>3, <2>4, <2>6, <2>7, <3>1, <3>2, <3>3 DEF Locks
  <2>11. Buffers'
    BY <1>1, <2>3, <2>5, <2>7 DEF Buffers, Owners
  <2>12. ~InQueue(b) /\ \A q \in Procs : pc[q] = "io" => mine[q] # b
    BY <2>6 DEF Locks, Queued, InQueue, Holding
  <2>13. Queued' /\ Driving'
    BY <1>1, <2>3, <2>4, <2>7, <2>12, QueueFrame, Zenon
  <2>14. Sleeping'
    <3>1. \A q \in Procs : asleep'[q] => asleep[q] /\ q # p /\ pc'[q] = pc[q]
      BY <1>1, <2>3, <2>7, Zenon
    <3>2. \A q \in Procs : pc[q] = "lock" => mine[q] \in Bufs
      BY Zenon DEF Owners
    <3> QED
      BY <2>3, <2>4, <2>6, <3>1, <3>2 DEF Sleeping, InQueue
  <2>15. Kept
    BY <2>3, <2>5, Zenon DEF Kept
  <2> QED
    BY <2>8, <2>9, <2>10, <2>11, <2>13, <2>14, <2>15, Zenon
<1> QED
  BY <1>2, <1>3, Zenon

\* The holder gives up the lock and wakes who waits for it.
LEMMA ReleaseStep ==
  ASSUME IInv, NEW p \in Procs, releasesleep(p)
  PROVE  IInv' /\ Kept
<1> USE DEF IInv
<1>1. pc[p] = "held" /\ pc[p] \in Holding /\ mine[p] \in Bufs
  BY Zenon DEF releasesleep, Owners, Holding
<1>2. PICK b \in Bufs : b = mine[p]
  BY <1>1, Zenon
<1> DEFINE r == [buf[b] EXCEPT !.locked = FALSE]
<1>3. /\ r \in BufType /\ r.refcnt = buf[b].refcnt /\ ~r.locked
      /\ r.block = buf[b].block /\ r.data = buf[b].data
      /\ r.valid = buf[b].valid /\ r.dirty = buf[b].dirty
  <2>1. buf[b] \in BufType
    BY Zenon DEF Types
  <2> QED
    BY <2>1, ClearLocked, Zenon
<1>4. /\ buf' = [buf EXCEPT ![b] = r] /\ pc' = [pc EXCEPT ![p] = "drop"]
      /\ asleep' = WakeLock(b)
      /\ UNCHANGED <<lru, queue, drive, disk, want, mine, panicked, driver>>
  BY <1>2, Zenon DEF releasesleep
<1> HIDE DEF r
<1>5. /\ buf' \in [Bufs -> BufType] /\ buf'[b] = r
      /\ \A c \in Bufs : c # b => buf'[c] = buf[c]
  BY <1>3, <1>4, Put, Zenon
<1>6. \A c \in Bufs : /\ buf'[c].block = buf[c].block /\ buf'[c].refcnt = buf[c].refcnt
                      /\ buf'[c].data = buf[c].data
                      /\ buf'[c].valid = buf[c].valid /\ buf'[c].dirty = buf[c].dirty
  BY <1>3, <1>5, Zenon
<1>7. ~buf'[b].locked
  BY <1>3, <1>5, Zenon
<1>8. pc'[p] = "drop" /\ \A q \in Procs : q # p => pc'[q] = pc[q]
  BY <1>4, Zenon DEF Types
<1>9. /\ asleep' \in [Procs -> BOOLEAN]
      /\ \A q \in Procs : asleep'[q] => asleep[q] /\ ~(pc[q] = "lock" /\ mine[q] = b)
  BY <1>4, Zenon DEF WakeLock
<1>10. Types'
  BY <1>4, <1>5, <1>9, Zenon DEF Types
<1>11. Owners' /\ Counts' /\ Once'
  BY <1>1, <1>4, <1>6, <1>8, OwnersFrame, Zenon
<1>12. Locks'
  <2>1. \A q \in Procs : pc'[q] \in Holding <=> q # p /\ pc[q] \in Holding
    BY <1>8, Zenon DEF Holding
  <2>2. \A q \in Procs : q # p /\ pc[q] \in Holding => mine[q] # b /\ mine[q] \in Bufs
    BY <1>1, <1>2, Zenon DEF Locks, Owners, Holding
  <2> QED
    BY <1>2, <1>4, <1>5, <1>7, <2>1, <2>2 DEF Locks
<1>13. Buffers'
  BY <1>1, <1>4, <1>6, <1>8, SMTT(20), Z3T(20) DEF Buffers, Owners
<1>14. ~InQueue(b) /\ \A q \in Procs : pc[q] = "io" => mine[q] # b
  BY <1>1, <1>2, NotQueued, Zenon DEF Locks, Holding
<1>15. Queued' /\ Driving'
  BY <1>1, <1>4, <1>5, <1>8, <1>14, QueueFrame, Zenon
<1>16. Sleeping'
  <2>1. \A q \in Procs : asleep[q] => q # p /\ pc'[q] = pc[q]
    BY <1>1, <1>8, Zenon DEF Sleeping
  <2>2. \A q \in Procs : pc[q] = "lock" => mine[q] \in Bufs
    BY Zenon DEF Owners
  <2> QED
    BY <1>4, <1>5, <1>9, <2>1, <2>2 DEF Sleeping, InQueue
<1>17. Kept
  BY <1>4, <1>6, Zenon DEF Kept
<1> QED
  BY <1>10, <1>11, <1>12, <1>13, <1>15, <1>16, <1>17, Zenon

\* The last part of brelse: the reference goes, the buffer moves to the front.
LEMMA BrelseStep ==
  ASSUME IInv, NEW p \in Procs, brelse(p)
  PROVE  IInv' /\ Kept
<1> USE DEF IInv
<1>1. pc[p] = "drop" /\ mine[p] \in Bufs
  BY Zenon DEF brelse, Owners
<1>2. PICK b \in Bufs : b = mine[p]
  BY <1>1, Zenon
<1>3. /\ buf' = [buf EXCEPT ![b].refcnt = @ - 1]
      /\ lru' = IF buf[b].refcnt = 1 THEN ToFront(b) ELSE lru
      /\ pc' = [pc EXCEPT ![p] = "idle"]
      /\ want' = [want EXCEPT ![p] = None]
      /\ mine' = [mine EXCEPT ![p] = None]
      /\ UNCHANGED <<queue, drive, disk, asleep, panicked, driver>>
  BY <1>2, Zenon DEF brelse
<1>4. /\ Cardinality(HasBuffer(b)) \in Nat \ {0}
      /\ Cardinality(HasBuffer(b)') = Cardinality(HasBuffer(b)) - 1
      /\ \A c \in Bufs : c # b => HasBuffer(c)' = HasBuffer(c)
  BY <1>2, <1>3, Leaves, Zenon
<1> DEFINE r == [buf[b] EXCEPT !.refcnt = buf[b].refcnt - 1]
<1>5. /\ r \in BufType /\ r.refcnt = buf[b].refcnt - 1
      /\ r.block = buf[b].block /\ r.data = buf[b].data
      /\ r.valid = buf[b].valid /\ r.dirty = buf[b].dirty /\ r.locked = buf[b].locked
  <2>1. buf[b] \in BufType
    BY Zenon DEF Types
  <2>2. buf[b].refcnt - 1 \in Nat
    BY <1>4 DEF Counts
  <2> QED
    BY <2>1, <2>2, SetRefcnt
<1>6. buf' = [buf EXCEPT ![b] = r]
  BY <1>3, Zenon
<1> HIDE DEF r
<1>7. /\ buf' \in [Bufs -> BufType] /\ buf'[b] = r
      /\ \A c \in Bufs : c # b => buf'[c] = buf[c]
  BY <1>5, <1>6, Put, Zenon
<1>8. \A c \in Bufs : /\ buf'[c].block = buf[c].block /\ buf'[c].locked = buf[c].locked
                      /\ buf'[c].data = buf[c].data
                      /\ buf'[c].valid = buf[c].valid /\ buf'[c].dirty = buf[c].dirty
  BY <1>5, <1>7, Zenon
<1>9. /\ pc'[p] = "idle" /\ mine'[p] = None /\ want'[p] = None
      /\ \A q \in Procs : q # p => pc'[q] = pc[q] /\ mine'[q] = mine[q] /\ want'[q] = want[q]
  BY <1>3, Zenon DEF Types
<1>10. lru' \in [1..Len(BufOrder) -> Bufs] /\ Range(lru)' = Bufs
  <2>1. CASE buf[b].refcnt = 1
    <3>1. lru' = ToFront(b)
      BY <1>3, <2>1, Zenon
    <3> QED
      BY <3>1, ToFrontKeeps, Zenon
  <2>2. CASE buf[b].refcnt # 1
    <3>1. lru' = lru
      BY <1>3, <2>2, Zenon
    <3> QED
      BY <3>1, Zenon DEF Types
  <2> QED
    BY <2>1, <2>2, Zenon
<1>11. Types'
  BY <1>3, <1>7, <1>10, Zenon DEF Types
<1>12. Owners'
  BY <1>8, <1>9 DEF Owners
<1>13. Counts'
  <2>1. buf'[b].refcnt = buf[b].refcnt - 1
    BY <1>5, <1>7, Zenon
  <2> QED
    BY <1>4, <1>7, <2>1, Zenon DEF Counts
<1>14. Once'
  BY <1>8 DEF Once
<1>15. Locks'
  <2>1. \A q \in Procs : pc'[q] \in Holding <=> q # p /\ pc[q] \in Holding
    BY <1>9, Zenon DEF Holding
  <2>2. \A q \in Procs : pc[q] \in Holding => q # p /\ mine'[q] = mine[q] /\ mine[q] \in Bufs
    BY <1>1, <1>9, Zenon DEF Owners, Holding
  <2> QED
    BY <1>8, <2>1, <2>2 DEF Locks
<1>16. Buffers'
  BY <1>8, <1>9 DEF Buffers, Owners
<1>17. Queued'
  <2>1. \A q \in Procs : pc'[q] = "io" => pc[q] = "io" /\ mine'[q] = mine[q] /\ mine[q] \in Bufs
    BY <1>9, Zenon DEF Owners
  <2>2. \A q \in Procs : pc[q] = "io" => pc'[q] = "io" /\ mine'[q] = mine[q]
    BY <1>1, <1>9, Zenon
  <2>3. queue' = queue /\ \A i \in DOMAIN queue : queue[i] \in Bufs
    BY <1>3 DEF Types
  <2> QED
    BY <1>8, <2>1, <2>2, <2>3, SMTT(20), Z3T(20) DEF Queued, Serviced, InQueue
<1>18. Driving'
  BY <1>3, <1>8 DEF Driving, Types
<1>19. Sleeping'
  <2>1. \A q \in Procs : asleep[q] => q # p /\ pc'[q] = pc[q] /\ mine'[q] = mine[q]
    BY <1>1, <1>9, Zenon DEF Sleeping
  <2>2. \A q \in Procs : pc[q] = "lock" => mine[q] \in Bufs
    BY Zenon DEF Owners
  <2> QED
    BY <1>3, <1>8, <2>1, <2>2 DEF Sleeping, InQueue
<1>20. Kept
  BY <1>3, <1>8, Zenon DEF Kept
<1> QED
  BY <1>11, <1>12, <1>13, <1>14, <1>15, <1>16, <1>17, <1>18, <1>19, <1>20, Zenon

-----------------------------------------------------------------------------
(* What a holder does with its buffer                                        *)

\* A holder of b goes on to another place where it holds b, outside of iderw;
\* of all buffers only b may change, and of the disk only the block of b.
LEMMA HolderStep ==
  ASSUME IInv, NEW p \in Procs, NEW b \in Bufs, b = mine[p],
         pc[p] \in Holding, pc[p] # "io",
         NEW l \in {"held", "stored"}, pc' = [pc EXCEPT ![p] = l],
         UNCHANGED <<lru, queue, drive, want, mine, asleep, panicked, driver>>,
         disk' \in [Blocks -> Values],
         \A k \in Blocks : k # buf[b].block => disk'[k] = disk[k],
         buf' \in [Bufs -> BufType],
         \A c \in Bufs : c # b => buf'[c] = buf[c],
         buf'[b].block = buf[b].block /\ buf'[b].refcnt = buf[b].refcnt,
         buf'[b].locked = buf[b].locked,
         buf'[b].valid
  PROVE  IInv'
<1> USE DEF IInv
<1>1. pc'[p] = l /\ \A q \in Procs : q # p => pc'[q] = pc[q]
  BY Zenon DEF Types
<1>2. l \in Holding /\ l # "idle" /\ l # "io" /\ pc[p] # "idle" /\ pc[p] # "lock"
  BY Zenon DEF Holding
<1>3. Types'
  BY <1>2, Zenon DEF Types
<1>4. Owners' /\ Counts' /\ Once'
  <2>1. \A q \in Procs : pc'[q] = "idle" <=> pc[q] = "idle"
    BY <1>1, <1>2, Zenon
  <2>2. \A c \in Bufs : buf'[c].block = buf[c].block /\ buf'[c].refcnt = buf[c].refcnt
    BY Zenon
  <2> QED
    BY <2>1, <2>2, OwnersFrame, Zenon
<1>5. Locks'
  <2>1. \A q \in Procs : pc'[q] \in Holding <=> pc[q] \in Holding
    BY <1>1, <1>2
  <2>2. \A c \in Bufs : buf'[c].locked = buf[c].locked
    BY Zenon
  <2> QED
    BY <2>1, <2>2, LocksFrame, Zenon
<1>6. Buffers'
  <2>1. \A c \in Bufs : (buf'[c].valid => buf'[c].block # None) /\ (buf'[c].dirty => buf'[c].valid)
    <3>1. buf[b].block # None
      BY <1>2, NoneAssumption DEF Owners
    <3> QED
      BY <3>1, Zenon DEF Buffers
  <2>2. \A q \in Procs : pc[q] \in {"held", "stored"} => mine[q] \in Bufs
    BY Zenon DEF Owners
  <2> QED
    BY <1>1, <2>1, <2>2, Zenon DEF Buffers
<1>7. ~InQueue(b) /\ \A q \in Procs : pc[q] = "io" => mine[q] # b
  BY NotQueued, Zenon DEF Locks, Holding
<1>8. Queued' /\ Driving'
  <2>1. \A q \in Procs : pc'[q] = "io" <=> pc[q] = "io"
    BY <1>1, <1>2, Zenon
  <2> QED
    BY <1>7, <2>1, QueueFrame, Zenon
<1>9. Sleeping'
  <2>1. \A q \in Procs : asleep'[q] => asleep[q] /\ q # p /\ pc'[q] = pc[q]
    BY <1>1, <1>2, Zenon DEF Sleeping
  <2>2. \A q \in Procs : pc[q] = "lock" => mine[q] \in Bufs
    BY Zenon DEF Owners
  <2>3. \A c \in Bufs : buf'[c].locked = buf[c].locked
    BY Zenon
  <2> QED
    BY <2>1, <2>2, <2>3 DEF Sleeping, InQueue
<1> QED
  BY <1>3, <1>4, <1>5, <1>6, <1>8, <1>9, Zenon

\* The memmove into the buffer.
LEMMA StoreStep ==
  ASSUME IInv, NEW p \in Procs, NEW v \in Values, Store(p, v)
  PROVE  /\ IInv'
         /\ buf' \in [Bufs -> BufType] /\ mine[p] \in Bufs
         /\ \A c \in Bufs : c # mine[p] => buf'[c] = buf[c]
         /\ buf'[mine[p]].block = buf[mine[p]].block /\ buf'[mine[p]].data = v
         /\ buf'[mine[p]].valid /\ buf'[mine[p]].dirty = buf[mine[p]].dirty
<1> USE DEF IInv
<1>1. pc[p] = "held" /\ pc[p] \in Holding /\ pc[p] # "io" /\ mine[p] \in Bufs
  BY Zenon DEF Store, Owners, Holding
<1>2. PICK b \in Bufs : b = mine[p]
  BY <1>1, Zenon
<1>3. buf[b].valid
  BY <1>1, <1>2, Zenon DEF Buffers
<1> DEFINE r == [buf[b] EXCEPT !.data = v]
<1>4. /\ r \in BufType /\ r.refcnt = buf[b].refcnt /\ r.data = v
      /\ r.block = buf[b].block /\ r.valid = buf[b].valid
      /\ r.dirty = buf[b].dirty /\ r.locked = buf[b].locked
  <2>1. buf[b] \in BufType
    BY Zenon DEF Types
  <2> QED
    BY <2>1, SetData
<1>5. /\ buf' = [buf EXCEPT ![b] = r] /\ pc' = [pc EXCEPT ![p] = "stored"]
      /\ UNCHANGED <<lru, queue, drive, disk, want, mine, asleep, panicked, driver>>
  BY <1>2, Zenon DEF Store
<1> HIDE DEF r
<1>6. /\ buf' \in [Bufs -> BufType] /\ buf'[b] = r
      /\ \A c \in Bufs : c # b => buf'[c] = buf[c]
  BY <1>4, <1>5, Put, Zenon
<1>7. /\ buf'[b].block = buf[b].block /\ buf'[b].refcnt = buf[b].refcnt
      /\ buf'[b].locked = buf[b].locked /\ buf'[b].valid
      /\ buf'[b].data = v /\ buf'[b].dirty = buf[b].dirty
  BY <1>3, <1>4, <1>6, Zenon
<1>8. IInv'
  <2>1. disk' \in [Blocks -> Values] /\ \A k \in Blocks : k # buf[b].block => disk'[k] = disk[k]
    BY <1>5, Zenon DEF Types
  <2>2. UNCHANGED <<lru, queue, drive, want, mine, asleep, panicked, driver>>
    BY <1>5, Zenon
  <2>3. pc' = [pc EXCEPT ![p] = "stored"]
    BY <1>5, Zenon
  <2> QED
    BY <1>1, <1>2, <1>6, <1>7, <2>1, <2>2, <2>3, HolderStep, Zenon
<1> QED
  BY <1>2, <1>6, <1>7, <1>8, Zenon

\* log_write pins the buffer.
LEMMA LogWriteStep ==
  ASSUME IInv, NEW p \in Procs, log_write(p)
  PROVE  /\ IInv'
         /\ buf' \in [Bufs -> BufType] /\ mine[p] \in Bufs
         /\ \A c \in Bufs : c # mine[p] => buf'[c] = buf[c]
         /\ \A c \in Bufs : /\ buf'[c].block = buf[c].block /\ buf'[c].data = buf[c].data
                            /\ buf'[c].valid = buf[c].valid
         /\ buf'[mine[p]].dirty
<1> USE DEF IInv
<1>1. pc[p] = "stored" /\ pc[p] \in Holding /\ pc[p] # "io" /\ mine[p] \in Bufs
  BY Zenon DEF log_write, Owners, Holding
<1>2. PICK b \in Bufs : b = mine[p]
  BY <1>1, Zenon
<1>3. buf[b].valid
  BY <1>1, <1>2, Zenon DEF Buffers
<1> DEFINE r == [buf[b] EXCEPT !.dirty = TRUE]
<1>4. /\ r \in BufType /\ r.refcnt = buf[b].refcnt /\ r.data = buf[b].data
      /\ r.block = buf[b].block /\ r.valid = buf[b].valid
      /\ r.dirty /\ r.locked = buf[b].locked
  <2>1. buf[b] \in BufType
    BY Zenon DEF Types
  <2> QED
    BY <2>1, SetDirty, Zenon
<1>5. /\ buf' = [buf EXCEPT ![b] = r] /\ pc' = [pc EXCEPT ![p] = "held"]
      /\ UNCHANGED <<lru, queue, drive, disk, want, mine, asleep, panicked, driver>>
  BY <1>2, Zenon DEF log_write
<1> HIDE DEF r
<1>6. /\ buf' \in [Bufs -> BufType] /\ buf'[b] = r
      /\ \A c \in Bufs : c # b => buf'[c] = buf[c]
  BY <1>4, <1>5, Put, Zenon
<1>7. /\ buf'[b].block = buf[b].block /\ buf'[b].refcnt = buf[b].refcnt
      /\ buf'[b].locked = buf[b].locked /\ buf'[b].valid
      /\ buf'[b].data = buf[b].data /\ buf'[b].valid = buf[b].valid /\ buf'[b].dirty
  BY <1>3, <1>4, <1>6, Zenon
<1>8. IInv'
  <2>1. disk' \in [Blocks -> Values] /\ \A k \in Blocks : k # buf[b].block => disk'[k] = disk[k]
    BY <1>5, Zenon DEF Types
  <2>2. UNCHANGED <<lru, queue, drive, want, mine, asleep, panicked, driver>>
    BY <1>5, Zenon
  <2>3. pc' = [pc EXCEPT ![p] = "held"]
    BY <1>5, Zenon
  <2> QED
    BY <1>1, <1>2, <1>6, <1>7, <2>1, <2>2, <2>3, HolderStep, Zenon
<1> QED
  BY <1>2, <1>6, <1>7, <1>8, Zenon

-----------------------------------------------------------------------------
(* The queue of the driver                                                   *)

\* What Append and Tail do to the queue.
LEMMA Appended ==
  ASSUME NEW q \in Seq(Bufs), NEW b \in Bufs, NEW t, t = Append(q, b)
  PROVE  /\ t \in Seq(Bufs) /\ t # <<>>
         /\ \A i \in DOMAIN q : i \in DOMAIN t /\ t[i] = q[i]
         /\ \E n \in DOMAIN t : n \notin DOMAIN q /\ t[n] = b /\ (q = <<>> => n = 1)
                /\ \A i \in DOMAIN t : i = n \/ i \in DOMAIN q
         /\ q # <<>> => 1 \in DOMAIN q
<1>1. t \in Seq(Bufs) /\ Len(t) = Len(q) + 1 /\ t[Len(q) + 1] = b
  OBVIOUS
<1>2. \A i \in 1..Len(q) : t[i] = q[i]
  OBVIOUS
<1>3. Len(q) \in Nat /\ DOMAIN q = 1..Len(q) /\ DOMAIN t = 1..(Len(q) + 1)
  BY <1>1
<1>4. q # <<>> => Len(q) # 0
  OBVIOUS
<1>5. q = <<>> => Len(q) = 0
  OBVIOUS
<1>6. t # <<>>
  BY <1>1, <1>3
<1> DEFINE n == Len(q) + 1
<1>7. /\ n \in DOMAIN t /\ n \notin DOMAIN q /\ (q = <<>> => n = 1)
      /\ \A i \in DOMAIN t : i = n \/ i \in DOMAIN q
  BY <1>3, <1>5
<1>8. \A i \in DOMAIN q : i \in DOMAIN t /\ t[i] = q[i]
  BY <1>2, <1>3
<1>9. q # <<>> => 1 \in DOMAIN q
  BY <1>3, <1>4
<1> QED
  BY <1>1, <1>6, <1>7, <1>8, <1>9, Zenon

LEMMA Tailed ==
  ASSUME queue \in Seq(Bufs), queue # <<>>, queue' = Tail(queue)
  PROVE  /\ queue' \in Seq(Bufs) /\ 1 \in DOMAIN queue /\ Head(queue) = queue[1]
         /\ \A i \in DOMAIN queue' : i \in Nat /\ i + 1 \in DOMAIN queue /\ i + 1 # 1 /\ queue'[i] = queue[i + 1]
         /\ \A i \in DOMAIN queue : i # 1 => \E j \in DOMAIN queue' : queue'[j] = queue[i]
         /\ queue' # <<>> => 1 \in DOMAIN queue' /\ Head(queue') = queue'[1]
<1>1. queue' \in Seq(Bufs) /\ Len(queue') = Len(queue) - 1
  OBVIOUS
<1>2. \A i \in 1..Len(queue') : queue'[i] = queue[i + 1]
  OBVIOUS
<1>3. Len(queue) \in Nat /\ Len(queue) # 0 /\ DOMAIN queue = 1..Len(queue) /\ DOMAIN queue' = 1..(Len(queue) - 1)
  BY <1>1
<1>4. \A i \in DOMAIN queue' : i \in Nat /\ i + 1 \in DOMAIN queue /\ i + 1 # 1 /\ queue'[i] = queue[i + 1]
  BY <1>1, <1>2, <1>3
<1>5. ASSUME NEW i \in DOMAIN queue, i # 1
      PROVE  \E j \in DOMAIN queue' : queue'[j] = queue[i]
  <2>1. i - 1 \in DOMAIN queue' /\ (i - 1) + 1 = i
    BY <1>3, <1>5
  <2>2. queue'[i - 1] = queue[i]
    BY <1>4, <2>1, Zenon
  <2> QED
    BY <2>1, <2>2, Zenon
<1>6. 1 \in DOMAIN queue /\ Head(queue) = queue[1]
  BY <1>3
<1>7. queue' # <<>> => 1 \in DOMAIN queue' /\ Head(queue') = queue'[1]
  BY <1>1
<1> QED
  BY <1>1, <1>4, <1>5, <1>6, <1>7, Zenon

\* What the drive is told.
LEMMA RequestFields ==
  ASSUME NEW r \in BufType, r.block \in Blocks, NEW t,
         t = [block |-> r.block, write |-> r.dirty, data |-> r.data, done |-> FALSE]
  PROVE  /\ t \in Requests
         /\ t.block = r.block /\ t.write = r.dirty /\ t.data = r.data /\ ~t.done
BY Zenon DEF BufType, Requests

\* Who is queued stays queued when the queue grows.
LEMMA QueueGrows ==
  ASSUME \A i \in DOMAIN queue : i \in DOMAIN queue' /\ queue'[i] = queue[i], UNCHANGED mine
  PROVE  \A q \in Procs : InQueue(mine[q]) => InQueue(mine[q])'
BY Zenon DEF InQueue

\* iderw of ide.c: the buffer of p goes to the end of the queue.
LEMMA IdeStep ==
  ASSUME IInv, NEW p \in Procs, NEW b \in Bufs, b = mine[p],
         pc[p] \in {"locked", "stored"},
         buf' \in [Bufs -> BufType],
         \A c \in Bufs : c # b => buf'[c] = buf[c],
         buf'[b].block = buf[b].block /\ buf'[b].refcnt = buf[b].refcnt,
         buf'[b].locked = buf[b].locked, buf'[b].valid = buf[b].valid,
         buf'[b].valid => buf'[b].dirty, buf'[b].dirty => buf'[b].valid,
         queue' = Append(queue, b),
         queue = <<>> => drive' = Request(b), queue # <<>> => drive' = drive,
         pc' = [pc EXCEPT ![p] = "io"], asleep' = [asleep EXCEPT ![p] = TRUE],
         UNCHANGED <<lru, disk, want, mine, panicked, driver>>
  PROVE  IInv'
<1> USE DEF IInv
<1>1. pc'[p] = "io" /\ \A q \in Procs : q # p => pc'[q] = pc[q]
  BY Zenon DEF Types
<1>2. pc[p] \in Holding /\ pc[p] # "io" /\ pc[p] # "idle" /\ pc[p] # "lock" /\ "io" \in Holding
  BY Zenon DEF Holding
<1>3. /\ queue' \in Seq(Bufs) /\ queue' # <<>>
      /\ \A i \in DOMAIN queue : i \in DOMAIN queue' /\ queue'[i] = queue[i]
      /\ \E n \in DOMAIN queue' : n \notin DOMAIN queue /\ queue'[n] = b /\ (queue = <<>> => n = 1)
             /\ \A i \in DOMAIN queue' : i = n \/ i \in DOMAIN queue
      /\ queue # <<>> => 1 \in DOMAIN queue
  <2>1. queue \in Seq(Bufs)
    BY Zenon DEF Types
  <2> QED
    BY <2>1, Appended, SMTT(40), Z3T(40)
<1>4. PICK n \in DOMAIN queue' : /\ n \notin DOMAIN queue /\ queue'[n] = b /\ (queue = <<>> => n = 1)
                                 /\ \A i \in DOMAIN queue' : i = n \/ i \in DOMAIN queue
  BY <1>3, Zenon
<1>5. ~InQueue(b) /\ \A q \in Procs : pc[q] = "io" => mine[q] # b
  BY <1>2, NotQueued, Zenon DEF Locks, Holding
<1>6. queue = <<>> => /\ drive' \in Requests /\ drive'.block = buf'[b].block
                      /\ drive'.write = buf'[b].dirty /\ drive'.data = buf'[b].data
                      /\ ~drive'.done
  <2>1. buf'[b] \in BufType
    BY Zenon
  <2>2. buf'[b].block \in Blocks
    BY <1>2, Zenon DEF Owners
  <2> QED
    BY <2>1, <2>2, RequestFields, Zenon DEF Request
<1>7. Types'
  <2>1. drive' \in {None} \cup Requests
    BY <1>6, Zenon DEF Types
  <2> QED
    BY <1>3, <2>1, Zenon DEF Types, Holding
<1>8. Owners' /\ Counts' /\ Once'
  <2>1. \A q \in Procs : pc'[q] = "idle" <=> pc[q] = "idle"
    BY <1>1, <1>2, Zenon
  <2>2. \A c \in Bufs : buf'[c].block = buf[c].block /\ buf'[c].refcnt = buf[c].refcnt
    BY Zenon
  <2> QED
    BY <2>1, <2>2, OwnersFrame, Zenon
<1>9. Locks'
  <2>1. \A q \in Procs : pc'[q] \in Holding <=> pc[q] \in Holding
    BY <1>1, <1>2, Zenon
  <2>2. \A c \in Bufs : buf'[c].locked = buf[c].locked
    BY Zenon
  <2> QED
    BY <2>1, <2>2, LocksFrame, Zenon
<1>10. Buffers'
  <2>1. \A c \in Bufs : (buf'[c].valid => buf'[c].block # None) /\ (buf'[c].dirty => buf'[c].valid)
    BY Zenon DEF Buffers
  <2>2. \A q \in Procs : pc'[q] \in {"held", "stored"} =>
            pc[q] \in {"held", "stored"} /\ mine[q] \in Bufs
    BY <1>1, Zenon DEF Owners
  <2>3. \A c \in Bufs : buf'[c].valid = buf[c].valid
    BY Zenon
  <2> QED
    BY <2>1, <2>2, <2>3, Zenon DEF Buffers
<1>11. Queued'
  <2>1. \A i, j \in DOMAIN queue' : queue'[i] = queue'[j] => i = j
    BY <1>3, <1>4, <1>5, SMTT(40), Z3T(40) DEF Queued, InQueue
  <2>2. \A q \in Procs : pc[q] = "io" => pc'[q] = "io" /\ q # p /\ mine[q] \in Bufs
    BY <1>1, <1>2, Zenon DEF Owners
  <2>3. \A i \in DOMAIN queue : queue[i] \in Bufs /\ queue[i] # b
    BY <1>5, SMTT(20), Z3T(20) DEF Types, InQueue
  <2>4. ~(buf'[b].valid /\ ~buf'[b].dirty)
    BY Zenon
  <2>5. \A c \in Bufs : c # b => (Serviced(c)' <=> Serviced(c))
    BY Zenon DEF Serviced
  <2>6. \A i \in DOMAIN queue' : ~(buf'[queue'[i]].valid /\ ~buf'[queue'[i]].dirty) /\ \E q \in Procs : pc'[q] = "io" /\ mine'[q] = queue'[i]
    <3> SUFFICES ASSUME NEW i \in DOMAIN queue'
                 PROVE  ~(buf'[queue'[i]].valid /\ ~buf'[queue'[i]].dirty) /\ \E q \in Procs : pc'[q] = "io" /\ mine'[q] = queue'[i]
      BY Zenon
    <3>1. CASE i = n
      BY <1>1, <1>4, <2>4, <3>1, Zenon
    <3>2. CASE i \in DOMAIN queue
      <4>1. queue'[i] = queue[i] /\ buf'[queue[i]] = buf[queue[i]]
        BY <1>3, <2>3, <3>2, Zenon
      <4> QED
        <5>1. ~(buf[queue[i]].valid /\ ~buf[queue[i]].dirty)
          BY <3>2, Zenon DEF Queued, Serviced
        <5>2. PICK q \in Procs : pc[q] = "io" /\ mine[q] = queue[i]
          BY <3>2, Zenon DEF Queued
        <5>3. pc'[q] = "io" /\ mine'[q] = queue'[i]
          BY <2>2, <4>1, <5>2, Zenon
        <5> QED
          BY <4>1, <5>1, <5>3, Zenon
    <3> QED
      BY <1>4, <3>1, <3>2, Zenon
  <2>7. \A q \in Procs : pc'[q] = "io" => (Serviced(mine[q]) \/ InQueue(mine[q]))'
    <3> SUFFICES ASSUME NEW q \in Procs, pc'[q] = "io"
                 PROVE  (Serviced(mine[q]) \/ InQueue(mine[q]))'
      BY Zenon
    <3>1. CASE q = p
      BY <1>4, <3>1, ZenonT(60) DEF InQueue
    <3>2. CASE q # p
      <4>1. pc[q] = "io" /\ mine[q] \in Bufs /\ mine[q] # b
        BY <1>1, <1>5, <2>2, <3>2, Zenon
      <4>2. Serviced(mine[q]) => Serviced(mine[q])'
        BY <2>5, <4>1, Zenon DEF Serviced
      <4>3. InQueue(mine[q]) => InQueue(mine[q])'
        BY <1>3, QueueGrows, Zenon
      <4> QED
        BY <4>1, <4>2, <4>3, Zenon DEF Queued
    <3> QED
      BY <3>1, <3>2, Zenon
  <2> QED
    BY <2>1, <2>6, <2>7, Zenon DEF Queued, Serviced, InQueue
<1>12. Driving'
  <2>1. CASE queue = <<>>
    <3>1. queue'[1] = b
      BY <1>4, <2>1, Zenon
    <3>2. drive' # None
      BY <1>6, <2>1, NoneAssumption, Zenon
    <3> QED
      BY <1>3, <1>6, <2>1, <3>1, <3>2, Zenon DEF Driving
  <2>2. CASE queue # <<>>
    <3>1. queue'[1] = queue[1] /\ queue[1] # b /\ queue[1] \in Bufs
      BY <1>3, <1>5, <2>2, SMTT(60), Z3T(60) DEF InQueue, Types
    <3>2. buf'[queue'[1]] = buf[queue[1]] /\ drive' = drive /\ disk' = disk /\ queue' # <<>>
      BY <1>3, <2>2, <3>1, SMTT(40), Z3T(40)
    <3>3. /\ drive # None /\ drive.block = buf[queue[1]].block /\ drive.write = buf[queue[1]].dirty
          /\ drive.data = buf[queue[1]].data /\ (drive.done /\ drive.write => disk[drive.block] = drive.data)
      BY <2>2, Zenon DEF Driving
    <3> QED
      BY <3>2, <3>3, Zenon DEF Driving
  <2> QED
    BY <2>1, <2>2, Zenon
<1>13. Sleeping'
  <2>1. \A q \in Procs : asleep'[q] => q = p \/ (asleep[q] /\ pc'[q] = pc[q])
    BY <1>1, Zenon DEF Types
  <2>2. \A q \in Procs : pc[q] = "lock" => mine[q] \in Bufs
    BY Zenon DEF Owners
  <2>3. \A c \in Bufs : buf'[c].locked = buf[c].locked
    BY Zenon
  <2>4. \A q \in Procs : InQueue(mine[q]) => InQueue(mine[q])'
    BY <1>3, QueueGrows, Zenon
  <2>5. InQueue(mine[p])'
    BY <1>4, Zenon DEF InQueue
  <2> SUFFICES ASSUME NEW q \in Procs, asleep'[q]
               PROVE  \/ pc'[q] = "lock" /\ buf'[mine'[q]].locked
                      \/ pc'[q] = "io" /\ InQueue(mine[q])'
    BY Zenon DEF Sleeping
  <2>6. CASE q = p
    BY <1>1, <2>5, <2>6, Zenon
  <2>7. CASE q # p
    <3>1. \/ pc[q] = "lock" /\ buf[mine[q]].locked
          \/ pc[q] = "io" /\ InQueue(mine[q])
      BY <2>1, <2>7, Zenon DEF Sleeping
    <3> QED
      BY <2>1, <2>2, <2>3, <2>4, <2>7, <3>1, Zenon
  <2> QED
    BY <2>6, <2>7, Zenon
<1> QED
  BY <1>7, <1>8, <1>9, <1>10, <1>11, <1>12, <1>13, Zenon

\* bread and bwrite, each with either driver.
LEMMA BreadStep ==
  ASSUME IInv, NEW p \in Procs, bread(p)
  PROVE  /\ IInv' /\ mine[p] \in Bufs
         /\ \/ Kept /\ buf[mine[p]].valid /\ pc' = [pc EXCEPT ![p] = "held"]
            \/ Kept /\ ~buf[mine[p]].valid /\ pc' = [pc EXCEPT ![p] = "io"]
            \/ /\ ~buf[mine[p]].valid /\ disk' = disk /\ pc' = [pc EXCEPT ![p] = "held"]
               /\ \A c \in Bufs : c # mine[p] => buf'[c] = buf[c]
               /\ buf'[mine[p]].block = buf[mine[p]].block /\ buf'[mine[p]].valid
               /\ ~buf'[mine[p]].dirty /\ buf'[mine[p]].data = disk[buf[mine[p]].block]
<1> USE DEF IInv
<1>1. pc[p] = "locked" /\ pc[p] \in Holding /\ pc[p] # "io" /\ mine[p] \in Bufs
  BY Zenon DEF bread, Owners, Holding
<1>2. PICK b \in Bufs : b = mine[p]
  BY <1>1, Zenon
<1>3. UNCHANGED <<lru, want, mine, panicked, driver>>
  BY Zenon DEF bread
<1>4. CASE buf[b].valid
  <2>1. pc' = [pc EXCEPT ![p] = "held"] /\ UNCHANGED <<buf, queue, drive, disk, asleep>>
    BY <1>2, <1>4, Zenon DEF bread
  <2>2. buf' \in [Bufs -> BufType] /\ disk' \in [Blocks -> Values]
    BY <2>1, Zenon DEF Types
  <2>3. IInv'
    BY <1>1, <1>2, <1>3, <1>4, <2>1, <2>2, HolderStep, Zenon
  <2> QED
    BY <1>1, <1>2, <1>4, <2>1, <2>3, Zenon DEF Kept
<1>5. CASE ~buf[b].valid
  <2>1. iderw(p, buf)
    BY <1>2, <1>5, Zenon DEF bread
  <2>2. CASE driver = "ide"
    <3>1. /\ buf' = buf /\ queue' = Append(queue, b)
          /\ IF queue = <<>> THEN drive' = Request(b) ELSE UNCHANGED drive
          /\ pc' = [pc EXCEPT ![p] = "io"] /\ asleep' = [asleep EXCEPT ![p] = TRUE]
          /\ UNCHANGED disk
      BY <1>2, <2>1, <2>2, Zenon DEF iderw, iderwIde, idestart
    <3>2. buf' \in [Bufs -> BufType]
      BY <3>1, Zenon DEF Types
    <3>3. ~buf[b].dirty
      BY <1>5, Zenon DEF Buffers
    <3>4. IInv'
      BY <1>1, <1>2, <1>3, <1>5, <3>1, <3>2, <3>3, IdeStep, Zenon
    <3> QED
      BY <1>1, <1>2, <1>5, <3>1, <3>4, Zenon DEF Kept
  <2>3. CASE driver # "ide"
    <3>1. ~buf[b].dirty /\ buf[b].block \in Blocks
      BY <1>1, <1>2, <1>5, Zenon DEF Buffers, Owners
    <3>2. /\ disk' = disk
          /\ buf' = [buf EXCEPT ![b].data = disk[buf[b].block], ![b].dirty = FALSE, ![b].valid = TRUE]
          /\ pc' = [pc EXCEPT ![p] = "held"]
          /\ UNCHANGED <<queue, drive, asleep>>
      BY <1>2, <2>1, <2>3, <3>1, Zenon DEF iderw, iderwMem
    <3>3. /\ buf' \in [Bufs -> BufType]
          /\ \A c \in Bufs : c # b => buf'[c] = buf[c]
          /\ buf'[b].block = buf[b].block /\ buf'[b].refcnt = buf[b].refcnt
          /\ buf'[b].locked = buf[b].locked /\ buf'[b].valid /\ ~buf'[b].dirty
          /\ buf'[b].data = disk[buf[b].block]
      BY <3>1, <3>2, MemRead, Zenon DEF Types
    <3>4. disk' \in [Blocks -> Values] /\ \A k \in Blocks : k # buf[b].block => disk'[k] = disk[k]
      BY <3>2, Zenon DEF Types
    <3>5. UNCHANGED <<lru, queue, drive, want, mine, asleep, panicked, driver>>
      BY <1>3, <3>2, Zenon
    <3>6. pc' = [pc EXCEPT ![p] = "held"]
      BY <3>2, Zenon
    <3>7. IInv'
      BY <1>1, <1>2, <3>3, <3>4, <3>5, <3>6, HolderStep, Zenon
    <3> QED
      BY <1>1, <1>2, <1>5, <3>2, <3>3, <3>6, <3>7, Zenon
  <2> QED
    BY <2>2, <2>3, Zenon
<1> QED
  BY <1>4, <1>5, Zenon

LEMMA BwriteStep ==
  ASSUME IInv, NEW p \in Procs, bwrite(p)
  PROVE  /\ IInv' /\ mine[p] \in Bufs
         /\ \A c \in Bufs : c # mine[p] => buf'[c] = buf[c]
         /\ \A c \in Bufs : /\ buf'[c].block = buf[c].block /\ buf'[c].data = buf[c].data
                            /\ buf'[c].valid = buf[c].valid
         /\ buf[mine[p]].valid /\ buf[mine[p]].block \in Blocks
         /\ \/ /\ disk' = disk /\ buf'[mine[p]].dirty
               /\ pc' = [pc EXCEPT ![p] = "io"]
            \/ /\ disk' = [disk EXCEPT ![buf[mine[p]].block] = buf[mine[p]].data]
               /\ pc' = [pc EXCEPT ![p] = "held"]
<1> USE DEF IInv
<1>1. pc[p] = "stored" /\ pc[p] \in Holding /\ pc[p] # "io" /\ mine[p] \in Bufs
  BY Zenon DEF bwrite, Owners, Holding
<1>2. PICK b \in Bufs : b = mine[p]
  BY <1>1, Zenon
<1>3. UNCHANGED <<lru, want, mine, panicked, driver>>
  BY Zenon DEF bwrite
<1>4. buf[b].valid /\ buf[b].block \in Blocks /\ buf[b] \in BufType
  BY <1>1, <1>2, Zenon DEF Buffers, Owners, Types
<1> DEFINE f == [buf EXCEPT ![b].dirty = TRUE]
<1>5. iderw(p, f)
  BY <1>2, Zenon DEF bwrite
<1>6. CASE driver = "ide"
  <2>1. /\ buf' = f /\ queue' = Append(queue, b)
        /\ IF queue = <<>> THEN drive' = Request(b) ELSE UNCHANGED drive
        /\ pc' = [pc EXCEPT ![p] = "io"] /\ asleep' = [asleep EXCEPT ![p] = TRUE]
        /\ UNCHANGED disk
    BY <1>2, <1>5, <1>6, Zenon DEF iderw, iderwIde, idestart
  <2> DEFINE r == [buf[b] EXCEPT !.dirty = TRUE]
  <2>2. /\ r \in BufType /\ r.refcnt = buf[b].refcnt /\ r.data = buf[b].data
        /\ r.block = buf[b].block /\ r.valid = buf[b].valid
        /\ r.dirty /\ r.locked = buf[b].locked
    BY <1>4, SetDirty, Zenon
  <2>3. buf' = [buf EXCEPT ![b] = r]
    BY <2>1, Zenon
  <2> HIDE DEF r, f
  <2>4. /\ buf' \in [Bufs -> BufType] /\ buf'[b] = r
        /\ \A c \in Bufs : c # b => buf'[c] = buf[c]
    BY <2>2, <2>3, Put, Zenon
  <2>5. /\ buf'[b].block = buf[b].block /\ buf'[b].refcnt = buf[b].refcnt
        /\ buf'[b].locked = buf[b].locked /\ buf'[b].valid = buf[b].valid
        /\ buf'[b].dirty /\ buf'[b].valid /\ buf'[b].data = buf[b].data
    BY <1>4, <2>2, <2>4, Zenon
  <2>6. IInv'
    BY <1>1, <1>2, <1>3, <2>1, <2>4, <2>5, IdeStep, Zenon
  <2> QED
    BY <1>1, <1>2, <1>4, <2>1, <2>4, <2>5, <2>6, Zenon
<1>7. CASE driver # "ide"
  <2>1. /\ disk' = [disk EXCEPT ![buf[b].block] = buf[b].data]
        /\ buf' = [f EXCEPT ![b].data = buf[b].data, ![b].dirty = FALSE, ![b].valid = TRUE]
        /\ pc' = [pc EXCEPT ![p] = "held"]
        /\ UNCHANGED <<queue, drive, asleep>>
    <3>1. f[b].dirty /\ f[b].block = buf[b].block /\ f[b].data = buf[b].data
      BY <1>4, Zenon DEF Types, BufType
    <3> QED
      BY <1>2, <1>5, <1>7, <3>1, Zenon DEF iderw, iderwMem
  <2>2. buf[b].data \in Values
    BY <1>4, Zenon DEF BufType
  <2>3. /\ buf' \in [Bufs -> BufType]
        /\ \A c \in Bufs : c # b => buf'[c] = buf[c]
        /\ buf'[b].block = buf[b].block /\ buf'[b].refcnt = buf[b].refcnt
        /\ buf'[b].locked = buf[b].locked /\ buf'[b].valid /\ ~buf'[b].dirty
        /\ buf'[b].data = buf[b].data
    BY <2>1, <2>2, MemWrite, Zenon DEF Types
  <2>4. disk' \in [Blocks -> Values] /\ \A k \in Blocks : k # buf[b].block => disk'[k] = disk[k]
    BY <1>4, <2>1, <2>2, Zenon DEF Types
  <2>5. UNCHANGED <<lru, queue, drive, want, mine, asleep, panicked, driver>>
    BY <1>3, <2>1, Zenon
  <2>6. pc' = [pc EXCEPT ![p] = "held"]
    BY <2>1, Zenon
  <2> HIDE DEF f
  <2>7. IInv'
    BY <1>1, <1>2, <2>3, <2>4, <2>5, <2>6, HolderStep, Zenon
  <2>8. buf'[b].valid = buf[b].valid
    BY <1>4, <2>3
  <2> QED
    BY <1>1, <1>2, <1>4, <2>1, <2>3, <2>6, <2>7, <2>8, Zenon
<1> QED
  BY <1>6, <1>7, Zenon

\* A process in iderw finds its request done and leaves, or sleeps again.
LEMMA LoopStep ==
  ASSUME IInv, NEW p \in Procs, iderwLoop(p)
  PROVE  IInv' /\ Kept
<1> USE DEF IInv
<1>1. pc[p] = "io" /\ ~asleep[p] /\ mine[p] \in Bufs
  BY Zenon DEF iderwLoop, Owners
<1>2. UNCHANGED <<lru, buf, queue, drive, disk, want, mine, panicked, driver>>
  BY Zenon DEF iderwLoop
<1>3. CASE Serviced(mine[p])
  <2>1. pc' = [pc EXCEPT ![p] = "held"] /\ UNCHANGED asleep
    BY <1>3, Zenon DEF iderwLoop, Serviced
  <2>2. pc'[p] = "held" /\ \A q \in Procs : q # p => pc'[q] = pc[q]
    BY <2>1, Zenon DEF Types
  <2>3. Types'
    BY <1>2, <2>1, Zenon DEF Types, Holding
  <2>4. Owners' /\ Counts' /\ Once'
    BY <1>1, <1>2, <2>2, OwnersFrame, Zenon
  <2>5. Locks'
    <3>1. \A q \in Procs : pc'[q] \in Holding <=> pc[q] \in Holding
      BY <1>1, <2>2, Zenon DEF Holding
    <3> QED
      BY <1>2, <3>1, LocksFrame, Zenon
  <2>6. Buffers'
    BY <1>2, <1>3, <2>2, Zenon DEF Buffers, Serviced
  <2>7. ~InQueue(mine[p])
    BY <1>3, Zenon DEF Queued, InQueue
  <2>8. Queued'
    <3>1. ASSUME NEW i \in DOMAIN queue PROVE \E q \in Procs : pc'[q] = "io" /\ mine[q] = queue[i]
      <4>1. PICK q \in Procs : pc[q] = "io" /\ mine[q] = queue[i]
        BY Zenon DEF Queued
      <4>2. q # p
        BY <2>7, <4>1, Zenon DEF InQueue
      <4> QED
        BY <2>2, <4>1, <4>2, Zenon
    <3>2. \A q \in Procs : pc'[q] = "io" => pc[q] = "io"
      BY <1>1, <2>2, Zenon
    <3> QED
      BY <1>2, <3>1, <3>2, SMTT(40), Z3T(40) DEF Queued, InQueue, Serviced
  <2>9. Driving'
    BY <1>2, Zenon DEF Driving
  <2>10. Sleeping'
    BY <1>1, <1>2, <2>1, <2>2, Zenon DEF Sleeping, InQueue
  <2> QED
    BY <1>2, <2>3, <2>4, <2>5, <2>6, <2>8, <2>9, <2>10, Zenon DEF Kept
<1>4. CASE ~Serviced(mine[p])
  <2>1. asleep' = [asleep EXCEPT ![p] = TRUE] /\ UNCHANGED pc
    BY <1>4, Zenon DEF iderwLoop, Serviced
  <2>2. Types'
    BY <1>2, <2>1, Zenon DEF Types
  <2>3. InQueue(mine[p])
    BY <1>1, <1>4, Zenon DEF Queued
  <2>4. Sleeping'
    BY <1>1, <1>2, <2>1, <2>3, Zenon DEF Sleeping, Types, InQueue
  <2> QED
    BY <1>2, <2>1, <2>2, <2>4, SameBuffers, Zenon DEF Kept
<1> QED
  BY <1>3, <1>4, Zenon
=============================================================================
