------------------------------- MODULE Bcache -------------------------------
(* The buffer cache (kernel/bio.c), the sleeping locks of its buffers        *)
(* (kernel/sleeplock.c) and the disk driver under it: the interrupt-driven   *)
(* queue of kernel/ide.c, or the disk in memory of kernel/memide.c.          *)
(*                                                                           *)
(* A process reads a block, may change it and write it through (bwrite) or   *)
(* leave it pinned for the log (log_write sets B_DIRTY), and releases it.    *)
(* A section under a spinlock is one step; an interrupt or another process   *)
(* comes between two sections.  A sleeping process is one whose "asleep" is  *)
(* set; wakeup clears it, and the process then re-tests its condition.       *)
EXTENDS Naturals, Sequences, FiniteSets, Functions

CONSTANTS
    Procs,        \* the processes in the kernel
    Blocks,       \* the disk blocks they use
    Values,       \* what a block may contain
    BufOrder,     \* the buffers, in the order binit leaves them
    None,         \* no block, no buffer, no request
    ReadErrors    \* whether the drive may report DF or ERR on a read

Bufs == Range(BufOrder)

\* What iderw hands to the drive.
Requests == [block : Blocks, write : BOOLEAN, data : Values, done : BOOLEAN]

ASSUME NoneAssumption == None \notin Blocks \cup Bufs \cup Requests
ASSUME SizeAssumption == IsFiniteSet(Procs) /\ Values # {} /\ BufOrder \in Seq(Bufs)

VARIABLES
    lru,      \* the list through prev/next, most recently used first
    buf,      \* the fields of struct buf
    queue,    \* idequeue
    drive,    \* the request the drive is working on, None when idle
    disk,     \* what is on the platter
    pc,       \* where each process is
    want,     \* the blockno it passed to bread
    mine,     \* the buffer bget gave it
    asleep,   \* whether it is SLEEPING
    panicked,
    driver    \* the driver the kernel is linked with, "ide" or "memide"

vars == <<lru, buf, queue, drive, disk, pc, want, mine, asleep, panicked, driver>>

pvars == <<pc, want, mine, asleep>>

EmptyBuf == [block |-> None, valid |-> FALSE, dirty |-> FALSE, refcnt |-> 0,
             locked |-> FALSE, data |-> CHOOSE v \in Values : TRUE]

\* The memory of a booted kernel.
binit ==
    /\ lru = BufOrder
    /\ buf = [b \in Bufs |-> EmptyBuf]
    /\ queue = <<>>
    /\ drive = None
    /\ pc = [p \in Procs |-> "idle"]
    /\ want = [p \in Procs |-> None]
    /\ mine = [p \in Procs |-> None]
    /\ asleep = [p \in Procs |-> FALSE]
    /\ panicked = FALSE

Init ==
    /\ binit
    /\ disk \in [Blocks -> Values]
    /\ driver \in {"ide", "memide"}

-----------------------------------------------------------------------------
(* bget *)

\* The buffer a process gets: the one that caches the block, or else the
\* least recently used one that is neither referenced nor dirty.
Cached(k) == {b \in Bufs : buf[b].block = k}
ReusableUnlocked(b) == ~buf[b].locked /\ ~buf[b].dirty
ReusableUnpinned(b) == buf[b].refcnt = 0
Reusable(b) == buf[b].refcnt = 0 /\ ~buf[b].dirty
Victim == lru[CHOOSE i \in DOMAIN lru :
                 /\ Reusable(lru[i])
                 /\ \A j \in DOMAIN lru : Reusable(lru[j]) => j <= i]

Enter(p, k, b) ==
    /\ pc' = [pc EXCEPT ![p] = "lock"]
    /\ want' = [want EXCEPT ![p] = k]
    /\ mine' = [mine EXCEPT ![p] = b]
    /\ UNCHANGED <<lru, queue, drive, disk, asleep, panicked, driver>>

BgetHit(p, k) ==
    /\ pc[p] = "idle"
    /\ \E b \in Cached(k) :
          /\ buf' = [buf EXCEPT ![b].refcnt = @ + 1]
          /\ Enter(p, k, b)

BgetMiss(p, k) ==
    /\ pc[p] = "idle"
    /\ Cached(k) = {}
    /\ \E b \in Bufs : Reusable(b)
    /\ buf' = [buf EXCEPT ![Victim].block = k, ![Victim].valid = FALSE,
                          ![Victim].dirty = FALSE, ![Victim].refcnt = 1]
    /\ Enter(p, k, Victim)

\* panic("bget: no buffers")
BgetPanic(p, k) ==
    /\ pc[p] = "idle"
    /\ Cached(k) = {}
    /\ \A b \in Bufs : ~Reusable(b)
    /\ panicked' = TRUE
    /\ UNCHANGED <<lru, buf, queue, drive, disk, pvars, driver>>

\* One pass of acquiresleep's loop.
acquiresleep(p) ==
    /\ pc[p] = "lock" /\ ~asleep[p]
    /\ IF buf[mine[p]].locked
       THEN asleep' = [asleep EXCEPT ![p] = TRUE] /\ UNCHANGED <<buf, pc>>
       ELSE /\ buf' = [buf EXCEPT ![mine[p]].locked = TRUE]
            /\ pc' = [pc EXCEPT ![p] = "locked"]
            /\ UNCHANGED asleep
    /\ UNCHANGED <<lru, queue, drive, disk, want, mine, panicked, driver>>

-----------------------------------------------------------------------------
(* The disk *)

Request(b) == [block |-> buf'[b].block, write |-> buf'[b].dirty,
               data |-> buf'[b].data, done |-> FALSE]

\* What idestart programs into the drive; the data of a write goes with it.
idestart(b) == drive' = Request(b)

\* ide.c: iderw up to its first sleep.
iderwIde(p, f) ==
    /\ buf' = f
    /\ queue' = Append(queue, mine[p])
    /\ IF queue = <<>> THEN idestart(mine[p]) ELSE UNCHANGED drive
    /\ pc' = [pc EXCEPT ![p] = "io"]
    /\ asleep' = [asleep EXCEPT ![p] = TRUE]
    /\ UNCHANGED disk

\* memide.c: iderw copies at once.
iderwMem(p, f) ==
    LET b == mine[p]  k == f[b].block
    IN  /\ disk' = IF f[b].dirty THEN [disk EXCEPT ![k] = f[b].data] ELSE disk
        /\ buf' = [f EXCEPT ![b].data = IF f[b].dirty THEN @ ELSE disk[k],
                            ![b].dirty = FALSE, ![b].valid = TRUE]
        /\ pc' = [pc EXCEPT ![p] = "held"]
        /\ UNCHANGED <<queue, drive, asleep>>

\* iderw on the buffers as f has them.
iderw(p, f) == IF driver = "ide" THEN iderwIde(p, f) ELSE iderwMem(p, f)

\* bread after bget.
bread(p) ==
    /\ pc[p] = "locked"
    /\ IF buf[mine[p]].valid
       THEN pc' = [pc EXCEPT ![p] = "held"] /\ UNCHANGED <<buf, queue, drive, disk, asleep>>
       ELSE iderw(p, buf)
    /\ UNCHANGED <<lru, want, mine, panicked, driver>>

bwrite(p) ==
    /\ pc[p] = "stored"
    /\ iderw(p, [buf EXCEPT ![mine[p]].dirty = TRUE])
    /\ UNCHANGED <<lru, want, mine, panicked, driver>>

\* iderw's loop after a wakeup.
iderwLoop(p) ==
    /\ pc[p] = "io" /\ ~asleep[p]
    /\ IF buf[mine[p]].valid /\ ~buf[mine[p]].dirty
       THEN pc' = [pc EXCEPT ![p] = "held"] /\ UNCHANGED asleep
       ELSE asleep' = [asleep EXCEPT ![p] = TRUE] /\ UNCHANGED pc
    /\ UNCHANGED <<lru, buf, queue, drive, disk, want, mine, panicked, driver>>

\* The drive finishes its request and raises IRQ_IDE.
DriveDone ==
    /\ drive # None /\ ~drive.done
    /\ drive' = [drive EXCEPT !.done = TRUE]
    /\ disk' = IF drive.write THEN [disk EXCEPT ![drive.block] = drive.data]
                              ELSE disk
    /\ UNCHANGED <<lru, buf, queue, pvars, panicked, driver>>

\* idewait(1) fails only when the drive reports an error.
ReadStatus == IF ReadErrors THEN {"ok", "error"} ELSE {"ok"}

\* Disk work for the rest of the queue.
StartNextNever(q) == drive' = None
StartNext(q) == IF q # <<>> THEN idestart(Head(q)) ELSE drive' = None

ideintr ==
    /\ drive # None /\ drive.done
    /\ queue # <<>>
    /\ LET b == Head(queue)
       IN  /\ \E s \in ReadStatus :
                buf' = [buf EXCEPT ![b].valid = TRUE, ![b].dirty = FALSE,
                          ![b].data = IF ~buf[b].dirty /\ s = "ok"
                                      THEN disk[drive.block] ELSE @]
           /\ asleep' = [p \in Procs |-> asleep[p] /\ ~(pc[p] = "io" /\ mine[p] = b)]
    /\ queue' = Tail(queue)
    /\ StartNext(Tail(queue))
    /\ UNCHANGED <<lru, disk, pc, want, mine, panicked, driver>>

-----------------------------------------------------------------------------
(* What a holder does with its buffer *)

\* The memmove into b->data ...
Store(p, v) ==
    /\ pc[p] = "held"
    /\ buf' = [buf EXCEPT ![mine[p]].data = v]
    /\ pc' = [pc EXCEPT ![p] = "stored"]
    /\ UNCHANGED <<lru, queue, drive, disk, want, mine, asleep, panicked, driver>>

\* ... that a bwrite follows, or a log_write, which pins the buffer.
log_write(p) ==
    /\ pc[p] = "stored"
    /\ buf' = [buf EXCEPT ![mine[p]].dirty = TRUE]
    /\ pc' = [pc EXCEPT ![p] = "held"]
    /\ UNCHANGED <<lru, queue, drive, disk, want, mine, asleep, panicked, driver>>

\* Who still sleeps after wakeup(&b->lock).
WakeNobody(b) == asleep
WakeLock(b) == [q \in Procs |-> asleep[q] /\ ~(pc[q] = "lock" /\ mine[q] = b)]

\* brelse gives up the sleeping lock first ...
releasesleep(p) ==
    /\ pc[p] = "held"
    /\ buf' = [buf EXCEPT ![mine[p]].locked = FALSE]
    /\ asleep' = WakeLock(mine[p])
    /\ pc' = [pc EXCEPT ![p] = "drop"]
    /\ UNCHANGED <<lru, queue, drive, disk, want, mine, panicked, driver>>

\* The list after b is unlinked and put in again behind the head.
ToFront(b) ==
    LET i == CHOOSE j \in DOMAIN lru : lru[j] = b
    IN  [j \in DOMAIN lru |-> IF j = 1 THEN b ELSE IF j <= i THEN lru[j - 1] ELSE lru[j]]

\* ... and its reference in a second critical section.
brelse(p) ==
    /\ pc[p] = "drop"
    /\ buf' = [buf EXCEPT ![mine[p]].refcnt = @ - 1]
    /\ lru' = IF buf[mine[p]].refcnt = 1 THEN ToFront(mine[p]) ELSE lru
    /\ pc' = [pc EXCEPT ![p] = "idle"]
    /\ want' = [want EXCEPT ![p] = None]
    /\ mine' = [mine EXCEPT ![p] = None]
    /\ UNCHANGED <<queue, drive, disk, asleep, panicked, driver>>

\* Power is cut, or bwrite's crash counter runs out: memory is gone.
reboot ==
    /\ lru' = BufOrder
    /\ buf' = [b \in Bufs |-> EmptyBuf]
    /\ queue' = <<>>
    /\ drive' = None
    /\ pc' = [p \in Procs |-> "idle"]
    /\ want' = [p \in Procs |-> None]
    /\ mine' = [p \in Procs |-> None]
    /\ asleep' = [p \in Procs |-> FALSE]
    /\ panicked' = FALSE
    /\ UNCHANGED <<disk, driver>>

ProcStep(p) ==
    \/ acquiresleep(p) \/ bread(p) \/ bwrite(p) \/ iderwLoop(p)
    \/ log_write(p) \/ releasesleep(p) \/ brelse(p)
    \/ \E k \in Blocks : BgetHit(p, k) \/ BgetMiss(p, k) \/ BgetPanic(p, k)
    \/ \E v \in Values : Store(p, v)

Next ==
    \/ ~panicked /\ \E p \in Procs : ProcStep(p)
    \/ ~panicked /\ (DriveDone \/ ideintr)
    \/ reboot

\* The scheduler runs a runnable process again, and the drive answers.
Fairness ==
    /\ \A p \in Procs : WF_vars(~panicked /\ (iderwLoop(p) \/ bread(p)))
    /\ WF_vars(~panicked /\ (DriveDone \/ ideintr))

Spec == Init /\ [][Next]_vars /\ Fairness
-----------------------------------------------------------------------------
Holding == {"locked", "held", "stored", "io"}

(* The fields of bufs, sleeplocks, queue and drive keep their types.        *)
TypeOK ==
    /\ lru \in Seq(Bufs) /\ Range(lru) = Bufs /\ Len(lru) = Len(BufOrder)
    /\ buf \in [Bufs -> [block : Blocks \cup {None}, valid : BOOLEAN, dirty : BOOLEAN,
                         refcnt : 0..Cardinality(Procs), locked : BOOLEAN, data : Values]]
    /\ queue \in Seq(Bufs)
    /\ drive \in {None} \cup Requests
    /\ disk \in [Blocks -> Values]
    /\ pc \in [Procs -> Holding \cup {"idle", "lock", "drop"}]
    /\ want \in [Procs -> Blocks \cup {None}]
    /\ mine \in [Procs -> Bufs \cup {None}]
    /\ asleep \in [Procs -> BOOLEAN]
    /\ panicked \in BOOLEAN /\ driver \in {"ide", "memide"}

\* A buffer is never given to another block under a process that still has a
\* pointer to it (bget recycles only refcnt 0, brelse drops its reference only
\* after the lock), and no block is cached twice.
References ==
    /\ \A p \in Procs : pc[p] # "idle" => buf[mine[p]].block = want[p]
    /\ \A b \in Bufs : buf[b].refcnt = Cardinality({p \in Procs : mine[p] = b})
    /\ \A k \in Blocks : Cardinality(Cached(k)) <= 1

\* Only one process at a time can use a buffer (bio.c:13): holders of one
\* buffer are one process, and the lock is taken exactly while there is one.
OneHolder ==
    \A b \in Bufs :
        Cardinality({p \in Procs : pc[p] \in Holding /\ mine[p] = b})
            = IF buf[b].locked THEN 1 ELSE 0

\* Who has a buffer has it alone and keeps it, through both halves of brelse
\* and whoever recycles buffers meanwhile.
NeverStolen == TypeOK /\ References /\ OneHolder

\* No process sleeps for a wakeup that is not coming: who sleeps on a buffer's
\* lock sleeps while somebody holds it, who sleeps in iderw has its buffer in
\* idequeue, once, and the drive works on the head of idequeue.
NoLostWakeup ==
    /\ \A p \in Procs : asleep[p] =>
          \/ pc[p] = "lock" /\ buf[mine[p]].locked
          \/ pc[p] = "io" /\ \E i \in DOMAIN queue : queue[i] = mine[p]
    /\ IsInjective(queue)
    /\ (queue # <<>>) = (drive # None)
    /\ queue # <<>> => /\ drive.block = buf[Head(queue)].block
                       /\ drive.write = buf[Head(queue)].dirty

\* The contents a bread of block k returns: the buffer's, if one caches it.
Contents == [k \in Blocks |->
                IF \E b \in Cached(k) : buf[b].valid
                THEN buf[CHOOSE b \in Cached(k) : buf[b].valid].data
                ELSE disk[k]]

Users == [p \in Procs |-> IF pc[p] \in {"held", "stored"} \/ (pc[p] = "io" /\ buf[mine[p]].valid)
                          THEN want[p] ELSE None]

Store1 == INSTANCE BlockStore WITH contents <- Contents, durable <- disk, holder <- Users

\* The cache with its recycling, its queue and its pins behaves as one store
\* of blocks: bread returns what the last holder left, whether or not the
\* block was evicted in between ("Return a locked buf with the contents of the
\* indicated block", bio.c:96), and only completed bwrites survive a reboot.
IsStore == Store1!SSpec

\* Every process in iderw returns from it: the interrupt of one request starts
\* the next one of the queue.
IoEnds == \A p \in Procs : pc[p] = "io" ~> (pc[p] # "io" \/ panicked)
=============================================================================
