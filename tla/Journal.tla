------------------------------ MODULE Journal ------------------------------
(***************************************************************************)
(* The write path of the file system, kernel/fs.c and kernel/file.c:       *)
(* filewrite, writei, updatei, log_write, log_commit_tx and log_recover,   *)
(* over the buffer cache and the disk, with crashes.                       *)
(*                                                                         *)
(* One step per disk write, per sleeplock acquisition and per switch of    *)
(* the loops, so that a crash or another process can come in between any   *)
(* two of them.  A block holds one slot per file: the slot of a data block *)
(* is the file's data, the slot of the inodefile block is its dinode.  A   *)
(* block write is atomic (the disk writes a sector at a time).             *)
(***************************************************************************)
EXTENDS Naturals, Sequences, FiniteSets

CONSTANTS
  Procs,       \* processes that write files
  Files,       \* open files, each with its inode and inode sleeplock
  FileOf,      \* FileOf[p] is the file that process p writes
  Data,        \* Data[f] is the set of data blocks of file f
  IBlk,        \* the block of the inodefile that holds the dinodes
  Boot,        \* block 0, the number a zeroed commit block names
  Vals, Val0,  \* contents of a slot, and what mkfs wrote
  NBuf,        \* NBUF, buffers in the cache (30)
  LogSize,     \* log_cache.bufs, dst_blocknos and mkfs's logsize (40)
  None         \* no process

Blocks  == (UNION {Data[f] : f \in Files}) \cup {IBlk, Boot}
Content == [Files -> Vals]

\* The log is larger than the cache, and the inodefile block is not data.
ASSUME JournalAssumption ==
  /\ FileOf \in [Procs -> Files]
  /\ None \notin Procs
  /\ Val0 \in Vals
  /\ IBlk # Boot
  /\ \A f \in Files : IsFiniteSet(Data[f]) /\ IBlk \notin Data[f] /\ Boot \notin Data[f]
  /\ IsFiniteSet(Files)
  /\ NBuf \in Nat /\ LogSize \in Nat /\ NBuf < LogSize

VARIABLES
  \* the disk
  home,      \* home[b]: block b in its place
  dlog,      \* dlog[i]: block sb.logstart + i of the log region
  cb,        \* the commit block, sb.logstart
  \* kernel memory
  cache,     \* cache[b]: the contents of block b seen through bread
  dirty,     \* blocks whose buffer has B_DIRTY set by log_write
  bufOwner,  \* bufOwner[b]: process that holds the lock of b's buffer
  logcache,  \* log_cache.bufs[0 .. log_cache.size - 1]
  logLock,   \* log_cache.lock
  ilock,     \* ilock[f]: the inode's sleeplock
  \* each process
  step,      \* where it is
  phase,     \* what for: "boot", "data" (updatei follows) or "last"
  arg,       \* the blocks and data of its write system call
  txn,       \* the writes of the transaction it is building
  todo,      \* blocks of txn that writei has not handed to log_write
  cur,       \* block whose buffer it holds
  cbuf,      \* local copy cb of the commit block
  idx,       \* loop index i, plus one
  src,       \* data of the buffer that log_recover's src points to
  \* the machine
  halted     \* panic stopped it

disk  == <<home, dlog, cb>>
mem   == <<cache, dirty, bufOwner>>
logv  == <<logcache, logLock>>
local == <<step, phase, arg, txn, todo, cur, cbuf, idx, src>>
vars  == <<disk, mem, logv, ilock, local, halted>>

Steps  == {"idle", "write", "logwrite", "commit", "recover", "install",
           "copy", "done"}
Phases == {"boot", "data", "last"}
Empty  == [b \in {} |-> Val0]
Txns   == UNION {[D -> Vals] : D \in SUBSET Blocks}
CommitBlock == [flag : {0, 1}, size : Nat, dst : [1..LogSize -> Blocks]]
LogEntry    == [blk : Blocks, data : Content]
NoData      == [f \in Files |-> Val0]
ZeroBlock   == [flag |-> 0, size |-> 0, dst |-> [i \in 1..LogSize |-> Boot]]

\* Only the first process exists until iinit has recovered the disk.
Booting == \E p \in Procs : step[p] # "idle" /\ phase[p] = "boot"

\* Buffers bget cannot recycle: dirty ones and those a process holds.
Pinned == dirty \cup {b \in Blocks : bufOwner[b] # None}

\* bget finds block b in the cache, or a buffer to recycle for it.
BufferFor(b)  == b \in Pinned \/ Cardinality(Pinned) < NBuf
LogBuffer     == Cardinality(Pinned) < NBuf

Goto(p, s) == step' = [step EXCEPT ![p] = s]

\* The local variables of a call that returns are gone.
DropLocals(p) ==
  /\ cur' = [cur EXCEPT ![p] = Boot]
  /\ cbuf' = [cbuf EXCEPT ![p] = ZeroBlock]
  /\ idx' = [idx EXCEPT ![p] = 1]
  /\ src' = [src EXCEPT ![p] = NoData]

-----------------------------------------------------------------------------
\* forkret: the first process runs iinit, which calls log_recover.
Init ==
  /\ home = [b \in Blocks |-> NoData]
  /\ dlog = [i \in 1..LogSize |-> NoData]
  /\ cb = ZeroBlock
  /\ cache = home
  /\ dirty = {}
  /\ bufOwner = [b \in Blocks |-> None]
  /\ logcache = <<>>
  /\ logLock = None
  /\ ilock = [f \in Files |-> None]
  /\ \E p \in Procs : step = [q \in Procs |-> IF q = p THEN "recover" ELSE "idle"]
  /\ phase = [p \in Procs |-> "boot"]
  /\ arg = [p \in Procs |-> Empty]
  /\ txn = [p \in Procs |-> Empty]
  /\ todo = [p \in Procs |-> {}]
  /\ cur = [p \in Procs |-> Boot]
  /\ cbuf = [p \in Procs |-> ZeroBlock]
  /\ idx = [p \in Procs |-> 1]
  /\ src = [p \in Procs |-> NoData]
  /\ halted = FALSE

\* filewrite takes the inode's lock and calls writei with some data blocks of
\* the file; when the length is 0 there are none, and the size will not change.
FileWrite(p) ==
  /\ step[p] = "idle" /\ ~Booting /\ ~halted
  /\ ilock[FileOf[p]] = None
  /\ ilock' = [ilock EXCEPT ![FileOf[p]] = p]
  /\ \E D \in SUBSET Data[FileOf[p]] : \E t \in [D -> Vals] :
       /\ arg' = [arg EXCEPT ![p] = t]
       /\ txn' = [txn EXCEPT ![p] = t]
       /\ todo' = [todo EXCEPT ![p] = D]
       /\ phase' = [phase EXCEPT ![p] = IF D = {} THEN "last" ELSE "data"]
  /\ Goto(p, "write")
  /\ UNCHANGED <<disk, mem, logv, cur, cbuf, idx, src, halted>>

\* One turn of writei's loop up to log_write: bread locks the buffer, the
\* bytes are copied into it.
WriteBlock(p) ==
  /\ step[p] = "write" /\ ~halted
  /\ \E b \in todo[p] :
       /\ bufOwner[b] = None
       /\ BufferFor(b)
       /\ bufOwner' = [bufOwner EXCEPT ![b] = p]
       /\ cache' = [cache EXCEPT ![b][FileOf[p]] = txn[p][b]]
       /\ cur' = [cur EXCEPT ![p] = b]
  /\ Goto(p, "logwrite")
  /\ UNCHANGED <<disk, dirty, logv, ilock, phase, arg, txn, todo, cbuf, idx, src, halted>>

\* Variant: log_write does not set B_DIRTY.
LogWriteClean(p) ==
  /\ step[p] = "logwrite" /\ ~halted
  /\ logLock = None
  /\ logcache' = Append(logcache, [blk |-> cur[p], data |-> cache[cur[p]]])
  /\ bufOwner' = [bufOwner EXCEPT ![cur[p]] = None]
  /\ todo' = [todo EXCEPT ![p] = @ \ {cur[p]}]
  /\ Goto(p, "write")
  /\ UNCHANGED <<disk, cache, dirty, logLock, ilock, phase, arg, txn, cur, cbuf, idx, src, halted>>

\* Variant: log_write does not advance log_cache.size past 1.
LogWriteOver(p) ==
  /\ step[p] = "logwrite" /\ ~halted
  /\ logLock = None
  /\ logcache' = <<[blk |-> cur[p], data |-> cache[cur[p]]]>>
  /\ dirty' = dirty \cup {cur[p]}
  /\ bufOwner' = [bufOwner EXCEPT ![cur[p]] = None]
  /\ todo' = [todo EXCEPT ![p] = @ \ {cur[p]}]
  /\ Goto(p, "write")
  /\ UNCHANGED <<disk, cache, logLock, ilock, phase, arg, txn, cur, cbuf, idx, src, halted>>

\* log_write copies the buffer into log_cache and marks it dirty; brelse.
LogWrite(p) ==
  /\ step[p] = "logwrite" /\ ~halted
  /\ logLock = None
  /\ logcache' = Append(logcache, [blk |-> cur[p], data |-> cache[cur[p]]])
  /\ dirty' = dirty \cup {cur[p]}
  /\ bufOwner' = [bufOwner EXCEPT ![cur[p]] = None]
  /\ todo' = [todo EXCEPT ![p] = @ \ {cur[p]}]
  /\ Goto(p, "write")
  /\ UNCHANGED <<disk, cache, logLock, ilock, phase, arg, txn, cur, cbuf, idx, src, halted>>

\* Add a destination to the local commit block: cb.dst_blocknos[i], cb.size++.
AddBlock(c, i, b) ==
  [flag |-> c.flag, size |-> c.size + 1, dst |-> [c.dst EXCEPT ![i] = b]]

\* log_commit_tx: take the lock, read the commit block.
CommitBegin(p) ==
  /\ step[p] = "write" /\ todo[p] = {} /\ ~halted
  /\ logLock = None
  /\ LogBuffer
  /\ logLock' = p
  /\ cbuf' = [cbuf EXCEPT ![p] = cb]
  /\ idx' = [idx EXCEPT ![p] = 1]
  /\ Goto(p, "commit")
  /\ UNCHANGED <<disk, mem, logcache, ilock, phase, arg, txn, todo, cur, src, halted>>

\* One turn of its loop: bwrite of a log block.
CommitLog(p) ==
  /\ step[p] = "commit" /\ ~halted
  /\ idx[p] <= Len(logcache)
  /\ LogBuffer
  /\ cbuf' = [cbuf EXCEPT ![p] = AddBlock(@, idx[p], logcache[idx[p]].blk)]
  /\ dlog' = [dlog EXCEPT ![idx[p]] = logcache[idx[p]].data]
  /\ idx' = [idx EXCEPT ![p] = @ + 1]
  /\ UNCHANGED <<home, cb, mem, logv, ilock, step, phase, arg, txn, todo, cur, src, halted>>

\* Variants: the flag takes the size, log_cache.size is not reset, and
\* log_recover is not called.
CommitFlagAs(p, flag, log, next) ==
  /\ step[p] = "commit" /\ ~halted
  /\ idx[p] > Len(logcache)
  /\ LogBuffer
  /\ logcache' = log
  /\ cb' = [cbuf[p] EXCEPT !.flag = flag]
  /\ logLock' = None
  /\ txn' = [txn EXCEPT ![p] = Empty]
  /\ Goto(p, next)
  /\ UNCHANGED <<home, dlog, mem, ilock, phase, arg, todo, cur, cbuf, idx, src, halted>>
CommitFlagKeepLog(p) == CommitFlagAs(p, 1, logcache, "recover")

\* The commit point: empty log_cache, bwrite the commit block, drop the lock.
CommitFlag(p) ==
  /\ step[p] = "commit" /\ ~halted
  /\ idx[p] > Len(logcache)
  /\ LogBuffer
  /\ logcache' = <<>>
  /\ cb' = [cbuf[p] EXCEPT !.flag = 1]
  /\ logLock' = None
  /\ txn' = [txn EXCEPT ![p] = Empty]
  /\ Goto(p, "recover")
  /\ UNCHANGED <<home, dlog, mem, ilock, phase, arg, todo, cur, cbuf, idx, src, halted>>

\* log_recover: take the lock, read the commit block; nothing to do without
\* the flag.
RecoverBegin(p) ==
  /\ step[p] = "recover" /\ ~halted
  /\ logLock = None
  /\ LogBuffer
  /\ cbuf' = [cbuf EXCEPT ![p] = cb]
  /\ idx' = [idx EXCEPT ![p] = 1]
  /\ \/ cb.flag = 1 /\ logLock' = p /\ Goto(p, "install")
     \/ cb.flag # 1 /\ UNCHANGED logLock /\ Goto(p, "done")
  /\ UNCHANGED <<disk, mem, logcache, ilock, phase, arg, txn, todo, cur, src, halted>>

\* Its loop: bread of a log block, released at once ...
InstallRead(p) ==
  /\ step[p] = "install" /\ ~halted
  /\ idx[p] <= cbuf[p].size
  /\ LogBuffer
  /\ src' = [src EXCEPT ![p] = dlog[idx[p]]]
  /\ Goto(p, "copy")
  /\ UNCHANGED <<disk, mem, logv, ilock, phase, arg, txn, todo, cur, cbuf, idx, halted>>

\* ... then bread of the destination, the copy and its bwrite.
InstallCopy(p) ==
  LET d == cbuf[p].dst[idx[p]] IN
  /\ step[p] = "copy" /\ ~halted
  /\ bufOwner[d] = None
  /\ BufferFor(d)
  /\ cache' = [cache EXCEPT ![d] = src[p]]
  /\ home' = [home EXCEPT ![d] = src[p]]
  /\ dirty' = dirty \ {d}
  /\ idx' = [idx EXCEPT ![p] = @ + 1]
  /\ Goto(p, "install")
  /\ UNCHANGED <<dlog, cb, bufOwner, logv, ilock, phase, arg, txn, todo, cur, cbuf, src, halted>>

\* Variants: the loop stops one block early, and the lock is kept.
RecoverClearAs(p, done, lock) ==
  /\ step[p] = "install" /\ ~halted
  /\ done
  /\ LogBuffer
  /\ cb' = ZeroBlock
  /\ logLock' = lock
  /\ Goto(p, "done")
  /\ UNCHANGED <<home, dlog, mem, logcache, ilock, phase, arg, txn, todo, cur, cbuf, idx, src, halted>>
RecoverClearEarly(p)  == RecoverClearAs(p, idx[p] >= cbuf[p].size, None)
RecoverClearLocked(p) == RecoverClearAs(p, idx[p] > cbuf[p].size, logLock)

\* The commit block is cleared and the lock dropped.
RecoverClear(p) ==
  /\ step[p] = "install" /\ ~halted
  /\ idx[p] > cbuf[p].size
  /\ LogBuffer
  /\ cb' = ZeroBlock
  /\ logLock' = None
  /\ Goto(p, "done")
  /\ UNCHANGED <<home, dlog, mem, logcache, ilock, phase, arg, txn, todo, cur, cbuf, idx, src, halted>>

\* writei returned the number of bytes: the size grows, and updatei reads the
\* dinode and writes it back with the new size, a transaction of its own.
UpdateInode(p) ==
  /\ step[p] = "done" /\ phase[p] = "data" /\ ~halted
  /\ bufOwner[IBlk] = None
  /\ BufferFor(IBlk)
  /\ \E v \in Vals \ {cache[IBlk][FileOf[p]]} :
       txn' = [txn EXCEPT ![p] = [b \in {IBlk} |-> v]]
  /\ todo' = [todo EXCEPT ![p] = {IBlk}]
  /\ phase' = [phase EXCEPT ![p] = "last"]
  /\ Goto(p, "write")
  /\ DropLocals(p)
  /\ UNCHANGED <<disk, mem, logv, ilock, arg, halted>>

\* filewrite releases the inode and returns.
FileWriteReturn(p) ==
  /\ step[p] = "done" /\ phase[p] = "last" /\ ~halted
  /\ ilock' = [ilock EXCEPT ![FileOf[p]] = None]
  /\ Goto(p, "idle")
  /\ arg' = [arg EXCEPT ![p] = Empty]
  /\ DropLocals(p)
  /\ UNCHANGED <<disk, mem, logv, phase, txn, todo, halted>>

\* iinit returns: the file system is up.
BootDone(p) ==
  /\ step[p] = "done" /\ phase[p] = "boot" /\ ~halted
  /\ Goto(p, "idle")
  /\ DropLocals(p)
  /\ UNCHANGED <<disk, mem, logv, ilock, phase, arg, txn, todo, halted>>

\* The block that p's next bread asks for is not cached and no buffer can be
\* recycled.
OutOfBuffers(p) ==
  CASE step[p] = "write" /\ todo[p] # {} -> \E b \in todo[p] : ~BufferFor(b)
    [] step[p] = "write" /\ todo[p] = {} -> logLock = None /\ ~LogBuffer
    [] step[p] = "recover" -> logLock = None /\ ~LogBuffer
    [] step[p] \in {"commit", "install"} -> ~LogBuffer
    [] step[p] = "copy" -> ~BufferFor(cbuf[p].dst[idx[p]])
    [] step[p] = "done" -> phase[p] = "data" /\ ~BufferFor(IBlk)
    [] OTHER -> FALSE

\* bget: panic("bget: no buffers") stops the machine.
Panic(p) ==
  /\ ~halted /\ OutOfBuffers(p)
  /\ halted' = TRUE
  /\ UNCHANGED <<disk, mem, logv, ilock, local>>

\* The machine restarts, after a panic or at any moment (crashn reboots it
\* before a bwrite): memory is lost, the first process runs iinit.
Crash ==
  /\ halted' = FALSE
  /\ UNCHANGED disk
  /\ cache' = home
  /\ dirty' = {}
  /\ bufOwner' = [b \in Blocks |-> None]
  /\ logcache' = <<>>
  /\ logLock' = None
  /\ ilock' = [f \in Files |-> None]
  /\ \E p \in Procs : step' = [q \in Procs |-> IF q = p THEN "recover" ELSE "idle"]
  /\ phase' = [p \in Procs |-> "boot"]
  /\ arg' = [p \in Procs |-> Empty]
  /\ txn' = [p \in Procs |-> Empty]
  /\ todo' = [p \in Procs |-> {}]
  /\ cur' = [p \in Procs |-> Boot]
  /\ cbuf' = [p \in Procs |-> ZeroBlock]
  /\ idx' = [p \in Procs |-> 1]
  /\ src' = [p \in Procs |-> NoData]

Proceed(p) ==
  \/ WriteBlock(p) \/ LogWrite(p)
  \/ CommitBegin(p) \/ CommitLog(p) \/ CommitFlag(p)
  \/ RecoverBegin(p) \/ InstallRead(p) \/ InstallCopy(p) \/ RecoverClear(p)
  \/ UpdateInode(p) \/ FileWriteReturn(p) \/ BootDone(p) \/ Panic(p)

Next == Crash \/ \E p \in Procs : FileWrite(p) \/ Proceed(p)

\* The scheduler runs every runnable process again and again.
Fairness == \A p \in Procs : WF_vars(Proceed(p))

Spec == Init /\ [][Next]_vars /\ Fairness

\* Every lock is won by each process that keeps trying for it.
StrongFairness == \A p \in Procs : SF_vars(Proceed(p))
SpecStrong == Init /\ [][Next]_vars /\ StrongFairness

\* Another process reads block c, and bget recycles for it the buffer that
\* log_recover released (brelse) before it copies from it.
Recycle(p) ==
  /\ step[p] = "copy" /\ ~halted
  /\ \E c \in Blocks : src' = [src EXCEPT ![p] = cache[c]]
  /\ UNCHANGED <<disk, mem, logv, ilock, step, phase, arg, txn, todo, cur, cbuf, idx, halted>>

NextReaders == Next \/ \E p \in Procs : Recycle(p)

SpecReaders == Init /\ [][NextReaders]_vars

-----------------------------------------------------------------------------
\* Every variable stays in its range.
TypeOK ==
  /\ home \in [Blocks -> Content]
  /\ dlog \in [1..LogSize -> Content]
  /\ cb \in CommitBlock
  /\ cache \in [Blocks -> Content]
  /\ dirty \in SUBSET Blocks
  /\ bufOwner \in [Blocks -> Procs \cup {None}]
  /\ logcache \in Seq(LogEntry)
  /\ logLock \in Procs \cup {None}
  /\ ilock \in [Files -> Procs \cup {None}]
  /\ step \in [Procs -> Steps]
  /\ phase \in [Procs -> Phases]
  /\ arg \in [Procs -> Txns]
  /\ txn \in [Procs -> Txns]
  /\ todo \in [Procs -> SUBSET Blocks]
  /\ cur \in [Procs -> Blocks]
  /\ cbuf \in [Procs -> CommitBlock]
  /\ idx \in [Procs -> Nat]
  /\ src \in [Procs -> Content]
  /\ halted \in BOOLEAN
=============================================================================
