---------------------------- MODULE JournalProps ----------------------------
(***************************************************************************)
(* What the journal promises: the atomic disk it implements, and the       *)
(* properties of its log, its cache and its system calls.                  *)
(***************************************************************************)
EXTENDS Journal

\* What a crash now would leave on the disk once iinit has recovered it: the
\* log entries that a set flag makes valid, the last one for each block, over
\* the home blocks.
LogHits(c, b) == {i \in 1..LogSize : i <= c.size /\ c.dst[i] = b}
Install(h, l, c) ==
  [b \in Blocks |->
     IF c.flag = 1 /\ LogHits(c, b) # {}
     THEN l[CHOOSE i \in LogHits(c, b) : \A j \in LogHits(c, b) : j <= i]
     ELSE h[b]]
Recovered == Install(home, dlog, cb)

AD == INSTANCE AtomicDisk WITH store <- Recovered, open <- txn

\* Each transaction (the blocks one writei hands to log_write) reaches the disk
\* entirely or not at all, whatever the moment of a crash, a crash during
\* recovery included, and a committed one is never lost: the journal implements
\* the atomic disk.
Atomic == AD!Spec

\* log_commit_tx never writes a log block outside the log region: of its
\* LogSize blocks the first is the commit block.  The code never compares
\* log_cache.size with anything; the cache, smaller than the log, runs out first.
LogFits == Len(logcache) < LogSize

\* A buffer that bget may recycle holds what the disk holds: no write is lost
\* when log_write leaves a block in the cache only.
CleanIsOnDisk == \A b \in Blocks \ Pinned : cache[b] = home[b]

\* When every write system call has returned, the data is in its place, no
\* buffer is dirty and the log is empty.
ReturnedIsInstalled ==
  (\A p \in Procs : step[p] = "idle") /\ ~halted =>
    /\ cb = ZeroBlock /\ logcache = <<>>
    /\ dirty = {} /\ cache = home

\* The length of a file (its dinode) becomes durable only after all the data of
\* that write system call: a crash never leaves a file whose end is garbage.
LengthAfterData ==
  [][\A f \in Files : Recovered'[IBlk][f] # Recovered[IBlk][f] =>
       \E p \in Procs :
         /\ FileOf[p] = f /\ step[p] = "commit"
         /\ \A b \in DOMAIN arg[p] : Recovered[b][f] = arg[p][b]]_vars

\* Once crashes stop, a write system call (and the recovery at boot) comes to
\* its end or the machine panics: no process waits forever for a buffer or for
\* the log.
WriteReturns ==
  <>[][~Crash]_vars =>
    \A p \in Procs : step[p] # "idle" ~> (step[p] = "idle" \/ halted)
=============================================================================
