---------------------------- MODULE JournalSafety ----------------------------
(***************************************************************************)
(* The journal when every writer writes the same file: the inode's         *)
(* sleeplock, which filewrite holds from before writei until after         *)
(* updatei, lets one process at a time into it.  IInv is the inductive     *)
(* invariant on which the theorems of JournalProofs rest.                  *)
(***************************************************************************)
EXTENDS Journal

ASSUME OneFile == \A f, g \in Files : f = g

Active(p) == step[p] # "idle"

\* A block once p's transaction has written it.
Written(p, b) == [home[b] EXCEPT ![FileOf[p]] = txn[p][b]]

\* One process is inside, and the locks say which and where.
LockInv ==
  /\ \A p, q \in Procs : Active(p) /\ Active(q) => p = q
  /\ \A p \in Procs : ilock[FileOf[p]] = p <=> Active(p) /\ phase[p] # "boot"
  /\ \A p \in Procs : logLock = p <=> step[p] \in {"commit", "install", "copy"}
  /\ \A b \in Blocks : \A p \in Procs :
       bufOwner[b] = p <=> step[p] = "logwrite" /\ cur[p] = b

\* Nothing is in flight: memory and the log agree with the home blocks.
Quiet == cb = ZeroBlock /\ logcache = <<>> /\ dirty = {} /\ cache = home

IdleInv ==
  /\ (\A p \in Procs : ~Active(p)) => Quiet
  /\ \A p \in Procs : step[p] = "done" => Quiet
  /\ \A p \in Procs : step[p] \notin {"write", "logwrite", "commit"} =>
       txn[p] = Empty /\ todo[p] = {}

\* While p builds and commits a transaction, log_cache holds one entry for each
\* block written so far, and these are the dirty blocks of the cache.
BuildInv(p) ==
  /\ phase[p] # "boot"
  /\ cb = ZeroBlock
  /\ todo[p] \subseteq DOMAIN txn[p]
  /\ dirty = DOMAIN txn[p] \ todo[p]
  /\ \A i \in 1..Len(logcache) :
       /\ logcache[i].blk \in dirty
       /\ logcache[i].data = Written(p, logcache[i].blk)
  /\ \A i, j \in 1..Len(logcache) : logcache[i].blk = logcache[j].blk => i = j
  /\ \A b \in dirty : \E i \in 1..Len(logcache) : logcache[i].blk = b
  /\ \A b \in dirty : cache[b] = Written(p, b)
  /\ \A b \in Blocks \ dirty :
       (step[p] = "logwrite" => b # cur[p]) => cache[b] = home[b]

WriteInv ==
  \A p \in Procs :
    /\ step[p] \in {"write", "logwrite", "commit"} => BuildInv(p)
    /\ step[p] = "logwrite" => /\ cur[p] \in todo[p]
                               /\ cache[cur[p]] = Written(p, cur[p])
                               /\ Cardinality(dirty) < NBuf

\* In log_commit_tx the first idx - 1 entries of log_cache are in the log region.
CommitInv ==
  \A p \in Procs : step[p] = "commit" =>
    /\ todo[p] = {}
    /\ idx[p] \in 1..Len(logcache) + 1
    /\ cbuf[p].size = idx[p] - 1
    /\ \A j \in 1..idx[p] - 1 :
         dlog[j] = logcache[j].data /\ cbuf[p].dst[j] = logcache[j].blk

\* A set flag names distinct blocks inside the log; a clear one, an empty log.
FlagInv ==
  /\ cb.flag # 1 => cb = ZeroBlock
  /\ cb.size <= NBuf
  /\ \A i, j \in 1..cb.size : cb.dst[i] = cb.dst[j] => i = j

\* In log_recover the first idx - 1 log blocks are installed; the others may be
\* ahead of the disk in the cache, and then they are dirty.
RecoverInv ==
  /\ \A p \in Procs : step[p] \in {"recover", "install", "copy"} =>
       /\ logcache = <<>>
       /\ \A b \in Blocks \ dirty : cache[b] = home[b]
       /\ \A b \in dirty : \E j \in 1..cb.size : cb.dst[j] = b
  /\ \A p \in Procs : step[p] \in {"install", "copy"} =>
       /\ cb.flag = 1
       /\ cbuf[p] = cb
       /\ idx[p] \in 1..cb.size + 1
       /\ \A j \in 1..idx[p] - 1 : home[cb.dst[j]] = dlog[j] /\ cb.dst[j] \notin dirty
  /\ \A p \in Procs : step[p] = "copy" => idx[p] <= cb.size /\ src[p] = dlog[idx[p]]

SizeInv ==
  /\ IsFiniteSet(dirty) /\ Cardinality(dirty) \in Nat
  /\ Len(logcache) <= Cardinality(dirty)
  /\ Cardinality(dirty) <= NBuf

\* What every step of the code preserves when all writers share one file: it
\* ties log_cache, the commit block and the dirty buffers to the step of the one
\* process inside the journal.
IInv ==
  /\ TypeOK
  /\ LockInv /\ IdleInv /\ WriteInv /\ CommitInv /\ FlagInv /\ RecoverInv /\ SizeInv
=============================================================================
