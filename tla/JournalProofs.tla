---------------------------- MODULE JournalProofs ----------------------------
(***************************************************************************)
(* The inductive invariant IInv of the journal with one file, and what it  *)
(* gives: the journal with one file implements the atomic disk, for only   *)
(* the write of the commit block in log_commit_tx changes what a recovery  *)
(* would find.                                                             *)
(*                                                                         *)
(* One lemma per action, and in it one step per conjunct of IInv: the      *)
(* types, who is inside and with which locks, the transaction in log_cache *)
(* and in the cache, the prefix of it in the log, the commit block, the    *)
(* installation, the number of dirty buffers.                              *)
(***************************************************************************)
EXTENDS JournalSafety, JournalProps, TLAPS

\* A transaction maps some set of blocks to values.
LEMMA TxnType ==
  /\ \A t \in Txns : DOMAIN t \subseteq Blocks /\ t \in [DOMAIN t -> Vals]
  /\ \A D \in SUBSET Blocks : [D -> Vals] \subseteq Txns
  /\ Empty \in Txns
BY Zenon DEF Txns, Empty

\* The values Init starts from have their types.
LEMMA Zeroes ==
  /\ Boot \in Blocks /\ IBlk \in Blocks
  /\ NoData \in Content
  /\ ZeroBlock \in CommitBlock
<1>1. Boot \in Blocks /\ IBlk \in Blocks
  BY Zenon DEF Blocks
<1>2. NoData \in Content
  BY JournalAssumption, Zenon DEF NoData, Content
<1>3. ZeroBlock \in CommitBlock
  BY <1>1, JournalAssumption, Zenon DEF ZeroBlock, CommitBlock
<1> QED
  BY <1>1, <1>2, <1>3, Zenon

\* The value of a free lock is no process.
LEMMA NoneIsNobody == None \notin Procs
BY JournalAssumption, Zenon

\* The inode's lock lets one process in: while p is inside, the others are idle.
LEMMA Alone ==
  ASSUME IInv, NEW p \in Procs, step[p] # "idle"
  PROVE  \A q \in Procs : q # p => step[q] = "idle"
BY Zenon DEF IInv, LockInv, Active

\* filewrite gets the lock only when nobody is inside.
LEMMA NobodyInside ==
  ASSUME IInv, NEW p \in Procs, ~Booting, ilock[FileOf[p]] = None
  PROVE  \A q \in Procs : step[q] = "idle"
<1> SUFFICES ASSUME NEW q \in Procs, step[q] # "idle" PROVE FALSE
  BY Zenon
<1>1. phase[q] # "boot"
  BY Zenon DEF Booting
<1>2. ilock[FileOf[q]] = q
  BY <1>1, Zenon DEF IInv, LockInv, Active
<1> QED
  BY <1>2, JournalAssumption, OneFile

\* LockInv is about the locks and the places of processes only ...
LEMMA LockFrame ==
  ASSUME LockInv, UNCHANGED <<step, phase, ilock, logLock, bufOwner, cur>>
  PROVE  LockInv'
BY DEF LockInv, Active

\* ... and holds while the process inside moves between places that need the
\* same locks.
LEMMA LockMove ==
  ASSUME LockInv, NEW p \in Procs,
         step[p] \notin {"idle", "logwrite"}, step'[p] \notin {"idle", "logwrite"},
         \A q \in Procs : q # p => step[q] = "idle" /\ step'[q] = "idle",
         \A q \in Procs : logLock' = q <=> step'[q] \in {"commit", "install", "copy"},
         UNCHANGED <<phase, ilock, bufOwner, cur>>
  PROVE  LockInv'
BY DEF LockInv, Active

\* What the transaction of p has done so far stays true while its buffers and
\* log_cache do not change.
LEMMA BuildFrame ==
  ASSUME NEW p \in Procs, BuildInv(p), step[p] # "logwrite", step'[p] # "logwrite",
         dirty \subseteq Blocks,
         UNCHANGED <<home, cb, cache, dirty, logcache, phase, txn, todo>>
  PROVE  BuildInv(p)'
<1>1. \A c \in Blocks : Written(p, c)' = Written(p, c)
  BY Zenon DEF Written
<1> QED
  BY <1>1 DEF BuildInv

\* Only the process inside moves.
LEMMA Moved ==
  ASSUME IInv, NEW p \in Procs, NEW s, \A q \in Procs : q # p => step[q] = "idle",
         step' = [step EXCEPT ![p] = s]
  PROVE  step'[p] = s /\ \A q \in Procs : q # p => step'[q] = "idle"
<1>1. step \in [Procs -> Steps]
  BY Zenon DEF IInv, TypeOK
<1> QED
  BY <1>1, Zenon

\* The part of the invariant about a piece of code holds while nobody is in it ...
LEMMA NotWriting ==
  ASSUME \A q \in Procs : step'[q] \notin {"write", "logwrite", "commit"}
  PROVE  WriteInv'
BY Zenon DEF WriteInv

\* ... log_commit_tx ...
LEMMA NotCommitting ==
  ASSUME \A q \in Procs : step'[q] # "commit"
  PROVE  CommitInv'
BY Zenon DEF CommitInv

\* ... or log_recover ...
LEMMA NotRecovering ==
  ASSUME \A q \in Procs : step'[q] \notin {"recover", "install", "copy"}
  PROVE  RecoverInv'
BY Zenon DEF RecoverInv

\* ... and the parts about a few variables while these do not change.
LEMMA FlagFrame ==
  ASSUME FlagInv, UNCHANGED cb
  PROVE  FlagInv'
BY Zenon DEF FlagInv

\* The same for the number of dirty buffers.
LEMMA SizeFrame ==
  ASSUME SizeInv, UNCHANGED <<dirty, logcache>>
  PROVE  SizeInv'
BY Zenon DEF SizeInv

\* A transaction begins with nothing in flight.
LEMMA BuildStart ==
  ASSUME NEW p \in Procs, Quiet', step'[p] = "write", phase'[p] # "boot",
         DOMAIN txn'[p] = todo'[p]
  PROVE  BuildInv(p)'
BY DEF BuildInv, Quiet

\* While p builds one, WriteInv is about p alone.
LEMMA OneBuilds ==
  ASSUME NEW p \in Procs, step'[p] # "logwrite", BuildInv(p)',
         \A q \in Procs : q # p => step'[q] = "idle"
  PROVE  WriteInv'
BY Zenon DEF WriteInv

\* The process inside goes from one step of a transaction to another.
LEMMA IdleFrame ==
  ASSUME IdleInv, NEW p \in Procs, step[p] # "idle", step'[p] \notin {"idle", "done"},
         \A q \in Procs : q # p => step[q] = "idle" /\ step'[q] = "idle",
         step[p] \in {"write", "logwrite", "commit"}
           => step'[p] \in {"write", "logwrite", "commit"},
         UNCHANGED <<txn, todo>>
  PROVE  IdleInv'
BY Zenon DEF IdleInv, Active

\* filewrite: the lock of the inode is taken and a transaction begun.
LEMMA FileWriteStep ==
  ASSUME IInv, NEW p \in Procs, FileWrite(p)
  PROVE  IInv'
<1> DEFINE Input(D, t) ==
        /\ arg' = [arg EXCEPT ![p] = t]
        /\ txn' = [txn EXCEPT ![p] = t]
        /\ todo' = [todo EXCEPT ![p] = D]
        /\ phase' = [phase EXCEPT ![p] = IF D = {} THEN "last" ELSE "data"]
<1>w. PICK D \in SUBSET Data[FileOf[p]] : \E t \in [D -> Vals] : Input(D, t)
  BY Zenon DEF FileWrite
<1>0. PICK t \in [D -> Vals] : Input(D, t)
  BY <1>w, Zenon
<1>a. /\ step[p] = "idle" /\ step' = [step EXCEPT ![p] = "write"]
      /\ ilock[FileOf[p]] = None /\ ilock' = [ilock EXCEPT ![FileOf[p]] = p]
      /\ ~Booting
      /\ UNCHANGED <<home, dlog, cb, cache, dirty, bufOwner, logcache, logLock,
                     cur, cbuf, idx, src, halted>>
  BY Zenon DEF FileWrite, Goto, disk, mem, logv
<1>b. TypeOK /\ LockInv /\ IdleInv /\ WriteInv /\ CommitInv /\ FlagInv /\ RecoverInv /\ SizeInv
  BY Zenon DEF IInv
<1>c. FileOf \in [Procs -> Files] /\ D \in SUBSET Blocks
  BY JournalAssumption, Zenon DEF Blocks
<1>d. \A q \in Procs : step[q] = "idle"
  BY <1>a, NobodyInside, Zenon
<1>e. Quiet
  BY <1>b, <1>d, Zenon DEF IdleInv, Active
<1>f. t \in Txns /\ DOMAIN t = D
  BY <1>c, TxnType, Zenon
<1>s. step'[p] = "write" /\ \A q \in Procs : q # p => step'[q] = "idle"
  BY <1>a, <1>d, Moved, Zenon
<1>1. TypeOK'
  BY <1>0, <1>a, <1>b, <1>c, <1>f, Zenon DEF TypeOK, Steps, Phases
<1>2. LockInv'
  BY <1>0, <1>a, <1>b, <1>c, <1>d, OneFile DEF LockInv, Active, TypeOK
<1>3. IdleInv'
  BY <1>0, <1>a, <1>b, <1>d, Zenon DEF IdleInv, Active, TypeOK
<1>4. WriteInv'
  <2>1. phase'[p] # "boot" /\ todo'[p] = D /\ DOMAIN txn'[p] = D
    BY <1>0, <1>b, <1>f, Zenon DEF TypeOK
  <2>2. Quiet'
    BY <1>a, <1>e, Zenon DEF Quiet
  <2>3. BuildInv(p)'
    BY <1>s, <2>1, <2>2, BuildStart, Zenon
  <2> QED
    BY <1>s, <2>3, OneBuilds, Zenon
<1>5. CommitInv'
  BY <1>s, NotCommitting, Zenon
<1>6. FlagInv'
  BY <1>a, <1>b, FlagFrame, Zenon
<1>7. RecoverInv'
  BY <1>s, NotRecovering, Zenon
<1>8. SizeInv'
  BY <1>a, <1>b, SizeFrame, Zenon
<1> QED
  BY <1>1, <1>2, <1>3, <1>4, <1>5, <1>6, <1>7, <1>8, Zenon DEF IInv

\* writei changes one buffer of its transaction.
LEMMA WriteBlockStep ==
  ASSUME IInv, NEW p \in Procs, WriteBlock(p)
  PROVE  IInv'
<1>0. PICK b \in todo[p] :
        /\ bufOwner[b] = None
        /\ BufferFor(b)
        /\ bufOwner' = [bufOwner EXCEPT ![b] = p]
        /\ cache' = [cache EXCEPT ![b][FileOf[p]] = txn[p][b]]
        /\ cur' = [cur EXCEPT ![p] = b]
  BY Zenon DEF WriteBlock
<1>a. /\ step[p] = "write" /\ step' = [step EXCEPT ![p] = "logwrite"]
      /\ UNCHANGED <<home, dlog, cb, dirty, logcache, logLock, ilock, phase, arg,
                     txn, todo, cbuf, idx, src, halted>>
  BY Zenon DEF WriteBlock, Goto, disk, logv
<1>b. TypeOK /\ LockInv /\ IdleInv /\ WriteInv /\ CommitInv /\ FlagInv /\ RecoverInv /\ SizeInv
  BY Zenon DEF IInv
<1>c. b \in Blocks /\ FileOf[p] \in Files
  BY <1>b, JournalAssumption, Zenon DEF TypeOK
<1>d. \A q \in Procs : q # p => step[q] = "idle"
  BY <1>a, Alone, Zenon
<1>e. BuildInv(p)
  BY <1>a, <1>b, Zenon DEF WriteInv
<1>f. txn[p][b] \in Vals
  BY <1>b, <1>e, TxnType DEF TypeOK, BuildInv
<1>s. step'[p] = "logwrite" /\ \A q \in Procs : q # p => step'[q] = "idle"
  BY <1>a, <1>d, Moved, Zenon
<1>1. TypeOK'
  BY <1>0, <1>a, <1>b, <1>c, <1>f, Zenon DEF TypeOK, Content, Steps
<1>2. LockInv'
  <2>1. bufOwner'[b] = p /\ \A c \in Blocks : c # b => bufOwner'[c] = bufOwner[c]
    BY <1>0, <1>b, <1>c, Zenon DEF TypeOK
  <2>2. cur'[p] = b
    BY <1>0, <1>b, Zenon DEF TypeOK
  <2> QED
    <3>1. step[p] = "write" /\ UNCHANGED <<ilock, phase, logLock>>
      BY <1>a, Zenon
    <3> QED
      BY <1>0, <1>b, <1>d, <1>s, <2>1, <2>2, <3>1, NoneIsNobody DEF LockInv, Active
<1>3. IdleInv'
  BY <1>a, <1>b, <1>d, <1>s, IdleFrame, Zenon
<1>4. WriteInv'
  <2>1. b \notin dirty /\ cache[b] = home[b]
    BY <1>a, <1>c, <1>e, Zenon DEF BuildInv
  <2>2. \A c \in Blocks : c # b => cache'[c] = cache[c]
    BY <1>0, <1>b, <1>c, Zenon DEF TypeOK
  <2>3. \A c \in Blocks : Written(p, c)' = Written(p, c)
    BY <1>a, Zenon DEF Written
  <2>4. cache'[b] = Written(p, b)'
    <3>1. cache'[b] = [cache[b] EXCEPT ![FileOf[p]] = txn[p][b]]
      BY <1>0, <1>b, <1>c, Zenon DEF TypeOK
    <3>2. Written(p, b)' = Written(p, b)
      BY <1>c, <2>3, Zenon
    <3>3. Written(p, b) = [cache[b] EXCEPT ![FileOf[p]] = txn[p][b]]
      BY <2>1, Zenon DEF Written
    <3> QED
      BY <3>1, <3>2, <3>3, Zenon
  <2>5. BuildInv(p)'
    <3>1. UNCHANGED <<phase, cb, todo, txn, dirty, logcache, home>>
      BY <1>a, Zenon
    <3>2. step'[p] = "logwrite" /\ cur'[p] = b /\ dirty \subseteq Blocks
      BY <1>0, <1>a, <1>b, Zenon DEF TypeOK
    <3>3. step[p] = "write"
      BY <1>a, Zenon
    <3> QED
      BY <1>e, <2>1, <2>2, <2>3, <3>1, <3>2, <3>3 DEF BuildInv
  <2>6. Pinned = dirty
    <3>1. \A c \in Blocks : bufOwner[c] \in Procs \cup {None}
      BY <1>b, Zenon DEF TypeOK
    <3>2. \A c \in Blocks, q \in Procs : bufOwner[c] # q
      BY <1>a, <1>b, <1>d, Zenon DEF LockInv
    <3> QED
      BY <3>1, <3>2, Zenon DEF Pinned
  <2>7. Cardinality(dirty) < NBuf
    BY <1>0, <2>1, <2>6, Zenon DEF BufferFor
  <2>8. cur'[p] = b /\ UNCHANGED <<todo, dirty>>
    BY <1>0, <1>a, <1>b, Zenon DEF TypeOK
  <2> QED
    BY <1>0, <1>s, <2>4, <2>5, <2>7, <2>8, Zenon DEF WriteInv
<1>5. CommitInv'
  BY <1>s, NotCommitting, Zenon
<1>6. FlagInv'
  BY <1>a, <1>b, FlagFrame, Zenon
<1>7. RecoverInv'
  BY <1>s, NotRecovering, Zenon
<1>8. SizeInv'
  BY <1>a, <1>b, SizeFrame, Zenon
<1> QED
  BY <1>1, <1>2, <1>3, <1>4, <1>5, <1>6, <1>7, <1>8, Zenon DEF IInv

\* The entry log_write appends is the block just written, and the first one for it.
LEMMA LogWriteBuild ==
  ASSUME IInv, NEW p \in Procs, LogWrite(p)
  PROVE  BuildInv(p)'
<1>a. /\ logcache' = Append(logcache, [blk |-> cur[p], data |-> cache[cur[p]]])
      /\ dirty' = dirty \cup {cur[p]}
      /\ todo' = [todo EXCEPT ![p] = todo[p] \ {cur[p]}]
      /\ UNCHANGED <<home, cb, cache, phase, txn>>
  BY Zenon DEF LogWrite, disk
<1>s. step[p] = "logwrite" /\ step' = [step EXCEPT ![p] = "write"]
  BY Zenon DEF LogWrite, Goto
<1>t. TypeOK
  BY Zenon DEF IInv
<1>c. /\ cur[p] \in Blocks /\ cur[p] \in todo[p] /\ dirty \subseteq Blocks
      /\ cache[cur[p]] = Written(p, cur[p])
  BY <1>s, <1>t, Zenon DEF IInv, TypeOK, WriteInv
<1>e. BuildInv(p)
  BY <1>s, Zenon DEF IInv, WriteInv
<1>w. \A c \in Blocks : Written(p, c)' = Written(p, c)
  BY <1>a, Zenon DEF Written
<1>l. /\ Len(logcache) \in Nat
      /\ Len(logcache') = Len(logcache) + 1
      /\ logcache'[Len(logcache) + 1].blk = cur[p]
      /\ logcache'[Len(logcache) + 1].data = cache[cur[p]]
      /\ \A i \in 1..Len(logcache) : logcache'[i] = logcache[i]
  BY <1>a, <1>t DEF TypeOK
<1>b. /\ \A i \in 1..Len(logcache) : /\ logcache[i].blk \in dirty
                                     /\ logcache[i].data = Written(p, logcache[i].blk)
      /\ \A i, j \in 1..Len(logcache) : logcache[i].blk = logcache[j].blk => i = j
      /\ \A c \in dirty : \E i \in 1..Len(logcache) : logcache[i].blk = c
  BY <1>e, Zenon DEF BuildInv
<1>d. /\ todo[p] \subseteq DOMAIN txn[p] /\ dirty = DOMAIN txn[p] \ todo[p]
      /\ phase[p] # "boot" /\ cb = ZeroBlock
      /\ \A c \in dirty : cache[c] = Written(p, c)
      /\ \A c \in Blocks \ dirty : c # cur[p] => cache[c] = home[c]
  BY <1>e, <1>s, Zenon DEF BuildInv
<1>1. \A i \in 1..Len(logcache)' : /\ logcache'[i].blk \in dirty'
                                   /\ logcache'[i].data = Written(p, logcache[i].blk)'
  BY <1>a, <1>b, <1>c, <1>l, <1>w
<1>2. \A i, j \in 1..Len(logcache)' : logcache'[i].blk = logcache'[j].blk => i = j
  BY <1>b, <1>c, <1>d, <1>l, SMTT(40), Z3T(40)
<1>3. \A c \in dirty' : \E i \in 1..Len(logcache)' : logcache'[i].blk = c
  BY <1>a, <1>b, <1>l
<1>4. dirty' = DOMAIN txn'[p] \ todo'[p] /\ todo'[p] \subseteq DOMAIN txn'[p]
  <2>1. todo'[p] = todo[p] \ {cur[p]}
    BY <1>a, <1>t, Zenon DEF TypeOK
  <2> QED
    BY <1>a, <1>c, <1>d, <2>1, Zenon
<1>5. \A c \in dirty' : cache'[c] = Written(p, c)'
  BY <1>a, <1>c, <1>d, <1>w, Zenon
<1>6. /\ phase'[p] # "boot" /\ cb' = ZeroBlock
      /\ \A c \in Blocks \ dirty' : cache'[c] = home'[c]
  BY <1>a, <1>d, Zenon
<1> QED
  BY <1>1, <1>2, <1>3, <1>4, <1>5, <1>6, Zenon DEF BuildInv

\* log_write pins the buffer by the dirty flag and appends it to the log cache.
LEMMA LogWriteStep ==
  ASSUME IInv, NEW p \in Procs, LogWrite(p), SizeInv'
  PROVE  IInv'
<1>a. /\ step[p] = "logwrite" /\ step' = [step EXCEPT ![p] = "write"]
      /\ logcache' = Append(logcache, [blk |-> cur[p], data |-> cache[cur[p]]])
      /\ dirty' = dirty \cup {cur[p]}
      /\ bufOwner' = [bufOwner EXCEPT ![cur[p]] = None]
      /\ todo' = [todo EXCEPT ![p] = todo[p] \ {cur[p]}]
      /\ UNCHANGED <<home, dlog, cb, cache, logLock, ilock, phase, arg, txn, cur,
                     cbuf, idx, src, halted>>
  BY Zenon DEF LogWrite, Goto, disk
<1>b. TypeOK /\ LockInv /\ IdleInv /\ WriteInv /\ CommitInv /\ FlagInv /\ RecoverInv /\ SizeInv
  BY Zenon DEF IInv
<1>c. cur[p] \in Blocks /\ cur[p] \in todo[p]
  BY <1>a, <1>b, Zenon DEF TypeOK, WriteInv
<1>d. \A q \in Procs : q # p => step[q] = "idle"
  BY <1>a, Alone, Zenon
<1>e. BuildInv(p) /\ cache[cur[p]] = Written(p, cur[p]) /\ Cardinality(dirty) < NBuf
  BY <1>a, <1>b, Zenon DEF WriteInv
<1>f. cur[p] \notin dirty
  BY <1>c, <1>e, Zenon DEF BuildInv
<1>g. [blk |-> cur[p], data |-> cache[cur[p]]] \in LogEntry
  BY <1>b, <1>c, Zenon DEF TypeOK, LogEntry
<1>s. step'[p] = "write" /\ \A q \in Procs : q # p => step'[q] = "idle"
  BY <1>a, <1>d, Moved, Zenon
<1>1. TypeOK'
  <2>1. logcache' \in Seq(LogEntry) /\ dirty' \subseteq Blocks
    BY <1>a, <1>b, <1>c, <1>g DEF TypeOK
  <2>2. todo' \in [Procs -> SUBSET Blocks] /\ step' \in [Procs -> Steps]
    BY <1>a, <1>b, Zenon DEF TypeOK, Steps
  <2> QED
    BY <1>a, <1>b, <2>1, <2>2, Zenon DEF TypeOK
<1>2. LockInv'
  <2>1. /\ bufOwner'[cur[p]] = None
        /\ \A c \in Blocks : c # cur[p] => bufOwner'[c] = bufOwner[c]
    BY <1>a, <1>b, <1>c, Zenon DEF TypeOK
  <2> QED
    <3>1. step[p] = "logwrite" /\ UNCHANGED <<ilock, phase, logLock, cur>>
      BY <1>a, Zenon
    <3> QED
      BY <1>b, <1>d, <1>s, <2>1, <3>1, NoneIsNobody, SMTT(40), Z3T(40) DEF LockInv, Active
<1>3. IdleInv'
  BY <1>a, <1>b, <1>d, Zenon DEF IdleInv, Active, TypeOK
<1>4. WriteInv'
  <2>1. BuildInv(p)'
    BY LogWriteBuild, Zenon
  <2> QED
    BY <1>s, <2>1, OneBuilds, Zenon
<1>5. CommitInv'
  BY <1>s, NotCommitting, Zenon
<1>6. FlagInv'
  BY <1>a, <1>b, FlagFrame, Zenon
<1>7. RecoverInv'
  BY <1>s, NotRecovering, Zenon
<1>8. SizeInv'
  BY Zenon
<1> QED
  BY <1>1, <1>2, <1>3, <1>4, <1>5, <1>6, <1>7, <1>8, Zenon DEF IInv

\* iinit is done with the log.
LEMMA BootDoneStep ==
  ASSUME IInv, NEW p \in Procs, BootDone(p)
  PROVE  IInv'
<1>a. /\ step[p] = "done" /\ phase[p] = "boot" /\ step' = [step EXCEPT ![p] = "idle"]
      /\ cur' = [cur EXCEPT ![p] = Boot]
      /\ cbuf' = [cbuf EXCEPT ![p] = ZeroBlock]
      /\ idx' = [idx EXCEPT ![p] = 1]
      /\ src' = [src EXCEPT ![p] = NoData]
      /\ UNCHANGED <<home, dlog, cb, cache, dirty, bufOwner, logcache, logLock, ilock,
                     phase, arg, txn, todo, halted>>
  BY Zenon DEF BootDone, DropLocals, Goto, disk, mem, logv
<1>b. TypeOK /\ LockInv /\ IdleInv /\ WriteInv /\ CommitInv /\ FlagInv /\ RecoverInv /\ SizeInv
  BY Zenon DEF IInv
<1>d. \A q \in Procs : q # p => step[q] = "idle"
  BY <1>a, Alone, Zenon
<1>e. Quiet'
  BY <1>a, <1>b, Zenon DEF IdleInv, Quiet
<1>f. \A q \in Procs : step'[q] = "idle"
  BY <1>a, <1>b, <1>d, Zenon DEF TypeOK
<1>1. TypeOK'
  BY <1>a, <1>b, <1>f, Zeroes, TxnType, Zenon DEF TypeOK, Steps
<1>2. LockInv'
  BY <1>a, <1>b, <1>d, <1>f DEF LockInv, Active
<1>3. IdleInv'
  BY <1>a, <1>b, <1>d, <1>e, Zenon DEF IdleInv
<1>4. WriteInv'
  BY <1>f, NotWriting, Zenon
<1>5. CommitInv'
  BY <1>f, NotCommitting, Zenon
<1>6. FlagInv'
  BY <1>a, <1>b, FlagFrame, Zenon
<1>7. RecoverInv'
  BY <1>f, NotRecovering, Zenon
<1>8. SizeInv'
  BY <1>a, <1>b, SizeFrame, Zenon
<1> QED
  BY <1>1, <1>2, <1>3, <1>4, <1>5, <1>6, <1>7, <1>8, Zenon DEF IInv

-----------------------------------------------------------------------------
\* log_commit_tx takes the log lock and reads the commit block.
LEMMA CommitBeginStep ==
  ASSUME IInv, NEW p \in Procs, CommitBegin(p)
  PROVE  IInv'
<1>a. /\ step[p] = "write" /\ step' = [step EXCEPT ![p] = "commit"]
      /\ todo[p] = {} /\ logLock = None /\ logLock' = p
      /\ cbuf' = [cbuf EXCEPT ![p] = cb]
      /\ idx' = [idx EXCEPT ![p] = 1]
      /\ UNCHANGED <<home, dlog, cb, cache, dirty, bufOwner, logcache, ilock, phase,
                     arg, txn, todo, cur, src, halted>>
  BY Zenon DEF CommitBegin, Goto, disk, mem
<1>b. TypeOK /\ LockInv /\ IdleInv /\ WriteInv /\ CommitInv /\ FlagInv /\ RecoverInv /\ SizeInv
  BY Zenon DEF IInv
<1>d. \A q \in Procs : q # p => step[q] = "idle"
  BY <1>a, Alone, Zenon
<1>e. BuildInv(p)
  BY <1>a, <1>b, Zenon DEF WriteInv
<1>s. step'[p] = "commit" /\ \A q \in Procs : q # p => step'[q] = "idle"
  BY <1>a, <1>d, Moved, Zenon
<1>1. TypeOK'
  BY <1>a, <1>b, Zenon DEF TypeOK, Steps
<1>2. LockInv'
  <2>1. \A q \in Procs : logLock' = q <=> step'[q] \in {"commit", "install", "copy"}
    BY <1>a, <1>s, Zenon
  <2> QED
    BY <1>a, <1>b, <1>d, <1>s, <2>1, LockMove, Zenon
<1>3. IdleInv'
  BY <1>a, <1>b, <1>d, <1>s, IdleFrame, Zenon
<1>4. WriteInv'
  <2>1. dirty \subseteq Blocks
    BY <1>b, Zenon DEF TypeOK
  <2>2. BuildInv(p)'
    BY <1>a, <1>e, <1>s, <2>1, BuildFrame, Zenon
  <2> QED
    BY <1>s, <2>2, OneBuilds, Zenon
<1>5. CommitInv'
  <2>1. cb.size = 0
    BY <1>e, Zenon DEF BuildInv, ZeroBlock
  <2>2. /\ cbuf'[p] = cb /\ idx'[p] = 1 /\ todo'[p] = {}
        /\ logcache' = logcache /\ Len(logcache) \in Nat
    BY <1>a, <1>b DEF TypeOK
  <2> QED
    BY <1>s, <2>1, <2>2 DEF CommitInv
<1>6. FlagInv'
  BY <1>a, <1>b, FlagFrame, Zenon
<1>7. RecoverInv'
  BY <1>s, NotRecovering, Zenon
<1>8. SizeInv'
  BY <1>a, <1>b, SizeFrame, Zenon
<1> QED
  BY <1>1, <1>2, <1>3, <1>4, <1>5, <1>6, <1>7, <1>8, Zenon DEF IInv

\* The local commit block after one more destination.
LEMMA AddBlockType ==
  ASSUME NEW c \in CommitBlock, NEW i \in Nat, NEW b \in Blocks
  PROVE  /\ AddBlock(c, i, b) \in CommitBlock
         /\ AddBlock(c, i, b).size = c.size + 1
         /\ AddBlock(c, i, b).dst = [c.dst EXCEPT ![i] = b]
<1>1. c.dst \in [1..LogSize -> Blocks] /\ c.size \in Nat /\ c.flag \in {0, 1}
  BY Zenon DEF CommitBlock
<1>2. [c.dst EXCEPT ![i] = b] \in [1..LogSize -> Blocks]
  BY <1>1, Zenon
<1>3. AddBlock(c, i, b) \in CommitBlock
  BY <1>1, <1>2 DEF AddBlock, CommitBlock
<1> QED
  BY <1>3, Zenon DEF AddBlock

\* One block of the log cache goes to the log region.
LEMMA CommitLogStep ==
  ASSUME IInv, NEW p \in Procs, CommitLog(p)
  PROVE  IInv'
<1>a. /\ step[p] = "commit" /\ idx[p] <= Len(logcache)
      /\ cbuf' = [cbuf EXCEPT ![p] = AddBlock(cbuf[p], idx[p], logcache[idx[p]].blk)]
      /\ dlog' = [dlog EXCEPT ![idx[p]] = logcache[idx[p]].data]
      /\ idx' = [idx EXCEPT ![p] = idx[p] + 1]
      /\ UNCHANGED <<home, cb, cache, dirty, bufOwner, logcache, logLock, ilock,
                     step, phase, arg, txn, todo, cur, src, halted>>
  BY Zenon DEF CommitLog, mem, logv
<1>b. TypeOK /\ LockInv /\ IdleInv /\ WriteInv /\ CommitInv /\ FlagInv /\ RecoverInv /\ SizeInv
  BY Zenon DEF IInv
<1>l. logcache \in Seq(LogEntry) /\ Len(logcache) \in Nat
  BY <1>b DEF TypeOK
<1>c. /\ idx[p] \in 1..Len(logcache)
      /\ logcache[idx[p]].blk \in Blocks
      /\ logcache[idx[p]].data \in Content
  <2>1. idx[p] \in 1..Len(logcache) + 1
    BY <1>a, <1>b, Zenon DEF CommitInv
  <2>2. idx[p] \in 1..Len(logcache)
    BY <1>a, <1>l, <2>1
  <2>3. logcache[idx[p]] \in LogEntry
    BY <1>l, <2>2
  <2> QED
    BY <2>2, <2>3, Zenon DEF LogEntry
<1>d. \A q \in Procs : q # p => step[q] = "idle"
  BY <1>a, Alone, Zenon
<1>e. BuildInv(p)
  BY <1>a, <1>b, Zenon DEF WriteInv
<1>f. idx[p] \in 1..LogSize
  BY <1>b, <1>l, <1>c, JournalAssumption DEF SizeInv
<1>g. /\ cbuf'[p] \in CommitBlock
      /\ cbuf'[p].size = cbuf[p].size + 1
      /\ cbuf'[p].dst = [cbuf[p].dst EXCEPT ![idx[p]] = logcache[idx[p]].blk]
  <2>1. cbuf'[p] = AddBlock(cbuf[p], idx[p], logcache[idx[p]].blk) /\ cbuf[p] \in CommitBlock
    BY <1>a, <1>b, Zenon DEF TypeOK
  <2> QED
    BY <1>c, <2>1, AddBlockType
<1>h. \A q \in Procs : q # p => cbuf'[q] = cbuf[q]
  BY <1>a, <1>b, Zenon DEF TypeOK
<1>i. cbuf' \in [Procs -> CommitBlock]
  BY <1>a, <1>b, <1>g, <1>h, Zenon DEF TypeOK
<1>j. dlog' \in [1..LogSize -> Content] /\ idx' \in [Procs -> Nat]
  <2>1. dlog \in [1..LogSize -> Content] /\ idx \in [Procs -> Nat]
    BY <1>b, Zenon DEF TypeOK
  <2>2. dlog' = [dlog EXCEPT ![idx[p]] = logcache[idx[p]].data]
    BY <1>a, Zenon
  <2>3. dlog' \in [1..LogSize -> Content]
    BY <1>c, <2>1, <2>2, Zenon
  <2>4. idx' \in [Procs -> Nat]
    BY <1>a, <2>1
  <2> QED
    BY <2>3, <2>4, Zenon
<1>s. step'[p] = "commit" /\ \A q \in Procs : q # p => step'[q] = "idle"
  BY <1>a, <1>d, Zenon
<1>1. TypeOK'
  BY <1>a, <1>b, <1>i, <1>j, Zenon DEF TypeOK
<1>2. LockInv'
  BY <1>a, <1>b, LockFrame, Zenon
<1>3. IdleInv'
  BY <1>a, <1>b, Zenon DEF IdleInv, Active, Quiet
<1>4. WriteInv'
  <2>1. dirty \subseteq Blocks
    BY <1>b, Zenon DEF TypeOK
  <2>2. BuildInv(p)'
    BY <1>a, <1>e, <1>s, <2>1, BuildFrame, Zenon
  <2> QED
    BY <1>s, <2>2, OneBuilds, Zenon
<1>5. CommitInv'
  <2>0. /\ todo[p] = {} /\ cbuf[p].size = idx[p] - 1
        /\ \A j \in 1..idx[p] - 1 :
             dlog[j] = logcache[j].data /\ cbuf[p].dst[j] = logcache[j].blk
    BY <1>a, <1>b, Zenon DEF CommitInv
  <2>1. idx'[p] = idx[p] + 1 /\ idx[p] \in Nat
    BY <1>a, <1>b, Zenon DEF TypeOK
  <2>2. cbuf'[p].size = idx'[p] - 1
    BY <1>g, <2>0, <2>1, SMTT(40), Z3T(40)
  <2>d. dlog' = [dlog EXCEPT ![idx[p]] = logcache[idx[p]].data]
    BY <1>a, Zenon
  <2>t. dlog \in [1..LogSize -> Content] /\ cbuf[p] \in CommitBlock
    BY <1>b, Zenon DEF TypeOK
  <2>u. cbuf[p].dst \in [1..LogSize -> Blocks]
    BY <2>t, Zenon DEF CommitBlock
  <2>3. \A j \in 1..LogSize : j # idx[p] => dlog'[j] = dlog[j] /\ cbuf'[p].dst[j] = cbuf[p].dst[j]
    BY <1>g, <2>d, <2>t, <2>u, Zenon
  <2>4. dlog'[idx[p]] = logcache[idx[p]].data /\ cbuf'[p].dst[idx[p]] = logcache[idx[p]].blk
    BY <1>f, <1>g, <2>d, <2>t, <2>u, Zenon
  <2>5. \A j \in 1..idx'[p] - 1 :
          dlog'[j] = logcache[j].data /\ cbuf'[p].dst[j] = logcache[j].blk
    <3> SUFFICES ASSUME NEW j \in 1..idx[p]
                 PROVE  dlog'[j] = logcache[j].data /\ cbuf'[p].dst[j] = logcache[j].blk
      BY <2>1
    <3>1. j \in 1..LogSize
      BY <1>f, JournalAssumption
    <3>2. j # idx[p] => dlog[j] = logcache[j].data /\ cbuf[p].dst[j] = logcache[j].blk
      BY <2>0, <2>1
    <3> QED
      BY <2>3, <2>4, <3>1, <3>2, Zenon
  <2>6. idx'[p] \in 1..Len(logcache) + 1
    BY <1>c, <1>l, <2>1
  <2>7. UNCHANGED <<logcache, todo>>
    BY <1>a, Zenon
  <2> QED
    BY <1>s, <2>0, <2>2, <2>5, <2>6, <2>7, Zenon DEF CommitInv
<1>6. FlagInv'
  BY <1>a, <1>b, FlagFrame, Zenon
<1>7. RecoverInv'
  BY <1>s, NotRecovering, Zenon
<1>8. SizeInv'
  BY <1>a, <1>b, SizeFrame, Zenon
<1> QED
  BY <1>1, <1>2, <1>3, <1>4, <1>5, <1>6, <1>7, <1>8, Zenon DEF IInv

\* The commit block goes to disk: from here on the log is what counts.
LEMMA CommitFlagStep ==
  ASSUME IInv, NEW p \in Procs, CommitFlag(p)
  PROVE  IInv'
<1>a. /\ step[p] = "commit" /\ step' = [step EXCEPT ![p] = "recover"]
      /\ idx[p] > Len(logcache)
      /\ logcache' = <<>>
      /\ cb' = [cbuf[p] EXCEPT !.flag = 1]
      /\ logLock' = None
      /\ txn' = [txn EXCEPT ![p] = Empty]
      /\ UNCHANGED <<home, dlog, cache, dirty, bufOwner, ilock, phase, arg, todo,
                     cur, cbuf, idx, src, halted>>
  BY Zenon DEF CommitFlag, Goto, mem
<1>b. TypeOK /\ LockInv /\ IdleInv /\ WriteInv /\ CommitInv /\ FlagInv /\ RecoverInv /\ SizeInv
  BY Zenon DEF IInv
<1>d. \A q \in Procs : q # p => step[q] = "idle"
  BY <1>a, Alone, Zenon
<1>e. BuildInv(p)
  BY <1>a, <1>b, Zenon DEF WriteInv
<1>f. /\ cb' \in CommitBlock
      /\ cb'.flag = 1 /\ cb'.size = cbuf[p].size /\ cb'.dst = cbuf[p].dst
  BY <1>a, <1>b, Zenon DEF TypeOK, CommitBlock
<1>g. Len(logcache) \in Nat /\ cb'.size = Len(logcache) /\ idx[p] = Len(logcache) + 1
  BY <1>a, <1>b, <1>f DEF CommitInv, TypeOK
<1>h. \A j \in 1..Len(logcache) : cb'.dst[j] = logcache[j].blk /\ dlog[j] = logcache[j].data
  BY <1>a, <1>b, <1>f, <1>g DEF CommitInv
<1>s. step'[p] = "recover" /\ \A q \in Procs : q # p => step'[q] = "idle"
  BY <1>a, <1>d, Moved, Zenon
<1>1. TypeOK'
  BY <1>a, <1>b, <1>f, TxnType DEF TypeOK, Steps
<1>2. LockInv'
  <2>1. \A q \in Procs : logLock' = q <=> step'[q] \in {"commit", "install", "copy"}
    BY <1>a, <1>s, NoneIsNobody, Zenon
  <2> QED
    BY <1>a, <1>b, <1>d, <1>s, <2>1, LockMove, Zenon
<1>3. IdleInv'
  BY <1>a, <1>b, <1>d, Zenon DEF IdleInv, Active, TypeOK, CommitInv
<1>4. WriteInv'
  BY <1>s, NotWriting, Zenon
<1>5. CommitInv'
  BY <1>s, NotCommitting, Zenon
<1>6. FlagInv'
  <2>1. cb'.size <= NBuf
    BY <1>b, <1>g, JournalAssumption DEF SizeInv
  <2> QED
    BY <1>e, <1>f, <1>g, <1>h, <2>1 DEF FlagInv, BuildInv
<1>7. RecoverInv'
  <2>1. \A c \in Blocks \ dirty : cache[c] = home[c]
    BY <1>a, <1>e, Zenon DEF BuildInv
  <2>2. \A c \in dirty : \E j \in 1..cb'.size : cb'.dst[j] = c
    BY <1>e, <1>g, <1>h DEF BuildInv
  <2> QED
    BY <1>a, <1>b, <1>d, <2>1, <2>2 DEF RecoverInv, TypeOK
<1>8. SizeInv'
  BY <1>a, <1>b DEF SizeInv
<1> QED
  BY <1>1, <1>2, <1>3, <1>4, <1>5, <1>6, <1>7, <1>8, Zenon DEF IInv

\* log_recover reads the commit block, after a commit or at boot.
LEMMA RecoverBeginStep ==
  ASSUME IInv, NEW p \in Procs, RecoverBegin(p)
  PROVE  IInv'
<1>a. /\ step[p] = "recover"
      /\ cbuf' = [cbuf EXCEPT ![p] = cb]
      /\ idx' = [idx EXCEPT ![p] = 1]
      /\ UNCHANGED <<home, dlog, cb, cache, dirty, bufOwner, logcache, ilock, phase,
                     arg, txn, todo, cur, src, halted>>
  BY Zenon DEF RecoverBegin, disk, mem
<1>b. TypeOK /\ LockInv /\ IdleInv /\ WriteInv /\ CommitInv /\ FlagInv /\ RecoverInv /\ SizeInv
  BY Zenon DEF IInv
<1>d. \A q \in Procs : q # p => step[q] = "idle"
  BY <1>a, Alone, Zenon
<1>e. \/ cb.flag = 1 /\ logLock' = p /\ step' = [step EXCEPT ![p] = "install"]
      \/ cb.flag # 1 /\ UNCHANGED logLock /\ step' = [step EXCEPT ![p] = "done"]
  BY Zenon DEF RecoverBegin, Goto
<1>s. /\ step'[p] \in {"install", "done"}
      /\ \A q \in Procs : q # p => step'[q] = "idle"
  BY <1>d, <1>e, Moved, Zenon
<1>1. TypeOK'
  <2>1. step' \in [Procs -> Steps] /\ logLock' \in Procs \cup {None}
    BY <1>b, <1>e, Zenon DEF TypeOK, Steps
  <2> QED
    BY <1>a, <1>b, <2>1, Zenon DEF TypeOK
<1>2. LockInv'
  <2>1. \A q \in Procs : logLock # q
    BY <1>a, <1>b, <1>d, Zenon DEF LockInv
  <2>2. \/ step'[p] = "install" /\ logLock' = p
        \/ step'[p] = "done" /\ logLock' = logLock
    BY <1>d, <1>e, Moved, Zenon
  <2>3. \A q \in Procs : logLock' = q <=> step'[q] \in {"commit", "install", "copy"}
    BY <1>s, <2>1, <2>2, Zenon
  <2> QED
    BY <1>a, <1>b, <1>d, <1>s, <2>3, LockMove, Zenon
<1>3. IdleInv'
  <2>1. cb.flag # 1 => Quiet
    BY <1>a, <1>b DEF FlagInv, ZeroBlock, RecoverInv, Quiet, TypeOK
  <2>2. Quiet => Quiet'
    BY <1>a, Zenon DEF Quiet
  <2>3. step'[p] = "done" => cb.flag # 1
    BY <1>d, <1>e, Moved
  <2> QED
    BY <1>a, <1>b, <1>d, <2>1, <2>2, <2>3, <1>s, Zenon DEF IdleInv, Active
<1>4. WriteInv'
  BY <1>s, NotWriting, Zenon
<1>5. CommitInv'
  BY <1>s, NotCommitting, Zenon
<1>6. FlagInv'
  BY <1>a, <1>b, FlagFrame, Zenon
<1>7. RecoverInv'
  BY <1>a, <1>b, <1>d, <1>e, SMTT(40), Z3T(40) DEF RecoverInv, TypeOK, CommitBlock
<1>8. SizeInv'
  BY <1>a, <1>b, SizeFrame, Zenon
<1> QED
  BY <1>1, <1>2, <1>3, <1>4, <1>5, <1>6, <1>7, <1>8, Zenon DEF IInv

\* log_recover reads a block of the log ...
LEMMA InstallReadStep ==
  ASSUME IInv, NEW p \in Procs, InstallRead(p)
  PROVE  IInv'
<1>a. /\ step[p] = "install" /\ step' = [step EXCEPT ![p] = "copy"]
      /\ idx[p] <= cbuf[p].size
      /\ src' = [src EXCEPT ![p] = dlog[idx[p]]]
      /\ UNCHANGED <<home, dlog, cb, cache, dirty, bufOwner, logcache, logLock, ilock,
                     phase, arg, txn, todo, cur, cbuf, idx, halted>>
  BY Zenon DEF InstallRead, Goto, disk, mem, logv
<1>b. TypeOK /\ LockInv /\ IdleInv /\ WriteInv /\ CommitInv /\ FlagInv /\ RecoverInv /\ SizeInv
  BY Zenon DEF IInv
<1>d. \A q \in Procs : q # p => step[q] = "idle"
  BY <1>a, Alone, Zenon
<1>e. idx[p] \in 1..cb.size /\ idx[p] \in 1..LogSize
  <2>1. cbuf[p] = cb /\ idx[p] \in 1..cb.size + 1 /\ cb.size <= NBuf
    BY <1>a, <1>b, Zenon DEF RecoverInv, FlagInv
  <2>2. cb.size \in Nat
    BY <1>b, Zenon DEF TypeOK, CommitBlock
  <2> QED
    BY <1>a, <2>1, <2>2, JournalAssumption, SMTT(40), Z3T(40)
<1>f. dlog[idx[p]] \in Content
  BY <1>b, <1>e, Zenon DEF TypeOK
<1>s. step'[p] = "copy" /\ \A q \in Procs : q # p => step'[q] = "idle"
  BY <1>a, <1>d, Moved, Zenon
<1>1. TypeOK'
  <2>1. step' \in [Procs -> Steps] /\ src' \in [Procs -> Content]
    BY <1>a, <1>b, <1>f, Zenon DEF TypeOK, Steps
  <2> QED
    BY <1>a, <1>b, <2>1, Zenon DEF TypeOK
<1>2. LockInv'
  <2>1. \A q \in Procs : logLock' = q <=> step'[q] \in {"commit", "install", "copy"}
    BY <1>a, <1>b, <1>s, Zenon DEF LockInv
  <2> QED
    BY <1>a, <1>b, <1>d, <1>s, <2>1, LockMove, Zenon
<1>3. IdleInv'
  BY <1>a, <1>b, <1>d, <1>s, IdleFrame, Zenon
<1>4. WriteInv'
  BY <1>s, NotWriting, Zenon
<1>5. CommitInv'
  BY <1>s, NotCommitting, Zenon
<1>6. FlagInv'
  BY <1>a, <1>b, FlagFrame, Zenon
<1>7. RecoverInv'
  <2>1. src'[p] = dlog[idx[p]]
    <3>1. src' = [src EXCEPT ![p] = dlog[idx[p]]]
      BY <1>a, Zenon
    <3>2. src \in [Procs -> Content]
      BY <1>b, Zenon DEF TypeOK
    <3> QED
      BY <3>1, <3>2, Zenon
  <2>2. step[p] = "install" /\ UNCHANGED <<home, dlog, cb, cache, dirty, logcache, cbuf, idx>>
    BY <1>a, Zenon
  <2> QED
    BY <1>b, <1>d, <1>e, <1>s, <2>1, <2>2, SMTT(40), Z3T(40) DEF RecoverInv
<1>8. SizeInv'
  BY <1>a, <1>b, SizeFrame, Zenon
<1> QED
  BY <1>1, <1>2, <1>3, <1>4, <1>5, <1>6, <1>7, <1>8, Zenon DEF IInv

\* updatei begins the transaction of the dinode.
LEMMA UpdateInodeStep ==
  ASSUME IInv, NEW p \in Procs, UpdateInode(p)
  PROVE  IInv'
<1>0. PICK v \in Vals : txn' = [txn EXCEPT ![p] = [b \in {IBlk} |-> v]]
  BY Zenon DEF UpdateInode
<1>a. /\ step[p] = "done" /\ phase[p] = "data" /\ step' = [step EXCEPT ![p] = "write"]
      /\ todo' = [todo EXCEPT ![p] = {IBlk}]
      /\ phase' = [phase EXCEPT ![p] = "last"]
      /\ cur' = [cur EXCEPT ![p] = Boot]
      /\ cbuf' = [cbuf EXCEPT ![p] = ZeroBlock]
      /\ idx' = [idx EXCEPT ![p] = 1]
      /\ src' = [src EXCEPT ![p] = NoData]
      /\ UNCHANGED <<home, dlog, cb, cache, dirty, bufOwner, logcache, logLock, ilock,
                     arg, halted>>
  BY Zenon DEF UpdateInode, DropLocals, Goto, disk, mem, logv
<1>b. TypeOK /\ LockInv /\ IdleInv /\ WriteInv /\ CommitInv /\ FlagInv /\ RecoverInv /\ SizeInv
  BY Zenon DEF IInv
<1>d. \A q \in Procs : q # p => step[q] = "idle"
  BY <1>a, Alone, Zenon
<1>e. Quiet
  BY <1>a, <1>b, Zenon DEF IdleInv
<1>f. [b \in {IBlk} |-> v] \in Txns
  <2>1. [b \in {IBlk} |-> v] \in [{IBlk} -> Vals] /\ {IBlk} \in SUBSET Blocks
    BY Zeroes, Zenon
  <2> QED
    BY <2>1, TxnType, Zenon
<1>t. /\ txn \in [Procs -> Txns] /\ todo \in [Procs -> SUBSET Blocks]
      /\ phase \in [Procs -> Phases] /\ step \in [Procs -> Steps]
  BY <1>b, Zenon DEF TypeOK
<1>s. step'[p] = "write" /\ \A q \in Procs : q # p => step'[q] = "idle"
  BY <1>a, <1>d, Moved, Zenon
<1>1. TypeOK'
  <2>1. txn' \in [Procs -> Txns] /\ todo' \in [Procs -> SUBSET Blocks]
    BY <1>0, <1>a, <1>f, <1>t, Zeroes, Zenon
  <2>2. step' \in [Procs -> Steps] /\ phase' \in [Procs -> Phases]
    <3>1. step' = [step EXCEPT ![p] = "write"] /\ phase' = [phase EXCEPT ![p] = "last"]
      BY <1>a, Zenon
    <3> QED
      BY <1>t, <3>1, Zenon DEF Steps, Phases
  <2> QED
    BY <1>a, <1>b, <2>1, <2>2, Zeroes, Zenon DEF TypeOK
<1>2. LockInv'
  <2>1. phase'[p] = "last" /\ \A q \in Procs : q # p => phase'[q] = phase[q]
    BY <1>a, <1>t, Zenon
  <2>2. step[p] = "done" /\ phase[p] = "data" /\ UNCHANGED <<bufOwner, logLock, ilock>>
    BY <1>a, Zenon
  <2> QED
    BY <1>b, <1>d, <1>s, <2>1, <2>2 DEF LockInv, Active
<1>3. IdleInv'
  BY <1>0, <1>a, <1>b, <1>d, <1>s, <1>t, Zenon DEF IdleInv, Active
<1>4. WriteInv'
  <2>1. phase'[p] = "last" /\ todo'[p] = {IBlk} /\ DOMAIN txn'[p] = {IBlk}
    BY <1>0, <1>a, <1>t, Zenon
  <2>2. Quiet'
    BY <1>a, <1>e, Zenon DEF Quiet
  <2>3. BuildInv(p)'
    BY <1>s, <2>1, <2>2, BuildStart, Zenon
  <2> QED
    BY <1>s, <2>3, OneBuilds, Zenon
<1>5. CommitInv'
  BY <1>s, NotCommitting, Zenon
<1>6. FlagInv'
  BY <1>a, <1>b, FlagFrame, Zenon
<1>7. RecoverInv'
  BY <1>s, NotRecovering, Zenon
<1>8. SizeInv'
  BY <1>a, <1>b, SizeFrame, Zenon
<1> QED
  BY <1>1, <1>2, <1>3, <1>4, <1>5, <1>6, <1>7, <1>8, Zenon DEF IInv


\* ... and puts it in its place, on disk and in the cache.
LEMMA InstallCopyStep ==
  ASSUME IInv, NEW p \in Procs, InstallCopy(p), SizeInv'
  PROVE  IInv'
<1> DEFINE d == cbuf[p].dst[idx[p]]
<1>a. /\ step[p] = "copy" /\ step' = [step EXCEPT ![p] = "install"]
      /\ cache' = [cache EXCEPT ![d] = src[p]]
      /\ home' = [home EXCEPT ![d] = src[p]]
      /\ dirty' = dirty \ {d}
      /\ idx' = [idx EXCEPT ![p] = idx[p] + 1]
      /\ UNCHANGED <<dlog, cb, bufOwner, logcache, logLock, ilock, phase, arg, txn,
                     todo, cur, cbuf, src, halted>>
  BY Zenon DEF InstallCopy, Goto, logv
<1>b. TypeOK /\ LockInv /\ IdleInv /\ WriteInv /\ CommitInv /\ FlagInv /\ RecoverInv /\ SizeInv
  BY Zenon DEF IInv
<1>d. \A q \in Procs : q # p => step[q] = "idle"
  BY <1>a, Alone, Zenon
<1>e. /\ cbuf[p] = cb /\ cb.flag = 1 /\ src[p] = dlog[idx[p]]
      /\ idx[p] \in 1..cb.size /\ idx[p] \in 1..LogSize /\ cb.size \in Nat
  <2>1. /\ cbuf[p] = cb /\ cb.flag = 1 /\ src[p] = dlog[idx[p]]
        /\ idx[p] \in 1..cb.size + 1 /\ idx[p] <= cb.size /\ cb.size <= NBuf
    BY <1>a, <1>b, Zenon DEF RecoverInv, FlagInv
  <2>2. cb.size \in Nat
    BY <1>b, Zenon DEF TypeOK, CommitBlock
  <2> QED
    BY <2>1, <2>2, JournalAssumption
<1>f. d \in Blocks /\ d = cb.dst[idx[p]]
  BY <1>b, <1>e, Zenon DEF TypeOK, CommitBlock
<1>g. logcache = <<>>
  BY <1>a, <1>b, Zenon DEF RecoverInv
<1> HIDE DEF d
<1>s. step'[p] = "install" /\ \A q \in Procs : q # p => step'[q] = "idle"
  BY <1>a, <1>d, Moved, Zenon
<1>1. TypeOK'
  BY <1>a, <1>b, <1>f, SMTT(40), Z3T(40) DEF TypeOK, Steps
<1>2. LockInv'
  <2>1. \A q \in Procs : logLock' = q <=> step'[q] \in {"commit", "install", "copy"}
    BY <1>a, <1>b, <1>s, Zenon DEF LockInv
  <2> QED
    BY <1>a, <1>b, <1>d, <1>s, <2>1, LockMove, Zenon
<1>3. IdleInv'
  BY <1>a, <1>b, <1>d, <1>s, IdleFrame, Zenon
<1>4. WriteInv'
  BY <1>s, NotWriting, Zenon
<1>5. CommitInv'
  BY <1>s, NotCommitting, Zenon
<1>6. FlagInv'
  BY <1>a, <1>b, FlagFrame, Zenon
<1>7. RecoverInv'
  <2>1. /\ cache'[d] = src[p] /\ home'[d] = src[p]
        /\ \A c \in Blocks : c # d => cache'[c] = cache[c] /\ home'[c] = home[c]
    BY <1>a, <1>b, <1>f, Zenon DEF TypeOK
  <2>2. \A c \in Blocks \ dirty' : cache'[c] = home'[c]
    BY <1>a, <1>b, <2>1, Zenon DEF RecoverInv
  <2>3. \A c \in dirty' : \E j \in 1..cb.size : cb.dst[j] = c
    BY <1>a, <1>b, Zenon DEF RecoverInv
  <2>4. idx'[p] = idx[p] + 1 /\ idx[p] \in Nat
    BY <1>a, <1>b, Zenon DEF TypeOK
  <2>5. \A j \in 1..idx[p] : home'[cb.dst[j]] = dlog[j] /\ cb.dst[j] \notin dirty'
    <3> SUFFICES ASSUME NEW j \in 1..idx[p]
                 PROVE  home'[cb.dst[j]] = dlog[j] /\ cb.dst[j] \notin dirty'
      BY Zenon
    <3>1. j \in 1..cb.size /\ cb.dst[j] \in Blocks
      BY <1>b, <1>e, JournalAssumption, SMTT(40), Z3T(40) DEF TypeOK, CommitBlock, FlagInv
    <3>2. CASE j = idx[p]
      BY <1>a, <1>e, <1>f, <2>1, <3>2, Zenon
    <3>3. CASE j # idx[p]
      <4>1. cb.dst[j] # d
        BY <1>b, <1>e, <1>f, <3>1, <3>3, Zenon DEF FlagInv
      <4>2. home[cb.dst[j]] = dlog[j] /\ cb.dst[j] \notin dirty
        BY <1>a, <1>b, <2>4, <3>3, SMTT(40), Z3T(40) DEF RecoverInv
      <4> QED
        BY <1>a, <2>1, <3>1, <4>1, <4>2, Zenon
    <3> QED
      BY <3>2, <3>3, Zenon
  <2>6. idx'[p] \in 1..cb.size + 1 /\ idx'[p] - 1 = idx[p]
    BY <1>e, <2>4
  <2>7. step'[p] = "install" /\ \A q \in Procs : q # p => step'[q] = "idle"
    BY <1>a, <1>b, <1>d, Zenon DEF TypeOK
  <2> QED
    BY <1>a, <1>e, <1>g, <2>2, <2>3, <2>5, <2>6, <2>7, SMTT(40), Z3T(40) DEF RecoverInv
<1>8. SizeInv'
  BY Zenon
<1> QED
  BY <1>1, <1>2, <1>3, <1>4, <1>5, <1>6, <1>7, <1>8, Zenon DEF IInv

\* The commit block is cleared and the log lock given back.
LEMMA RecoverClearStep ==
  ASSUME IInv, NEW p \in Procs, RecoverClear(p)
  PROVE  IInv'
<1>a. /\ step[p] = "install" /\ step' = [step EXCEPT ![p] = "done"]
      /\ idx[p] > cbuf[p].size
      /\ cb' = ZeroBlock /\ logLock' = None
      /\ UNCHANGED <<home, dlog, cache, dirty, bufOwner, logcache, ilock, phase, arg,
                     txn, todo, cur, cbuf, idx, src, halted>>
  BY Zenon DEF RecoverClear, Goto, mem
<1>b. TypeOK /\ LockInv /\ IdleInv /\ WriteInv /\ CommitInv /\ FlagInv /\ RecoverInv /\ SizeInv
  BY Zenon DEF IInv
<1>d. \A q \in Procs : q # p => step[q] = "idle"
  BY <1>a, Alone, Zenon
<1>e. Quiet'
  <2>1. cbuf[p] = cb /\ cb.size \in Nat /\ idx[p] = cb.size + 1
    BY <1>a, <1>b, SMTT(40), Z3T(40) DEF RecoverInv, TypeOK, CommitBlock
  <2>2. \A j \in 1..cb.size : cb.dst[j] \notin dirty
    BY <1>a, <1>b, <2>1, SMTT(40), Z3T(40) DEF RecoverInv
  <2>3. dirty = {}
    BY <1>a, <1>b, <2>2, Zenon DEF RecoverInv
  <2>4. cache = home
    BY <1>a, <1>b, <2>3, SMTT(40), Z3T(40) DEF RecoverInv, TypeOK
  <2>5. logcache = <<>>
    BY <1>a, <1>b, Zenon DEF RecoverInv
  <2> QED
    BY <1>a, <2>3, <2>4, <2>5, Zenon DEF Quiet
<1>s. step'[p] = "done" /\ \A q \in Procs : q # p => step'[q] = "idle"
  BY <1>a, <1>d, Moved, Zenon
<1>1. TypeOK'
  BY <1>a, <1>b, Zeroes, Zenon DEF TypeOK, Steps
<1>2. LockInv'
  <2>1. \A q \in Procs : logLock' = q <=> step'[q] \in {"commit", "install", "copy"}
    BY <1>a, <1>s, NoneIsNobody, Zenon
  <2> QED
    BY <1>a, <1>b, <1>d, <1>s, <2>1, LockMove, Zenon
<1>3. IdleInv'
  BY <1>a, <1>b, <1>d, <1>e, <1>s, Zenon DEF IdleInv, Active
<1>4. WriteInv'
  BY <1>s, NotWriting, Zenon
<1>5. CommitInv'
  BY <1>s, NotCommitting, Zenon
<1>6. FlagInv'
  BY <1>a, JournalAssumption, SMTT(40), Z3T(40) DEF FlagInv, ZeroBlock
<1>7. RecoverInv'
  BY <1>s, NotRecovering, Zenon
<1>8. SizeInv'
  BY <1>a, <1>b, SizeFrame, Zenon
<1> QED
  BY <1>1, <1>2, <1>3, <1>4, <1>5, <1>6, <1>7, <1>8, Zenon DEF IInv

\* filewrite gives back the lock of the inode.
LEMMA FileWriteReturnStep ==
  ASSUME IInv, NEW p \in Procs, FileWriteReturn(p)
  PROVE  IInv'
<1>a. /\ step[p] = "done" /\ phase[p] = "last" /\ step' = [step EXCEPT ![p] = "idle"]
      /\ ilock' = [ilock EXCEPT ![FileOf[p]] = None]
      /\ arg' = [arg EXCEPT ![p] = Empty]
      /\ cur' = [cur EXCEPT ![p] = Boot]
      /\ cbuf' = [cbuf EXCEPT ![p] = ZeroBlock]
      /\ idx' = [idx EXCEPT ![p] = 1]
      /\ src' = [src EXCEPT ![p] = NoData]
      /\ UNCHANGED <<home, dlog, cb, cache, dirty, bufOwner, logcache, logLock, phase,
                     txn, todo, halted>>
  BY Zenon DEF FileWriteReturn, DropLocals, Goto, disk, mem, logv
<1>b. TypeOK /\ LockInv /\ IdleInv /\ WriteInv /\ CommitInv /\ FlagInv /\ RecoverInv /\ SizeInv
  BY Zenon DEF IInv
<1>d. \A q \in Procs : q # p => step[q] = "idle"
  BY <1>a, Alone, Zenon
<1>e. Quiet'
  BY <1>a, <1>b, Zenon DEF IdleInv, Quiet
<1>f. \A q \in Procs : step'[q] = "idle"
  BY <1>a, <1>b, <1>d, Zenon DEF TypeOK
<1>1. TypeOK'
  <2>1. step' \in [Procs -> Steps] /\ arg' \in [Procs -> Txns]
    BY <1>a, <1>b, TxnType, Zenon DEF TypeOK, Steps
  <2>2. ilock' \in [Files -> Procs \cup {None}]
    BY <1>a, <1>b, Zenon DEF TypeOK
  <2> QED
    BY <1>a, <1>b, <2>1, <2>2, Zeroes, Zenon DEF TypeOK
<1>2. LockInv'
  <2>1. \A q \in Procs : ilock'[FileOf[q]] = None
    BY <1>a, <1>b, JournalAssumption, OneFile, SMTT(40), Z3T(40) DEF TypeOK
  <2>2. \A q \in Procs : logLock' # q
    BY <1>a, <1>b, <1>d, Zenon DEF LockInv
  <2>3. \A c \in Blocks, q \in Procs : bufOwner'[c] # q
    BY <1>a, <1>b, <1>d, Zenon DEF LockInv
  <2> QED
    BY <1>f, <2>1, <2>2, <2>3, NoneIsNobody, Zenon DEF LockInv, Active
<1>3. IdleInv'
  BY <1>a, <1>b, <1>d, <1>e, Zenon DEF IdleInv
<1>4. WriteInv'
  BY <1>f, NotWriting, Zenon
<1>5. CommitInv'
  BY <1>f, NotCommitting, Zenon
<1>6. FlagInv'
  BY <1>a, <1>b, FlagFrame, Zenon
<1>7. RecoverInv'
  BY <1>f, NotRecovering, Zenon
<1>8. SizeInv'
  BY <1>a, <1>b, SizeFrame, Zenon
<1> QED
  BY <1>1, <1>2, <1>3, <1>4, <1>5, <1>6, <1>7, <1>8, Zenon DEF IInv

\* halted is not in the invariant but for its type: a panic, like a stuttering
\* step, leaves the rest alone.
LEMMA FrozenStep ==
  ASSUME IInv, UNCHANGED <<disk, mem, logv, ilock, local>>, halted' \in BOOLEAN
  PROVE  IInv'
<1>a. UNCHANGED <<home, dlog, cb, cache, dirty, bufOwner, logcache, logLock, ilock, step,
                  phase, arg, txn, todo, cur, cbuf, idx, src>>
  BY Zenon DEF disk, mem, logv, local
<1>b. TypeOK /\ LockInv /\ IdleInv /\ WriteInv /\ CommitInv /\ FlagInv /\ RecoverInv /\ SizeInv
  BY Zenon DEF IInv
<1>1. TypeOK'
  BY <1>a, <1>b, Zenon DEF TypeOK
<1>2. LockInv'
  BY <1>a, <1>b, LockFrame, Zenon
<1>3. IdleInv'
  BY <1>a, <1>b, Zenon DEF IdleInv, Active, Quiet
<1>4. WriteInv'
  <2>1. \A q \in Procs : \A c : Written(q, c)' = Written(q, c)
    BY <1>a, Zenon DEF Written
  <2>2. \A q \in Procs : BuildInv(q) => BuildInv(q)'
    BY <1>a, <2>1, SMTT(40), Z3T(40) DEF BuildInv
  <2> QED
    BY <1>a, <1>b, <2>1, <2>2, Zenon DEF WriteInv
<1>5. CommitInv'
  BY <1>a, <1>b, Zenon DEF CommitInv
<1>6. FlagInv'
  BY <1>a, <1>b, FlagFrame, Zenon
<1>7. RecoverInv'
  BY <1>a, <1>b, Zenon DEF RecoverInv
<1>8. SizeInv'
  BY <1>a, <1>b, SizeFrame, Zenon
<1> QED
  BY <1>1, <1>2, <1>3, <1>4, <1>5, <1>6, <1>7, <1>8, Zenon DEF IInv

-----------------------------------------------------------------------------
\* From here on the proofs count the dirty buffers.
INSTANCE FiniteSetTheorems

\* The disk mkfs makes, and nothing in memory.
LEMMA InitStep == Init => IInv
<1> SUFFICES ASSUME Init PROVE IInv
  BY Zenon
<1>0. IsFiniteSet({}) /\ Cardinality({}) = 0
  BY FS_EmptySet, Zenon
<1>1. TypeOK
  <2>1. step \in [Procs -> Steps] /\ phase \in [Procs -> Phases]
    BY Zenon DEF Init, Steps, Phases
  <2>2. cb \in CommitBlock /\ cbuf \in [Procs -> CommitBlock]
    BY Zeroes, Zenon DEF Init
  <2>3. arg \in [Procs -> Txns] /\ txn \in [Procs -> Txns]
    BY TxnType, Zenon DEF Init
  <2>4. logcache \in Seq(LogEntry)
    BY DEF Init
  <2> QED
    BY <2>1, <2>2, <2>3, <2>4, Zeroes, Zenon DEF TypeOK, Init
<1>2. LockInv
  BY JournalAssumption, Zenon DEF LockInv, Active, Init
<1>3. IdleInv
  BY Zenon DEF IdleInv, Quiet, Active, Init
<1>4. WriteInv
  BY Zenon DEF WriteInv, Init
<1>5. CommitInv
  BY Zenon DEF CommitInv, Init
<1>6. FlagInv
  BY JournalAssumption, SMTT(40), Z3T(40) DEF FlagInv, ZeroBlock, Init
<1>7. RecoverInv
  BY Zenon DEF RecoverInv, ZeroBlock, Init
<1>8. SizeInv
  BY <1>0, JournalAssumption, SMTT(40), Z3T(40) DEF SizeInv, Init
<1> QED
  BY <1>1, <1>2, <1>3, <1>4, <1>5, <1>6, <1>7, <1>8, Zenon DEF IInv

\* log_write appends one entry to the log cache and pins one more buffer.
LEMMA LogWriteSize ==
  ASSUME IInv, NEW p \in Procs, LogWrite(p)
  PROVE  SizeInv'
<1>a. /\ step[p] = "logwrite"
      /\ logcache' = Append(logcache, [blk |-> cur[p], data |-> cache[cur[p]]])
      /\ dirty' = dirty \cup {cur[p]}
  BY Zenon DEF LogWrite
<1>b. SizeInv /\ logcache \in Seq(LogEntry)
  BY Zenon DEF IInv, TypeOK
<1>e. BuildInv(p) /\ cur[p] \in todo[p] /\ Cardinality(dirty) < NBuf
  BY <1>a, Zenon DEF IInv, WriteInv
<1>f. cur[p] \notin dirty
  BY <1>e, Zenon DEF BuildInv
<1>1. IsFiniteSet(dirty') /\ Cardinality(dirty') = Cardinality(dirty) + 1
  BY <1>a, <1>b, <1>f, FS_AddElement, Zenon DEF SizeInv
<1>2. Len(logcache') = Len(logcache) + 1 /\ Len(logcache) \in Nat
  BY <1>a, <1>b
<1> QED
  BY <1>b, <1>e, <1>1, <1>2, JournalAssumption, SMTT(40), Z3T(40) DEF SizeInv

\* log_recover unpins the buffer of the block it has installed.
LEMMA InstallCopySize ==
  ASSUME IInv, NEW p \in Procs, InstallCopy(p)
  PROVE  SizeInv'
<1>a. dirty' = dirty \ {cbuf[p].dst[idx[p]]} /\ logcache' = logcache /\ step[p] = "copy"
  BY Zenon DEF InstallCopy, logv
<1>b. SizeInv /\ logcache = <<>>
  BY <1>a, Zenon DEF IInv, RecoverInv
<1>1. IsFiniteSet(dirty') /\ Cardinality(dirty') <= Cardinality(dirty)
  BY <1>a, <1>b, FS_Subset, Zenon DEF SizeInv
<1>2. Cardinality(dirty') \in Nat
  BY <1>1, FS_CardinalityType, Zenon
<1> QED
  BY <1>a, <1>b, <1>1, <1>2, JournalAssumption, SMTT(40), Z3T(40) DEF SizeInv

\* A crash keeps the disk and loses everything else.
LEMMA CrashStep == ASSUME IInv, Crash PROVE IInv'
<1>0. PICK p \in Procs : step' = [q \in Procs |-> IF q = p THEN "recover" ELSE "idle"]
  BY Zenon DEF Crash
<1>a. /\ halted' = FALSE /\ cache' = home /\ dirty' = {}
      /\ bufOwner' = [b \in Blocks |-> None]
      /\ logcache' = <<>> /\ logLock' = None
      /\ ilock' = [f \in Files |-> None]
      /\ phase' = [q \in Procs |-> "boot"]
      /\ arg' = [q \in Procs |-> Empty]
      /\ txn' = [q \in Procs |-> Empty]
      /\ todo' = [q \in Procs |-> {}]
      /\ cur' = [q \in Procs |-> Boot]
      /\ cbuf' = [q \in Procs |-> ZeroBlock]
      /\ idx' = [q \in Procs |-> 1]
      /\ src' = [q \in Procs |-> NoData]
      /\ UNCHANGED <<home, dlog, cb>>
  BY Zenon DEF Crash, disk
<1>b. TypeOK /\ LockInv /\ IdleInv /\ WriteInv /\ CommitInv /\ FlagInv /\ RecoverInv /\ SizeInv
  BY Zenon DEF IInv
<1>1. TypeOK'
  <2>1. step' \in [Procs -> Steps] /\ phase' \in [Procs -> Phases]
    BY <1>0, <1>a, Zenon DEF Steps, Phases
  <2>2. arg' \in [Procs -> Txns] /\ txn' \in [Procs -> Txns]
    BY <1>a, TxnType, Zenon
  <2>3. cbuf' \in [Procs -> CommitBlock]
    BY <1>a, Zeroes, Zenon
  <2>4. logcache' \in Seq(LogEntry)
    BY <1>a
  <2> QED
    BY <1>a, <1>b, <2>1, <2>2, <2>3, <2>4, Zeroes, Zenon DEF TypeOK
<1>2. LockInv'
  BY <1>0, <1>a, JournalAssumption, Zenon DEF LockInv, Active
<1>3. IdleInv'
  BY <1>0, <1>a, Zenon DEF IdleInv, Active
<1>4. WriteInv'
  BY <1>0, Zenon DEF WriteInv
<1>5. CommitInv'
  BY <1>0, Zenon DEF CommitInv
<1>6. FlagInv'
  BY <1>a, <1>b, FlagFrame, Zenon
<1>7. RecoverInv'
  BY <1>0, <1>a, Zenon DEF RecoverInv
<1>8. SizeInv'
  <2>1. IsFiniteSet(dirty') /\ Cardinality(dirty') = 0 /\ Len(logcache') = 0
    BY <1>a, FS_EmptySet, Zenon
  <2> QED
    BY <2>1, JournalAssumption, SMTT(40), Z3T(40) DEF SizeInv
<1> QED
  BY <1>1, <1>2, <1>3, <1>4, <1>5, <1>6, <1>7, <1>8, Zenon DEF IInv

\* Every action of Next keeps the invariant.
LEMMA Inductive == IInv /\ [Next]_vars => IInv'
<1> SUFFICES ASSUME IInv, [Next]_vars PROVE IInv'
  BY Zenon
<1>1. CASE Crash
  BY <1>1, CrashStep, Zenon
<1>2. ASSUME NEW p \in Procs, FileWrite(p) PROVE IInv'
  BY <1>2, FileWriteStep, Zenon
<1>3. ASSUME NEW p \in Procs, Proceed(p) PROVE IInv'
  <2>1. CASE Panic(p)
    BY <2>1, FrozenStep, Zenon DEF Panic
  <2> QED
    BY <1>3, <2>1, WriteBlockStep, LogWriteSize, LogWriteStep, CommitBeginStep, CommitLogStep,
       CommitFlagStep, RecoverBeginStep, InstallReadStep, InstallCopySize, InstallCopyStep,
       RecoverClearStep, UpdateInodeStep, FileWriteReturnStep, BootDoneStep DEF Proceed
<1>4. CASE UNCHANGED vars
  BY <1>4, FrozenStep, Zenon DEF vars, IInv, TypeOK
<1> QED
  BY <1>1, <1>2, <1>3, <1>4, Zenon DEF Next

\* The inductive invariant, and with it the type invariant, holds in every
\* behaviour of the journal with one file, whatever the number of processes,
\* blocks, buffers and log blocks.
THEOREM Invariance == Spec => []IInv
<1>1. Init => IInv
  BY InitStep, Zenon
<1>2. IInv /\ [Next]_vars => IInv'
  BY Inductive, Zenon
<1> QED
  BY <1>1, <1>2, PTL DEF Spec

-----------------------------------------------------------------------------
(* The atomic disk *)

\* The commit block names no block twice.
Distinct(c) == \A i, j \in 1..c.size : c.dst[i] = c.dst[j] => i = j

\* log_recover puts log block k in the place the commit block names for it.
LEMMA InstallHit ==
  ASSUME NEW h, NEW l, NEW c \in CommitBlock, c.flag = 1, c.size <= NBuf, Distinct(c),
         NEW k \in 1..c.size
  PROVE  Install(h, l, c)[c.dst[k]] = l[k]
<1>1. k \in 1..LogSize /\ c.size \in Nat /\ c.dst \in [1..LogSize -> Blocks]
  BY JournalAssumption DEF CommitBlock
<1>2. LogHits(c, c.dst[k]) = {k}
  BY <1>1 DEF LogHits, Distinct
<1>3. (CHOOSE i \in {k} : \A j \in {k} : j <= i) = k
  BY <1>1
<1> QED
  BY <1>1, <1>2, <1>3, Zenon DEF Install

\* It leaves the other blocks alone.
LEMMA InstallMiss ==
  ASSUME NEW h, NEW l, NEW c \in CommitBlock, NEW b \in Blocks,
         c.flag = 1 => \A k \in 1..c.size : c.dst[k] # b
  PROVE  Install(h, l, c)[b] = h[b]
<1>1. c.size \in Nat
  BY Zenon DEF CommitBlock
<1>2. c.flag = 1 => LogHits(c, b) = {}
  BY <1>1, JournalAssumption DEF LogHits
<1> QED
  BY <1>2, Zenon DEF Install

\* Without the commit flag it installs nothing.
LEMMA InstallNothing ==
  ASSUME NEW h \in [Blocks -> Content], NEW l, NEW c, c.flag # 1
  PROVE  Install(h, l, c) = h
BY Zenon DEF Install

\* It yields a disk, whatever the commit block.
LEMMA InstallIsFunction ==
  ASSUME NEW h, NEW l, NEW c
  PROVE  Install(h, l, c) = [b \in Blocks |-> Install(h, l, c)[b]]
BY DEF Install

\* The first disk has nothing to recover.
LEMMA InitMaps == Init => AD!Init
<1> SUFFICES ASSUME Init PROVE AD!Init
  BY Zenon
<1>1. home \in [Blocks -> Content] /\ cb.flag # 1
  BY Zeroes DEF Init, ZeroBlock
<1>2. Recovered = home
  BY <1>1, InstallNothing, Zenon DEF Recovered
<1> QED
  BY <1>2, Zenon DEF Init, AD!Init, NoData, Empty, AD!Empty

\* The write of the commit block is the step that commits the transaction.
LEMMA CommitFlagMaps ==
  ASSUME IInv, NEW p \in Procs, CommitFlag(p)
  PROVE  AD!Commit({p}, {p})
<1>a. /\ step[p] = "commit" /\ idx[p] > Len(logcache)
      /\ cb' = [cbuf[p] EXCEPT !.flag = 1]
      /\ txn' = [txn EXCEPT ![p] = Empty]
      /\ UNCHANGED <<home, dlog>>
  BY Zenon DEF CommitFlag
<1>b. TypeOK /\ WriteInv /\ CommitInv /\ FlagInv /\ IInv'
  BY CommitFlagStep, Zenon DEF IInv
<1>c. BuildInv(p)
  BY <1>a, <1>b, Zenon DEF WriteInv
<1>d. /\ cb' \in CommitBlock /\ cb'.flag = 1 /\ cb'.size <= NBuf /\ Distinct(cb')
      /\ cb'.size = cbuf[p].size /\ cb'.dst = cbuf[p].dst
  BY <1>a, <1>b, Zenon DEF IInv, TypeOK, FlagInv, CommitBlock, Distinct
<1>e. cb'.size = Len(logcache)
  BY <1>a, <1>b, <1>d DEF CommitInv, TypeOK
<1>f. Recovered = home
  <2>1. home \in [Blocks -> Content]
    BY <1>b, Zenon DEF TypeOK
  <2>2. cb = ZeroBlock
    BY <1>c, Zenon DEF BuildInv
  <2>3. cb.flag # 1
    BY <2>2 DEF ZeroBlock
  <2> QED
    BY <2>1, <2>3, InstallNothing, Zenon DEF Recovered
<1>g. \A j \in 1..cb'.size : cb'.dst[j] = logcache[j].blk /\ dlog[j] = logcache[j].data
  BY <1>a, <1>b, <1>d, <1>e DEF CommitInv, TypeOK
<1>h. dirty = DOMAIN txn[p] /\ dirty \subseteq Blocks
  BY <1>a, <1>b, <1>c, Zenon DEF BuildInv, CommitInv, TypeOK
<1>1. \A b \in dirty : Recovered'[b] = Written(p, b)
  <2> SUFFICES ASSUME NEW b \in dirty PROVE Recovered'[b] = Written(p, b)
    BY Zenon
  <2>1. PICK i \in 1..Len(logcache) : logcache[i].blk = b
    BY <1>c, Zenon DEF BuildInv
  <2>2. i \in 1..cb'.size /\ cb'.dst[i] = b
    BY <1>e, <1>g, <2>1, Zenon
  <2>3. dlog[i] = Written(p, b)
    BY <1>c, <1>g, <2>1, <2>2, SMTT(60), Z3T(60) DEF BuildInv
  <2>4. Recovered'[cb'.dst[i]] = dlog'[i]
    BY <1>d, <2>2, InstallHit, SMTT(40), Z3T(40) DEF Recovered
  <2> QED
    BY <1>a, <2>2, <2>3, <2>4, Zenon
<1>2. \A b \in Blocks \ dirty : Recovered'[b] = home[b]
  <2> SUFFICES ASSUME NEW b \in Blocks \ dirty PROVE Recovered'[b] = home[b]
    BY Zenon
  <2>1. \A k \in 1..cb'.size : cb'.dst[k] # b
    BY <1>c, <1>e, <1>g, SMTT(40), Z3T(40) DEF BuildInv
  <2>2. Recovered'[b] = home'[b]
    BY <1>d, <2>1, InstallMiss, SMTT(40), Z3T(40) DEF Recovered
  <2> QED
    BY <1>a, <2>2, Zenon
<1>3. \A b \in Blocks : home[b] = [f \in Files |-> home[b][f]]
  BY <1>b, Zenon DEF TypeOK, Content
<1>4. Recovered' = AD!Apply({p})
  <2> DEFINE W(b, f) == {q \in {p} : FileOf[q] = f /\ b \in DOMAIN txn[q]}
             New(b) == [f \in Files |->
                          IF W(b, f) = {} THEN Recovered[b][f]
                          ELSE txn[CHOOSE q \in W(b, f) : TRUE][b]]
  <2>1. \A b \in Blocks : New(b) = Recovered'[b]
    <3> SUFFICES ASSUME NEW b \in Blocks PROVE New(b) = Recovered'[b]
      BY Zenon
    <3>1. CASE b \in dirty
      <4>1. New(b) = [f \in Files |-> IF f = FileOf[p] THEN txn[p][b] ELSE home[b][f]]
        <5> SUFFICES ASSUME NEW f \in Files
                     PROVE (IF W(b, f) = {} THEN Recovered[b][f]
                            ELSE txn[CHOOSE q \in W(b, f) : TRUE][b])
                           = IF f = FileOf[p] THEN txn[p][b] ELSE home[b][f]
          BY SMTT(40), Z3T(40)
        <5>1. CASE f = FileOf[p]
          <6>1. W(b, f) = {p}
            BY <1>h, <3>1, <5>1, Zenon
          <6>2. (CHOOSE q \in {p} : TRUE) = p
            BY Zenon
          <6> QED
            BY <5>1, <6>1, <6>2
        <5>2. CASE f # FileOf[p]
          BY <1>f, <5>2, Zenon
        <5> QED
          BY <5>1, <5>2, Zenon
      <4>2. Written(p, b) = [f \in Files |-> IF f = FileOf[p] THEN txn[p][b] ELSE home[b][f]]
        BY <1>3, Zenon DEF Written
      <4> QED
        BY <1>1, <3>1, <4>1, <4>2, Zenon
    <3>2. CASE b \notin dirty
      <4>1. \A f : W(b, f) = {}
        BY <1>h, <3>2, Zenon
      <4>2. New(b) = [f \in Files |-> home[b][f]]
        BY <1>f, <4>1, Zenon
      <4> QED
        BY <1>2, <1>3, <3>2, <4>2, Zenon
    <3> QED
      BY <3>1, <3>2, Zenon
  <2>2. AD!Apply({p}) = [b \in Blocks |-> New(b)]
    BY Zenon DEF AD!Apply
  <2>3. Recovered' = [b \in Blocks |-> Recovered'[b]]
    BY InstallIsFunction, Zenon DEF Recovered
  <2> QED
    BY <2>1, <2>2, <2>3, Zenon
<1>5. txn' = [q \in Procs |-> IF q \in {p} THEN AD!Empty ELSE txn[q]]
  BY <1>a, <1>b, Zenon DEF TypeOK, Empty, AD!Empty
<1> QED
  BY <1>4, <1>5, Zenon DEF AD!Commit

\* Writing a log block before the commit flag changes nothing a recovery sees.
LEMMA CommitLogMaps ==
  ASSUME IInv, NEW p \in Procs, CommitLog(p)
  PROVE  Recovered' = Recovered
<1>1. step[p] = "commit" /\ UNCHANGED <<home, cb>>
  BY Zenon DEF CommitLog
<1>2. home \in [Blocks -> Content] /\ cb.flag # 1
  <2>1. home \in [Blocks -> Content]
    BY Zenon DEF IInv, TypeOK
  <2>2. cb.flag # 1
    BY <1>1, SMTT(60), Z3T(60) DEF IInv, WriteInv, BuildInv, ZeroBlock
  <2> QED
    BY <2>1, <2>2, Zenon
<1>3. home' \in [Blocks -> Content] /\ cb'.flag # 1
  BY <1>1, <1>2, Zenon
<1>4. Recovered = home
  BY <1>2, InstallNothing, Zenon DEF Recovered
<1>5. Recovered' = home'
  BY <1>3, InstallNothing, Zenon DEF Recovered
<1> QED
  BY <1>1, <1>4, <1>5, Zenon

\* Neither does the installation of one block: recovery is idempotent.
LEMMA InstallCopyMaps ==
  ASSUME IInv, NEW p \in Procs, InstallCopy(p)
  PROVE  Recovered' = Recovered
<1> DEFINE d == cbuf[p].dst[idx[p]]
<1>a. step[p] = "copy" /\ home' = [home EXCEPT ![d] = src[p]] /\ UNCHANGED <<dlog, cb>>
  BY Zenon DEF InstallCopy
<1>b. TypeOK /\ FlagInv /\ RecoverInv
  BY Zenon DEF IInv
<1>c. /\ cbuf[p] = cb /\ cb.flag = 1 /\ cb \in CommitBlock /\ cb.size <= NBuf
      /\ Distinct(cb) /\ idx[p] \in 1..cb.size
  BY <1>a, <1>b, SMTT(40), Z3T(40) DEF TypeOK, FlagInv, RecoverInv, Distinct, CommitBlock
<1>d. d = cb.dst[idx[p]]
  BY <1>c, Zenon
<1> HIDE DEF d
<1>1. \A b \in Blocks : Recovered'[b] = Recovered[b]
  <2> SUFFICES ASSUME NEW b \in Blocks PROVE Recovered'[b] = Recovered[b]
    BY Zenon
  <2>1. ASSUME NEW k \in 1..cb.size, cb.dst[k] = b PROVE Recovered'[b] = Recovered[b]
    <3>1. Recovered[cb.dst[k]] = dlog[k]
      BY <1>c, InstallHit DEF Recovered
    <3>2. /\ cb' \in CommitBlock /\ cb'.flag = 1 /\ cb'.size <= NBuf /\ Distinct(cb')
          /\ k \in 1..cb'.size
      BY <1>a, <1>c, Zenon
    <3>3. Recovered'[cb'.dst[k]] = dlog'[k]
      BY <3>2, InstallHit DEF Recovered
    <3> QED
      BY <1>a, <2>1, <3>1, <3>3, Zenon
  <2>2. ASSUME \A k \in 1..cb.size : cb.dst[k] # b PROVE Recovered'[b] = Recovered[b]
    <3>1. Recovered[b] = home[b]
      BY <1>c, <2>2, InstallMiss, SMTT(40), Z3T(40) DEF Recovered
    <3>2. cb' \in CommitBlock /\ \A k \in 1..cb'.size : cb'.dst[k] # b
      BY <1>a, <1>c, <2>2, Zenon
    <3>3. Recovered'[b] = home'[b]
      BY <3>2, InstallMiss, Zenon DEF Recovered
    <3>4. home'[b] = home[b]
      BY <1>a, <1>b, <1>c, <1>d, <2>2, Zenon DEF TypeOK
    <3> QED
      BY <3>1, <3>3, <3>4, Zenon
  <2> QED
    BY <2>1, <2>2, Zenon
<1> QED
  BY <1>1, InstallIsFunction DEF Recovered

\* When the commit block is cleared every block it names is in its place.
LEMMA RecoverClearMaps ==
  ASSUME IInv, NEW p \in Procs, RecoverClear(p)
  PROVE  Recovered' = Recovered
<1>a. step[p] = "install" /\ idx[p] > cbuf[p].size /\ cb' = ZeroBlock /\ UNCHANGED home
  BY Zenon DEF RecoverClear
<1>b. TypeOK /\ FlagInv /\ RecoverInv
  BY Zenon DEF IInv
<1>c. /\ cbuf[p] = cb /\ cb.flag = 1 /\ cb \in CommitBlock /\ cb.size <= NBuf
      /\ Distinct(cb) /\ idx[p] = cb.size + 1 /\ cb.size \in Nat
  BY <1>a, <1>b, SMTT(40), Z3T(40) DEF TypeOK, FlagInv, RecoverInv, Distinct, CommitBlock
<1>1. Recovered' = home
  <2>1. home' \in [Blocks -> Content] /\ cb'.flag # 1
    BY <1>a, <1>b DEF TypeOK, ZeroBlock
  <2>2. Recovered' = home'
    BY <2>1, InstallNothing, Zenon DEF Recovered
  <2> QED
    BY <1>a, <2>2, Zenon
<1>2. \A b \in Blocks : Recovered[b] = home[b]
  <2> SUFFICES ASSUME NEW b \in Blocks PROVE Recovered[b] = home[b]
    BY Zenon
  <2>1. ASSUME NEW k \in 1..cb.size, cb.dst[k] = b PROVE Recovered[b] = home[b]
    <3>1. Recovered[cb.dst[k]] = dlog[k]
      BY <1>c, InstallHit, SMTT(60), Z3T(60) DEF Recovered
    <3>2. home[cb.dst[k]] = dlog[k]
      BY <1>a, <1>b, <1>c, SMTT(40), Z3T(40) DEF RecoverInv
    <3> QED
      BY <2>1, <3>1, <3>2, Zenon
  <2>2. ASSUME \A k \in 1..cb.size : cb.dst[k] # b PROVE Recovered[b] = home[b]
    BY <1>c, <2>2, InstallMiss, SMTT(40), Z3T(40) DEF Recovered
  <2> QED
    BY <2>1, <2>2, Zenon
<1>3. home = [b \in Blocks |-> home[b]]
  BY <1>b, Zenon DEF TypeOK
<1>4. Recovered = [b \in Blocks |-> Recovered[b]]
  BY InstallIsFunction, Zenon DEF Recovered
<1> QED
  BY <1>1, <1>2, <1>3, <1>4, Zenon

\* A transaction is begun by filewrite (its data) and by updatei (its dinode).
LEMMA BeginMaps ==
  ASSUME IInv, NEW p \in Procs, FileWrite(p) \/ UpdateInode(p)
  PROVE  AD!Begin(p)
<1>1. UNCHANGED Recovered
  BY Zenon DEF FileWrite, UpdateInode, disk, Recovered
<1>2. \E t \in Txns : txn' = [txn EXCEPT ![p] = t]
  <2>1. CASE FileWrite(p)
    <3>1. PICK D \in SUBSET Data[FileOf[p]] : \E t \in [D -> Vals] : txn' = [txn EXCEPT ![p] = t]
      BY <2>1, Zenon DEF FileWrite
    <3>2. D \in SUBSET Blocks
      BY JournalAssumption, Zenon DEF Blocks
    <3> QED
      BY <3>1, <3>2, TxnType, Zenon
  <2>2. CASE UpdateInode(p)
    <3>1. PICK v \in Vals : txn' = [txn EXCEPT ![p] = [b \in {IBlk} |-> v]]
      BY <2>2, Zenon DEF UpdateInode
    <3>2. [b \in {IBlk} |-> v] \in [{IBlk} -> Vals] /\ {IBlk} \in SUBSET Blocks
      BY Zeroes, Zenon
    <3> QED
      BY <3>1, <3>2, TxnType, Zenon
  <2> QED
    BY <2>1, <2>2, Zenon
<1> QED
  BY <1>1, <1>2, Zenon DEF AD!Begin, AD!Txns, Txns

\* Every step is a step of the atomic disk or leaves it alone.
LEMMA StepMaps == IInv /\ [Next]_vars => [AD!Next]_<<Recovered, txn>>
<1> SUFFICES ASSUME IInv, [Next]_vars PROVE [AD!Next]_<<Recovered, txn>>
  BY Zenon
<1> DEFINE Goal == [AD!Next]_<<Recovered, txn>>
<1>1. CASE Crash
  BY <1>1, Zenon DEF Crash, disk, Recovered, AD!Crash, AD!Next, Empty, AD!Empty
<1>2. ASSUME NEW p \in Procs, FileWrite(p) \/ UpdateInode(p) PROVE Goal
  BY <1>2, BeginMaps, Zenon DEF AD!Next
<1>3. ASSUME NEW p \in Procs, CommitFlag(p) PROVE Goal
  <2>1. {p} \in SUBSET Procs /\ {p} \in SUBSET {p}
    BY Zenon
  <2> QED
    BY <1>3, <2>1, CommitFlagMaps, Zenon DEF AD!Next
<1>4. ASSUME NEW p \in Procs, CommitLog(p) \/ InstallCopy(p) \/ RecoverClear(p) PROVE Goal
  <2>1. UNCHANGED txn
    BY <1>4, Zenon DEF CommitLog, InstallCopy, RecoverClear
  <2> QED
    BY <1>4, <2>1, CommitLogMaps, InstallCopyMaps, RecoverClearMaps, Zenon
<1>5. ASSUME NEW p \in Procs,
             \/ WriteBlock(p) \/ LogWrite(p) \/ CommitBegin(p) \/ RecoverBegin(p)
             \/ InstallRead(p) \/ FileWriteReturn(p) \/ BootDone(p) \/ Panic(p)
      PROVE Goal
  <2>1. UNCHANGED <<home, dlog, cb, txn>>
    BY <1>5, Zenon DEF WriteBlock, LogWrite, CommitBegin, RecoverBegin, InstallRead,
                FileWriteReturn, BootDone, Panic, disk, local
  <2> QED
    BY <2>1, Zenon DEF Recovered
<1>6. CASE UNCHANGED vars
  BY <1>6, Zenon DEF vars, disk, local, Recovered
<1> QED
  BY <1>1, <1>2, <1>3, <1>4, <1>5, <1>6, Zenon DEF Next, Proceed

\* With one file the journal implements the atomic disk, for any number of
\* processes, blocks, buffers and log blocks, with a crash before or after any
\* disk write of log_commit_tx and log_recover.
THEOREM Atomicity == Spec => Atomic
<1>1. Init => AD!Init
  BY InitMaps, Zenon
<1>2. IInv /\ [Next]_vars => [AD!Next]_<<Recovered, txn>>
  BY StepMaps, Zenon
<1>3. Spec => []IInv
  BY Invariance, Zenon
<1> QED
  BY <1>1, <1>2, <1>3, PTL DEF Spec, Atomic, AD!Spec

\* Every variable of log_write, log_commit_tx and log_recover keeps its type.
THEOREM TypeCorrect == Spec => []TypeOK
<1>1. IInv => TypeOK
  BY Zenon DEF IInv
<1> QED
  BY <1>1, Invariance, PTL

\* log_cache.size stays below the length of the log region: bget refuses a
\* buffer for a further block of the transaction first.
THEOREM LogBounded == Spec => []LogFits
<1>1. IInv => LogFits
  <2> SUFFICES ASSUME IInv PROVE LogFits
    BY Zenon
  <2>1. Cardinality(dirty) \in Nat /\ Len(logcache) \in Nat
    BY FS_CardinalityType DEF IInv, SizeInv, TypeOK
  <2> QED
    BY <2>1, JournalAssumption DEF IInv, SizeInv, LogFits
<1> QED
  BY <1>1, Invariance, PTL

\* A buffer that bget may recycle equals the block on disk.
THEOREM NoWriteLost == Spec => []CleanIsOnDisk
<1>1. IInv => CleanIsOnDisk
  <2> SUFFICES ASSUME IInv, NEW b \in Blocks \ Pinned PROVE cache[b] = home[b]
    BY Zenon DEF CleanIsOnDisk
  <2>1. b \notin dirty /\ bufOwner[b] = None
    BY Zenon DEF Pinned
  <2>2. CASE \E p \in Procs : step[p] # "idle"
    <3>1. PICK p \in Procs : step[p] # "idle"
      BY <2>2, Zenon
    <3>2. step[p] = "logwrite" => b # cur[p]
      BY <2>1, JournalAssumption, SMTT(60), Z3T(60) DEF IInv, LockInv
    <3>3. step[p] \in {"write", "logwrite", "commit"} => cache[b] = home[b]
      BY <2>1, <3>2, Zenon DEF IInv, WriteInv, BuildInv
    <3>4. step[p] \in {"recover", "install", "copy"} => cache[b] = home[b]
      BY <2>1, Zenon DEF IInv, RecoverInv
    <3>5. step[p] = "done" => cache[b] = home[b]
      BY Zenon DEF IInv, IdleInv, Quiet
    <3> QED
      BY <3>1, <3>3, <3>4, <3>5, Zenon DEF IInv, TypeOK, Steps
  <2>3. CASE \A p \in Procs : step[p] = "idle"
    BY <2>3, Zenon DEF IInv, IdleInv, Active, Quiet
  <2> QED
    BY <2>2, <2>3, Zenon
<1> QED
  BY <1>1, Invariance, PTL

\* Between two write system calls the log is empty and the disk up to date.
THEOREM Installed == Spec => []ReturnedIsInstalled
<1>1. IInv => ReturnedIsInstalled
  BY Zenon DEF IInv, IdleInv, Active, Quiet, ReturnedIsInstalled
<1> QED
  BY <1>1, Invariance, PTL

-----------------------------------------------------------------------------
(* The length after the data *)

\* In the first transaction of a write system call it writes its data; in the
\* second, the dinode, all of the data is durable.
Building(p) == phase[p] = "data" /\ step[p] \in {"write", "logwrite", "commit"}
DataDurable(p) == \A b \in DOMAIN arg[p] : Recovered[b][FileOf[p]] = arg[p][b]
ArgOf(p) ==
  Active(p) /\ phase[p] # "boot" =>
    /\ DOMAIN arg[p] \subseteq Data[FileOf[p]]
    /\ Building(p) => txn[p] = arg[p]
    /\ ~Building(p) => DataDurable(p) /\ DOMAIN txn[p] \subseteq {IBlk}
ArgInv == \A p \in Procs : ArgOf(p)

\* Only the write of the commit block changes what recovery would find.
LEMMA OnlyCommit ==
  ASSUME IInv, Next
  PROVE  UNCHANGED Recovered \/ \E p \in Procs : CommitFlag(p)
<1>1. CASE Crash
  BY <1>1, Zenon DEF Crash, disk, Recovered
<1>2. ASSUME NEW p \in Procs, CommitLog(p) \/ InstallCopy(p) \/ RecoverClear(p) PROVE UNCHANGED Recovered
  BY <1>2, CommitLogMaps, InstallCopyMaps, RecoverClearMaps, Zenon
<1>3. ASSUME NEW p \in Procs,
             \/ FileWrite(p) \/ WriteBlock(p) \/ LogWrite(p) \/ CommitBegin(p) \/ RecoverBegin(p)
             \/ InstallRead(p) \/ UpdateInode(p) \/ FileWriteReturn(p) \/ BootDone(p) \/ Panic(p)
      PROVE  UNCHANGED Recovered
  BY <1>3, Zenon DEF FileWrite, WriteBlock, LogWrite, CommitBegin, RecoverBegin, InstallRead, UpdateInode,
                     FileWriteReturn, BootDone, Panic, disk, Recovered
<1> QED
  BY <1>1, <1>2, <1>3, Zenon DEF Next, Proceed

\* It changes there what the transaction wrote, and nothing else.
LEMMA CommitEffect ==
  ASSUME IInv, NEW p \in Procs, CommitFlag(p), NEW b \in Blocks, NEW f \in Files
  PROVE  /\ FileOf[p] = f /\ b \in DOMAIN txn[p] => Recovered'[b][f] = txn[p][b]
         /\ ~(FileOf[p] = f /\ b \in DOMAIN txn[p]) => Recovered'[b][f] = Recovered[b][f]
<1> DEFINE W == {q \in {p} : FileOf[q] = f /\ b \in DOMAIN txn[q]}
<1>1. Recovered'[b][f] = IF W = {} THEN Recovered[b][f] ELSE txn[CHOOSE q \in W : TRUE][b]
  <2>1. Recovered' = AD!Apply({p})
    BY CommitFlagMaps, Zenon DEF AD!Commit
  <2> DEFINE Row(c) == [g \in Files |->
                         IF {q \in {p} : FileOf[q] = g /\ c \in DOMAIN txn[q]} = {} THEN Recovered[c][g]
                         ELSE txn[CHOOSE q \in {q \in {p} : FileOf[q] = g /\ c \in DOMAIN txn[q]} : TRUE][c]]
  <2>2. AD!Apply({p}) = [c \in Blocks |-> Row(c)]
    BY Zenon DEF AD!Apply
  <2>3. Row(b)[f] = IF W = {} THEN Recovered[b][f] ELSE txn[CHOOSE q \in W : TRUE][b]
    BY Zenon
  <2> HIDE DEF Row, W
  <2>4. Recovered'[b] = Row(b)
    BY <2>1, <2>2, Zenon
  <2> QED
    BY <2>3, <2>4, Zenon
<1>2. ASSUME FileOf[p] = f, b \in DOMAIN txn[p] PROVE W = {p} /\ (CHOOSE q \in {p} : TRUE) = p
  BY <1>2
<1>3. ASSUME ~(FileOf[p] = f /\ b \in DOMAIN txn[p]) PROVE W = {}
  BY <1>3, Zenon
<1>4. {p} # {}
  OBVIOUS
<1> HIDE DEF W
<1>5. ASSUME FileOf[p] = f, b \in DOMAIN txn[p] PROVE Recovered'[b][f] = txn[p][b]
  BY <1>1, <1>2, <1>4, <1>5
<1>6. ASSUME ~(FileOf[p] = f /\ b \in DOMAIN txn[p]) PROVE Recovered'[b][f] = Recovered[b][f]
  BY <1>1, <1>3, <1>6
<1> QED
  BY <1>5, <1>6

\* A step of one process that leaves the disk to be recovered alone.
LEMMA ArgMove ==
  ASSUME ArgInv, NEW p \in Procs, ArgOf(p)', Recovered' = Recovered,
         \A q \in Procs \ {p} : step'[q] = step[q] /\ phase'[q] = phase[q] /\ arg'[q] = arg[q] /\ txn'[q] = txn[q]
  PROVE  ArgInv'
<1> SUFFICES ASSUME NEW q \in Procs \ {p} PROVE ArgOf(q)'
  BY Zenon DEF ArgInv
<1>1. /\ step'[q] = step[q] /\ phase'[q] = phase[q] /\ arg'[q] = arg[q] /\ txn'[q] = txn[q]
      /\ ArgOf(q)
  BY Zenon DEF ArgInv
<1> QED
  BY <1>1, Zenon DEF ArgOf, Active, Building, DataDurable

\* Inside of one transaction or of one recovery.
LEMMA ArgStays ==
  ASSUME TypeOK, ArgInv, NEW p \in Procs, NEW s, step' = [step EXCEPT ![p] = s],
         UNCHANGED <<Recovered, phase, arg, txn>>,
         \/ step[p] \in {"write", "logwrite", "commit"} /\ s \in {"write", "logwrite", "commit"}
         \/ step[p] \in {"recover", "install", "copy", "done"} /\ s \in {"recover", "install", "copy", "done"}
  PROVE  ArgInv'
<1>1. step'[p] = s /\ \A q \in Procs \ {p} : step'[q] = step[q]
  BY Zenon DEF TypeOK
<1>2. ArgOf(p)
  BY Zenon DEF ArgInv
<1>3. Active(p) /\ (Building(p)' <=> Building(p))
  BY <1>1 DEF Active, Building
<1>4. ArgOf(p)'
  BY <1>2, <1>3, Zenon DEF ArgOf, DataDurable
<1> QED
  BY <1>1, <1>4, ArgMove, Zenon

\* filewrite begins with its data, or with nothing to write.
LEMMA ArgFileWrite ==
  ASSUME IInv, ArgInv, NEW p \in Procs, FileWrite(p)
  PROVE  ArgInv'
<1>1. step' = [step EXCEPT ![p] = "write"] /\ UNCHANGED <<home, dlog, cb>>
  BY Zenon DEF FileWrite, Goto, disk
<1>2. PICK D \in SUBSET Data[FileOf[p]] : \E t \in [D -> Vals] :
         /\ arg' = [arg EXCEPT ![p] = t] /\ txn' = [txn EXCEPT ![p] = t]
         /\ phase' = [phase EXCEPT ![p] = IF D = {} THEN "last" ELSE "data"]
  BY Zenon DEF FileWrite
<1>3. PICK t \in [D -> Vals] :
         /\ arg' = [arg EXCEPT ![p] = t] /\ txn' = [txn EXCEPT ![p] = t]
         /\ phase' = [phase EXCEPT ![p] = IF D = {} THEN "last" ELSE "data"]
  BY <1>2, Zenon
<1>4. /\ step'[p] = "write" /\ arg'[p] = t /\ txn'[p] = t /\ phase'[p] = IF D = {} THEN "last" ELSE "data"
      /\ \A q \in Procs \ {p} : step'[q] = step[q] /\ phase'[q] = phase[q] /\ arg'[q] = arg[q] /\ txn'[q] = txn[q]
  BY <1>1, <1>3, Zenon DEF IInv, TypeOK
<1>5. ArgOf(p)'
  <2>1. DOMAIN t = D /\ D \subseteq Data[FileOf[p]]
    BY Zenon
  <2>2. CASE D = {}
    BY <1>4, <2>1, <2>2 DEF ArgOf, Building, DataDurable
  <2>3. CASE D # {}
    <3>1. Building(p)'
      BY <1>4, <2>3 DEF Building
    <3> QED
      BY <1>4, <2>1, <3>1, Zenon DEF ArgOf
  <2> QED
    BY <2>2, <2>3, Zenon
<1>6. Recovered' = Recovered
  BY <1>1, Zenon DEF Recovered
<1> QED
  BY <1>4, <1>5, <1>6, ArgMove, Zenon

\* updatei begins when the data is durable.
LEMMA ArgUpdateInode ==
  ASSUME IInv, ArgInv, NEW p \in Procs, UpdateInode(p)
  PROVE  ArgInv'
<1>1. /\ step[p] = "done" /\ phase[p] = "data" /\ UNCHANGED <<home, dlog, cb, arg>>
      /\ step' = [step EXCEPT ![p] = "write"] /\ phase' = [phase EXCEPT ![p] = "last"]
  BY Zenon DEF UpdateInode, Goto, disk
<1>2. PICK v \in Vals : txn' = [txn EXCEPT ![p] = [b \in {IBlk} |-> v]]
  BY Zenon DEF UpdateInode
<1>3. /\ step'[p] = "write" /\ phase'[p] = "last" /\ txn'[p] = [b \in {IBlk} |-> v]
      /\ \A q \in Procs \ {p} : step'[q] = step[q] /\ phase'[q] = phase[q] /\ txn'[q] = txn[q]
  BY <1>1, <1>2, Zenon DEF IInv, TypeOK
<1>4. Active(p) /\ ~Building(p) /\ ~Building(p)' /\ phase[p] # "boot"
  BY <1>1, <1>3 DEF Active, Building
<1>5. DOMAIN txn'[p] \subseteq {IBlk}
  BY <1>3
<1>6. Recovered' = Recovered
  BY <1>1, Zenon DEF Recovered
<1>7. ArgOf(p)'
  BY <1>1, <1>4, <1>5, <1>6, Zenon DEF ArgInv, ArgOf, DataDurable
<1> QED
  BY <1>1, <1>3, <1>6, <1>7, ArgMove, Zenon

\* The commit makes the data durable, or the dinode after it.
LEMMA ArgCommitFlag ==
  ASSUME IInv, ArgInv, NEW p \in Procs, CommitFlag(p)
  PROVE  ArgInv'
<1>1. /\ step[p] = "commit" /\ UNCHANGED <<phase, arg>>
      /\ step' = [step EXCEPT ![p] = "recover"] /\ txn' = [txn EXCEPT ![p] = Empty]
  BY Zenon DEF CommitFlag, Goto
<1>2. /\ step'[p] = "recover" /\ txn'[p] = Empty
      /\ \A q \in Procs \ {p} : step'[q] = step[q]
  BY <1>1, Zenon DEF IInv, TypeOK
<1>3. \A q \in Procs \ {p} : step[q] = "idle"
  BY <1>1 DEF IInv, LockInv, Active
<1>4. \A q \in Procs \ {p} : ArgOf(q)'
  BY <1>2, <1>3, Zenon DEF ArgOf, Active
<1>5. ArgOf(p) /\ Active(p) /\ phase[p] # "boot" /\ ~Building(p)'
  <2>1. phase[p] # "boot"
    BY <1>1 DEF IInv, WriteInv, BuildInv
  <2> QED
    BY <1>1, <1>2, <2>1 DEF ArgInv, Active, Building
<1>6. DOMAIN arg[p] \subseteq Data[FileOf[p]] /\ DOMAIN Empty \subseteq {IBlk}
  BY <1>5 DEF ArgOf, Empty
<1>7. ASSUME NEW b \in DOMAIN arg[p] PROVE Recovered'[b][FileOf[p]] = arg[p][b]
  <2>1. b \in Blocks /\ FileOf[p] \in Files /\ b # IBlk
    <3>1. FileOf[p] \in Files /\ b \in Data[FileOf[p]]
      BY <1>6, JournalAssumption
    <3> QED
      BY <3>1, JournalAssumption, Zenon DEF Blocks
  <2>2. CASE Building(p)
    <3>1. txn[p] = arg[p]
      BY <1>5, <2>2, Zenon DEF ArgOf
    <3>2. b \in DOMAIN txn[p] /\ txn[p][b] = arg[p][b]
      BY <3>1, Zenon
    <3>3. Recovered'[b][FileOf[p]] = txn[p][b]
      BY <2>1, <3>2, CommitEffect, Zenon
    <3> QED
      BY <3>2, <3>3, Zenon
  <2>3. CASE ~Building(p)
    <3>1. b \notin DOMAIN txn[p] /\ Recovered[b][FileOf[p]] = arg[p][b]
      BY <1>5, <2>1, <2>3, Zenon DEF ArgOf, DataDurable
    <3> QED
      BY <2>1, <3>1, CommitEffect, Zenon
  <2> QED
    BY <2>2, <2>3, Zenon
<1>8. ArgOf(p)'
  BY <1>1, <1>2, <1>5, <1>6, <1>7, Zenon DEF ArgOf, DataDurable
<1> QED
  BY <1>4, <1>8, Zenon DEF ArgInv

LEMMA ArgStep ==
  ASSUME IInv, ArgInv, [Next]_vars
  PROVE  ArgInv'
<1>t. TypeOK
  BY Zenon DEF IInv
<1>1. CASE Crash
  <2>1. \A p \in Procs : phase'[p] = "boot"
    BY <1>1, Zenon DEF Crash
  <2> QED
    BY <2>1, Zenon DEF ArgInv, ArgOf
<1>2. ASSUME NEW p \in Procs, WriteBlock(p) \/ LogWrite(p) \/ CommitBegin(p) \/ CommitLog(p) PROVE ArgInv'
  <2>1. PICK s \in {"write", "logwrite", "commit"} : step' = [step EXCEPT ![p] = s]
    <3>1. CASE WriteBlock(p) \/ LogWrite(p) \/ CommitBegin(p)
      BY <3>1, Zenon DEF WriteBlock, LogWrite, CommitBegin, Goto
    <3>2. CASE CommitLog(p)
      <4>1. step' = step /\ step[p] = "commit"
        BY <3>2, Zenon DEF CommitLog
      <4>2. step \in [Procs -> Steps]
        BY <1>t, Zenon DEF TypeOK
      <4>3. step = [step EXCEPT ![p] = "commit"]
        BY <4>1, <4>2
      <4> QED
        BY <4>1, <4>3, Zenon
    <3> QED
      BY <1>2, <3>1, <3>2, Zenon
  <2>2. step[p] \in {"write", "logwrite", "commit"} /\ UNCHANGED <<phase, arg, txn>>
    BY <1>2, Zenon DEF WriteBlock, LogWrite, CommitBegin, CommitLog
  <2>3. UNCHANGED Recovered
    BY <1>2, CommitLogMaps, Zenon DEF WriteBlock, LogWrite, CommitBegin, disk, Recovered
  <2> QED
    BY <1>t, <2>1, <2>2, <2>3, ArgStays, Zenon
<1>3. ASSUME NEW p \in Procs, RecoverBegin(p) \/ InstallRead(p) \/ InstallCopy(p) \/ RecoverClear(p) PROVE ArgInv'
  <2>1. PICK s \in {"recover", "install", "copy", "done"} : step' = [step EXCEPT ![p] = s]
    BY <1>3, Zenon DEF RecoverBegin, InstallRead, InstallCopy, RecoverClear, Goto
  <2>2. step[p] \in {"recover", "install", "copy", "done"} /\ UNCHANGED <<phase, arg, txn>>
    BY <1>3, Zenon DEF RecoverBegin, InstallRead, InstallCopy, RecoverClear
  <2>3. UNCHANGED Recovered
    BY <1>3, InstallCopyMaps, RecoverClearMaps, Zenon DEF RecoverBegin, InstallRead, disk, Recovered
  <2> QED
    BY <1>t, <2>1, <2>2, <2>3, ArgStays, Zenon
<1>4. ASSUME NEW p \in Procs, FileWriteReturn(p) \/ BootDone(p) PROVE ArgInv'
  <2>1. /\ step' = [step EXCEPT ![p] = "idle"] /\ UNCHANGED <<phase, txn, home, dlog, cb>>
        /\ (UNCHANGED arg \/ arg' = [arg EXCEPT ![p] = Empty])
    BY <1>4, Zenon DEF FileWriteReturn, BootDone, Goto, disk
  <2>2. step'[p] = "idle" /\ \A q \in Procs \ {p} : step'[q] = step[q] /\ arg'[q] = arg[q]
    BY <1>t, <2>1, Zenon DEF TypeOK
  <2>3. ArgOf(p)' /\ Recovered' = Recovered
    BY <2>1, <2>2, Zenon DEF ArgOf, Active, Recovered
  <2> QED
    BY <2>1, <2>2, <2>3, ArgMove, Zenon
<1>5. CASE UNCHANGED vars \/ \E p \in Procs : Panic(p)
  <2>1. UNCHANGED <<step, phase, arg, txn, home, dlog, cb>>
    BY <1>5, Zenon DEF vars, Panic, disk, local
  <2> QED
    BY <2>1, Zenon DEF ArgInv, ArgOf, Active, Building, DataDurable, Recovered
<1> QED
  BY <1>1, <1>2, <1>3, <1>4, <1>5, ArgFileWrite, ArgUpdateInode, ArgCommitFlag, Zenon DEF Next, Proceed

\* The length of a file becomes durable only in a commit of a process that
\* writes the file and all of whose data is durable: updatei comes after the
\* commit of writei, in filewrite, whatever the moment of a crash.
THEOREM LengthIsLast == Spec => LengthAfterData
<1>1. Init => ArgInv
  <2> SUFFICES ASSUME Init PROVE ArgInv
    BY Zenon
  <2>1. \A p \in Procs : phase[p] = "boot"
    BY Zenon DEF Init
  <2> QED
    BY <2>1, Zenon DEF ArgInv, ArgOf
<1>2. IInv /\ ArgInv /\ [Next]_vars => ArgInv'
  BY ArgStep, Zenon
<1>3. ASSUME IInv, ArgInv, Next, NEW f \in Files, Recovered'[IBlk][f] # Recovered[IBlk][f]
      PROVE  \E p \in Procs : /\ FileOf[p] = f /\ step[p] = "commit"
                              /\ \A b \in DOMAIN arg[p] : Recovered[b][f] = arg[p][b]
  <2>1. PICK p \in Procs : CommitFlag(p)
    BY <1>3, OnlyCommit, Zenon
  <2>2. FileOf[p] = f /\ IBlk \in DOMAIN txn[p]
    BY <1>3, <2>1, CommitEffect, Zeroes, Zenon
  <2>3. step[p] = "commit" /\ phase[p] # "boot" /\ Active(p) /\ ArgOf(p)
    <3>1. step[p] = "commit"
      BY <2>1, Zenon DEF CommitFlag
    <3> QED
      BY <1>3, <3>1 DEF IInv, WriteInv, BuildInv, ArgInv, Active
  <2>4. IBlk \notin Data[FileOf[p]]
    BY JournalAssumption
  <2>5. ~Building(p)
    BY <2>2, <2>3, <2>4, Zenon DEF ArgOf
  <2>6. DataDurable(p)
    BY <2>3, <2>5, Zenon DEF ArgOf
  <2> QED
    BY <2>2, <2>3, <2>6, Zenon DEF DataDurable
<1>4. IInv /\ ArgInv /\ [Next]_vars =>
        [\A f \in Files : Recovered'[IBlk][f] # Recovered[IBlk][f] =>
           \E p \in Procs :
             /\ FileOf[p] = f /\ step[p] = "commit"
             /\ \A b \in DOMAIN arg[p] : Recovered[b][f] = arg[p][b]]_vars
  BY <1>3, Zenon
<1> QED
  BY <1>1, <1>2, <1>4, Invariance, PTL DEF Spec, LengthAfterData
=============================================================================
