-------------------------------- MODULE Files --------------------------------
(***************************************************************************)
(* Descriptors, open files and cached inodes: the file tables of processes,*)
(* the table ftable of kernel/file.c and kernel/sysfile.c, and the inode   *)
(* cache and path lookup of kernel/fs.c.                                   *)
(*                                                                         *)
(* Paths name files of the root directory, which does not change.  An      *)
(* entry of the inode cache has `type` ("NONE" until it is read) and       *)
(* `data`, the inode whose size and extents it holds.  A section under a   *)
(* spinlock is one step; sys_close copies the open file before it takes    *)
(* ftable.lock, exit takes no lock at all, and reading the disk sleeps, so *)
(* these are steps of their own.                                           *)
(***************************************************************************)
EXTENDS Integers, FiniteSets, FiniteSetsExt, Sequences

CONSTANTS
    Procs, Parent,
    Does,           \* the calls each process makes
    NFILE, NOFILE, NINODE,
    Files,          \* the inode numbers of the files in the root directory
    Opens,          \* what open is called with: the path, whether it is relative,
                    \* and whether the mode is a valid one
    FileSize,       \* bytes in a file
    MaxRef          \* bound: references to an inode when an open begins

ASSUME FilesAssumption ==
    /\ IsFiniteSet(Procs) /\ Parent \in Procs /\ {NFILE, NOFILE, NINODE, MaxRef} \subseteq Nat \ {0}
    /\ FileSize \in Nat /\ Files \subseteq Nat \ {0, 1}
    /\ \A o \in Opens : o.path \in Nat /\ {o.relative, o.good} \subseteq BOOLEAN

VARIABLES
    file_table,     \* p->file_table: descriptors, 0 or an entry of ftable
    ftable,         \* open files
    icache,         \* cached inodes
    pc, loc,        \* where each process is, and its locals
    got,            \* history: the bytes read through each open file
    panicked

vars == <<file_table, ftable, icache, pc, loc, got, panicked>>

ROOTINO == 1
Fds     == 1 .. NOFILE
Slots   == 1 .. NFILE
Inodes  == 1 .. NINODE
NoFile  == [valid |-> FALSE, ref_count |-> 0, inode |-> 0, inum |-> 0, offset |-> 0]
NoLoc   == [path |-> 0, good |-> FALSE, root |-> 0, ip |-> 0, fd |-> 0, f |-> NoFile, n |-> 0]

\* iinit, finit and allocproc: nothing is open.
Init ==
    /\ file_table = [p \in Procs |-> [d \in Fds |-> 0]]
    /\ ftable = [s \in Slots |-> NoFile]
    /\ icache = [i \in Inodes |-> [ref |-> 0, inum |-> 0, type |-> "NONE", data |-> 0, owner |-> {}]]
    /\ pc = [p \in Procs |-> IF p = Parent THEN "idle" ELSE "unused"]
    /\ loc = [p \in Procs |-> NoLoc]
    /\ got = [s \in Slots |-> <<>>]
    /\ panicked = FALSE

At(p, here) == pc[p] = here
Goto(p, there) == pc' = [pc EXCEPT ![p] = there]
Return(p) == Goto(p, "idle") /\ loc' = [loc EXCEPT ![p] = NoLoc]
-----------------------------------------------------------------------------
(* The inode cache. *)

HitLoaded(inum) == {i \in Inodes : icache[i].inum = inum /\ icache[i].type # "NONE"}
Hit(inum) == {i \in Inodes : icache[i].ref > 0 /\ icache[i].inum = inum}
Empty == {i \in Inodes : icache[i].ref = 0}

\* iget up to the release of icache.lock, with more references on top of the
\* one it takes: a hit, or the first empty entry, which is still to be read.
iget(p, inum, more, field, hit, miss) ==
    \/ /\ Hit(inum) # {}
       /\ LET i == Min(Hit(inum)) IN
             /\ icache' = [icache EXCEPT ![i].ref = @ + 1 + more]
             /\ loc' = [loc EXCEPT ![p] = [field EXCEPT !.ip = i]]
       /\ Goto(p, hit)
       /\ UNCHANGED panicked
    \/ /\ Hit(inum) = {} /\ Empty # {}
       /\ LET i == Min(Empty) IN
             /\ icache' = [icache EXCEPT ![i] = [@ EXCEPT !.ref = 1 + more, !.inum = inum]]
             /\ loc' = [loc EXCEPT ![p] = [field EXCEPT !.ip = i]]
       /\ Goto(p, miss)
       /\ UNCHANGED panicked
    \/ /\ Hit(inum) = {} /\ Empty = {}
       /\ panicked' = TRUE
       /\ UNCHANGED <<icache, loc, pc>>

\* The rest of iget: the type is assigned first, then what the inode holds.
read_dinode(p, here, then) ==
    /\ At(p, here)
    /\ LET i == loc[p].ip IN
       \/ /\ icache[i].type = "NONE"
          /\ icache' = [icache EXCEPT ![i].type = IF icache[i].inum = ROOTINO THEN "DIR" ELSE "FILE"]
          /\ UNCHANGED pc
       \/ /\ icache[i].type # "NONE"
          /\ icache' = [icache EXCEPT ![i].data = icache[i].inum]
          /\ Goto(p, then)
    /\ UNCHANGED <<file_table, ftable, loc, got, panicked>>

\* irelease: the last reference makes the entry empty; its inum, which nobody
\* compares any more, is cleared.
irelease(i) == IF icache[i].ref = 1
               THEN [icache EXCEPT ![i] = [@ EXCEPT !.ref = 0, !.type = "NONE", !.inum = 0]]
               ELSE [icache EXCEPT ![i].ref = @ - 1]
-----------------------------------------------------------------------------
(* sys_open. *)

\* namex begins at the root, for which a relative path takes one reference
\* more (idup) than it will give back.
OpenRoot(p) ==
    /\ At(p, "idle") /\ "open" \in Does[p]
    /\ \A i \in Inodes : icache[i].ref < MaxRef
    /\ \E o \in Opens :
          iget(p, ROOTINO, IF o.relative THEN 1 ELSE 0,
               [NoLoc EXCEPT !.path = o.path, !.good = o.good], "namex", "iget_root")
    /\ UNCHANGED <<file_table, ftable, got>>

LoadRoot(p) == read_dinode(p, "iget_root", "namex")

\* Whether dirlookup meets the name: the entry must have been read in full.
Lists(i, path) == icache[i].type = "DIR" /\ icache[i].data = ROOTINO /\ path \in Files

dirlookup(p) ==
    /\ At(p, "namex") /\ Lists(loc[p].ip, loc[p].path)
    /\ iget(p, loc[p].path, 0, [loc[p] EXCEPT !.root = loc[p].ip], "found", "iget_file")
    /\ UNCHANGED <<file_table, ftable, got>>

NotFound(p) ==
    /\ At(p, "namex") /\ ~Lists(loc[p].ip, loc[p].path)
    /\ icache' = irelease(loc[p].ip)
    /\ Return(p)
    /\ UNCHANGED <<file_table, ftable, got, panicked>>

LoadFile(p) == read_dinode(p, "iget_file", "found")

Found(p) ==
    /\ At(p, "found")
    /\ icache' = irelease(loc[p].root)
    /\ Goto(p, "fileopen")
    /\ UNCHANGED <<file_table, ftable, loc, got, panicked>>

\* fileopen under ftable.lock.  When the mode is not valid or a table is full
\* the call fails and the inode keeps its reference.
FreeFd(p) == {d \in Fds : file_table[p][d] = 0}
FreeSlot == {s \in Slots : ~ftable[s].valid}
fileopen(p) ==
    /\ At(p, "fileopen")
    /\ IF loc[p].good /\ FreeFd(p) # {} /\ FreeSlot # {}
       THEN LET s == Min(FreeSlot) IN
            /\ ftable' = [ftable EXCEPT ![s] = [valid |-> TRUE, ref_count |-> 1,
                   inode |-> loc[p].ip, inum |-> loc[p].path, offset |-> 0]]
            /\ file_table' = [file_table EXCEPT ![p][Min(FreeFd(p))] = s]
            /\ got' = [got EXCEPT ![s] = <<>>]
       ELSE UNCHANGED <<ftable, file_table, got>>
    /\ Return(p)
    /\ UNCHANGED <<icache, panicked>>
-----------------------------------------------------------------------------
(* sys_close, sys_dup and fork. *)

\* The open file is copied, count included, before ftable.lock is taken.
sys_close(p) ==
    /\ At(p, "idle") /\ "close" \in Does[p]
    /\ \E d \in Fds :
          /\ file_table[p][d] # 0
          /\ loc' = [loc EXCEPT ![p] = [NoLoc EXCEPT !.fd = d, !.f = ftable[file_table[p][d]]]]
    /\ Goto(p, "fileclose")
    /\ UNCHANGED <<file_table, ftable, icache, got, panicked>>

IsLastOrTwo(f) == f.ref_count <= 2
IsLast(f) == f.ref_count <= 1
Closed(s) == ftable' = [ftable EXCEPT ![s] = NoFile] /\ got' = [got EXCEPT ![s] = <<>>]
fileclose(p) ==
    /\ At(p, "fileclose")
    /\ LET f == loc[p].f
           s == file_table[p][loc[p].fd]
       IN  \/ /\ ~ftable[s].valid
              /\ UNCHANGED <<ftable, icache, file_table, got>>
           \/ /\ ftable[s].valid /\ ~IsLast(f)
              /\ ftable' = [ftable EXCEPT ![s].ref_count = @ - 1]
              /\ file_table' = [file_table EXCEPT ![p][loc[p].fd] = 0]
              /\ UNCHANGED <<icache, got>>
           \/ /\ ftable[s].valid /\ IsLast(f)
              /\ Closed(s)
              /\ icache' = irelease(f.inode)
              /\ file_table' = [file_table EXCEPT ![p][loc[p].fd] = 0]
    /\ Return(p)
    /\ UNCHANGED panicked

sys_dup(p) ==
    /\ At(p, "idle") /\ "dup" \in Does[p] /\ FreeFd(p) # {}
    /\ \E d \in Fds :
          LET s == file_table[p][d] IN
          /\ s # 0 /\ ftable[s].valid
          /\ file_table' = [file_table EXCEPT ![p][Min(FreeFd(p))] = s]
          /\ ftable' = [ftable EXCEPT ![s].ref_count = @ + 1]
    /\ UNCHANGED <<icache, pc, loc, got, panicked>>

\* fork gives the child every descriptor of the parent.
Held(p, s) == {d \in Fds : file_table[p][d] = s}
fork(p) ==
    /\ At(p, "idle") /\ "fork" \in Does[p]
    /\ \E q \in Procs :
          /\ At(q, "unused")
          /\ file_table' = [file_table EXCEPT ![q] = file_table[p]]
          /\ Goto(q, "idle")
    /\ ftable' = [s \in Slots |-> [ftable[s] EXCEPT !.ref_count = @ + Cardinality(Held(p, s))]]
    /\ UNCHANGED <<icache, loc, got, panicked>>
-----------------------------------------------------------------------------
(* sys_read of a file. *)

\* fileread waits for the inode's lock, takes the offset from ftable, reads
\* the disk and moves the offset by what readi returned.
sys_read(p) ==
    /\ At(p, "idle") /\ "read" \in Does[p]
    /\ \E d \in Fds :
          LET s == file_table[p][d] IN
          /\ s # 0 /\ ftable[s].valid
          /\ loc' = [loc EXCEPT ![p] = [NoLoc EXCEPT !.fd = d, !.ip = ftable[s].inode]]
    /\ Goto(p, "fileread")
    /\ UNCHANGED <<file_table, ftable, icache, got, panicked>>

MayLockAny(i) == i \in Inodes
MayLock(i) == icache[i].owner = {}
fileread(p) ==
    /\ At(p, "fileread") /\ MayLock(loc[p].ip)
    /\ icache' = [icache EXCEPT ![loc[p].ip].owner = @ \cup {p}]
    /\ loc' = [loc EXCEPT ![p].n = ftable[file_table[p][loc[p].fd]].offset]
    /\ Goto(p, "readi")
    /\ UNCHANGED <<file_table, ftable, got, panicked>>

\* readi finds a byte, or the end of what it takes for the file.
readi(p) ==
    /\ At(p, "readi")
    /\ LET i == loc[p].ip
           s == file_table[p][loc[p].fd]
       IN  /\ icache' = [icache EXCEPT ![i].owner = @ \ {p}]
           /\ IF icache[i].data # 0 /\ loc[p].n < FileSize
              THEN /\ ftable' = [ftable EXCEPT ![s].offset = @ + 1]
                   /\ got' = [got EXCEPT ![s] = Append(@, loc[p].n)]
              ELSE UNCHANGED <<ftable, got>>
    /\ Return(p)
    /\ UNCHANGED <<file_table, panicked>>
-----------------------------------------------------------------------------
(* exit closes the descriptors one after the other, with no lock. *)

NextFd(p) == Min({d \in Fds : file_table[p][d] # 0})
exit(p) ==
    /\ At(p, "idle") /\ "exit" \in Does[p]
    /\ Goto(p, "exit")
    /\ UNCHANGED <<file_table, ftable, icache, loc, got, panicked>>

\* fileclose asks for the count ...
ExitTest(p) ==
    /\ At(p, "exit")
    /\ IF Held(p, 0) = Fds
       THEN Goto(p, "unused") /\ UNCHANGED <<ftable, loc, got>>
       ELSE LET d == NextFd(p)
                s == file_table[p][d]
            IN  /\ loc' = [loc EXCEPT ![p] = [@ EXCEPT !.fd = d, !.ip = ftable[s].inode]]
                /\ IF IsLast(ftable[s])
                   THEN Closed(s) /\ Goto(p, "exit_release")
                   ELSE UNCHANGED <<ftable, got>> /\ Goto(p, "exit_load")
    /\ UNCHANGED <<file_table, icache, panicked>>

\* ... then reads it, and writes it back one less ...
ExitLoad(p) ==
    /\ At(p, "exit_load")
    /\ loc' = [loc EXCEPT ![p].n = ftable[file_table[p][loc[p].fd]].ref_count]
    /\ Goto(p, "exit_store")
    /\ UNCHANGED <<file_table, ftable, icache, got, panicked>>

ExitDone(p) ==
    /\ file_table' = [file_table EXCEPT ![p][loc[p].fd] = 0]
    /\ loc' = [loc EXCEPT ![p] = NoLoc]
    /\ Goto(p, "exit")
ExitStore(p) ==
    /\ At(p, "exit_store")
    /\ ftable' = [ftable EXCEPT ![file_table[p][loc[p].fd]].ref_count = loc[p].n - 1]
    /\ ExitDone(p)
    /\ UNCHANGED <<icache, got, panicked>>

\* ... or lets the inode go.
ExitRelease(p) ==
    /\ At(p, "exit_release")
    /\ icache' = irelease(loc[p].ip)
    /\ ExitDone(p)
    /\ UNCHANGED <<ftable, got, panicked>>
-----------------------------------------------------------------------------
Next ==
    /\ ~panicked
    /\ \E p \in Procs :
          \/ OpenRoot(p) \/ LoadRoot(p) \/ dirlookup(p) \/ NotFound(p)
          \/ LoadFile(p) \/ Found(p) \/ fileopen(p)
          \/ sys_close(p) \/ fileclose(p) \/ sys_dup(p) \/ fork(p)
          \/ sys_read(p) \/ fileread(p) \/ readi(p)
          \/ exit(p) \/ ExitTest(p) \/ ExitLoad(p) \/ ExitStore(p) \/ ExitRelease(p)

Spec == Init /\ [][Next]_vars
-----------------------------------------------------------------------------
(* Properties. *)

(* TypeOK: the tables have their shape; no count is negative. *)
TypeOK ==
    /\ file_table \in [Procs -> [Fds -> 0 .. NFILE]]
    /\ \A s \in Slots : ftable[s].ref_count \in Nat /\ ftable[s].inode \in 0 .. NINODE
    /\ \A i \in Inodes : icache[i].ref \in Nat /\ icache[i].owner \subseteq Procs

\* The descriptors that refer to an open file, without one that exit is
\* just giving up.
Descriptors(s) == {x \in Procs \X Fds :
    file_table[x[1]][x[2]] = s /\ ~(At(x[1], "exit_release") /\ loc[x[1]].fd = x[2])}

(* As long as a descriptor refers to an open file, the file stays open, and *)
(* is counted at least as often: no close of another process, however its   *)
(* copy of the count is out of date, frees it early (file.c:28, "just set   *)
(* its valid bit to 0" when the count is 1).                                *)
NeverFreedEarly ==
    /\ TypeOK
    /\ \A s \in Slots : Descriptors(s) # {} =>
          ftable[s].valid /\ ftable[s].ref_count >= Cardinality(Descriptors(s))

(* No inode is in the cache twice, with two locks and two sizes, although   *)
(* iget gives back icache.lock before it has read the dinode.               *)
CachedOnce ==
    \A i, j \in Inodes :
        i # j /\ icache[i].ref > 0 /\ icache[j].ref > 0 => icache[i].inum # icache[j].inum

(* The inode of an open file is the one its path named, its entry of the    *)
(* cache is the only one and is not recycled before the file is closed.     *)
InodeHeld ==
    /\ CachedOnce
    /\ \A s \in Slots : ftable[s].valid =>
          LET i == ftable[s].inode IN
          /\ icache[i].inum = ftable[s].inum
          /\ icache[i].ref >= Cardinality({t \in Slots : ftable[t].valid /\ ftable[t].inode = i})

(* Processes that share an open file share its offset: between them they    *)
(* read every byte once and in order (lab1.md:294, "Each open file          *)
(* maintains a current position").                                          *)
ReadOnce == \A s \in Slots : got[s] = [k \in 1 .. Len(got[s]) |-> k - 1]
=============================================================================
