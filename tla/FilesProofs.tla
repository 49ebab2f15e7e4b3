----------------------------- MODULE FilesProofs -----------------------------
(***************************************************************************)
(* Open files and cached inodes live as long as somebody refers to them,   *)
(* and readers of an open file share its offset, whatever calls the        *)
(* processes make, if no descriptor is added to an open file while exit is *)
(* between the load and the store of its count.                            *)
(***************************************************************************)
EXTENDS Files, FiniteSetTheorems, SequenceTheorems, WellFoundedInduction, NaturalsInduction, TLAPS

\* The open file a process is at.
Slot(p) == file_table[p][loc[p].fd]

\* What the scheduler must not do: run a fork or a dup of an open file while the
\* exit of another process is between the two halves of `ref_count--`.
Apart ==
    \A p \in Procs : At(p, "exit_store") =>
        \A q \in Procs, d \in Fds : file_table'[q][d] = Slot(p) => file_table[q][d] = Slot(p)
-----------------------------------------------------------------------------
(* The inductive invariant *)

OpenFiles == [valid : BOOLEAN, ref_count : Nat, inode : 0 .. NINODE, inum : Nat, offset : Nat]
Entries == [ref : Nat, inum : Nat, type : {"NONE", "DIR", "FILE"}, data : Nat, owner : SUBSET Procs]
Locals == [path : Nat, good : BOOLEAN, root : 0 .. NINODE, ip : 0 .. NINODE, fd : 0 .. NOFILE,
           f : OpenFiles, n : Nat]

Labels == {"unused", "idle", "iget_root", "namex", "iget_file", "found", "fileopen", "fileclose",
           "fileread", "readi", "exit", "exit_load", "exit_store", "exit_release"}

Types ==
    /\ file_table \in [Procs -> [Fds -> 0 .. NFILE]]
    /\ ftable \in [Slots -> OpenFiles] /\ icache \in [Inodes -> Entries]
    /\ pc \in [Procs -> Labels] /\ loc \in [Procs -> Locals]
    /\ got \in [Slots -> Seq(Nat)] /\ panicked \in BOOLEAN

\* Where a process is at one of its descriptors, refers to an inode by ip, or
\* refers to the root by root.
AtFd   == {"fileclose", "fileread", "readi", "exit_load", "exit_store", "exit_release"}
AtIp   == {"iget_root", "namex", "iget_file", "found", "fileopen", "exit_release"}
AtRoot == {"iget_file", "found"}

\* Counts and copies of counts are not below the number of descriptors; who
\* has the copy of a last reference has the only descriptor.
Counted(p) ==
    /\ At(p, "unused") => \A d \in Fds : file_table[p][d] = 0
    /\ pc[p] \in AtFd => loc[p].fd \in Fds /\ Slot(p) \in Slots
    /\ At(p, "exit_store") => loc[p].n >= Cardinality(Descriptors(Slot(p)))
    /\ At(p, "fileclose") /\ IsLast(loc[p].f) => Descriptors(Slot(p)) \subseteq {<<p, loc[p].fd>>}
SlotKept(s) == Descriptors(s) # {} =>
    ftable[s].valid /\ ftable[s].ref_count >= Cardinality(Descriptors(s))
SlotsKept == \A s \in Slots : SlotKept(s)
Counts == (\A p \in Procs : Counted(p)) /\ SlotsKept

\* The references to an inode: open files, and calls under way.
BySlot(i) == {s \in Slots : ftable[s].valid /\ ftable[s].inode = i}
ByIp(i)   == {p \in Procs : pc[p] \in AtIp /\ loc[p].ip = i}
ByRoot(i) == {p \in Procs : pc[p] \in AtRoot /\ loc[p].root = i}
Uses(i)   == Cardinality(BySlot(i)) + Cardinality(ByIp(i)) + Cardinality(ByRoot(i))

Holds(p) ==
    /\ pc[p] \in AtIp => loc[p].ip \in Inodes
    /\ pc[p] \in AtRoot => loc[p].root \in Inodes
    /\ pc[p] \in {"iget_file", "found", "fileopen"} => icache[loc[p].ip].inum = loc[p].path
    /\ At(p, "fileclose") => loc[p].f.inode = ftable[Slot(p)].inode
Named(s) == ftable[s].valid => ftable[s].inode \in Inodes /\ icache[ftable[s].inode].inum = ftable[s].inum
UsesCounted == \A i \in Inodes : icache[i].ref >= Uses(i)
SlotsNamed == \A s \in Slots : Named(s)
Referenced == CachedOnce /\ UsesCounted /\ SlotsNamed /\ \A p \in Procs : Holds(p)

\* A reader has the inode of its open file, with the lock also its offset.
Reads(p) ==
    /\ pc[p] \in {"fileread", "readi"} => loc[p].ip = ftable[Slot(p)].inode
    /\ At(p, "readi") => icache[loc[p].ip].owner = {p} /\ loc[p].n = ftable[Slot(p)].offset
Prefix(s) == ftable[s].offset = Len(got[s]) /\ got[s] = [k \in 1 .. Len(got[s]) |-> k - 1]
Prefixes == \A s \in Slots : Prefix(s)
Reading == Prefixes /\ \A p \in Procs : Reads(p)

IInv == Types /\ Counts /\ Referenced /\ Reading
-----------------------------------------------------------------------------
(* Sets and numbers *)

\* The tables are finite, and their empty entries are entries.
LEMMA Sizes ==
  /\ NFILE \in Nat \ {0} /\ NOFILE \in Nat \ {0} /\ NINODE \in Nat \ {0}
  /\ IsFiniteSet(Procs) /\ IsFiniteSet(Slots) /\ IsFiniteSet(Procs \X Fds)
  /\ NoFile \in OpenFiles /\ NoLoc \in Locals
<1>1. NFILE \in Nat \ {0} /\ NOFILE \in Nat \ {0} /\ NINODE \in Nat \ {0} /\ IsFiniteSet(Procs)
  BY FilesAssumption, Zenon
<1>2. IsFiniteSet(Slots) /\ IsFiniteSet(Fds)
  BY <1>1, FS_Interval DEF Slots, Fds
<1>3. IsFiniteSet(Procs \X Fds)
  BY <1>1, <1>2, FS_Product, Zenon
<1>4. NoFile \in OpenFiles
  BY <1>1 DEF NoFile, OpenFiles
<1>5. NoLoc \in Locals
  BY <1>1, <1>4 DEF NoLoc, Locals
<1> QED
  BY <1>1, <1>2, <1>3, <1>4, <1>5, Zenon

\* A descriptor in use is an entry of ftable.
LEMMA NonZero ==
  ASSUME NEW x \in 0 .. NFILE, x # 0
  PROVE  x \in Slots
BY Sizes DEF Slots

\* Every nonempty set of numbers has a least one, and Min is it.
LEMMA MinIn ==
  ASSUME NEW S, S \subseteq Nat, S # {}
  PROVE  Min(S) \in S
<1>1. \E x \in S : \A y \in S : ~(<<y, x>> \in OpToRel(<, Nat))
  BY NatLessThanWellFounded, WFMin, Zenon
<1>2. \E x \in S : \A y \in S : ~(y < x)
  BY <1>1, Zenon DEF OpToRel
<1>3. \E x \in S : \A y \in S : x =< y
  BY <1>2
<1> QED
  BY <1>3, Zenon DEF Min

\* One element more or less.
In(x, A) == IF x \in A THEN 1 ELSE 0
LEMMA OneMoves ==
  ASSUME NEW S, IsFiniteSet(S), NEW A \in SUBSET S, NEW B \in SUBSET S, NEW x \in S,
         \A y \in S \ {x} : y \in A <=> y \in B
  PROVE  /\ Cardinality(A) \in Nat /\ Cardinality(B) \in Nat
         /\ Cardinality(B) = Cardinality(A) - In(x, A) + In(x, B)
<1>1. IsFiniteSet(A) /\ IsFiniteSet(B)
  BY FS_Subset, Zenon
<1>2. Cardinality(A) \in Nat /\ Cardinality(B) \in Nat
  BY <1>1, FS_CardinalityType, Zenon
<1>3. A \ {x} = B \ {x}
  BY Zenon
<1>4. Cardinality(A \ {x}) = IF x \in A THEN Cardinality(A) - 1 ELSE Cardinality(A)
  BY <1>1, FS_RemoveElement, Zenon
<1>5. Cardinality(B \ {x}) = IF x \in B THEN Cardinality(B) - 1 ELSE Cardinality(B)
  BY <1>1, FS_RemoveElement, Zenon
<1> QED
  BY <1>2, <1>3, <1>4, <1>5 DEF In

\* A finite set and what is less or not empty.
LEMMA Fewer ==
  ASSUME NEW S, IsFiniteSet(S), NEW A \in SUBSET S, NEW B \in SUBSET A
  PROVE  /\ Cardinality(A) \in Nat /\ Cardinality(B) \in Nat /\ Cardinality(B) <= Cardinality(A)
         /\ (A # {} => Cardinality(A) >= 1)
<1>1. IsFiniteSet(A)
  BY FS_Subset, Zenon
<1>2. IsFiniteSet(B) /\ Cardinality(B) <= Cardinality(A)
  BY <1>1, FS_Subset, Zenon
<1> QED
  BY <1>1, <1>2, FS_CardinalityType, FS_EmptySet

LEMMA AtMostOne ==
  ASSUME NEW x, NEW A, A \subseteq {x}
  PROVE  Cardinality(A) \in Nat /\ Cardinality(A) <= 1
<1>1. A = {} \/ A = {x}
  BY Zenon
<1>2. Cardinality({}) = 0 /\ Cardinality({x}) = 1
  BY FS_EmptySet, FS_Singleton, Zenon
<1> QED
  BY <1>1, <1>2

-----------------------------------------------------------------------------
(* Descriptors *)

\* Whether a descriptor counts for an open file.
Refers(p, d, s) == file_table[p][d] = s /\ ~(At(p, "exit_release") /\ loc[p].fd = d)

LEMMA DescriptorsAre ==
  ASSUME NEW s
  PROVE  /\ Descriptors(s) \in SUBSET (Procs \X Fds) /\ Descriptors(s)' \in SUBSET (Procs \X Fds)
         /\ Cardinality(Descriptors(s)) \in Nat /\ Cardinality(Descriptors(s))' \in Nat
         /\ \A p \in Procs, d \in Fds : <<p, d>> \in Descriptors(s) <=> Refers(p, d, s)
         /\ \A p \in Procs, d \in Fds : <<p, d>> \in Descriptors(s)' <=> Refers(p, d, s)'
<1>1. Descriptors(s) \in SUBSET (Procs \X Fds) /\ Descriptors(s)' \in SUBSET (Procs \X Fds)
  BY Zenon DEF Descriptors
<1>2. \A p \in Procs, d \in Fds : <<p, d>> \in Descriptors(s) <=> Refers(p, d, s)
  BY Zenon DEF Descriptors, Refers
<1>3. \A p \in Procs, d \in Fds : <<p, d>> \in Descriptors(s)' <=> Refers(p, d, s)'
  BY Zenon DEF Descriptors, Refers
<1>4. Cardinality(Descriptors(s)) \in Nat /\ Cardinality(Descriptors(s))' \in Nat
  BY <1>1, Sizes, Fewer, Zenon
<1> QED
  BY <1>1, <1>2, <1>3, <1>4, Zenon

\* Sets of descriptors are compared one descriptor at a time.
LEMMA Pairs ==
  ASSUME NEW A \in SUBSET (Procs \X Fds), NEW B \in SUBSET (Procs \X Fds),
         \A p \in Procs, d \in Fds : <<p, d>> \in B => <<p, d>> \in A
  PROVE  /\ B \subseteq A /\ Cardinality(B) <= Cardinality(A)
         /\ Cardinality(A) \in Nat /\ Cardinality(B) \in Nat
<1>1. B \subseteq A
  OBVIOUS
<1> QED
  BY <1>1, Sizes, Fewer, Zenon

\* A process at a descriptor that it is not just giving up has an open file.
LEMMA HasFile ==
  ASSUME Types, Counts, NEW p \in Procs, pc[p] \in AtFd, pc[p] # "exit_release"
  PROVE  /\ loc[p].fd \in Fds /\ Slot(p) \in Slots /\ <<p, loc[p].fd>> \in Descriptors(Slot(p))
         /\ ftable[Slot(p)].valid /\ ftable[Slot(p)].ref_count >= Cardinality(Descriptors(Slot(p)))
         /\ Cardinality(Descriptors(Slot(p))) >= 1
<1>1. loc[p].fd \in Fds /\ Slot(p) \in Slots
  BY Zenon DEF Counts, Counted
<1>2. <<p, loc[p].fd>> \in Descriptors(Slot(p))
  BY <1>1, DescriptorsAre, Zenon DEF Refers, Slot, At
<1>3. SlotKept(Slot(p))
  BY <1>1, Zenon DEF Counts, SlotsKept
<1>4. Cardinality(Descriptors(Slot(p))) >= 1
  BY <1>2, DescriptorsAre, Sizes, Fewer, Zenon
<1> QED
  BY <1>1, <1>2, <1>3, <1>4, Zenon DEF SlotKept

\* The same for an idle process and any of its descriptors.
LEMMA IdleHasFile ==
  ASSUME Types, Counts, NEW p \in Procs, pc[p] # "exit_release", NEW d \in Fds, file_table[p][d] # 0
  PROVE  /\ file_table[p][d] \in Slots /\ <<p, d>> \in Descriptors(file_table[p][d])
         /\ ftable[file_table[p][d]].valid
         /\ ftable[file_table[p][d]].ref_count >= Cardinality(Descriptors(file_table[p][d]))
<1>1. file_table[p][d] \in 0 .. NFILE
  BY Zenon DEF Types
<1>s. file_table[p][d] \in Slots
  BY <1>1, NonZero, Zenon
<1>2. <<p, d>> \in Descriptors(file_table[p][d])
  BY DescriptorsAre, Zenon DEF Refers, At
<1> QED
  BY <1>s, <1>2, Zenon DEF Counts, SlotsKept, SlotKept

-----------------------------------------------------------------------------
(* What a step of one process leaves alone *)

Others(p) == \A q \in Procs \ {p} :
    pc'[q] = pc[q] /\ loc'[q] = loc[q] /\ file_table'[q] = file_table[q]

\* No descriptor is added to an open file.
NotGrown(s) == \A r \in Procs, d \in Fds : Refers(r, d, s)' => Refers(r, d, s)

\* Another process goes by a copy of the count.
Watched(p, s) == \E q \in Procs \ {p} :
    Slot(q) = s /\ (At(q, "exit_store") \/ (At(q, "fileclose") /\ IsLast(loc[q].f)))

\* The counts are kept if those of the slots are, if the one who steps is right
\* about its copy, and no descriptor is added to where a copy was taken.
LEMMA CountsStep ==
  ASSUME Types, Counts, NEW p \in Procs, Others(p), Counted(p)', SlotsKept',
         \A s \in Slots : Watched(p, s) => NotGrown(s)
  PROVE  Counts'
<1> SUFFICES ASSUME NEW q \in Procs, q # p PROVE Counted(q)'
  BY Zenon DEF Counts
<1>1. pc'[q] = pc[q] /\ loc'[q] = loc[q] /\ file_table'[q] = file_table[q] /\ Counted(q)
  BY Zenon DEF Others, Counts
<1>2. Slot(q)' = Slot(q)
  BY <1>1, Zenon DEF Slot
<1>3. (At(q, "unused") => \A d \in Fds : file_table[q][d] = 0)'
  BY <1>1, Zenon DEF Counted, At
<1>4. (pc[q] \in AtFd => loc[q].fd \in Fds /\ Slot(q) \in Slots)'
  BY <1>1, <1>2, Zenon DEF Counted, AtFd
<1>5. ASSUME At(q, "exit_store") \/ (At(q, "fileclose") /\ IsLast(loc[q].f))
      PROVE  /\ Descriptors(Slot(q))' \subseteq Descriptors(Slot(q))
             /\ Cardinality(Descriptors(Slot(q)))' <= Cardinality(Descriptors(Slot(q)))
  <2>1. PICK s \in Slots : s = Slot(q)
    BY <1>1, <1>5, Zenon DEF Counted, At, AtFd
  <2>2. NotGrown(s)
    BY <1>5, <2>1, Zenon DEF Watched
  <2>3. \A r \in Procs, d \in Fds : <<r, d>> \in Descriptors(s)' => <<r, d>> \in Descriptors(s)
    BY <2>2, DescriptorsAre, Zenon DEF NotGrown
  <2>4. /\ Descriptors(s)' \subseteq Descriptors(s)
        /\ Cardinality(Descriptors(s)') <= Cardinality(Descriptors(s))
    BY <2>3, DescriptorsAre, Pairs, Zenon
  <2> QED
    BY <1>2, <2>1, <2>4, Zenon
<1>6. (At(q, "exit_store") => loc[q].n >= Cardinality(Descriptors(Slot(q))))'
  <2> SUFFICES ASSUME pc'[q] = "exit_store" PROVE (loc[q].n >= Cardinality(Descriptors(Slot(q))))'
    BY Zenon DEF At
  <2>1. At(q, "exit_store")
    BY <1>1, Zenon DEF At
  <2>2. loc[q].n >= Cardinality(Descriptors(Slot(q))) /\ loc[q].n \in Nat
    BY <1>1, <2>1, Zenon DEF Counted, Types, Locals
  <2>3. Cardinality(Descriptors(Slot(q)))' <= Cardinality(Descriptors(Slot(q)))
    BY <1>5, <2>1, Zenon
  <2>4. Cardinality(Descriptors(Slot(q))) \in Nat /\ Cardinality(Descriptors(Slot(q)))' \in Nat
    BY <1>2, DescriptorsAre, Zenon
  <2> QED
    BY <1>1, <2>2, <2>3, <2>4
<1>7. (At(q, "fileclose") /\ IsLast(loc[q].f) => Descriptors(Slot(q)) \subseteq {<<q, loc[q].fd>>})'
  BY <1>1, <1>5, Zenon DEF Counted, At, IsLast
<1> QED
  BY <1>3, <1>4, <1>6, <1>7, Zenon DEF Counted

\* A step that leaves the descriptors and the counts alone.
LEMMA CountsFrame ==
  ASSUME Types, Counts, NEW p \in Procs, Others(p), Counted(p)', file_table' = file_table,
         pc[p] # "exit_release", pc'[p] # "exit_release",
         \A s \in Slots : ftable'[s].valid = ftable[s].valid /\ ftable'[s].ref_count = ftable[s].ref_count
  PROVE  Counts'
<1>1. \A r \in Procs, d \in Fds, s \in Slots : Refers(r, d, s)' <=> Refers(r, d, s)
  BY Zenon DEF Refers, Others, At
<1>2. \A s \in Slots : NotGrown(s)
  BY <1>1, Zenon DEF NotGrown
<1>3. ASSUME NEW s \in Slots PROVE Descriptors(s)' = Descriptors(s)
  <2>1. \A r \in Procs, d \in Fds : <<r, d>> \in Descriptors(s)' <=> <<r, d>> \in Descriptors(s)
    BY <1>1, DescriptorsAre, Zenon
  <2>2. Descriptors(s)' \in SUBSET (Procs \X Fds) /\ Descriptors(s) \in SUBSET (Procs \X Fds)
    BY DescriptorsAre, Zenon
  <2>3. Descriptors(s)' \subseteq Descriptors(s) /\ Descriptors(s) \subseteq Descriptors(s)'
    BY <2>1, <2>2, Pairs, Zenon
  <2> QED
    BY <2>3, Zenon
<1>4. SlotsKept'
  BY <1>3, Zenon DEF SlotsKept, SlotKept, Counts
<1> QED
  BY <1>2, <1>4, CountsStep, Zenon

\* How the references to an inode change when one process and one slot do.
LEMMA UsesAre ==
  ASSUME NEW p \in Procs, Others(p), NEW s \in Slots,
         \A t \in Slots \ {s} : ftable'[t].valid = ftable[t].valid /\ ftable'[t].inode = ftable[t].inode,
         NEW i
  PROVE  /\ Uses(i) \in Nat /\ Uses(i)' \in Nat
         /\ Uses(i)' = Uses(i) - In(s, BySlot(i)) - In(p, ByIp(i)) - In(p, ByRoot(i))
                        + In(s, BySlot(i)') + In(p, ByIp(i)') + In(p, ByRoot(i)')
<1>1. /\ Cardinality(BySlot(i)) \in Nat /\ Cardinality(BySlot(i)') \in Nat
      /\ Cardinality(BySlot(i)') = Cardinality(BySlot(i)) - In(s, BySlot(i)) + In(s, BySlot(i)')
  <2>1. BySlot(i) \in SUBSET Slots /\ BySlot(i)' \in SUBSET Slots
    BY Zenon DEF BySlot
  <2>2. \A y \in Slots \ {s} : y \in BySlot(i) <=> y \in BySlot(i)'
    BY Zenon DEF BySlot
  <2> QED
    BY <2>1, <2>2, Sizes, OneMoves
<1>2. /\ Cardinality(ByIp(i)) \in Nat /\ Cardinality(ByIp(i)') \in Nat
      /\ Cardinality(ByIp(i)') = Cardinality(ByIp(i)) - In(p, ByIp(i)) + In(p, ByIp(i)')
  <2>1. ByIp(i) \in SUBSET Procs /\ ByIp(i)' \in SUBSET Procs
    BY Zenon DEF ByIp
  <2>2. \A y \in Procs \ {p} : y \in ByIp(i) <=> y \in ByIp(i)'
    BY Zenon DEF ByIp, Others
  <2> QED
    BY <2>1, <2>2, Sizes, OneMoves
<1>3. /\ Cardinality(ByRoot(i)) \in Nat /\ Cardinality(ByRoot(i)') \in Nat
      /\ Cardinality(ByRoot(i)') = Cardinality(ByRoot(i)) - In(p, ByRoot(i)) + In(p, ByRoot(i)')
  <2>1. ByRoot(i) \in SUBSET Procs /\ ByRoot(i)' \in SUBSET Procs
    BY Zenon DEF ByRoot
  <2>2. \A y \in Procs \ {p} : y \in ByRoot(i) <=> y \in ByRoot(i)'
    BY Zenon DEF ByRoot, Others
  <2> QED
    BY <2>1, <2>2, Sizes, OneMoves
<1>4. \A x, A : In(x, A) \in {0, 1}
  BY Zenon DEF In
<1> QED
  BY <1>1, <1>2, <1>3, <1>4 DEF Uses

\* References when only processes change.
LEMMA WalkUses ==
  ASSUME NEW p \in Procs, Others(p), ftable' = ftable, NEW j
  PROVE  /\ Uses(j) \in Nat /\ Uses(j)' \in Nat
         /\ Uses(j)' = Uses(j) - In(p, ByIp(j)) - In(p, ByRoot(j)) + In(p, ByIp(j)') + In(p, ByRoot(j)')
<1>1. PICK s \in Slots : TRUE
  BY Sizes DEF Slots
<1>2. In(s, BySlot(j)') = In(s, BySlot(j)) /\ \A x, A : In(x, A) \in Nat
  BY Zenon DEF BySlot, In
<1>3. /\ Uses(j) \in Nat /\ Uses(j)' \in Nat
      /\ Uses(j)' = Uses(j) - In(s, BySlot(j)) - In(p, ByIp(j)) - In(p, ByRoot(j))
                     + In(s, BySlot(j)') + In(p, ByIp(j)') + In(p, ByRoot(j)')
  BY UsesAre, Zenon
<1> QED
  BY <1>2, <1>3

\* Whoever refers to an inode is counted.
LEMMA SumOf ==
  ASSUME NEW A \in SUBSET Slots, NEW B \in SUBSET Procs, NEW C \in SUBSET Procs
  PROVE  LET sum == Cardinality(A) + Cardinality(B) + Cardinality(C) IN
         sum \in Nat /\ sum >= Cardinality(A) /\ (A # {} \/ B # {} \/ C # {} => sum >= 1)
<1>1. /\ Cardinality(A) \in Nat /\ (A # {} => Cardinality(A) >= 1)
      /\ Cardinality(B) \in Nat /\ (B # {} => Cardinality(B) >= 1)
      /\ Cardinality(C) \in Nat /\ (C # {} => Cardinality(C) >= 1)
  BY Sizes, Fewer, Zenon
<1> QED
  BY <1>1

LEMMA UsedBy ==
  ASSUME NEW i
  PROVE  /\ Uses(i) \in Nat /\ Uses(i)' \in Nat /\ Uses(i) >= Cardinality(BySlot(i))
         /\ (BySlot(i) # {} \/ ByIp(i) # {} \/ ByRoot(i) # {}) => Uses(i) >= 1
         /\ (BySlot(i)' # {} \/ ByIp(i)' # {} \/ ByRoot(i)' # {}) => Uses(i)' >= 1
<1>1. /\ BySlot(i) \in SUBSET Slots /\ ByIp(i) \in SUBSET Procs /\ ByRoot(i) \in SUBSET Procs
      /\ BySlot(i)' \in SUBSET Slots /\ ByIp(i)' \in SUBSET Procs /\ ByRoot(i)' \in SUBSET Procs
  BY Zenon DEF BySlot, ByIp, ByRoot
<1> QED
  BY <1>1, SumOf, Zenon DEF Uses

\* What a step must keep for the processes that do not take it.
LEMMA ReferencedStep ==
  ASSUME Types, Referenced, NEW p \in Procs, Others(p), CachedOnce', UsesCounted', SlotsNamed', Holds(p)',
         \A q \in Procs \ {p} :
             /\ pc[q] \in AtIp => icache'[loc[q].ip].inum = icache[loc[q].ip].inum
             /\ pc[q] = "fileclose" => ftable'[Slot(q)].inode = ftable[Slot(q)].inode
  PROVE  Referenced'
<1> SUFFICES ASSUME NEW q \in Procs, q # p PROVE Holds(q)'
  BY Zenon DEF Referenced
<1>1. pc'[q] = pc[q] /\ loc'[q] = loc[q] /\ file_table'[q] = file_table[q] /\ Holds(q)
  BY Zenon DEF Others, Referenced
<1>2. /\ pc[q] \in AtIp => icache'[loc[q].ip].inum = icache[loc[q].ip].inum
      /\ pc[q] = "fileclose" => ftable'[Slot(q)].inode = ftable[Slot(q)].inode
  BY Zenon
<1> QED
  BY <1>1, <1>2, Zenon DEF Holds, At, Slot, AtIp, AtRoot

\* A step that leaves the references to inodes alone.
LEMMA ReferencedFrame ==
  ASSUME Types, Referenced, NEW p \in Procs, Others(p), Holds(p)',
         \A t \in Slots : /\ ftable'[t].valid = ftable[t].valid /\ ftable'[t].inode = ftable[t].inode
                          /\ ftable'[t].inum = ftable[t].inum,
         \A i \in Inodes : icache'[i].ref = icache[i].ref /\ icache'[i].inum = icache[i].inum,
         pc[p] \in AtIp <=> pc'[p] \in AtIp, pc[p] \in AtIp => loc'[p].ip = loc[p].ip,
         pc[p] \in AtRoot <=> pc'[p] \in AtRoot, pc[p] \in AtRoot => loc'[p].root = loc[p].root,
         \A q \in Procs \ {p} : pc[q] = "fileclose" => Slot(q) \in Slots
  PROVE  Referenced'
<1>1. ASSUME NEW i \in Inodes PROVE Uses(i)' = Uses(i)
  <2>1. BySlot(i)' = BySlot(i)
    BY Zenon DEF BySlot
  <2>2. ByIp(i)' = ByIp(i)
    BY Zenon DEF ByIp, Others
  <2>3. ByRoot(i)' = ByRoot(i)
    BY Zenon DEF ByRoot, Others
  <2> QED
    BY <2>1, <2>2, <2>3, Zenon DEF Uses
<1>2. UsesCounted'
  BY <1>1, Zenon DEF UsesCounted, Referenced
<1>3. CachedOnce'
  BY DEF CachedOnce, Referenced
<1>4. SlotsNamed'
  BY DEF SlotsNamed, Named, Referenced
<1>5. \A q \in Procs : pc[q] \in AtIp => loc[q].ip \in Inodes
  BY Zenon DEF Referenced, Holds
<1> QED
  BY <1>2, <1>3, <1>4, <1>5, ReferencedStep, Zenon

\* An inode that is still referred to stays the one it is.
KeptInum == \A j \in Inodes : Uses(j)' >= 1 => icache'[j].inum = icache[j].inum

\* The last reference to an inode is the one that is released.
LEMMA ReleaseStep ==
  ASSUME Types, Referenced, NEW i \in Inodes, icache' = irelease(i), NEW p \in Procs, Others(p), NEW s \in Slots,
         \A t \in Slots \ {s} : ftable'[t] = ftable[t],
         \A j \in Inodes : Uses(j) \in Nat /\ Uses(j)' \in Nat /\ Uses(j)' <= Uses(j) - In(j, {i}),
         KeptInum => Named(s)' /\ Holds(p)',
         \A q \in Procs \ {p} : pc[q] = "fileclose" => ftable'[Slot(q)].inode = ftable[Slot(q)].inode
  PROVE  /\ Referenced' /\ icache' \in [Inodes -> Entries]
         /\ \A j \in Inodes : icache'[j].owner = icache[j].owner
<1>t. icache \in [Inodes -> Entries] /\ icache[i] \in Entries /\ \A j \in Inodes : icache[j].ref \in Nat /\ icache[j].inum \in Nat
  BY Zenon DEF Types, Entries
<1>u. \A j \in Inodes : icache[j].ref >= Uses(j)
  BY Zenon DEF Referenced, UsesCounted
<1>1. icache[i].ref >= 1
  BY <1>t, <1>u DEF In
<1>2. /\ icache' \in [Inodes -> Entries]
      /\ icache'[i].ref = icache[i].ref - 1 /\ icache'[i].owner = icache[i].owner
      /\ icache[i].ref # 1 => icache'[i].inum = icache[i].inum
      /\ \A j \in Inodes \ {i} : icache'[j] = icache[j]
  <2>1. CASE icache[i].ref = 1
    <3>1. icache' = [icache EXCEPT ![i] = [@ EXCEPT !.ref = 0, !.type = "NONE", !.inum = 0]]
      BY <2>1, Zenon DEF irelease
    <3>2. PICK r : r = [icache[i] EXCEPT !.ref = 0, !.type = "NONE", !.inum = 0]
      BY Zenon
    <3>3. r \in Entries /\ r.ref = 0 /\ r.owner = icache[i].owner
      BY <1>t, <3>2, Zenon DEF Entries
    <3>4. icache' = [icache EXCEPT ![i] = r]
      BY <3>1, <3>2, Zenon
    <3> QED
      BY <1>t, <2>1, <3>3, <3>4
  <2>2. CASE icache[i].ref # 1
    <3>1. icache' = [icache EXCEPT ![i].ref = @ - 1]
      BY <2>2, Zenon DEF irelease
    <3> QED
      BY <1>t, <1>1, <2>2, <3>1 DEF Entries
  <2> QED
    BY <2>1, <2>2, Zenon
<1>3. UsesCounted'
  BY <1>t, <1>u, <1>2 DEF UsesCounted, In
<1>4. KeptInum
  BY <1>t, <1>u, <1>1, <1>2 DEF In, KeptInum
<1>5. CachedOnce'
  BY <1>t, <1>1, <1>2 DEF CachedOnce, Referenced
<1>6. SlotsNamed'
  <2> SUFFICES ASSUME NEW t \in Slots, t # s, ftable'[t].valid PROVE Named(t)'
    BY <1>4, Zenon DEF SlotsNamed, Named
  <2>1. ftable'[t] = ftable[t] /\ Named(t)
    BY Zenon DEF Referenced, SlotsNamed
  <2>2. PICK j \in Inodes : j = ftable[t].inode
    BY <2>1, Zenon DEF Named
  <2>3. Uses(j)' >= 1
    <3>1. t \in BySlot(j)'
      BY <2>1, <2>2, Zenon DEF BySlot
    <3> QED
      BY <3>1, UsedBy, Zenon
  <2> QED
    BY <1>4, <2>1, <2>2, <2>3, Zenon DEF Named, KeptInum
<1>7. ASSUME NEW q \in Procs \ {p}, pc[q] \in AtIp PROVE icache'[loc[q].ip].inum = icache[loc[q].ip].inum
  <2>1. PICK j \in Inodes : j = loc[q].ip
    BY <1>7, Zenon DEF Referenced, Holds
  <2>2. q \in ByIp(j)'
    BY <1>7, <2>1, Zenon DEF ByIp, Others
  <2> QED
    BY <1>4, <2>1, <2>2, UsedBy, Zenon DEF KeptInum
<1>8. Referenced'
  BY <1>3, <1>4, <1>5, <1>6, <1>7, ReferencedStep, Zenon
<1> QED
  BY <1>2, <1>8, Zenon

\* iget gives a reference to the one entry for an inode, or panics.
Gets(p, i, inum) ==
    /\ icache' \in [Inodes -> Entries]
    /\ icache'[i].inum = inum /\ icache'[i].ref >= Uses(i) + 1 /\ icache'[i].owner = icache[i].owner
    /\ icache[i].ref > 0 => icache[i].inum = inum
    /\ \A j \in Inodes \ {i} : icache'[j] = icache[j]
    /\ CachedOnce'

GetOutcome(p, inum, field, hit, miss) ==
    \/ UNCHANGED <<icache, loc, pc>> /\ panicked' = TRUE
    \/ \E i \in Inodes :
          /\ Gets(p, i, inum) /\ panicked' = panicked
          /\ loc' = [loc EXCEPT ![p] = [field EXCEPT !.ip = i]]
          /\ (pc' = [pc EXCEPT ![p] = hit] \/ pc' = [pc EXCEPT ![p] = miss])

LEMMA GetEffect ==
  ASSUME Types, Referenced, NEW p \in Procs, NEW inum \in Nat, NEW more \in Nat, NEW field, NEW hit, NEW miss,
         iget(p, inum, more, field, hit, miss)
  PROVE  GetOutcome(p, inum, field, hit, miss)
<1>t. icache \in [Inodes -> Entries] /\ \A j \in Inodes : icache[j] \in Entries /\ icache[j].ref \in Nat /\ icache[j].inum \in Nat
  BY Zenon DEF Types, Entries
<1>u. \A j \in Inodes : icache[j].ref >= Uses(j) /\ Uses(j) \in Nat
  BY UsedBy, Zenon DEF Referenced, UsesCounted
<1>n. Inodes \subseteq Nat
  BY Sizes DEF Inodes
<1>1. CASE /\ Hit(inum) = {} /\ Empty = {} /\ panicked' = TRUE /\ UNCHANGED <<icache, loc, pc>>
  BY <1>1, Zenon DEF GetOutcome
<1>2. CASE /\ Hit(inum) # {} /\ pc' = [pc EXCEPT ![p] = hit] /\ panicked' = panicked
           /\ icache' = [icache EXCEPT ![Min(Hit(inum))].ref = @ + 1 + more]
           /\ loc' = [loc EXCEPT ![p] = [field EXCEPT !.ip = Min(Hit(inum))]]
  <2>1. PICK i : i = Min(Hit(inum))
    BY Zenon
  <2>2. i \in Inodes /\ icache[i].ref > 0 /\ icache[i].inum = inum
    <3>1. Hit(inum) \subseteq Nat
      BY <1>n, Zenon DEF Hit
    <3>2. i \in Hit(inum)
      BY <1>2, <2>1, <3>1, MinIn, Zenon
    <3> QED
      BY <3>2, Zenon DEF Hit
  <2>3. icache' = [icache EXCEPT ![i].ref = @ + 1 + more]
    BY <1>2, <2>1, Zenon
  <2>4. /\ icache' \in [Inodes -> Entries]
        /\ icache'[i].inum = inum /\ icache'[i].ref = icache[i].ref + 1 + more /\ icache'[i].owner = icache[i].owner
        /\ \A j \in Inodes \ {i} : icache'[j] = icache[j]
    BY <1>t, <2>2, <2>3 DEF Entries
  <2>5. CachedOnce'
    BY <1>t, <2>2, <2>4 DEF CachedOnce, Referenced
  <2>6. Gets(p, i, inum)
    BY <1>t, <1>u, <2>2, <2>4, <2>5 DEF Gets
  <2> QED
    BY <1>2, <2>1, <2>2, <2>6, Zenon DEF GetOutcome
<1>3. CASE /\ Hit(inum) = {} /\ Empty # {} /\ pc' = [pc EXCEPT ![p] = miss] /\ panicked' = panicked
           /\ icache' = [icache EXCEPT ![Min(Empty)] = [@ EXCEPT !.ref = 1 + more, !.inum = inum]]
           /\ loc' = [loc EXCEPT ![p] = [field EXCEPT !.ip = Min(Empty)]]
  <2>1. PICK i : i = Min(Empty)
    BY Zenon
  <2>2. i \in Inodes /\ icache[i].ref = 0
    <3>1. Empty \subseteq Nat
      BY <1>n, Zenon DEF Empty
    <3>2. i \in Empty
      BY <1>3, <2>1, <3>1, MinIn, Zenon
    <3> QED
      BY <3>2, Zenon DEF Empty
  <2>k. PICK k \in Nat : k = 1 + more
    OBVIOUS
  <2>3. PICK r : r = [icache[i] EXCEPT !.ref = k, !.inum = inum]
    BY Zenon
  <2>4. r \in Entries /\ r.ref = k /\ r.inum = inum /\ r.owner = icache[i].owner
    BY <1>t, <2>2, <2>3, Zenon DEF Entries
  <2>5. icache' = [icache EXCEPT ![i] = r]
    BY <1>3, <2>1, <2>k, <2>3, Zenon
  <2>6. icache' \in [Inodes -> Entries] /\ icache'[i] = r /\ \A j \in Inodes \ {i} : icache'[j] = icache[j]
    BY <1>t, <2>2, <2>4, <2>5, Zenon
  <2>7. \A j \in Inodes : icache[j].ref > 0 => icache[j].inum # inum
    BY <1>3, Zenon DEF Hit
  <2>8. CachedOnce'
    BY <1>t, <2>2, <2>k, <2>4, <2>6, <2>7 DEF CachedOnce, Referenced
  <2>9. Gets(p, i, inum)
    BY <1>t, <1>u, <2>2, <2>k, <2>4, <2>6, <2>8 DEF Gets
  <2> QED
    BY <1>3, <2>1, <2>2, <2>9, Zenon DEF GetOutcome
<1> QED
  BY <1>1, <1>2, <1>3, Zenon DEF iget, Goto

\* A process that has got a reference counts for one.
LEMMA GetStep ==
  ASSUME Types, Referenced, NEW p \in Procs, Others(p), NEW i \in Inodes, NEW inum, Gets(p, i, inum),
         ftable' = ftable, Holds(p)', \A j \in Inodes : Uses(j)' <= Uses(j) + In(j, {i})
  PROVE  Referenced'
<1>t. \A j \in Inodes : icache[j].ref \in Nat /\ icache'[j].ref \in Nat /\ Uses(j) \in Nat /\ Uses(j)' \in Nat
  BY UsedBy, Zenon DEF Types, Entries, Gets
<1>1. UsesCounted'
  BY <1>t DEF UsesCounted, Referenced, Gets, In
<1>2. \A j \in Inodes : Uses(j) >= 1 => icache'[j].inum = icache[j].inum
  BY <1>t DEF Gets, Referenced, UsesCounted
<1>3. SlotsNamed'
  <2> SUFFICES ASSUME NEW t \in Slots, ftable[t].valid PROVE Named(t)'
    BY Zenon DEF SlotsNamed, Named
  <2>1. Named(t)
    BY Zenon DEF Referenced, SlotsNamed
  <2>2. t \in BySlot(ftable[t].inode)
    BY Zenon DEF BySlot
  <2>3. Uses(ftable[t].inode) >= 1
    BY <2>2, UsedBy, Zenon
  <2> QED
    BY <1>2, <2>1, <2>3, Zenon DEF Named
<1>4. ASSUME NEW q \in Procs \ {p}, pc[q] \in AtIp PROVE icache'[loc[q].ip].inum = icache[loc[q].ip].inum
  <2>1. q \in ByIp(loc[q].ip) /\ loc[q].ip \in Inodes
    BY <1>4, Zenon DEF Referenced, Holds, ByIp
  <2>2. Uses(loc[q].ip) >= 1
    BY <2>1, UsedBy, Zenon
  <2> QED
    BY <1>2, <2>1, <2>2, Zenon
<1>5. CachedOnce'
  BY Zenon DEF Gets
<1> QED
  BY <1>1, <1>3, <1>4, <1>5, ReferencedStep, Zenon

\* What a step must keep for readers that do not take it: their open file, its
\* offset and their lock.
LEMMA ReadingStep ==
  ASSUME Types, Reading, NEW p \in Procs, Others(p), Prefixes', Reads(p)',
         \A q \in Procs \ {p} :
             /\ pc[q] \in {"fileread", "readi"} => ftable'[Slot(q)].inode = ftable[Slot(q)].inode
             /\ pc[q] = "readi" => /\ ftable'[Slot(q)].offset = ftable[Slot(q)].offset
                                 /\ icache'[loc[q].ip].owner = icache[loc[q].ip].owner
  PROVE  Reading'
<1> SUFFICES ASSUME NEW q \in Procs, q # p PROVE Reads(q)'
  BY Zenon DEF Reading
<1>1. pc'[q] = pc[q] /\ loc'[q] = loc[q] /\ file_table'[q] = file_table[q] /\ Reads(q)
  BY Zenon DEF Others, Reading
<1>2. /\ pc[q] \in {"fileread", "readi"} => ftable'[Slot(q)].inode = ftable[Slot(q)].inode
      /\ pc[q] = "readi" => /\ ftable'[Slot(q)].offset = ftable[Slot(q)].offset
                          /\ icache'[loc[q].ip].owner = icache[loc[q].ip].owner
  BY Zenon
<1> QED
  BY <1>1, <1>2, Zenon DEF Reads, At, Slot

\* A reader's inode is in the cache.
LEMMA ReaderHas ==
  ASSUME Types, Counts, Referenced, Reading, NEW q \in Procs, pc[q] \in {"fileread", "readi"}
  PROVE  /\ Slot(q) \in Slots /\ loc[q].ip \in Inodes /\ loc[q].ip = ftable[Slot(q)].inode
         /\ ftable[Slot(q)].valid /\ <<q, loc[q].fd>> \in Descriptors(Slot(q)) /\ loc[q].fd \in Fds
<1>1. Slot(q) \in Slots /\ ftable[Slot(q)].valid /\ <<q, loc[q].fd>> \in Descriptors(Slot(q)) /\ loc[q].fd \in Fds
  BY HasFile, Zenon DEF AtFd
<1>2. Named(Slot(q)) /\ Reads(q)
  BY <1>1, Zenon DEF Referenced, SlotsNamed, Reading
<1> QED
  BY <1>1, <1>2, Zenon DEF Named, Reads

\* A lock changes hands.
LEMMA NewOwner ==
  ASSUME Types, NEW i \in Inodes, NEW o \in SUBSET Procs, icache' = [icache EXCEPT ![i].owner = o]
  PROVE  /\ icache' \in [Inodes -> Entries] /\ icache'[i].owner = o
         /\ \A j \in Inodes : icache'[j].ref = icache[j].ref /\ icache'[j].inum = icache[j].inum
         /\ \A j \in Inodes \ {i} : icache'[j].owner = icache[j].owner
<1>1. icache \in [Inodes -> Entries]
  BY Zenon DEF Types
<1>2. PICK r : r = [icache[i] EXCEPT !.owner = o]
  BY Zenon
<1>3. r \in Entries /\ r.ref = icache[i].ref /\ r.inum = icache[i].inum /\ r.owner = o
  BY <1>1, <1>2, Zenon DEF Entries
<1>4. icache' = [icache EXCEPT ![i] = r]
  BY <1>2, Zenon
<1> QED
  BY <1>1, <1>3, <1>4

\* A step that leaves open files and locks alone.
LEMMA ReadingFrame ==
  ASSUME Types, Counts, Referenced, Reading, NEW p \in Procs, Others(p), Reads(p)', got' = got,
         \A t \in Slots : ftable'[t].inode = ftable[t].inode /\ ftable'[t].offset = ftable[t].offset,
         \A i \in Inodes : icache'[i].owner = icache[i].owner
  PROVE  Reading'
<1>1. Prefixes'
  BY Zenon DEF Reading, Prefixes, Prefix
<1>2. ASSUME NEW q \in Procs \ {p}, pc[q] \in {"fileread", "readi"} PROVE Slot(q) \in Slots /\ loc[q].ip \in Inodes
  BY <1>2, ReaderHas, Zenon
<1> QED
  BY <1>1, <1>2, ReadingStep, Zenon

-----------------------------------------------------------------------------
(* sys_open *)

\* A process goes on with other locals.
LEMMA OneProc ==
  ASSUME Types, NEW p \in Procs, NEW there \in Labels, NEW v \in Locals,
         pc' = [pc EXCEPT ![p] = there], loc' = [loc EXCEPT ![p] = v]
  PROVE  /\ pc' \in [Procs -> Labels] /\ loc' \in [Procs -> Locals] /\ pc'[p] = there /\ loc'[p] = v
         /\ \A q \in Procs \ {p} : pc'[q] = pc[q] /\ loc'[q] = loc[q]
BY Zenon DEF Types

\* The steps of an open leave descriptors and open files alone.
LEMMA WalkStep ==
  ASSUME IInv, NEW p \in Procs, file_table' = file_table, ftable' = ftable, got' = got, panicked' \in BOOLEAN,
         pc' \in [Procs -> Labels], loc' \in [Procs -> Locals], icache' \in [Inodes -> Entries],
         \A q \in Procs \ {p} : pc'[q] = pc[q] /\ loc'[q] = loc[q],
         \A i \in Inodes : icache'[i].owner = icache[i].owner,
         pc[p] \in AtIp \cup {"idle"}, pc[p] # "exit_release",
         pc'[p] \in AtIp \cup {"idle"}, pc'[p] # "exit_release", Others(p) => Referenced'
  PROVE  IInv'
<1> USE DEF IInv
<1>1. Types'
  BY Zenon DEF Types
<1>2. Others(p)
  BY Zenon DEF Others
<1>3. Counted(p)'
  BY Zenon DEF Counted, At, AtFd, AtIp
<1>4. Counts'
  BY <1>2, <1>3, CountsFrame, Zenon
<1>5. Reads(p)'
  BY Zenon DEF Reads, At, AtIp
<1>6. Reading'
  BY <1>2, <1>5, ReadingFrame, Zenon
<1> QED
  BY <1>1, <1>2, <1>4, <1>6, Zenon

\* Reading the dinode changes nothing that references depend on.
LEMMA LoadKeeps ==
  ASSUME IInv, NEW p \in Procs, LoadRoot(p) \/ LoadFile(p)
  PROVE  IInv'
<1> USE DEF IInv
<1>1. PICK i \in Inodes : i = loc[p].ip
  BY Zenon DEF Referenced, Holds, LoadRoot, LoadFile, read_dinode, At, AtIp
<1>2. /\ icache' \in [Inodes -> Entries]
      /\ \A j \in Inodes : /\ icache'[j].ref = icache[j].ref /\ icache'[j].inum = icache[j].inum
                           /\ icache'[j].owner = icache[j].owner
  <2>1. icache \in [Inodes -> Entries] /\ icache[i].inum \in Nat
    BY Zenon DEF Types, Entries
  <2>2. CASE icache' = [icache EXCEPT ![i].type = IF icache[i].inum = ROOTINO THEN "DIR" ELSE "FILE"]
    <3>1. PICK t \in {"NONE", "DIR", "FILE"} : t = IF icache[i].inum = ROOTINO THEN "DIR" ELSE "FILE"
      BY Zenon
    <3>2. icache' = [icache EXCEPT ![i].type = t]
      BY <2>2, <3>1, Zenon
    <3> QED
      BY <2>1, <3>2 DEF Entries
  <2>3. CASE icache' = [icache EXCEPT ![i].data = icache[i].inum]
    BY <2>1, <2>3 DEF Entries
  <2> QED
    BY <1>1, <2>2, <2>3, Zenon DEF LoadRoot, LoadFile, read_dinode
<1>3. \/ pc[p] = "iget_root" /\ (pc' = pc \/ pc' = [pc EXCEPT ![p] = "namex"])
      \/ pc[p] = "iget_file" /\ (pc' = pc \/ pc' = [pc EXCEPT ![p] = "found"])
  BY Zenon DEF LoadRoot, LoadFile, read_dinode, Goto, At
<1>4. UNCHANGED <<file_table, ftable, loc, got, panicked>>
  BY Zenon DEF LoadRoot, LoadFile, read_dinode
<1>5. /\ pc' \in [Procs -> Labels] /\ \A q \in Procs \ {p} : pc'[q] = pc[q]
      /\ \/ pc[p] = "iget_root" /\ pc'[p] \in {"iget_root", "namex"}
         \/ pc[p] = "iget_file" /\ pc'[p] \in {"iget_file", "found"}
  <2>1. pc \in [Procs -> Labels] /\ "namex" \in Labels /\ "found" \in Labels
    BY Zenon DEF Types, Labels
  <2>2. CASE pc[p] = "iget_root"
    BY <1>3, <2>1, <2>2, Zenon
  <2>3. CASE pc[p] = "iget_file"
    BY <1>3, <2>1, <2>3, Zenon
  <2> QED
    BY <1>3, <2>2, <2>3, Zenon
<1>6. Holds(p)'
  BY <1>1, <1>2, <1>4, <1>5, Zenon DEF Referenced, Holds, At, AtIp, AtRoot
<1>7. Others(p) => Referenced'
  BY <1>2, <1>4, <1>5, <1>6, ReferencedFrame, HasFile, Zenon DEF AtIp, AtRoot, AtFd
<1>8. loc' \in [Procs -> Locals] /\ panicked' \in BOOLEAN
  BY <1>4, Zenon DEF Types
<1> QED
  BY <1>2, <1>4, <1>5, <1>7, <1>8, WalkStep, Zenon DEF AtIp

\* A panic stops the machine as it is.
LEMMA PanicKeeps ==
  ASSUME IInv, UNCHANGED <<file_table, ftable, icache, loc, pc, got>>, panicked' \in BOOLEAN
  PROVE  IInv'
<1> USE DEF IInv
<1>1. Types'
  BY Zenon DEF Types
<1>2. Counts'
  BY DEF Counts, Counted, SlotsKept, SlotKept, Descriptors, Slot, At, IsLast
<1>3. Referenced'
  BY Zenon DEF Referenced, CachedOnce, UsesCounted, SlotsNamed, Named, Holds, Uses, BySlot, ByIp, ByRoot, Slot, At
<1>4. Reading'
  BY Zenon DEF Reading, Prefixes, Prefix, Reads, Slot, At
<1> QED
  BY <1>1, <1>2, <1>3, <1>4, Zenon

LEMMA OpenRootKeeps ==
  ASSUME IInv, NEW p \in Procs, OpenRoot(p)
  PROVE  IInv'
<1> USE DEF IInv
<1>1. pc[p] = "idle" /\ UNCHANGED <<file_table, ftable, got>>
  BY Zenon DEF OpenRoot, At
<1>2. PICK o \in Opens : iget(p, ROOTINO, IF o.relative THEN 1 ELSE 0,
               [NoLoc EXCEPT !.path = o.path, !.good = o.good], "namex", "iget_root")
  BY Zenon DEF OpenRoot
<1>3. PICK more \in Nat : more = IF o.relative THEN 1 ELSE 0
  BY Zenon
<1>4. PICK field : field = [NoLoc EXCEPT !.path = o.path, !.good = o.good]
  BY Zenon
<1>5. field \in Locals
  BY <1>4, Sizes, FilesAssumption, Zenon DEF Locals
<1>6. iget(p, ROOTINO, more, field, "namex", "iget_root") /\ ROOTINO \in Nat
  BY <1>2, <1>3, <1>4, Zenon DEF ROOTINO
<1>7. CASE UNCHANGED <<icache, loc, pc>> /\ panicked' = TRUE
  BY <1>1, <1>7, PanicKeeps, Zenon
<1>8. ASSUME NEW i \in Inodes, Gets(p, i, ROOTINO), panicked' = panicked,
             loc' = [loc EXCEPT ![p] = [field EXCEPT !.ip = i]],
             pc' = [pc EXCEPT ![p] = "namex"] \/ pc' = [pc EXCEPT ![p] = "iget_root"]
      PROVE  IInv'
  <2>1. PICK v : v = [field EXCEPT !.ip = i]
    BY Zenon
  <2>2. v \in Locals /\ v.ip = i
    BY <1>5, <2>1, Sizes DEF Locals, Inodes
  <2>3. PICK there \in {"namex", "iget_root"} : pc' = [pc EXCEPT ![p] = there]
    BY <1>8, Zenon
  <2>4. /\ pc' \in [Procs -> Labels] /\ loc' \in [Procs -> Locals] /\ pc'[p] = there /\ loc'[p] = v
        /\ \A q \in Procs \ {p} : pc'[q] = pc[q] /\ loc'[q] = loc[q]
    BY <1>8, <2>1, <2>2, <2>3, OneProc DEF Labels
  <2>5. Holds(p)'
    BY <2>2, <2>3, <2>4, Zenon DEF Holds, At, AtIp, AtRoot
  <2>6. ASSUME Others(p), NEW j \in Inodes PROVE Uses(j)' <= Uses(j) + In(j, {i})
    <3>1. /\ In(p, ByIp(j)) = 0 /\ In(p, ByRoot(j)) = 0 /\ In(p, ByRoot(j)') = 0
          /\ In(p, ByIp(j)') = In(j, {i})
      BY <1>1, <2>2, <2>3, <2>4, Zenon DEF In, ByIp, ByRoot, AtIp, AtRoot
    <3>2. In(j, {i}) \in Nat
      BY Zenon DEF In
    <3>3. /\ Uses(j) \in Nat /\ Uses(j)' \in Nat
          /\ Uses(j)' = Uses(j) - In(p, ByIp(j)) - In(p, ByRoot(j)) + In(p, ByIp(j)') + In(p, ByRoot(j)')
      BY <1>1, <2>6, WalkUses, Zenon
    <3> QED
      BY <3>1, <3>2, <3>3
  <2>7. Others(p) => Referenced'
    BY <1>1, <1>8, <2>5, <2>6, GetStep, Zenon
  <2>8. icache' \in [Inodes -> Entries] /\ \A j \in Inodes : icache'[j].owner = icache[j].owner
    BY <1>8, Zenon DEF Gets
  <2>9. panicked' \in BOOLEAN
    BY <1>8, Zenon DEF Types
  <2> QED
    BY <1>1, <2>3, <2>4, <2>7, <2>8, <2>9, WalkStep, Zenon DEF AtIp
<1>9. GetOutcome(p, ROOTINO, field, "namex", "iget_root")
  BY <1>6, GetEffect, Zenon
<1> QED
  BY <1>7, <1>8, <1>9, Zenon DEF GetOutcome

LEMMA dirlookupKeeps ==
  ASSUME IInv, NEW p \in Procs, dirlookup(p)
  PROVE  IInv'
<1> USE DEF IInv
<1>1. pc[p] = "namex" /\ UNCHANGED <<file_table, ftable, got>>
  BY Zenon DEF dirlookup, At
<1>2. PICK a \in Inodes : a = loc[p].ip
  BY <1>1, Zenon DEF Referenced, Holds, AtIp
<1>3. PICK inum \in Nat : inum = loc[p].path
  BY Zenon DEF Types, Locals
<1>4. PICK field : field = [loc[p] EXCEPT !.root = a]
  BY Zenon
<1>5. field \in Locals /\ field.path = inum /\ field.root = a
  BY <1>2, <1>3, <1>4, Sizes, Zenon DEF Types, Locals, Inodes
<1>6. iget(p, inum, 0, field, "found", "iget_file")
  BY <1>2, <1>3, <1>4, Zenon DEF dirlookup
<1>7. CASE UNCHANGED <<icache, loc, pc>> /\ panicked' = TRUE
  BY <1>1, <1>7, PanicKeeps, Zenon
<1>8. ASSUME NEW i \in Inodes, Gets(p, i, inum), panicked' = panicked,
             loc' = [loc EXCEPT ![p] = [field EXCEPT !.ip = i]],
             pc' = [pc EXCEPT ![p] = "found"] \/ pc' = [pc EXCEPT ![p] = "iget_file"]
      PROVE  IInv'
  <2>1. PICK v : v = [field EXCEPT !.ip = i]
    BY Zenon
  <2>2. v \in Locals /\ v.ip = i /\ v.path = inum /\ v.root = a
    BY <1>5, <2>1, Sizes DEF Locals, Inodes
  <2>3. PICK there \in {"found", "iget_file"} : pc' = [pc EXCEPT ![p] = there]
    BY <1>8, Zenon
  <2>4. /\ pc' \in [Procs -> Labels] /\ loc' \in [Procs -> Locals] /\ pc'[p] = there /\ loc'[p] = v
        /\ \A q \in Procs \ {p} : pc'[q] = pc[q] /\ loc'[q] = loc[q]
    BY <1>8, <2>1, <2>2, <2>3, OneProc DEF Labels
  <2>5. Holds(p)'
    BY <1>8, <2>2, <2>3, <2>4, Zenon DEF Holds, At, AtIp, AtRoot, Gets
  <2>6. ASSUME Others(p), NEW j \in Inodes PROVE Uses(j)' <= Uses(j) + In(j, {i})
    <3>1. In(p, ByIp(j)) = In(j, {a}) /\ In(p, ByRoot(j)) = 0
      BY <1>1, <1>2, Zenon DEF In, ByIp, ByRoot, AtIp, AtRoot
    <3>2. In(p, ByIp(j)') = In(j, {i}) /\ In(p, ByRoot(j)') = In(j, {a})
      BY <2>2, <2>3, <2>4, Zenon DEF In, ByIp, ByRoot, AtIp, AtRoot
    <3>3. In(j, {i}) \in Nat /\ In(j, {a}) \in Nat
      BY Zenon DEF In
    <3>4. /\ Uses(j) \in Nat /\ Uses(j)' \in Nat
          /\ Uses(j)' = Uses(j) - In(p, ByIp(j)) - In(p, ByRoot(j)) + In(p, ByIp(j)') + In(p, ByRoot(j)')
      BY <1>1, <2>6, WalkUses, Zenon
    <3> QED
      BY <3>1, <3>2, <3>3, <3>4
  <2>7. Others(p) => Referenced'
    BY <1>1, <1>8, <2>5, <2>6, GetStep, Zenon
  <2>8. icache' \in [Inodes -> Entries] /\ \A j \in Inodes : icache'[j].owner = icache[j].owner
    BY <1>8, Zenon DEF Gets
  <2>9. panicked' \in BOOLEAN
    BY <1>8, Zenon DEF Types
  <2> QED
    BY <1>1, <2>3, <2>4, <2>7, <2>8, <2>9, WalkStep, Zenon DEF AtIp
<1>9. GetOutcome(p, inum, field, "found", "iget_file")
  BY <1>6, GetEffect, Zenon
<1> QED
  BY <1>7, <1>8, <1>9, Zenon DEF GetOutcome

\* An open file is a reference, so its inode stays the one it is.
LEMMA NamedStays ==
  ASSUME Types, Referenced, NEW s \in Slots, ftable' = ftable, KeptInum
  PROVE  Named(s)'
<1> SUFFICES ASSUME ftable[s].valid PROVE Named(s)'
  BY Zenon DEF Named
<1>1. Named(s) /\ s \in BySlot(ftable[s].inode)'
  BY Zenon DEF Referenced, SlotsNamed, BySlot
<1>2. Uses(ftable[s].inode)' >= 1
  BY <1>1, UsedBy, Zenon
<1> QED
  BY <1>1, <1>2, Zenon DEF Named, KeptInum

\* The steps of an open that let an inode go.
LEMMA WalkRelease ==
  ASSUME IInv, NEW p \in Procs, UNCHANGED <<file_table, ftable, got, panicked>>,
         NEW i \in Inodes, icache' = irelease(i),
         pc' \in [Procs -> Labels], loc' \in [Procs -> Locals],
         \A q \in Procs \ {p} : pc'[q] = pc[q] /\ loc'[q] = loc[q],
         pc[p] \in AtIp \cup {"idle"}, pc[p] # "exit_release",
         pc'[p] \in AtIp \cup {"idle"}, pc'[p] # "exit_release",
         KeptInum => Holds(p)',
         \A j \in Inodes : In(p, ByIp(j)) + In(p, ByRoot(j)) = In(p, ByIp(j)') + In(p, ByRoot(j)') + In(j, {i})
  PROVE  IInv'
<1> USE DEF IInv
<1>1. Others(p)
  BY Zenon DEF Others
<1>2. PICK s \in Slots : TRUE
  BY Sizes DEF Slots
<1>3. \A j \in Inodes : Uses(j) \in Nat /\ Uses(j)' \in Nat /\ Uses(j)' <= Uses(j) - In(j, {i})
  <2> SUFFICES ASSUME NEW j \in Inodes PROVE Uses(j) \in Nat /\ Uses(j)' \in Nat /\ Uses(j)' <= Uses(j) - In(j, {i})
    BY Zenon
  <2>1. \A x, A : In(x, A) \in Nat
    BY Zenon DEF In
  <2>2. /\ Uses(j) \in Nat /\ Uses(j)' \in Nat
        /\ Uses(j)' = Uses(j) - In(p, ByIp(j)) - In(p, ByRoot(j)) + In(p, ByIp(j)') + In(p, ByRoot(j)')
    BY <1>1, WalkUses, Zenon
  <2>3. In(p, ByIp(j)) + In(p, ByRoot(j)) = In(p, ByIp(j)') + In(p, ByRoot(j)') + In(j, {i})
    BY Zenon
  <2> QED
    BY <2>1, <2>2, <2>3
<1>4. KeptInum => Named(s)'
  BY NamedStays, Zenon
<1>5. /\ Referenced' /\ icache' \in [Inodes -> Entries]
      /\ \A j \in Inodes : icache'[j].owner = icache[j].owner
  BY <1>1, <1>3, <1>4, ReleaseStep, Zenon
<1>6. panicked' \in BOOLEAN
  BY Zenon DEF Types
<1> QED
  BY <1>5, <1>6, WalkStep, Zenon

LEMMA NotFoundKeeps ==
  ASSUME IInv, NEW p \in Procs, NotFound(p)
  PROVE  IInv'
<1> USE DEF IInv
<1>1. /\ pc[p] = "namex" /\ UNCHANGED <<file_table, ftable, got, panicked>>
      /\ pc' = [pc EXCEPT ![p] = "idle"] /\ loc' = [loc EXCEPT ![p] = NoLoc]
  BY Zenon DEF NotFound, At, Return, Goto
<1>2. PICK i \in Inodes : i = loc[p].ip
  BY <1>1, Zenon DEF Referenced, Holds, AtIp
<1>3. icache' = irelease(i)
  BY <1>2, Zenon DEF NotFound
<1>4. /\ pc' \in [Procs -> Labels] /\ loc' \in [Procs -> Locals] /\ pc'[p] = "idle" /\ loc'[p] = NoLoc
      /\ \A q \in Procs \ {p} : pc'[q] = pc[q] /\ loc'[q] = loc[q]
  BY <1>1, Sizes, OneProc, Zenon DEF Labels
<1>5. Holds(p)'
  BY <1>4, Zenon DEF Holds, At, AtIp, AtRoot
<1>6. \A j \in Inodes : /\ In(p, ByIp(j)) = In(j, {i}) /\ In(p, ByRoot(j)) = 0
                        /\ In(p, ByIp(j)') = 0 /\ In(p, ByRoot(j)') = 0
  BY <1>1, <1>2, <1>4, Zenon DEF In, ByIp, ByRoot, AtIp, AtRoot
<1>7. \A j \in Inodes : In(p, ByIp(j)) + In(p, ByRoot(j)) = In(p, ByIp(j)') + In(p, ByRoot(j)') + In(j, {i})
  BY <1>6 DEF In
<1> QED
  BY <1>1, <1>3, <1>4, <1>5, <1>7, WalkRelease, Zenon DEF AtIp

LEMMA FoundKeeps ==
  ASSUME IInv, NEW p \in Procs, Found(p)
  PROVE  IInv'
<1> USE DEF IInv
<1>1. /\ pc[p] = "found" /\ UNCHANGED <<file_table, ftable, loc, got, panicked>>
      /\ pc' = [pc EXCEPT ![p] = "fileopen"]
  BY Zenon DEF Found, At, Goto
<1>2. PICK i \in Inodes, k \in Inodes : i = loc[p].root /\ k = loc[p].ip /\ icache[k].inum = loc[p].path
  BY <1>1, Zenon DEF Referenced, Holds, AtIp, AtRoot
<1>3. icache' = irelease(i)
  BY <1>2, Zenon DEF Found
<1>4. /\ pc' \in [Procs -> Labels] /\ loc' \in [Procs -> Locals] /\ pc'[p] = "fileopen" /\ loc' = loc
      /\ \A q \in Procs \ {p} : pc'[q] = pc[q] /\ loc'[q] = loc[q]
  BY <1>1, Zenon DEF Labels, Types
<1>5. KeptInum => Holds(p)'
  <2>1. p \in ByIp(k)'
    BY <1>2, <1>4, Zenon DEF ByIp, AtIp
  <2>2. Uses(k)' >= 1
    BY <2>1, UsedBy, Zenon
  <2> QED
    BY <1>2, <1>4, <2>2, Zenon DEF KeptInum, Holds, At, AtIp, AtRoot
<1>6. \A j \in Inodes : /\ In(p, ByIp(j)) = In(j, {k}) /\ In(p, ByRoot(j)) = In(j, {i})
                        /\ In(p, ByIp(j)') = In(j, {k}) /\ In(p, ByRoot(j)') = 0
  BY <1>1, <1>2, <1>4, Zenon DEF In, ByIp, ByRoot, AtIp, AtRoot
<1>7. \A j \in Inodes : In(p, ByIp(j)) + In(p, ByRoot(j)) = In(p, ByIp(j)') + In(p, ByRoot(j)') + In(j, {i})
  BY <1>6 DEF In
<1> QED
  BY <1>1, <1>3, <1>4, <1>5, <1>7, WalkRelease, Zenon DEF AtIp

-----------------------------------------------------------------------------
(* One descriptor or one open file changes *)

LEMMA OneFd ==
  ASSUME Types, NEW p \in Procs, NEW d \in Fds, NEW v \in 0 .. NFILE,
         file_table' = [file_table EXCEPT ![p][d] = v]
  PROVE  /\ file_table' \in [Procs -> [Fds -> 0 .. NFILE]] /\ file_table'[p][d] = v
         /\ \A e \in Fds \ {d} : file_table'[p][e] = file_table[p][e]
         /\ \A q \in Procs \ {p} : file_table'[q] = file_table[q]
BY Zenon DEF Types

\* An open file that got no descriptor.
LEMMA Shrinks ==
  ASSUME NEW s, NotGrown(s)
  PROVE  /\ Descriptors(s)' \subseteq Descriptors(s)
         /\ Cardinality(Descriptors(s)') <= Cardinality(Descriptors(s))
         /\ Cardinality(Descriptors(s)) \in Nat /\ Cardinality(Descriptors(s)') \in Nat
<1>1. \A r \in Procs, d \in Fds : <<r, d>> \in Descriptors(s)' => <<r, d>> \in Descriptors(s)
  BY DescriptorsAre, Zenon DEF NotGrown
<1> QED
  BY <1>1, DescriptorsAre, Pairs, Zenon

\* An open file keeps its count and gets no descriptor.
LEMMA SlotStays ==
  ASSUME Types, Counts, NEW t \in Slots, NotGrown(t), ftable'[t].valid = ftable[t].valid,
         ftable'[t].ref_count = ftable[t].ref_count
  PROVE  SlotKept(t)'
<1>1. /\ Descriptors(t)' \subseteq Descriptors(t)
      /\ Cardinality(Descriptors(t)') <= Cardinality(Descriptors(t))
      /\ Cardinality(Descriptors(t)) \in Nat /\ Cardinality(Descriptors(t)') \in Nat
  BY Shrinks, Zenon
<1>2. SlotKept(t) /\ ftable[t].ref_count \in Nat
  BY Zenon DEF Counts, SlotsKept, Types, OpenFiles
<1> QED
  BY <1>1, <1>2 DEF SlotKept

\* Where at most one open file gets a descriptor or another count.
LEMMA CountsOne ==
  ASSUME Types, Counts, NEW p \in Procs, Others(p), Counted(p)', NEW s \in Slots, SlotKept(s)',
         Watched(p, s) => NotGrown(s),
         \A t \in Slots \ {s} : /\ NotGrown(t) /\ ftable'[t].valid = ftable[t].valid
                                /\ ftable'[t].ref_count = ftable[t].ref_count
  PROVE  Counts'
<1>1. SlotsKept'
  BY SlotStays, Zenon DEF SlotsKept
<1>2. \A t \in Slots : Watched(p, t) => NotGrown(t)
  BY Zenon
<1> QED
  BY <1>1, <1>2, CountsStep, Zenon

\* Where at most one open file, which nobody else reads, gets another inode or
\* offset.
LEMMA ReadingOne ==
  ASSUME Types, Counts, Referenced, Reading, NEW p \in Procs, Others(p), Reads(p)', NEW s \in Slots, Prefix(s)',
         \A t \in Slots \ {s} : /\ ftable'[t].inode = ftable[t].inode /\ ftable'[t].offset = ftable[t].offset
                                /\ got'[t] = got[t],
         \A i \in Inodes : icache'[i].owner = icache[i].owner,
         \A q \in Procs \ {p} : pc[q] \in {"fileread", "readi"} => Slot(q) # s
  PROVE  Reading'
<1>1. Prefixes'
  BY Zenon DEF Reading, Prefixes, Prefix
<1>2. ASSUME NEW q \in Procs \ {p}, pc[q] \in {"fileread", "readi"}
      PROVE  Slot(q) \in Slots /\ loc[q].ip \in Inodes
  BY <1>2, ReaderHas, Zenon
<1> QED
  BY <1>1, <1>2, ReadingStep, Zenon

\* Nothing was read through a file that is just opened or closed.
LEMMA NothingRead ==
  ASSUME NEW s, ftable'[s].offset = 0, got'[s] = <<>>
  PROVE  Prefix(s)'
<1>1. <<>> = [k \in 1 .. 0 |-> k - 1] /\ Len(<<>>) = 0
  OBVIOUS
<1> QED
  BY <1>1, Zenon DEF Prefix

LEMMA OpenFails ==
  ASSUME IInv, NEW p \in Procs, pc[p] = "fileopen", UNCHANGED <<ftable, file_table, got, icache, panicked>>,
         pc' = [pc EXCEPT ![p] = "idle"], loc' = [loc EXCEPT ![p] = NoLoc]
  PROVE  IInv'
<1> USE DEF IInv
<1>1. /\ pc' \in [Procs -> Labels] /\ loc' \in [Procs -> Locals] /\ pc'[p] = "idle" /\ loc'[p] = NoLoc
      /\ \A q \in Procs \ {p} : pc'[q] = pc[q] /\ loc'[q] = loc[q]
  BY Sizes, OneProc, Zenon DEF Labels
<1>2. Holds(p)'
  BY <1>1, Zenon DEF Holds, At, AtIp, AtRoot
<1>3. ASSUME Others(p) PROVE UsesCounted'
  <2> SUFFICES ASSUME NEW j \in Inodes PROVE icache[j].ref >= Uses(j)'
    BY Zenon DEF UsesCounted
  <2>1. In(p, ByRoot(j)) = 0 /\ In(p, ByIp(j)') = 0 /\ In(p, ByRoot(j)') = 0 /\ In(p, ByIp(j)) \in Nat
    BY <1>1, Zenon DEF In, ByIp, ByRoot, AtIp, AtRoot
  <2>2. /\ Uses(j) \in Nat /\ Uses(j)' \in Nat
        /\ Uses(j)' = Uses(j) - In(p, ByIp(j)) - In(p, ByRoot(j)) + In(p, ByIp(j)') + In(p, ByRoot(j)')
    BY <1>3, WalkUses, Zenon
  <2>3. icache[j].ref >= Uses(j) /\ icache[j].ref \in Nat
    BY Zenon DEF Referenced, UsesCounted, Types, Entries
  <2> QED
    BY <2>1, <2>2, <2>3
<1>4. CachedOnce' /\ SlotsNamed'
  BY Zenon DEF Referenced, CachedOnce, SlotsNamed, Named
<1>5. Others(p) => Referenced'
  BY <1>2, <1>3, <1>4, ReferencedStep, Zenon
<1>6. /\ icache' \in [Inodes -> Entries] /\ panicked' \in BOOLEAN
      /\ \A i \in Inodes : icache'[i].owner = icache[i].owner
  BY Zenon DEF Types
<1> QED
  BY <1>1, <1>5, <1>6, WalkStep, Zenon DEF AtIp

\* The slot that fileopen takes is nobody's: it gets its first descriptor.
LEMMA fileopenKeeps ==
  ASSUME IInv, NEW p \in Procs, fileopen(p)
  PROVE  IInv'
<1> USE DEF IInv
<1>1. /\ pc[p] = "fileopen" /\ UNCHANGED <<icache, panicked>>
      /\ pc' = [pc EXCEPT ![p] = "idle"] /\ loc' = [loc EXCEPT ![p] = NoLoc]
  BY Zenon DEF fileopen, At, Return, Goto
<1>2. CASE UNCHANGED <<ftable, file_table, got>>
  BY <1>1, <1>2, OpenFails, Zenon
<1>3. CASE /\ FreeFd(p) # {} /\ FreeSlot # {}
           /\ ftable' = [ftable EXCEPT ![Min(FreeSlot)] = [valid |-> TRUE, ref_count |-> 1,
                   inode |-> loc[p].ip, inum |-> loc[p].path, offset |-> 0]]
           /\ file_table' = [file_table EXCEPT ![p][Min(FreeFd(p))] = Min(FreeSlot)]
           /\ got' = [got EXCEPT ![Min(FreeSlot)] = <<>>]
  <2>1. PICK s \in Slots : s = Min(FreeSlot) /\ ~ftable[s].valid
    <3>1. FreeSlot \subseteq Nat
      BY Sizes DEF FreeSlot, Slots
    <3>2. Min(FreeSlot) \in FreeSlot
      BY <1>3, <3>1, MinIn, Zenon
    <3> QED
      BY <3>2, Zenon DEF FreeSlot
  <2>2. PICK d \in Fds : d = Min(FreeFd(p)) /\ file_table[p][d] = 0
    <3>1. FreeFd(p) \subseteq Nat
      BY Sizes DEF FreeFd, Fds
    <3>2. Min(FreeFd(p)) \in FreeFd(p)
      BY <1>3, <3>1, MinIn, Zenon
    <3> QED
      BY <3>2, Zenon DEF FreeFd
  <2>3. PICK i \in Inodes, k \in Nat : i = loc[p].ip /\ k = loc[p].path /\ icache[i].inum = k
    BY <1>1, Zenon DEF Types, Locals, Referenced, Holds, AtIp
  <2>4. PICK r : r = [valid |-> TRUE, ref_count |-> 1, inode |-> i, inum |-> k, offset |-> 0]
    BY Zenon
  <2>5. r \in OpenFiles /\ r.valid /\ r.ref_count = 1 /\ r.inode = i /\ r.inum = k /\ r.offset = 0
    BY <2>4, Sizes DEF OpenFiles, Inodes
  <2>6. /\ ftable' = [ftable EXCEPT ![s] = r] /\ file_table' = [file_table EXCEPT ![p][d] = s]
        /\ got' = [got EXCEPT ![s] = <<>>]
    BY <1>3, <2>1, <2>2, <2>3, <2>4, Zenon
  <2>7. /\ ftable' \in [Slots -> OpenFiles] /\ ftable'[s] = r /\ \A t \in Slots \ {s} : ftable'[t] = ftable[t]
        /\ got' \in [Slots -> Seq(Nat)] /\ got'[s] = <<>> /\ \A t \in Slots \ {s} : got'[t] = got[t]
    BY <2>5, <2>6 DEF Types
  <2>8. /\ file_table' \in [Procs -> [Fds -> 0 .. NFILE]] /\ file_table'[p][d] = s
        /\ \A e \in Fds \ {d} : file_table'[p][e] = file_table[p][e]
        /\ \A q \in Procs \ {p} : file_table'[q] = file_table[q]
    <3>1. s \in 0 .. NFILE
      BY Sizes DEF Slots
    <3> QED
      BY <2>6, <3>1, OneFd, Zenon
  <2>9. /\ pc' \in [Procs -> Labels] /\ loc' \in [Procs -> Locals] /\ pc'[p] = "idle" /\ loc'[p] = NoLoc
        /\ \A q \in Procs \ {p} : pc'[q] = pc[q] /\ loc'[q] = loc[q]
    BY <1>1, Sizes, OneProc, Zenon DEF Labels
  <2>10. Types'
    BY <1>1, <2>7, <2>8, <2>9, Zenon DEF Types
  <2>11. Others(p)
    BY <2>8, <2>9, Zenon DEF Others
  <2>12. Counted(p)' /\ Reads(p)' /\ Holds(p)'
    BY <2>9, Zenon DEF Counted, Reads, Holds, At, AtFd, AtIp, AtRoot
  <2>13. \A q \in Procs : pc[q] \in AtFd \ {"exit_release"} => Slot(q) \in Slots /\ Slot(q) # s
    BY <2>1, HasFile, Zenon
  <2>14. Counts'
    <3>1. \A t \in Slots \ {s} : NotGrown(t)
      <4> SUFFICES ASSUME NEW t \in Slots \ {s}, NEW q \in Procs, NEW e \in Fds, Refers(q, e, t)' PROVE Refers(q, e, t)
        BY Zenon DEF NotGrown
      <4> QED
        BY <1>1, <2>8, <2>9 DEF Refers, At
    <3>2. ~Watched(p, s)
      BY <2>13, Zenon DEF Watched, At, AtFd
    <3>3. Descriptors(s)' \subseteq {<<p, d>>}
      <4>1. Descriptors(s) = {}
        BY <2>1, Zenon DEF Counts, SlotsKept, SlotKept
      <4>2. ASSUME NEW q \in Procs, NEW e \in Fds, Refers(q, e, s)' PROVE <<q, e>> = <<p, d>> 
        <5>1. ~Refers(q, e, s)
          BY <4>1, DescriptorsAre, Zenon
        <5> QED
          BY <1>1, <2>8, <2>9, <4>2, <5>1 DEF Refers, At
      <4>3. \A x \in Descriptors(s)' : x \in Procs \X Fds
        BY DescriptorsAre, Zenon
      <4>4. \A x \in Descriptors(s)' : \E q \in Procs, e \in Fds : x = <<q, e>> /\ Refers(q, e, s)'
        BY <4>3, DescriptorsAre
      <4> QED
        BY <4>2, <4>4, Zenon
    <3>4. Cardinality(Descriptors(s)') <= 1
      BY <3>3, AtMostOne, Zenon
    <3>5. SlotKept(s)'
      BY <2>5, <2>7, <3>4, Zenon DEF SlotKept
    <3> QED
      BY <2>7, <2>11, <2>12, <3>1, <3>2, <3>5, CountsOne, Zenon
  <2>15. Referenced'
    <3>1. CachedOnce'
      BY <1>1, Zenon DEF Referenced, CachedOnce
    <3>2. UsesCounted'
      <4> SUFFICES ASSUME NEW j \in Inodes PROVE icache[j].ref >= Uses(j)'
        BY <1>1, Zenon DEF UsesCounted
      <4>1. /\ In(s, BySlot(j)) = 0 /\ In(s, BySlot(j)') = In(j, {i})
            /\ In(p, ByIp(j)) = In(j, {i}) /\ In(p, ByIp(j)') = 0 /\ In(p, ByRoot(j)) = 0 /\ In(p, ByRoot(j)') = 0
        BY <1>1, <2>1, <2>3, <2>5, <2>7, <2>9 DEF In, BySlot, ByIp, ByRoot, AtIp, AtRoot
      <4>2. /\ Uses(j) \in Nat /\ Uses(j)' \in Nat
            /\ Uses(j)' = Uses(j) - In(s, BySlot(j)) - In(p, ByIp(j)) - In(p, ByRoot(j))
                           + In(s, BySlot(j)') + In(p, ByIp(j)') + In(p, ByRoot(j)')
        BY <2>7, <2>11, UsesAre, Zenon
      <4>3. icache[j].ref >= Uses(j) /\ In(j, {i}) \in Nat
        BY Zenon DEF Referenced, UsesCounted, In
      <4> QED
        BY <4>1, <4>2, <4>3
    <3>3. SlotsNamed'
      <4>1. Named(s)'
        BY <1>1, <2>3, <2>5, <2>7, Zenon DEF Named
      <4>2. ASSUME NEW t \in Slots \ {s} PROVE Named(t)'
        BY <1>1, <2>7, Zenon DEF Referenced, SlotsNamed, Named
      <4> QED
        BY <4>1, <4>2, Zenon DEF SlotsNamed
    <3>4. \A q \in Procs \ {p} : pc[q] = "fileclose" => ftable'[Slot(q)].inode = ftable[Slot(q)].inode
      BY <2>7, <2>13, Zenon DEF AtFd
    <3> QED
      BY <1>1, <2>11, <2>12, <3>1, <3>2, <3>3, <3>4, ReferencedStep, Zenon
  <2>16. Reading'
    <3>1. Prefix(s)'
      BY <2>5, <2>7, NothingRead, Zenon
    <3>2. \A q \in Procs \ {p} : pc[q] \in {"fileread", "readi"} => Slot(q) # s
      BY <2>13, Zenon DEF AtFd
    <3> QED
      BY <1>1, <2>7, <2>11, <2>12, <3>1, <3>2, ReadingOne, Zenon
  <2> QED
    BY <2>10, <2>14, <2>15, <2>16, Zenon
<1> QED
  BY <1>2, <1>3, Zenon DEF fileopen

-----------------------------------------------------------------------------
(* Steps that only move their process *)

LEMMA LocalStep ==
  ASSUME IInv, NEW p \in Procs, UNCHANGED <<file_table, ftable, icache, got, panicked>>,
         pc' \in [Procs -> Labels], loc' \in [Procs -> Locals],
         \A q \in Procs \ {p} : pc'[q] = pc[q] /\ loc'[q] = loc[q],
         pc[p] \notin AtIp, pc'[p] \notin AtIp, Counted(p)', Reads(p)',
         pc'[p] = "fileclose" => loc'[p].f.inode = ftable[Slot(p)'].inode
  PROVE  IInv'
<1> USE DEF IInv
<1>1. Types'
  BY Zenon DEF Types
<1>2. Others(p)
  BY Zenon DEF Others
<1>3. Counts'
  BY <1>2, CountsFrame, Zenon DEF AtIp
<1>4. Holds(p)'
  BY Zenon DEF Holds, At, AtIp, AtRoot, Slot
<1>5. \A q \in Procs \ {p} : pc[q] = "fileclose" => Slot(q) \in Slots
  BY HasFile, Zenon DEF AtFd
<1>6. pc[p] \notin AtRoot /\ pc'[p] \notin AtRoot
  BY Zenon DEF AtIp, AtRoot
<1>7. Referenced'
  BY <1>2, <1>4, <1>5, <1>6, ReferencedFrame, Zenon
<1>8. Reading'
  BY <1>2, ReadingFrame, Zenon
<1> QED
  BY <1>1, <1>3, <1>7, <1>8, Zenon

\* Who has a descriptor of a file that is counted once has the only one.
LEMMA Sole ==
  ASSUME Types, Counts, NEW s \in Slots, NEW x \in Descriptors(s), IsLast(ftable[s])
  PROVE  Descriptors(s) \subseteq {x}
<1>1. /\ Cardinality(Descriptors(s)) <= ftable[s].ref_count /\ ftable[s].ref_count <= 1
      /\ ftable[s].ref_count \in Nat
  BY Zenon DEF Counts, SlotsKept, SlotKept, IsLast, Types, OpenFiles
<1>2. IsFiniteSet(Descriptors(s)) /\ Cardinality(Descriptors(s)) \in Nat
  BY DescriptorsAre, Sizes, FS_Subset, Zenon
<1>3. IsFiniteSet(Descriptors(s) \ {x}) /\ Cardinality(Descriptors(s) \ {x}) = Cardinality(Descriptors(s)) - 1
  BY <1>2, FS_RemoveElement, Zenon
<1>4. Cardinality(Descriptors(s) \ {x}) \in Nat
  BY <1>3, FS_CardinalityType, Zenon
<1>5. Cardinality(Descriptors(s) \ {x}) = 0
  BY <1>1, <1>2, <1>3, <1>4
<1>6. Descriptors(s) \ {x} = {}
  BY <1>3, <1>5, FS_EmptySet, Zenon
<1> QED
  BY <1>6, Zenon

\* The copy of a last reference is one as long as nobody adds a descriptor.
LEMMA sys_closeKeeps ==
  ASSUME IInv, NEW p \in Procs, sys_close(p)
  PROVE  IInv'
<1> USE DEF IInv
<1>1. /\ pc[p] = "idle" /\ UNCHANGED <<file_table, ftable, icache, got, panicked>>
      /\ pc' = [pc EXCEPT ![p] = "fileclose"]
  BY Zenon DEF sys_close, At, Goto
<1>2. PICK d \in Fds : /\ file_table[p][d] # 0
                       /\ loc' = [loc EXCEPT ![p] = [NoLoc EXCEPT !.fd = d, !.f = ftable[file_table[p][d]]]]
  BY Zenon DEF sys_close
<1>3. PICK s \in Slots : s = file_table[p][d] /\ <<p, d>> \in Descriptors(s)
  BY <1>1, <1>2, IdleHasFile, Zenon
<1>4. PICK f \in OpenFiles : f = ftable[s]
  BY Zenon DEF Types
<1>5. PICK v : v = [NoLoc EXCEPT !.fd = d, !.f = f]
  BY Zenon
<1>6. v \in Locals /\ v.fd = d /\ v.f = f
  <2>1. d \in 0 .. NOFILE
    BY Sizes DEF Fds
  <2> QED
    BY <1>5, <2>1, Sizes, Zenon DEF Locals
<1>7. loc' = [loc EXCEPT ![p] = v]
  BY <1>2, <1>3, <1>4, <1>5, Zenon
<1>8. /\ pc' \in [Procs -> Labels] /\ loc' \in [Procs -> Locals] /\ pc'[p] = "fileclose" /\ loc'[p] = v
      /\ \A q \in Procs \ {p} : pc'[q] = pc[q] /\ loc'[q] = loc[q]
  BY <1>1, <1>6, <1>7, OneProc, Zenon DEF Labels
<1>9. Slot(p)' = s
  BY <1>1, <1>3, <1>6, <1>8, Zenon DEF Slot
<1>10. NotGrown(s)
  BY <1>1, <1>8, Zenon DEF NotGrown, Refers, At
<1>11. IsLast(f) => Descriptors(s)' \subseteq {<<p, d>>}
  BY <1>3, <1>4, <1>10, Sole, Shrinks
<1>12. Counted(p)'
  BY <1>6, <1>8, <1>9, <1>11, Zenon DEF Counted, At, AtFd, IsLast
<1>13. Reads(p)'
  BY <1>8, Zenon DEF Reads, At
<1>14. loc'[p].f.inode = ftable[Slot(p)'].inode
  BY <1>4, <1>6, <1>8, <1>9, Zenon
<1> QED
  BY <1>1, <1>8, <1>12, <1>13, <1>14, LocalStep, Zenon DEF AtIp

LEMMA sys_readKeeps ==
  ASSUME IInv, NEW p \in Procs, sys_read(p)
  PROVE  IInv'
<1> USE DEF IInv
<1>1. /\ pc[p] = "idle" /\ UNCHANGED <<file_table, ftable, icache, got, panicked>>
      /\ pc' = [pc EXCEPT ![p] = "fileread"]
  BY Zenon DEF sys_read, At, Goto
<1>2. PICK d \in Fds : /\ file_table[p][d] # 0
                       /\ loc' = [loc EXCEPT ![p] = [NoLoc EXCEPT !.fd = d, !.ip = ftable[file_table[p][d]].inode]]
  BY Zenon DEF sys_read
<1>3. PICK s \in Slots : s = file_table[p][d]
  BY <1>1, <1>2, IdleHasFile, Zenon
<1>4. PICK i \in 0 .. NINODE : i = ftable[s].inode
  BY Zenon DEF Types, OpenFiles
<1>5. PICK v : v = [NoLoc EXCEPT !.fd = d, !.ip = i]
  BY Zenon
<1>6. v \in Locals /\ v.fd = d /\ v.ip = i
  <2>1. d \in 0 .. NOFILE
    BY Sizes DEF Fds
  <2> QED
    BY <1>5, <2>1, Sizes, Zenon DEF Locals
<1>7. loc' = [loc EXCEPT ![p] = v]
  BY <1>2, <1>3, <1>4, <1>5, Zenon
<1>8. /\ pc' \in [Procs -> Labels] /\ loc' \in [Procs -> Locals] /\ pc'[p] = "fileread" /\ loc'[p] = v
      /\ \A q \in Procs \ {p} : pc'[q] = pc[q] /\ loc'[q] = loc[q]
  BY <1>1, <1>6, <1>7, OneProc, Zenon DEF Labels
<1>9. Slot(p)' = s
  BY <1>1, <1>3, <1>6, <1>8, Zenon DEF Slot
<1>10. Counted(p)' /\ Reads(p)'
  BY <1>1, <1>4, <1>6, <1>8, <1>9, Zenon DEF Counted, Reads, At, AtFd
<1> QED
  BY <1>1, <1>8, <1>10, LocalStep, Zenon DEF AtIp

LEMMA exitKeeps ==
  ASSUME IInv, NEW p \in Procs, exit(p)
  PROVE  IInv'
<1> USE DEF IInv
<1>1. /\ pc[p] = "idle" /\ UNCHANGED <<file_table, ftable, icache, loc, got, panicked>>
      /\ pc' = [pc EXCEPT ![p] = "exit"]
  BY Zenon DEF exit, At, Goto
<1>2. /\ pc' \in [Procs -> Labels] /\ loc' \in [Procs -> Locals] /\ pc'[p] = "exit"
      /\ \A q \in Procs \ {p} : pc'[q] = pc[q] /\ loc'[q] = loc[q]
  BY <1>1, Zenon DEF Types, Labels
<1>3. Counted(p)' /\ Reads(p)'
  BY <1>2, Zenon DEF Counted, Reads, At, AtFd
<1> QED
  BY <1>1, <1>2, <1>3, LocalStep, Zenon DEF AtIp

\* exit loads a count that is not below the number of descriptors.
LEMMA ExitLoadKeeps ==
  ASSUME IInv, NEW p \in Procs, ExitLoad(p)
  PROVE  IInv'
<1> USE DEF IInv
<1>1. /\ pc[p] = "exit_load" /\ UNCHANGED <<file_table, ftable, icache, got, panicked>>
      /\ pc' = [pc EXCEPT ![p] = "exit_store"] /\ loc' = [loc EXCEPT ![p].n = ftable[Slot(p)].ref_count]
  BY Zenon DEF ExitLoad, At, Goto, Slot
<1>2. PICK s \in Slots : /\ s = Slot(p) /\ ftable[s].ref_count >= Cardinality(Descriptors(s))
                         /\ loc[p].fd \in Fds
  BY <1>1, HasFile, Zenon DEF AtFd
<1>3. PICK n \in Nat : n = ftable[s].ref_count
  BY Zenon DEF Types, OpenFiles
<1>4. PICK v : v = [loc[p] EXCEPT !.n = n]
  BY Zenon
<1>5. v \in Locals /\ v.fd = loc[p].fd /\ v.n = n
  BY <1>4, Zenon DEF Types, Locals
<1>6. loc' = [loc EXCEPT ![p] = v]
  BY <1>1, <1>2, <1>3, <1>4, Zenon
<1>7. /\ pc' \in [Procs -> Labels] /\ loc' \in [Procs -> Locals] /\ pc'[p] = "exit_store" /\ loc'[p] = v
      /\ \A q \in Procs \ {p} : pc'[q] = pc[q] /\ loc'[q] = loc[q]
  BY <1>1, <1>5, <1>6, OneProc, Zenon DEF Labels
<1>8. Slot(p)' = s
  BY <1>1, <1>2, <1>5, <1>7, Zenon DEF Slot
<1>9. NotGrown(s)
  BY <1>1, <1>7, Zenon DEF NotGrown, Refers, At
<1>10. n >= Cardinality(Descriptors(s)')
  BY <1>2, <1>3, <1>9, Shrinks
<1>11. Counted(p)' /\ Reads(p)'
  BY <1>2, <1>5, <1>7, <1>8, <1>10, Zenon DEF Counted, Reads, At, AtFd
<1> QED
  BY <1>1, <1>7, <1>11, LocalStep, Zenon DEF AtIp

\* One descriptor more.
LEMMA OneMore ==
  ASSUME NEW s, NEW x \in Procs \X Fds, Descriptors(s)' \subseteq Descriptors(s) \cup {x}
  PROVE  Cardinality(Descriptors(s)') <= Cardinality(Descriptors(s)) + 1
<1>1. /\ IsFiniteSet(Descriptors(s)) /\ Cardinality(Descriptors(s)) \in Nat /\ Cardinality(Descriptors(s)') \in Nat
  BY DescriptorsAre, Sizes, FS_Subset, Zenon
<1>2. /\ IsFiniteSet(Descriptors(s) \cup {x})
      /\ \/ Cardinality(Descriptors(s) \cup {x}) = Cardinality(Descriptors(s))
         \/ Cardinality(Descriptors(s) \cup {x}) = Cardinality(Descriptors(s)) + 1
  BY <1>1, FS_AddElement, Zenon
<1>3. Cardinality(Descriptors(s)') <= Cardinality(Descriptors(s) \cup {x})
  BY <1>2, FS_Subset, Zenon
<1> QED
  BY <1>1, <1>2, <1>3

-----------------------------------------------------------------------------
(* Giving up a descriptor *)

LEMMA GivesUp ==
  ASSUME Types, NEW p \in Procs, NEW d \in Fds, file_table' = [file_table EXCEPT ![p][d] = 0],
         pc[p] = "exit_release" => loc[p].fd = d,
         \A q \in Procs \ {p} : pc'[q] = pc[q] /\ loc'[q] = loc[q]
  PROVE  /\ file_table' \in [Procs -> [Fds -> 0 .. NFILE]] /\ Others(p)
         /\ \A s \in Slots : NotGrown(s) /\ <<p, d>> \notin Descriptors(s)'
<1>1. /\ file_table' \in [Procs -> [Fds -> 0 .. NFILE]] /\ file_table'[p][d] = 0
      /\ \A e \in Fds \ {d} : file_table'[p][e] = file_table[p][e]
      /\ \A q \in Procs \ {p} : file_table'[q] = file_table[q]
  <2>1. 0 \in 0 .. NFILE
    BY Sizes
  <2> QED
    BY <2>1, OneFd, Zenon
<1>2. Others(p)
  BY <1>1, Zenon DEF Others
<1>3. ASSUME NEW s \in Slots, NEW q \in Procs, NEW e \in Fds, Refers(q, e, s)' PROVE Refers(q, e, s) /\ <<q, e>> # <<p, d>>
  <2>1. s # 0
    BY Sizes DEF Slots
  <2>2. CASE q = p
    <3>1. e # d
      BY <1>1, <1>3, <2>1, <2>2, Zenon DEF Refers
    <3> QED
      BY <1>1, <1>3, <2>2, <3>1, Zenon DEF Refers, At
  <2>3. CASE q # p
    BY <1>1, <1>3, <2>3 DEF Refers, At
  <2> QED
    BY <2>2, <2>3, Zenon
<1>4. \A s \in Slots : NotGrown(s)
  BY <1>3, Zenon DEF NotGrown
<1>5. \A s \in Slots : <<p, d>> \notin Descriptors(s)'
  BY <1>3, DescriptorsAre, Zenon
<1> QED
  BY <1>1, <1>2, <1>4, <1>5, Zenon

\* The number of descriptors goes down with a count.
LEMMA OneLess ==
  ASSUME NEW s, NotGrown(s), NEW x \in Descriptors(s), x \notin Descriptors(s)'
  PROVE  /\ Cardinality(Descriptors(s)') <= Cardinality(Descriptors(s)) - 1
         /\ Cardinality(Descriptors(s)) \in Nat /\ Cardinality(Descriptors(s)') \in Nat
<1>1. Descriptors(s)' \subseteq Descriptors(s) \ {x}
  BY Shrinks, Zenon
<1>2. IsFiniteSet(Descriptors(s)) /\ Cardinality(Descriptors(s)) \in Nat /\ Cardinality(Descriptors(s)') \in Nat
  BY DescriptorsAre, Sizes, FS_Subset, Zenon
<1>3. IsFiniteSet(Descriptors(s) \ {x}) /\ Cardinality(Descriptors(s) \ {x}) = Cardinality(Descriptors(s)) - 1
  BY <1>2, FS_RemoveElement, Zenon
<1>4. Cardinality(Descriptors(s)') <= Cardinality(Descriptors(s) \ {x})
  BY <1>1, <1>3, FS_Subset, Zenon
<1> QED
  BY <1>2, <1>3, <1>4, Zenon

\* An open file gets another count.
LEMMA NewCount ==
  ASSUME Types, NEW s \in Slots, NEW n \in Nat, ftable' = [ftable EXCEPT ![s].ref_count = n]
  PROVE  /\ ftable' \in [Slots -> OpenFiles] /\ ftable'[s].ref_count = n
         /\ \A t \in Slots : /\ ftable'[t].valid = ftable[t].valid /\ ftable'[t].inode = ftable[t].inode
                             /\ ftable'[t].inum = ftable[t].inum /\ ftable'[t].offset = ftable[t].offset
         /\ \A t \in Slots \ {s} : ftable'[t].ref_count = ftable[t].ref_count
<1>1. ftable \in [Slots -> OpenFiles]
  BY Zenon DEF Types
<1>2. PICK r : r = [ftable[s] EXCEPT !.ref_count = n]
  BY Zenon
<1>3. /\ r \in OpenFiles /\ r.ref_count = n /\ r.valid = ftable[s].valid /\ r.inode = ftable[s].inode
      /\ r.inum = ftable[s].inum /\ r.offset = ftable[s].offset
  BY <1>1, <1>2, Zenon DEF OpenFiles
<1>4. ftable' = [ftable EXCEPT ![s] = r]
  BY <1>2, Zenon
<1> QED
  BY <1>1, <1>3, <1>4, Zenon

\* One count goes down, with the descriptor, and the file stays open.
LEMMA CountDown ==
  ASSUME IInv, NEW p \in Procs, pc[p] \in {"fileclose", "exit_store"}, NEW n \in Nat,
         ftable' = [ftable EXCEPT ![Slot(p)].ref_count = n],
         n >= Cardinality(Descriptors(Slot(p))) - 1,
         file_table' = [file_table EXCEPT ![p][loc[p].fd] = 0], UNCHANGED <<icache, got, panicked>>,
         NEW there \in {"idle", "exit"}, pc' = [pc EXCEPT ![p] = there], loc' = [loc EXCEPT ![p] = NoLoc]
  PROVE  IInv'
<1> USE DEF IInv
<1>1. PICK s \in Slots, d \in Fds : /\ s = Slot(p) /\ d = loc[p].fd /\ <<p, d>> \in Descriptors(s)
                                    /\ ftable[s].valid
  BY HasFile, Zenon DEF AtFd
<1>2. /\ pc' \in [Procs -> Labels] /\ loc' \in [Procs -> Locals] /\ pc'[p] = there /\ loc'[p] = NoLoc
      /\ \A q \in Procs \ {p} : pc'[q] = pc[q] /\ loc'[q] = loc[q]
  BY Sizes, OneProc, Zenon DEF Labels
<1>3. /\ ftable' \in [Slots -> OpenFiles] /\ ftable'[s].ref_count = n
      /\ \A t \in Slots : /\ ftable'[t].valid = ftable[t].valid /\ ftable'[t].inode = ftable[t].inode
                          /\ ftable'[t].inum = ftable[t].inum /\ ftable'[t].offset = ftable[t].offset
      /\ \A t \in Slots \ {s} : ftable'[t].ref_count = ftable[t].ref_count
  <2>1. ftable' = [ftable EXCEPT ![s].ref_count = n]
    BY <1>1, Zenon
  <2> QED
    BY <2>1, NewCount, Zenon
<1>4. file_table' = [file_table EXCEPT ![p][d] = 0]
  BY <1>1, Zenon
<1>5. /\ file_table' \in [Procs -> [Fds -> 0 .. NFILE]] /\ Others(p)
      /\ \A t \in Slots : NotGrown(t) /\ <<p, d>> \notin Descriptors(t)'
  BY <1>1, <1>2, <1>4, GivesUp
<1>6. Types'
  BY <1>2, <1>3, <1>5, Zenon DEF Types
<1>7. Counted(p)' /\ Reads(p)' /\ Holds(p)'
  BY <1>2, Zenon DEF Counted, Reads, Holds, At, AtFd, AtIp, AtRoot
<1>8. SlotKept(s)'
  <2>1. /\ Cardinality(Descriptors(s)') <= Cardinality(Descriptors(s)) - 1
        /\ Cardinality(Descriptors(s)) \in Nat /\ Cardinality(Descriptors(s)') \in Nat
    BY <1>1, <1>5, OneLess, Zenon
  <2>2. n >= Cardinality(Descriptors(s)) - 1
    BY <1>1, Zenon
  <2>3. n >= Cardinality(Descriptors(s)')
    BY <2>1, <2>2
  <2> QED
    BY <1>1, <1>3, <2>3 DEF SlotKept
<1>9. Counts'
  BY <1>3, <1>5, <1>7, <1>8, CountsOne, Zenon
<1>10. /\ pc[p] \notin AtIp /\ pc'[p] \notin AtIp /\ pc[p] \notin AtRoot /\ pc'[p] \notin AtRoot
       /\ \A q \in Procs \ {p} : pc[q] = "fileclose" => Slot(q) \in Slots
  BY <1>2, HasFile, Zenon DEF AtIp, AtRoot, AtFd
<1>11. Referenced'
  BY <1>3, <1>5, <1>7, <1>10, ReferencedFrame, Zenon
<1>12. Reading'
  BY <1>3, <1>5, <1>7, ReadingFrame, Zenon
<1> QED
  BY <1>6, <1>9, <1>11, <1>12, Zenon

\* The only descriptor goes, and the open file with it: nobody else is at it.
LEMMA Alone ==
  ASSUME Types, Counts, NEW p \in Procs, NEW d \in Fds, NEW s \in Slots, Descriptors(s) \subseteq {<<p, d>>},
         NEW q \in Procs, q # p, pc[q] \in AtFd, pc[q] # "exit_release"
  PROVE  Slot(q) \in Slots /\ Slot(q) # s
<1>1. Slot(q) \in Slots /\ <<q, loc[q].fd>> \in Descriptors(Slot(q))
  BY HasFile, Zenon
<1> QED
  BY <1>1

LEMMA ClosedIs ==
  ASSUME Types, NEW s \in Slots, Closed(s)
  PROVE  /\ ftable' \in [Slots -> OpenFiles] /\ ftable'[s] = NoFile
         /\ \A t \in Slots \ {s} : ftable'[t] = ftable[t]
         /\ got' \in [Slots -> Seq(Nat)] /\ got'[s] = <<>>
         /\ \A t \in Slots \ {s} : got'[t] = got[t]
         /\ Named(s)' /\ Prefix(s)'
<1>1. /\ ftable' \in [Slots -> OpenFiles] /\ ftable'[s] = NoFile
      /\ \A t \in Slots \ {s} : ftable'[t] = ftable[t]
  BY Sizes, Zenon DEF Types, Closed
<1>2. /\ got' \in [Slots -> Seq(Nat)] /\ got'[s] = <<>>
      /\ \A t \in Slots \ {s} : got'[t] = got[t]
  BY DEF Types, Closed
<1>3. ~NoFile.valid /\ NoFile.offset = 0
  BY Zenon DEF NoFile
<1>4. Named(s)'
  BY <1>1, <1>3, Zenon DEF Named
<1>5. Prefix(s)'
  BY <1>1, <1>2, <1>3, NothingRead, Zenon
<1> QED
  BY <1>1, <1>2, <1>4, <1>5, Zenon

LEMMA filecloseKeeps ==
  ASSUME IInv, NEW p \in Procs, fileclose(p)
  PROVE  IInv'
<1> USE DEF IInv
<1>1. /\ pc[p] = "fileclose" /\ UNCHANGED panicked
      /\ pc' = [pc EXCEPT ![p] = "idle"] /\ loc' = [loc EXCEPT ![p] = NoLoc]
  BY Zenon DEF fileclose, At, Return, Goto
<1>2. PICK s \in Slots, d \in Fds :
          /\ s = Slot(p) /\ d = loc[p].fd /\ <<p, d>> \in Descriptors(s) /\ ftable[s].valid
          /\ ftable[s].ref_count >= Cardinality(Descriptors(s)) /\ Cardinality(Descriptors(s)) >= 1
  BY <1>1, HasFile, Zenon DEF AtFd
<1>3. CASE /\ ftable' = [ftable EXCEPT ![s].ref_count = @ - 1]
           /\ file_table' = [file_table EXCEPT ![p][d] = 0] /\ UNCHANGED <<icache, got>>
  <2>1. ftable[s].ref_count \in Nat /\ Cardinality(Descriptors(s)) \in Nat
    BY DescriptorsAre, Zenon DEF Types, OpenFiles
  <2>2. PICK n \in Nat : n = ftable[s].ref_count - 1
    BY <1>2, <2>1
  <2>3. n >= Cardinality(Descriptors(s)) - 1
    BY <1>2, <2>1, <2>2
  <2>4. ftable' = [ftable EXCEPT ![s].ref_count = n]
    BY <1>3, <2>2, Zenon
  <2> QED
    BY <1>1, <1>2, <1>3, <2>3, <2>4, CountDown, Zenon
<1>4. CASE /\ IsLast(loc[p].f) /\ Closed(s) /\ icache' = irelease(loc[p].f.inode)
           /\ file_table' = [file_table EXCEPT ![p][d] = 0]
  <2>1. Descriptors(s) \subseteq {<<p, d>>}
    BY <1>1, <1>2, <1>4, Zenon DEF Counts, Counted, At
  <2>2. PICK i \in Inodes : i = loc[p].f.inode /\ i = ftable[s].inode
    BY <1>1, <1>2, Zenon DEF Referenced, Holds, SlotsNamed, Named, At
  <2>3. /\ pc' \in [Procs -> Labels] /\ loc' \in [Procs -> Locals] /\ pc'[p] = "idle" /\ loc'[p] = NoLoc
        /\ \A q \in Procs \ {p} : pc'[q] = pc[q] /\ loc'[q] = loc[q]
    BY <1>1, Sizes, OneProc, Zenon DEF Labels
  <2>4. /\ file_table' \in [Procs -> [Fds -> 0 .. NFILE]] /\ Others(p)
        /\ \A t \in Slots : NotGrown(t) /\ <<p, d>> \notin Descriptors(t)'
    BY <1>1, <1>4, <2>3, GivesUp, Zenon
  <2>5. /\ ftable' \in [Slots -> OpenFiles] /\ ftable'[s] = NoFile
        /\ \A t \in Slots \ {s} : ftable'[t] = ftable[t]
        /\ got' \in [Slots -> Seq(Nat)] /\ got'[s] = <<>>
        /\ \A t \in Slots \ {s} : got'[t] = got[t]
        /\ Named(s)' /\ Prefix(s)'
    BY <1>4, ClosedIs, Zenon
  <2>6. Counted(p)' /\ Reads(p)' /\ Holds(p)'
    BY <2>3, Zenon DEF Counted, Reads, Holds, At, AtFd, AtIp, AtRoot
  <2>7. Counts'
    <3>1. Descriptors(s)' = {}
      BY <2>1, <2>4, Shrinks, Zenon
    <3>2. SlotKept(s)'
      BY <3>1, Zenon DEF SlotKept
    <3> QED
      BY <2>4, <2>5, <2>6, <3>2, CountsOne, Zenon
  <2>8. \A q \in Procs \ {p} : pc[q] \in {"fileclose", "fileread", "readi"} => Slot(q) \in Slots /\ Slot(q) # s
    BY <2>1, Alone, Zenon DEF AtFd
  <2>9. /\ Referenced' /\ icache' \in [Inodes -> Entries]
        /\ \A j \in Inodes : icache'[j].owner = icache[j].owner
    <3>1. \A j \in Inodes : Uses(j) \in Nat /\ Uses(j)' \in Nat /\ Uses(j)' <= Uses(j) - In(j, {i})
      <4> SUFFICES ASSUME NEW j \in Inodes
                   PROVE  Uses(j) \in Nat /\ Uses(j)' \in Nat /\ Uses(j)' <= Uses(j) - In(j, {i})
        BY Zenon
      <4>1. /\ In(s, BySlot(j)) = In(j, {i}) /\ In(s, BySlot(j)') = 0
            /\ In(p, ByIp(j)) = 0 /\ In(p, ByIp(j)') = 0 /\ In(p, ByRoot(j)) = 0 /\ In(p, ByRoot(j)') = 0
        BY <1>1, <1>2, <2>2, <2>3, <2>5 DEF In, BySlot, ByIp, ByRoot, AtIp, AtRoot, NoFile
      <4>2. /\ Uses(j) \in Nat /\ Uses(j)' \in Nat
            /\ Uses(j)' = Uses(j) - In(s, BySlot(j)) - In(p, ByIp(j)) - In(p, ByRoot(j))
                           + In(s, BySlot(j)') + In(p, ByIp(j)') + In(p, ByRoot(j)')
        BY <2>4, <2>5, UsesAre, Zenon
      <4>3. In(j, {i}) \in Nat
        BY Zenon DEF In
      <4> QED
        BY <4>1, <4>2, <4>3
    <3>2. icache' = irelease(i)
      BY <1>4, <2>2, Zenon
    <3>3. \A q \in Procs \ {p} : pc[q] = "fileclose" => ftable'[Slot(q)].inode = ftable[Slot(q)].inode
      BY <2>5, <2>8, Zenon
    <3> QED
      BY <2>4, <2>5, <2>6, <3>1, <3>2, <3>3, ReleaseStep, Zenon
  <2>10. Reading'
    BY <2>4, <2>5, <2>6, <2>8, <2>9, ReadingOne, Zenon
  <2>11. Types'
    BY <1>1, <2>3, <2>4, <2>5, <2>9, Zenon DEF Types
  <2> QED
    BY <2>7, <2>9, <2>10, <2>11, Zenon
<1> QED
  BY <1>2, <1>3, <1>4, Zenon DEF fileclose, Slot

LEMMA ExitStoreKeeps ==
  ASSUME IInv, NEW p \in Procs, ExitStore(p)
  PROVE  IInv'
<1> USE DEF IInv
<1>1. /\ pc[p] = "exit_store" /\ UNCHANGED <<icache, got, panicked>>
      /\ pc' = [pc EXCEPT ![p] = "exit"] /\ loc' = [loc EXCEPT ![p] = NoLoc]
      /\ file_table' = [file_table EXCEPT ![p][loc[p].fd] = 0]
      /\ ftable' = [ftable EXCEPT ![Slot(p)].ref_count = loc[p].n - 1]
  BY Zenon DEF ExitStore, ExitDone, At, Goto, Slot
<1>2. /\ Slot(p) \in Slots /\ Cardinality(Descriptors(Slot(p))) >= 1
      /\ loc[p].n >= Cardinality(Descriptors(Slot(p))) /\ loc[p].n \in Nat
  BY <1>1, HasFile, Zenon DEF AtFd, Counts, Counted, At, Types, Locals
<1>3. Cardinality(Descriptors(Slot(p))) \in Nat
  BY <1>2, DescriptorsAre, Zenon
<1>4. PICK n \in Nat : n = loc[p].n - 1 /\ n >= Cardinality(Descriptors(Slot(p))) - 1
  BY <1>2, <1>3
<1>5. ftable' = [ftable EXCEPT ![Slot(p)].ref_count = n]
  BY <1>1, <1>4, Zenon
<1> QED
  BY <1>1, <1>4, <1>5, CountDown, Zenon

\* exit closes the first descriptor it has: the slot's reference to the inode
\* becomes its own.
LEMMA ExitTestKeeps ==
  ASSUME IInv, NEW p \in Procs, ExitTest(p)
  PROVE  IInv'
<1> USE DEF IInv
<1>1. pc[p] = "exit" /\ UNCHANGED <<file_table, icache, panicked>>
  BY Zenon DEF ExitTest, At
<1>2. CASE Held(p, 0) = Fds /\ pc' = [pc EXCEPT ![p] = "unused"] /\ UNCHANGED <<ftable, loc, got>>
  <2>1. /\ pc' \in [Procs -> Labels] /\ loc' \in [Procs -> Locals] /\ pc'[p] = "unused"
        /\ \A q \in Procs \ {p} : pc'[q] = pc[q] /\ loc'[q] = loc[q]
    BY <1>2, Zenon DEF Types, Labels
  <2>2. \A d \in Fds : file_table[p][d] = 0
    BY <1>2, Zenon DEF Held
  <2>3. Counted(p)' /\ Reads(p)'
    BY <1>1, <2>1, <2>2, Zenon DEF Counted, Reads, At, AtFd
  <2> QED
    BY <1>1, <1>2, <2>1, <2>3, LocalStep, Zenon DEF AtIp
<1>3. ASSUME NEW d, d = NextFd(p), NEW s, s = file_table[p][d], Held(p, 0) # Fds,
             loc' = [loc EXCEPT ![p] = [@ EXCEPT !.fd = d, !.ip = ftable[s].inode]],
             \/ IsLast(ftable[s]) /\ Closed(s) /\ pc' = [pc EXCEPT ![p] = "exit_release"]
             \/ UNCHANGED <<ftable, got>> /\ pc' = [pc EXCEPT ![p] = "exit_load"]
      PROVE  IInv'
  <2>1. d \in Fds /\ file_table[p][d] # 0
    <3>1. {e \in Fds : file_table[p][e] # 0} \subseteq Nat /\ {e \in Fds : file_table[p][e] # 0} # {}
      BY <1>3, Sizes DEF Held, Fds
    <3>2. NextFd(p) \in {e \in Fds : file_table[p][e] # 0}
      BY <3>1, MinIn, Zenon DEF NextFd
    <3> QED
      BY <1>3, <3>2, Zenon
  <2>2. s \in Slots /\ <<p, d>> \in Descriptors(s) /\ ftable[s].valid
    BY <1>1, <1>3, <2>1, IdleHasFile, Zenon
  <2>3. PICK i \in Inodes : i = ftable[s].inode
    BY <2>2, Zenon DEF Referenced, SlotsNamed, Named
  <2>4. PICK v : v = [loc[p] EXCEPT !.fd = d, !.ip = i]
    BY Zenon
  <2>5. v \in Locals /\ v.fd = d /\ v.ip = i
    <3>1. d \in 0 .. NOFILE /\ i \in 0 .. NINODE
      BY <2>1, Sizes DEF Fds, Inodes
    <3> QED
      BY <2>4, <3>1, Zenon DEF Types, Locals
  <2>6. loc' = [loc EXCEPT ![p] = v]
    BY <1>3, <2>3, <2>4, Zenon
  <2>7. CASE UNCHANGED <<ftable, got>> /\ pc' = [pc EXCEPT ![p] = "exit_load"]
    <3>1. /\ pc' \in [Procs -> Labels] /\ loc' \in [Procs -> Locals] /\ pc'[p] = "exit_load" /\ loc'[p] = v
          /\ \A q \in Procs \ {p} : pc'[q] = pc[q] /\ loc'[q] = loc[q]
      BY <2>5, <2>6, <2>7, OneProc, Zenon DEF Labels
    <3>2. Slot(p)' = s
      BY <1>1, <1>3, <2>5, <3>1, Zenon DEF Slot
    <3>3. Counted(p)' /\ Reads(p)'
      BY <2>1, <2>2, <2>5, <3>1, <3>2, Zenon DEF Counted, Reads, At, AtFd
    <3> QED
      BY <1>1, <2>7, <3>1, <3>3, LocalStep, Zenon DEF AtIp
  <2>8. CASE IsLast(ftable[s]) /\ Closed(s) /\ pc' = [pc EXCEPT ![p] = "exit_release"]
    <3>1. Descriptors(s) \subseteq {<<p, d>>}
      BY <2>2, <2>8, Sole, Zenon
    <3>2. /\ pc' \in [Procs -> Labels] /\ loc' \in [Procs -> Locals] /\ pc'[p] = "exit_release" /\ loc'[p] = v
          /\ \A q \in Procs \ {p} : pc'[q] = pc[q] /\ loc'[q] = loc[q]
      BY <2>5, <2>6, <2>8, OneProc, Zenon DEF Labels
    <3>3. Others(p) /\ Slot(p)' = s
      BY <1>1, <1>3, <2>5, <3>2, Zenon DEF Others, Slot
    <3>4. /\ ftable' \in [Slots -> OpenFiles] /\ ftable'[s] = NoFile
          /\ \A t \in Slots \ {s} : ftable'[t] = ftable[t]
          /\ got' \in [Slots -> Seq(Nat)] /\ got'[s] = <<>>
          /\ \A t \in Slots \ {s} : got'[t] = got[t]
          /\ Named(s)' /\ Prefix(s)'
      BY <2>2, <2>8, ClosedIs, Zenon
    <3>5. Counted(p)' /\ Reads(p)' /\ Holds(p)'
      BY <2>1, <2>2, <2>5, <3>2, <3>3, Zenon DEF Counted, Reads, Holds, At, AtFd, AtIp, AtRoot
    <3>6. \A t : NotGrown(t)
      BY <1>1, <3>2, Zenon DEF NotGrown, Refers, At
    <3>7. Counts'
      <4>1. ~Refers(p, d, s)'
        BY <2>5, <3>2, Zenon DEF Refers, At
      <4>2. <<p, d>> \notin Descriptors(s)'
        BY <2>1, <4>1, DescriptorsAre, Zenon
      <4>3. Descriptors(s)' = {}
        BY <3>1, <3>6, <4>2, Shrinks, Zenon
      <4>4. SlotKept(s)'
        BY <4>3, Zenon DEF SlotKept
      <4> QED
        BY <2>2, <3>3, <3>4, <3>5, <3>6, <4>4, CountsOne, Zenon
    <3>8. \A q \in Procs \ {p} : pc[q] \in {"fileclose", "fileread", "readi"} => Slot(q) \in Slots /\ Slot(q) # s
      BY <2>1, <2>2, <3>1, Alone, Zenon DEF AtFd
    <3>9. Referenced'
      <4>1. UsesCounted'
        <5> SUFFICES ASSUME NEW j \in Inodes PROVE icache[j].ref >= Uses(j)'
          BY <1>1, Zenon DEF UsesCounted
        <5>1. /\ In(s, BySlot(j)) = In(j, {i}) /\ In(s, BySlot(j)') = 0
              /\ In(p, ByIp(j)) = 0 /\ In(p, ByIp(j)') = In(j, {i}) /\ In(p, ByRoot(j)) = 0 /\ In(p, ByRoot(j)') = 0
          BY <1>1, <2>2, <2>3, <2>5, <3>2, <3>4 DEF In, BySlot, ByIp, ByRoot, AtIp, AtRoot, NoFile
        <5>2. /\ Uses(j) \in Nat /\ Uses(j)' \in Nat
              /\ Uses(j)' = Uses(j) - In(s, BySlot(j)) - In(p, ByIp(j)) - In(p, ByRoot(j))
                             + In(s, BySlot(j)') + In(p, ByIp(j)') + In(p, ByRoot(j)')
          BY <2>2, <3>3, <3>4, UsesAre, Zenon
        <5>3. icache[j].ref >= Uses(j) /\ In(j, {i}) \in Nat
          BY Zenon DEF Referenced, UsesCounted, In
        <5> QED
          BY <5>1, <5>2, <5>3
      <4>2. CachedOnce'
        BY <1>1, Zenon DEF Referenced, CachedOnce
      <4>3. SlotsNamed'
        <5>1. ASSUME NEW t \in Slots \ {s} PROVE Named(t)'
          BY <1>1, <3>4, Zenon DEF Referenced, SlotsNamed, Named
        <5> QED
          BY <3>4, <5>1, Zenon DEF SlotsNamed
      <4>4. \A q \in Procs \ {p} : pc[q] = "fileclose" => ftable'[Slot(q)].inode = ftable[Slot(q)].inode
        BY <3>4, <3>8, Zenon
      <4> QED
        BY <1>1, <3>3, <3>5, <4>1, <4>2, <4>3, <4>4, ReferencedStep, Zenon
    <3>10. Reading'
      BY <1>1, <2>2, <3>3, <3>4, <3>5, <3>8, ReadingOne, Zenon
    <3>11. Types'
      BY <1>1, <3>2, <3>4, Zenon DEF Types
    <3> QED
      BY <3>7, <3>9, <3>10, <3>11, Zenon
  <2> QED
    BY <1>3, <2>7, <2>8, Zenon
<1> QED
  BY <1>2, <1>3, Zenon DEF ExitTest, Goto

LEMMA ExitReleaseKeeps ==
  ASSUME IInv, NEW p \in Procs, ExitRelease(p)
  PROVE  IInv'
<1> USE DEF IInv
<1>1. /\ pc[p] = "exit_release" /\ UNCHANGED <<ftable, got, panicked>>
      /\ pc' = [pc EXCEPT ![p] = "exit"] /\ loc' = [loc EXCEPT ![p] = NoLoc]
  BY Zenon DEF ExitRelease, ExitDone, At, Goto
<1>2. PICK s \in Slots, d \in Fds, i \in Inodes : s = Slot(p) /\ d = loc[p].fd /\ i = loc[p].ip
  BY <1>1, Zenon DEF Counts, Counted, Referenced, Holds, AtFd, AtIp
<1>3. icache' = irelease(i) /\ file_table' = [file_table EXCEPT ![p][d] = 0]
  BY <1>2, Zenon DEF ExitRelease, ExitDone
<1>4. /\ pc' \in [Procs -> Labels] /\ loc' \in [Procs -> Locals] /\ pc'[p] = "exit" /\ loc'[p] = NoLoc
      /\ \A q \in Procs \ {p} : pc'[q] = pc[q] /\ loc'[q] = loc[q]
  BY <1>1, Sizes, OneProc, Zenon DEF Labels
<1>5. /\ file_table' \in [Procs -> [Fds -> 0 .. NFILE]] /\ Others(p)
      /\ \A t \in Slots : NotGrown(t) /\ <<p, d>> \notin Descriptors(t)'
  BY <1>2, <1>3, <1>4, GivesUp, Zenon
<1>6. Counted(p)' /\ Reads(p)' /\ Holds(p)'
  BY <1>4, Zenon DEF Counted, Reads, Holds, At, AtFd, AtIp, AtRoot
<1>7. Counts'
  <2>1. SlotKept(s)'
    BY <1>1, <1>5, SlotStays, Zenon
  <2> QED
    BY <1>1, <1>5, <1>6, <2>1, CountsOne, Zenon
<1>8. /\ Referenced' /\ icache' \in [Inodes -> Entries]
      /\ \A j \in Inodes : icache'[j].owner = icache[j].owner
  <2>1. \A j \in Inodes : Uses(j) \in Nat /\ Uses(j)' \in Nat /\ Uses(j)' <= Uses(j) - In(j, {i})
    <3> SUFFICES ASSUME NEW j \in Inodes
                 PROVE  Uses(j) \in Nat /\ Uses(j)' \in Nat /\ Uses(j)' <= Uses(j) - In(j, {i})
      BY Zenon
    <3>1. /\ In(p, ByIp(j)) = In(j, {i}) /\ In(p, ByIp(j)') = 0 /\ In(p, ByRoot(j)) = 0 /\ In(p, ByRoot(j)') = 0
      BY <1>1, <1>2, <1>4, Zenon DEF In, ByIp, ByRoot, AtIp, AtRoot
    <3>2. /\ Uses(j) \in Nat /\ Uses(j)' \in Nat
          /\ Uses(j)' = Uses(j) - In(p, ByIp(j)) - In(p, ByRoot(j)) + In(p, ByIp(j)') + In(p, ByRoot(j)')
      BY <1>1, <1>5, WalkUses, Zenon
    <3>3. In(j, {i}) \in Nat
      BY Zenon DEF In
    <3> QED
      BY <3>1, <3>2, <3>3
  <2>2. KeptInum => Named(s)'
    BY <1>1, NamedStays, Zenon
  <2> QED
    BY <1>1, <1>3, <1>5, <1>6, <2>1, <2>2, ReleaseStep, Zenon
<1>9. Reading'
  BY <1>1, <1>5, <1>6, <1>8, ReadingFrame, Zenon
<1>10. Types'
  BY <1>1, <1>4, <1>5, <1>8, Zenon DEF Types
<1> QED
  BY <1>7, <1>8, <1>9, <1>10, Zenon

-----------------------------------------------------------------------------
(* dup and fork *)

\* Nobody goes by a copy of the count where another process has a descriptor,
\* unless exit is about to store it.
LEMMA Unwatched ==
  ASSUME Types, Counts, NEW p \in Procs, NEW s \in Slots, NEW q \in Procs, NEW e \in Fds, <<q, e>> \in Descriptors(s),
         pc[q] = "idle", Watched(p, s)
  PROVE  \E r \in Procs \ {p} : pc[r] = "exit_store" /\ Slot(r) = s
<1>1. PICK r \in Procs \ {p} : Slot(r) = s /\ (At(r, "exit_store") \/ (At(r, "fileclose") /\ IsLast(loc[r].f)))
  BY Zenon DEF Watched
<1>2. ~(At(r, "fileclose") /\ IsLast(loc[r].f))
  <2> SUFFICES ASSUME pc[r] = "fileclose", IsLast(loc[r].f) PROVE FALSE
    BY Zenon DEF At
  <2>1. Descriptors(s) \subseteq {<<r, loc[r].fd>>}
    BY <1>1, Zenon DEF Counts, Counted, At
  <2> QED
    BY <2>1, Zenon
<1> QED
  BY <1>1, <1>2, Zenon DEF At

LEMMA sys_dupKeeps ==
  ASSUME IInv, NEW p \in Procs, sys_dup(p), Apart
  PROVE  IInv'
<1> USE DEF IInv
<1>1. pc[p] = "idle" /\ FreeFd(p) # {} /\ UNCHANGED <<icache, pc, loc, got, panicked>>
  BY Zenon DEF sys_dup, At
<1>2. PICK e \in Fds : /\ file_table[p][e] # 0
                       /\ file_table' = [file_table EXCEPT ![p][Min(FreeFd(p))] = file_table[p][e]]
                       /\ ftable' = [ftable EXCEPT ![file_table[p][e]].ref_count = @ + 1]
  BY Zenon DEF sys_dup
<1>3. PICK s \in Slots : /\ s = file_table[p][e] /\ <<p, e>> \in Descriptors(s) /\ ftable[s].valid
                         /\ ftable[s].ref_count >= Cardinality(Descriptors(s))
  BY <1>1, <1>2, IdleHasFile, Zenon
<1>4. PICK d \in Fds : d = Min(FreeFd(p)) /\ file_table[p][d] = 0
  <2>1. FreeFd(p) \subseteq Nat
    BY Sizes DEF FreeFd, Fds
  <2>2. Min(FreeFd(p)) \in FreeFd(p)
    BY <1>1, <2>1, MinIn, Zenon
  <2> QED
    BY <2>2, Zenon DEF FreeFd
<1>5. /\ file_table' \in [Procs -> [Fds -> 0 .. NFILE]] /\ file_table'[p][d] = s
      /\ \A a \in Fds \ {d} : file_table'[p][a] = file_table[p][a]
      /\ \A q \in Procs \ {p} : file_table'[q] = file_table[q]
  <2>1. s \in 0 .. NFILE
    BY Sizes DEF Slots
  <2>2. file_table' = [file_table EXCEPT ![p][d] = s]
    BY <1>2, <1>3, <1>4, Zenon
  <2> QED
    BY <2>1, <2>2, OneFd, Zenon
<1>6. PICK n \in Nat : n = ftable[s].ref_count + 1
  BY DEF Types, OpenFiles
<1>7. /\ ftable' \in [Slots -> OpenFiles] /\ ftable'[s].ref_count = n
      /\ \A t \in Slots : /\ ftable'[t].valid = ftable[t].valid /\ ftable'[t].inode = ftable[t].inode
                          /\ ftable'[t].inum = ftable[t].inum /\ ftable'[t].offset = ftable[t].offset
      /\ \A t \in Slots \ {s} : ftable'[t].ref_count = ftable[t].ref_count
  <2>1. ftable' = [ftable EXCEPT ![s].ref_count = n]
    BY <1>2, <1>3, <1>6, Zenon
  <2> QED
    BY <2>1, NewCount, Zenon
<1>8. Others(p)
  BY <1>1, <1>5, Zenon DEF Others
<1>9. Counted(p)' /\ Reads(p)' /\ Holds(p)'
  BY <1>1, Zenon DEF Counted, Reads, Holds, At, AtFd, AtIp, AtRoot
<1>10. \A q \in Procs, a \in Fds, t \in Slots : Refers(q, a, t)' =>
           Refers(q, a, t) \/ (q = p /\ a = d /\ t = s)
  BY <1>1, <1>5, Zenon DEF Refers, At
<1>11. \A t \in Slots \ {s} : NotGrown(t)
  BY <1>10, Zenon DEF NotGrown
<1>12. ~Watched(p, s)
  <2> SUFFICES ASSUME Watched(p, s) PROVE FALSE
    BY Zenon
  <2>1. PICK r \in Procs \ {p} : pc[r] = "exit_store" /\ Slot(r) = s
    BY <1>1, <1>3, Unwatched, Zenon
  <2>2. file_table[p][d] = s
    BY <1>5, <2>1 DEF Apart, At
  <2> QED
    BY <1>4, <2>2, Sizes DEF Slots
<1>13. SlotKept(s)'
  <2>1. Cardinality(Descriptors(s)') <= Cardinality(Descriptors(s)) + 1
    <3>1. \A q \in Procs, a \in Fds : <<q, a>> \in Descriptors(s)' => <<q, a>> \in Descriptors(s) \cup {<<p, d>>}
      BY <1>10, DescriptorsAre, Zenon
    <3>2. Descriptors(s)' \subseteq Descriptors(s) \cup {<<p, d>>}
      BY <3>1, DescriptorsAre, Pairs
    <3>3. <<p, d>> \in Procs \X Fds
      BY Zenon
    <3> QED
      BY <3>2, <3>3, OneMore, Zenon
  <2>2. /\ Cardinality(Descriptors(s)) \in Nat /\ Cardinality(Descriptors(s)') \in Nat
        /\ ftable[s].ref_count \in Nat
    BY DescriptorsAre, Zenon DEF Types, OpenFiles
  <2>3. n >= Cardinality(Descriptors(s)')
    BY <1>3, <1>6, <2>1, <2>2
  <2> QED
    BY <1>3, <1>7, <2>3, Zenon DEF SlotKept
<1>14. Counts'
  BY <1>7, <1>8, <1>9, <1>11, <1>12, <1>13, CountsOne, Zenon
<1>15. /\ pc[p] \notin AtIp /\ pc[p] \notin AtRoot
       /\ \A q \in Procs \ {p} : pc[q] = "fileclose" => Slot(q) \in Slots
  BY <1>1, HasFile, Zenon DEF AtIp, AtRoot, AtFd
<1>16. Referenced'
  BY <1>1, <1>7, <1>8, <1>9, <1>15, ReferencedFrame, Zenon
<1>17. Reading'
  BY <1>1, <1>7, <1>8, <1>9, ReadingFrame, Zenon
<1>18. Types'
  BY <1>1, <1>5, <1>7, Zenon DEF Types
<1> QED
  BY <1>14, <1>16, <1>17, <1>18, Zenon

\* The child of fork: its descriptors are counted with those of its parent.
LEMMA forkKeeps ==
  ASSUME IInv, NEW p \in Procs, fork(p), Apart
  PROVE  IInv'
<1> USE DEF IInv
<1>1. /\ pc[p] = "idle" /\ UNCHANGED <<icache, loc, got, panicked>>
      /\ ftable' = [s \in Slots |-> [ftable[s] EXCEPT !.ref_count = @ + Cardinality(Held(p, s))]]
  BY Zenon DEF fork, At
<1>2. PICK q \in Procs : /\ pc[q] = "unused" /\ file_table' = [file_table EXCEPT ![q] = file_table[p]]
                         /\ pc' = [pc EXCEPT ![q] = "idle"]
  BY Zenon DEF fork, At, Goto
<1>3. /\ file_table' \in [Procs -> [Fds -> 0 .. NFILE]] /\ file_table'[q] = file_table[p] /\ Others(q) /\ q # p
      /\ pc' \in [Procs -> Labels] /\ pc'[q] = "idle" /\ pc'[p] = "idle" /\ \A d \in Fds : file_table[q][d] = 0
  BY <1>1, <1>2, Zenon DEF Types, Others, Labels, Counts, Counted, At
<1>4. ASSUME NEW s \in Slots
      PROVE  Held(p, s) \in SUBSET Fds /\ IsFiniteSet(Held(p, s)) /\ Cardinality(Held(p, s)) \in Nat
  <2>1. Held(p, s) \in SUBSET Fds /\ IsFiniteSet(Fds)
    BY Sizes, FS_Interval DEF Held, Fds
  <2> QED
    BY <2>1, FS_Subset, FS_CardinalityType, Zenon
<1>5. ASSUME NEW s \in Slots
      PROVE  /\ ftable'[s] \in OpenFiles /\ ftable'[s].ref_count = ftable[s].ref_count + Cardinality(Held(p, s))
             /\ ftable'[s].valid = ftable[s].valid /\ ftable'[s].inode = ftable[s].inode
             /\ ftable'[s].inum = ftable[s].inum /\ ftable'[s].offset = ftable[s].offset
  <2>1. ftable[s] \in OpenFiles
    BY Zenon DEF Types
  <2>2. PICK n \in Nat : n = ftable[s].ref_count + Cardinality(Held(p, s))
    BY <1>4, <2>1 DEF OpenFiles
  <2>3. PICK r : r = [ftable[s] EXCEPT !.ref_count = n]
    BY Zenon
  <2>4. /\ r \in OpenFiles /\ r.ref_count = n /\ r.valid = ftable[s].valid /\ r.inode = ftable[s].inode
        /\ r.inum = ftable[s].inum /\ r.offset = ftable[s].offset
    BY <2>1, <2>3, Zenon DEF OpenFiles
  <2>5. ftable'[s] = r
    BY <1>1, <2>2, <2>3, Zenon
  <2> QED
    BY <2>2, <2>4, <2>5, Zenon
<1>6. ftable' \in [Slots -> OpenFiles]
  BY <1>1, <1>5, Zenon
<1>7. Types'
  BY <1>1, <1>3, <1>6, Zenon DEF Types
<1>8. Counted(q)' /\ Reads(q)' /\ Holds(q)'
  BY <1>3, Zenon DEF Counted, Reads, Holds, At, AtFd, AtIp, AtRoot
<1>9. \A r \in Procs, d \in Fds, s \in Slots : Refers(r, d, s)' =>
          Refers(r, d, s) \/ (r = q /\ d \in Held(p, s))
  BY <1>1, <1>2, <1>3, Zenon DEF Refers, At, Held, Others
<1>10. \A s \in Slots : \A d \in Held(p, s) : d \in Fds /\ <<p, d>> \in Descriptors(s)
  BY <1>1, DescriptorsAre, Zenon DEF Held, Refers, At
<1>11. ASSUME NEW s \in Slots, Watched(q, s) PROVE NotGrown(s)
  <2> SUFFICES ASSUME NEW d \in Held(p, s) PROVE FALSE
    BY <1>9, Zenon DEF NotGrown
  <2>1. PICK r \in Procs \ {q} : pc[r] = "exit_store" /\ Slot(r) = s
    BY <1>1, <1>10, <1>11, Unwatched, Zenon
  <2>2. file_table'[q][d] = s
    BY <1>3, Zenon DEF Held
  <2>3. d \in Fds
    BY <1>10, Zenon
  <2>4. file_table[q][d] = s
    BY <2>1, <2>2, <2>3 DEF Apart, At
  <2>5. s # 0
    BY Sizes DEF Slots
  <2> QED
    BY <1>3, <2>3, <2>4, <2>5, Zenon
<1>12. ASSUME NEW s \in Slots PROVE SlotKept(s)'
  <2> DEFINE New == {q} \X Held(p, s)
  <2>1. Descriptors(s)' \subseteq Descriptors(s) \cup New
    <3>1. \A r \in Procs, d \in Fds : <<r, d>> \in Descriptors(s)' => <<r, d>> \in Descriptors(s) \cup New
      BY <1>9, DescriptorsAre, Zenon
    <3>2. New \in SUBSET (Procs \X Fds)
      BY <1>4, Zenon
    <3> QED
      BY <3>1, <3>2, DescriptorsAre, Pairs
  <2>2. IsFiniteSet(New) /\ Cardinality(New) = Cardinality(Held(p, s))
    <3>1. IsFiniteSet({q}) /\ Cardinality({q}) = 1
      BY FS_Singleton, Zenon
    <3>2. IsFiniteSet(New) /\ Cardinality(New) = Cardinality({q}) * Cardinality(Held(p, s))
      BY <1>4, <3>1, FS_Product, Zenon
    <3> QED
      BY <1>4, <3>1, <3>2
  <2>3. /\ IsFiniteSet(Descriptors(s)) /\ Cardinality(Descriptors(s)) \in Nat /\ Cardinality(Descriptors(s)') \in Nat
    BY DescriptorsAre, Sizes, FS_Subset, Zenon
  <2>4. /\ IsFiniteSet(Descriptors(s) \cup New)
        /\ Cardinality(Descriptors(s) \cup New) <= Cardinality(Descriptors(s)) + Cardinality(Held(p, s))
    <3>1. /\ IsFiniteSet(Descriptors(s) \cup New) /\ IsFiniteSet(Descriptors(s) \cap New)
          /\ Cardinality(Descriptors(s) \cup New)
               = Cardinality(Descriptors(s)) + Cardinality(New) - Cardinality(Descriptors(s) \cap New)
      BY <2>2, <2>3, FS_Union, FS_Intersection, Zenon
    <3>2. Cardinality(Descriptors(s) \cap New) \in Nat
      BY <3>1, FS_CardinalityType, Zenon
    <3> QED
      BY <1>4, <2>2, <2>3, <3>1, <3>2
  <2>5. Cardinality(Descriptors(s)') <= Cardinality(Descriptors(s)) + Cardinality(Held(p, s))
    <3>1. Cardinality(Descriptors(s)') <= Cardinality(Descriptors(s) \cup New)
      BY <2>1, <2>4, FS_Subset, Zenon
    <3>2. Cardinality(Descriptors(s) \cup New) \in Nat
      BY <2>4, FS_CardinalityType, Zenon
    <3> QED
      BY <1>4, <2>3, <2>4, <3>1, <3>2
  <2>6. Descriptors(s)' # {} => Descriptors(s) # {}
    BY <1>10, <2>1, Zenon
  <2>7. SlotKept(s) /\ ftable[s].ref_count \in Nat
    BY Zenon DEF Counts, SlotsKept, Types, OpenFiles
  <2>8. ASSUME Descriptors(s)' # {} PROVE ftable[s].ref_count + Cardinality(Held(p, s)) >= Cardinality(Descriptors(s)')
    <3>1. ftable[s].ref_count >= Cardinality(Descriptors(s))
      BY <2>6, <2>7, <2>8, Zenon DEF SlotKept
    <3> QED
      BY <1>4, <2>3, <2>5, <2>7, <3>1
  <2> QED
    BY <1>5, <2>6, <2>7, <2>8, Zenon DEF SlotKept
<1>13. Counts'
  BY <1>3, <1>8, <1>11, <1>12, CountsStep, Zenon DEF SlotsKept
<1>14. /\ pc[q] \notin AtIp /\ pc'[q] \notin AtIp /\ pc[q] \notin AtRoot /\ pc'[q] \notin AtRoot
       /\ \A r \in Procs \ {q} : pc[r] = "fileclose" => Slot(r) \in Slots
  BY <1>2, <1>3, HasFile, Zenon DEF AtIp, AtRoot, AtFd
<1>15. Referenced'
  BY <1>1, <1>3, <1>5, <1>8, <1>14, ReferencedFrame, Zenon
<1>16. Reading'
  BY <1>1, <1>3, <1>5, <1>8, ReadingFrame, Zenon
<1> QED
  BY <1>7, <1>13, <1>15, <1>16, Zenon

-----------------------------------------------------------------------------
(* sys_read *)

\* The lock of the inode gives a reader the offset.
LEMMA filereadKeeps ==
  ASSUME IInv, NEW p \in Procs, fileread(p)
  PROVE  IInv'
<1> USE DEF IInv
<1>1. /\ pc[p] = "fileread" /\ UNCHANGED <<file_table, ftable, got, panicked>>
      /\ pc' = [pc EXCEPT ![p] = "readi"] /\ loc' = [loc EXCEPT ![p].n = ftable[Slot(p)].offset]
  BY Zenon DEF fileread, At, Goto, Slot
<1>2. PICK s \in Slots, i \in Inodes : s = Slot(p) /\ i = loc[p].ip /\ i = ftable[s].inode /\ loc[p].fd \in Fds
  BY <1>1, ReaderHas, Zenon
<1>3. icache[i].owner = {} /\ icache' = [icache EXCEPT ![i].owner = @ \cup {p}]
  BY <1>2, Zenon DEF fileread, MayLock
<1>4. PICK n \in Nat : n = ftable[s].offset
  BY Zenon DEF Types, OpenFiles
<1>5. PICK v : v = [loc[p] EXCEPT !.n = n]
  BY Zenon
<1>6. v \in Locals /\ v.fd = loc[p].fd /\ v.ip = i /\ v.n = n
  BY <1>2, <1>5, Zenon DEF Types, Locals
<1>7. loc' = [loc EXCEPT ![p] = v]
  BY <1>1, <1>2, <1>4, <1>5, Zenon
<1>8. /\ pc' \in [Procs -> Labels] /\ loc' \in [Procs -> Locals] /\ pc'[p] = "readi" /\ loc'[p] = v
      /\ \A q \in Procs \ {p} : pc'[q] = pc[q] /\ loc'[q] = loc[q]
  BY <1>1, <1>6, <1>7, OneProc, Zenon DEF Labels
<1>9. /\ icache' \in [Inodes -> Entries] /\ icache'[i].owner = {p}
      /\ \A j \in Inodes : icache'[j].ref = icache[j].ref /\ icache'[j].inum = icache[j].inum
      /\ \A j \in Inodes \ {i} : icache'[j].owner = icache[j].owner
  <2>1. icache \in [Inodes -> Entries] /\ icache[i].owner \cup {p} = {p} /\ {p} \in SUBSET Procs
    BY <1>3, Zenon DEF Types
  <2>2. icache' = [icache EXCEPT ![i].owner = {p}]
    BY <1>3, <2>1, Zenon
  <2>3. PICK o \in SUBSET Procs : o = {p}
    BY <2>1, Zenon
  <2> QED
    BY <2>1, <2>2, <2>3, NewOwner, Zenon
<1>10. Others(p) /\ Slot(p)' = s
  BY <1>1, <1>2, <1>6, <1>8, Zenon DEF Others, Slot
<1>11. Counted(p)' /\ Holds(p)' /\ Reads(p)'
  BY <1>1, <1>2, <1>4, <1>6, <1>8, <1>9, <1>10, Zenon DEF Counted, Holds, Reads, At, AtFd, AtIp, AtRoot
<1>12. Types'
  BY <1>1, <1>8, <1>9, Zenon DEF Types
<1>13. Counts'
  BY <1>1, <1>8, <1>10, <1>11, CountsFrame, Zenon
<1>14. /\ pc[p] \notin AtIp /\ pc'[p] \notin AtIp /\ pc[p] \notin AtRoot /\ pc'[p] \notin AtRoot
       /\ \A q \in Procs \ {p} : pc[q] = "fileclose" => Slot(q) \in Slots
  BY <1>1, <1>8, HasFile, Zenon DEF AtIp, AtRoot, AtFd
<1>15. Referenced'
  BY <1>1, <1>9, <1>10, <1>11, <1>14, ReferencedFrame, Zenon
<1>16. Reading'
  <2>1. Prefixes'
    BY <1>1, Zenon DEF Reading, Prefixes, Prefix
  <2>2. ASSUME NEW q \in Procs \ {p}, pc[q] = "readi" PROVE icache'[loc[q].ip].owner = icache[loc[q].ip].owner
    <3>1. loc[q].ip \in Inodes /\ icache[loc[q].ip].owner = {q}
      BY <2>2, ReaderHas, Zenon DEF Reading, Reads, At
    <3> QED
      BY <1>3, <1>9, <3>1, Zenon
  <2> QED
    BY <1>1, <1>10, <1>11, <2>1, <2>2, ReadingStep, Zenon
<1> QED
  BY <1>12, <1>13, <1>15, <1>16, Zenon

\* The byte that is read is the next one.
LEMMA OneByte ==
  ASSUME NEW g \in Seq(Nat)
  PROVE  g = [k \in 1 .. Len(g) |-> k - 1] =>
             /\ Append(g, Len(g)) \in Seq(Nat) /\ Len(Append(g, Len(g))) = Len(g) + 1
             /\ Append(g, Len(g)) = [k \in 1 .. Len(g) + 1 |-> k - 1]
<1>1. PICK n \in Nat : n = Len(g)
  BY LenProperties, Zenon
<1>2. PICK h : h = Append(g, n)
  BY Zenon
<1>3. h \in Seq(Nat) /\ Len(h) = n + 1 /\ h[n + 1] = n /\ \A k \in 1 .. n : h[k] = g[k]
  BY <1>1, <1>2
<1>4. h \in [1 .. n + 1 -> Nat]
  BY <1>3, LenProperties, Zenon
<1>5. ASSUME \A k \in 1 .. n : g[k] = k - 1, NEW k \in 1 .. n + 1 PROVE h[k] = k - 1
  <2>1. k \in 1 .. n \/ k = n + 1
    OBVIOUS
  <2> QED
    BY <1>3, <1>5, <2>1
<1>6. ASSUME g = [k \in 1 .. Len(g) |-> k - 1] PROVE \A k \in 1 .. n : g[k] = k - 1
  BY <1>1, <1>6, Zenon
<1>7. (\A k \in 1 .. n + 1 : h[k] = k - 1) => h = [k \in 1 .. n + 1 |-> k - 1]
  BY <1>4, Zenon
<1> QED
  BY <1>1, <1>2, <1>3, <1>5, <1>6, <1>7, Zenon

\* A byte or the end of the file; no other reader of the file has the lock.
LEMMA readiKeeps ==
  ASSUME IInv, NEW p \in Procs, readi(p)
  PROVE  IInv'
<1> USE DEF IInv
<1>1. /\ pc[p] = "readi" /\ UNCHANGED <<file_table, panicked>>
      /\ pc' = [pc EXCEPT ![p] = "idle"] /\ loc' = [loc EXCEPT ![p] = NoLoc]
  BY Zenon DEF readi, At, Return, Goto
<1>2. PICK s \in Slots, i \in Inodes : s = Slot(p) /\ i = loc[p].ip /\ i = ftable[s].inode
  BY <1>1, ReaderHas, Zenon
<1>3. icache[i].owner = {p} /\ loc[p].n = ftable[s].offset
  BY <1>1, <1>2, Zenon DEF Reading, Reads, At
<1>4. /\ icache' = [icache EXCEPT ![i].owner = @ \ {p}]
      /\ \/ UNCHANGED <<ftable, got>>
         \/ /\ ftable' = [ftable EXCEPT ![s].offset = @ + 1]
            /\ got' = [got EXCEPT ![s] = Append(@, loc[p].n)]
  BY <1>2, Zenon DEF readi, Slot
<1>5. /\ icache' \in [Inodes -> Entries] /\ icache'[i].owner = {}
      /\ \A j \in Inodes : icache'[j].ref = icache[j].ref /\ icache'[j].inum = icache[j].inum
      /\ \A j \in Inodes \ {i} : icache'[j].owner = icache[j].owner
  <2>1. icache[i].owner \ {p} = {}
    BY <1>3, Zenon
  <2>2. icache' = [icache EXCEPT ![i].owner = {}]
    BY <1>4, <2>1, Zenon
  <2>3. {} \in SUBSET Procs
    BY Zenon
  <2> QED
    BY <2>2, <2>3, NewOwner, Zenon
<1>6. /\ pc' \in [Procs -> Labels] /\ loc' \in [Procs -> Locals] /\ pc'[p] = "idle" /\ loc'[p] = NoLoc
      /\ \A q \in Procs \ {p} : pc'[q] = pc[q] /\ loc'[q] = loc[q]
  BY <1>1, Sizes, OneProc, Zenon DEF Labels
<1>7. /\ ftable' \in [Slots -> OpenFiles] /\ got' \in [Slots -> Seq(Nat)] /\ Prefix(s)'
      /\ \A t \in Slots : /\ ftable'[t].valid = ftable[t].valid /\ ftable'[t].inode = ftable[t].inode
                          /\ ftable'[t].inum = ftable[t].inum /\ ftable'[t].ref_count = ftable[t].ref_count
      /\ \A t \in Slots \ {s} : ftable'[t].offset = ftable[t].offset /\ got'[t] = got[t]
  <2>1. ftable \in [Slots -> OpenFiles] /\ got \in [Slots -> Seq(Nat)] /\ Prefix(s)
    BY Zenon DEF Types, Reading, Prefixes
  <2>2. CASE UNCHANGED <<ftable, got>>
    BY <2>1, <2>2, Zenon DEF Prefix
  <2>3. CASE /\ ftable' = [ftable EXCEPT ![s].offset = @ + 1]
             /\ got' = [got EXCEPT ![s] = Append(@, loc[p].n)]
    <3>1. PICK g \in Seq(Nat) : g = got[s]
      BY <2>1, Zenon
    <3>2. PICK k \in Nat : k = ftable[s].offset /\ k = Len(g) /\ g = [a \in 1 .. Len(g) |-> a - 1]
      BY <2>1, <3>1, LenProperties, Zenon DEF Prefix
    <3>3. PICK h \in Seq(Nat) : h = Append(g, k) /\ Len(h) = k + 1 /\ h = [a \in 1 .. k + 1 |-> a - 1]
      BY <3>2, OneByte, Zenon
    <3>4. PICK n \in Nat : n = k + 1
      OBVIOUS
    <3>5. PICK r : r = [ftable[s] EXCEPT !.offset = n]
      BY Zenon
    <3>6. /\ r \in OpenFiles /\ r.offset = n /\ r.valid = ftable[s].valid /\ r.inode = ftable[s].inode
          /\ r.inum = ftable[s].inum /\ r.ref_count = ftable[s].ref_count
      BY <2>1, <3>5, Zenon DEF OpenFiles
    <3>7. ftable' = [ftable EXCEPT ![s] = r]
      BY <2>3, <3>2, <3>4, <3>5, Zenon
    <3>8. got' = [got EXCEPT ![s] = h]
      BY <1>3, <2>3, <3>1, <3>2, <3>3, Zenon
    <3>9. ftable' \in [Slots -> OpenFiles] /\ ftable'[s] = r /\ \A t \in Slots \ {s} : ftable'[t] = ftable[t]
      BY <2>1, <3>6, <3>7, Zenon
    <3>10. got' \in [Slots -> Seq(Nat)] /\ got'[s] = h /\ \A t \in Slots \ {s} : got'[t] = got[t]
      BY <2>1, <3>8, Zenon
    <3>11. Prefix(s)'
      BY <3>3, <3>4, <3>6, <3>9, <3>10, Zenon DEF Prefix
    <3> QED
      BY <3>6, <3>9, <3>10, <3>11, Zenon
  <2> QED
    BY <1>4, <2>2, <2>3, Zenon
<1>8. Others(p)
  BY <1>1, <1>6, Zenon DEF Others
<1>9. Counted(p)' /\ Holds(p)' /\ Reads(p)'
  BY <1>6, Zenon DEF Counted, Holds, Reads, At, AtFd, AtIp, AtRoot
<1>10. Types'
  BY <1>1, <1>5, <1>6, <1>7, Zenon DEF Types
<1>11. Counts'
  BY <1>1, <1>6, <1>7, <1>8, <1>9, CountsFrame, Zenon
<1>12. /\ pc[p] \notin AtIp /\ pc'[p] \notin AtIp /\ pc[p] \notin AtRoot /\ pc'[p] \notin AtRoot
       /\ \A q \in Procs \ {p} : pc[q] = "fileclose" => Slot(q) \in Slots
  BY <1>1, <1>6, HasFile, Zenon DEF AtIp, AtRoot, AtFd
<1>13. Referenced'
  BY <1>5, <1>7, <1>8, <1>9, <1>12, ReferencedFrame, Zenon
<1>14. Reading'
  <2>1. Prefixes'
    BY <1>7, Zenon DEF Reading, Prefixes, Prefix
  <2>2. ASSUME NEW q \in Procs \ {p}, pc[q] = "readi"
        PROVE  /\ ftable'[Slot(q)].offset = ftable[Slot(q)].offset
               /\ icache'[loc[q].ip].owner = icache[loc[q].ip].owner
    <3>1. /\ Slot(q) \in Slots /\ loc[q].ip \in Inodes /\ loc[q].ip = ftable[Slot(q)].inode
          /\ icache[loc[q].ip].owner = {q}
      BY <2>2, ReaderHas, Zenon DEF Reading, Reads, At
    <3>2. loc[q].ip # i /\ Slot(q) # s
      BY <1>2, <1>3, <3>1, Zenon
    <3> QED
      BY <1>5, <1>7, <3>1, <3>2, Zenon
  <2>3. \A q \in Procs \ {p} : pc[q] \in {"fileread", "readi"} => ftable'[Slot(q)].inode = ftable[Slot(q)].inode
    BY <1>7, ReaderHas, Zenon
  <2> QED
    BY <1>8, <1>9, <2>1, <2>2, <2>3, ReadingStep, Zenon
<1> QED
  BY <1>10, <1>11, <1>13, <1>14, Zenon

-----------------------------------------------------------------------------
(* The theorems *)

LEMMA InitKeeps ==
  ASSUME Init
  PROVE  IInv
<1>1. /\ pc = [p \in Procs |-> IF p = Parent THEN "idle" ELSE "unused"] /\ loc = [p \in Procs |-> NoLoc]
      /\ ftable = [s \in Slots |-> NoFile] /\ file_table = [p \in Procs |-> [d \in Fds |-> 0]]
      /\ got = [s \in Slots |-> <<>>] /\ panicked = FALSE
  BY Zenon DEF Init
<1>2. icache \in [Inodes -> Entries] /\ \A i \in Inodes : icache[i].ref = 0
  BY Zenon DEF Init, Entries
<1>3. /\ pc \in [Procs -> Labels] /\ \A p \in Procs : pc[p] \in {"idle", "unused"}
      /\ \A p \in Procs, d \in Fds : file_table[p][d] = 0
  BY <1>1, Zenon DEF Labels
<1>4. Types
  <2>1. file_table \in [Procs -> [Fds -> 0 .. NFILE]]
    BY <1>1, Sizes
  <2>2. got \in [Slots -> Seq(Nat)] /\ ftable \in [Slots -> OpenFiles] /\ loc \in [Procs -> Locals]
    BY <1>1, Sizes
  <2> QED
    BY <1>1, <1>2, <1>3, <2>1, <2>2, Zenon DEF Types
<1>5. Counts
  <2>1. \A p \in Procs : Counted(p)
    BY <1>3, Zenon DEF Counted, At, AtFd
  <2>2. \A s \in Slots : Descriptors(s) = {}
    BY <1>3, Sizes DEF Descriptors, Slots
  <2> QED
    BY <2>1, <2>2, Zenon DEF Counts, SlotsKept, SlotKept
<1>6. \A s \in Slots : ftable[s] = NoFile /\ ~ftable[s].valid /\ ftable[s].offset = 0 /\ got[s] = <<>>
  BY <1>1, Zenon DEF NoFile
<1>7. Referenced
  <2>1. CachedOnce
    BY <1>2 DEF CachedOnce
  <2>2. UsesCounted
    <3>1. \A i \in Inodes : BySlot(i) = {} /\ ByIp(i) = {} /\ ByRoot(i) = {}
      BY <1>3, <1>6, Zenon DEF BySlot, ByIp, ByRoot, AtIp, AtRoot
    <3> QED
      BY <1>2, <3>1, FS_EmptySet DEF UsesCounted, Uses
  <2>3. SlotsNamed
    BY <1>6, Zenon DEF SlotsNamed, Named
  <2>4. \A p \in Procs : Holds(p)
    BY <1>3, Zenon DEF Holds, At, AtIp, AtRoot
  <2> QED
    BY <2>1, <2>2, <2>3, <2>4, Zenon DEF Referenced
<1>8. Reading
  <2>1. <<>> = [k \in 1 .. 0 |-> k - 1] /\ Len(<<>>) = 0
    OBVIOUS
  <2>2. Prefixes
    BY <1>6, <2>1, Zenon DEF Prefixes, Prefix
  <2>3. \A p \in Procs : Reads(p)
    BY <1>3, Zenon DEF Reads, At
  <2> QED
    BY <2>2, <2>3, Zenon DEF Reading
<1> QED
  BY <1>4, <1>5, <1>7, <1>8, Zenon DEF IInv

\* Every step of every process keeps the invariant.
LEMMA NextKeeps ==
  ASSUME IInv, [Next]_vars, [Apart]_vars
  PROVE  IInv'
<1>1. CASE UNCHANGED vars
  <2>1. UNCHANGED <<file_table, ftable, icache, loc, pc, got>> /\ panicked' \in BOOLEAN
    BY <1>1, Zenon DEF vars, IInv, Types
  <2> QED
    BY <2>1, PanicKeeps, Zenon
<1>2. CASE Next /\ Apart
  <2>1. PICK p \in Procs :
          \/ OpenRoot(p) \/ LoadRoot(p) \/ dirlookup(p) \/ NotFound(p)
          \/ LoadFile(p) \/ Found(p) \/ fileopen(p)
          \/ sys_close(p) \/ fileclose(p) \/ sys_dup(p) \/ fork(p)
          \/ sys_read(p) \/ fileread(p) \/ readi(p)
          \/ exit(p) \/ ExitTest(p) \/ ExitLoad(p) \/ ExitStore(p) \/ ExitRelease(p)
    BY <1>2, Zenon DEF Next
  <2>2. CASE OpenRoot(p) \/ LoadRoot(p) \/ dirlookup(p) \/ NotFound(p) \/ LoadFile(p) \/ Found(p) \/ fileopen(p)
    BY <2>2, OpenRootKeeps, LoadKeeps, dirlookupKeeps, NotFoundKeeps, FoundKeeps, fileopenKeeps, Zenon
  <2>3. CASE sys_close(p) \/ fileclose(p) \/ sys_dup(p) \/ fork(p)
    BY <1>2, <2>3, sys_closeKeeps, filecloseKeeps, sys_dupKeeps, forkKeeps, Zenon
  <2>4. CASE sys_read(p) \/ fileread(p) \/ readi(p) \/ exit(p)
    BY <2>4, sys_readKeeps, filereadKeeps, readiKeeps, exitKeeps, Zenon
  <2>5. CASE ExitTest(p) \/ ExitLoad(p) \/ ExitStore(p) \/ ExitRelease(p)
    BY <2>5, ExitTestKeeps, ExitLoadKeeps, ExitStoreKeeps, ExitReleaseKeeps, Zenon
  <2> QED
    BY <2>1, <2>2, <2>3, <2>4, <2>5, Zenon
<1> QED
  BY <1>1, <1>2, Zenon

LEMMA Invariance == Spec /\ [][Apart]_vars => []IInv
BY InitKeeps, NextKeeps, PTL DEF Spec

\* TypeOK of module Files.
LEMMA TypesOK ==
  ASSUME IInv
  PROVE  TypeOK
BY Zenon DEF IInv, Types, TypeOK, OpenFiles, Entries

(* As long as a descriptor refers to an open file, the file stays open and  *)
(* is counted at least as often, in any number of processes and with any    *)
(* tables, if no descriptor is added to an open file while an exit is       *)
(* between the load and the store of its count (file.c:33).                 *)
THEOREM FilesKept == Spec /\ [][Apart]_vars => []NeverFreedEarly
<1>1. ASSUME IInv PROVE NeverFreedEarly
  BY <1>1, TypesOK, Zenon DEF IInv, Counts, SlotsKept, SlotKept, NeverFreedEarly
<1> QED
  BY <1>1, Invariance, PTL

(* The inode of an open file stays in the cache, in one entry, and is the   *)
(* one the path named, under the same hypothesis (fs.c, iget and irelease). *)
THEOREM InodesKept == Spec /\ [][Apart]_vars => []InodeHeld
<1>1. ASSUME IInv PROVE InodeHeld
  <2>1. CachedOnce
    BY <1>1, Zenon DEF IInv, Referenced
  <2>2. ASSUME NEW s \in Slots, ftable[s].valid
        PROVE  /\ icache[ftable[s].inode].inum = ftable[s].inum
               /\ icache[ftable[s].inode].ref >= Cardinality(BySlot(ftable[s].inode))
    <3>1. PICK i \in Inodes : i = ftable[s].inode /\ icache[i].inum = ftable[s].inum
      BY <1>1, <2>2, Zenon DEF IInv, Referenced, SlotsNamed, Named
    <3>2. icache[i].ref >= Uses(i) /\ icache[i].ref \in Nat
      BY <1>1, Zenon DEF IInv, Referenced, UsesCounted, Types, Entries
    <3>3. Uses(i) \in Nat /\ Uses(i) >= Cardinality(BySlot(i)) /\ Cardinality(BySlot(i)) \in Nat
      <4>1. BySlot(i) \in SUBSET Slots
        BY Zenon DEF BySlot
      <4> QED
        BY <4>1, UsedBy, Sizes, Fewer, Zenon
    <3> QED
      BY <3>1, <3>2, <3>3
  <2> QED
    BY <2>1, <2>2, Zenon DEF InodeHeld, BySlot
<1> QED
  BY <1>1, Invariance, PTL

(* Processes that share an open file read every byte once and in order,     *)
(* under the same hypothesis (file.c, fileread).                            *)
THEOREM ReadsInOrder == Spec /\ [][Apart]_vars => []ReadOnce
<1>1. ASSUME IInv PROVE ReadOnce
  BY <1>1, Zenon DEF IInv, Reading, Prefixes, Prefix, ReadOnce
<1> QED
  BY <1>1, Invariance, PTL
=============================================================================
