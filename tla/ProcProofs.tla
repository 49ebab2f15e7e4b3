----------------------------- MODULE ProcProofs -----------------------------
(***************************************************************************)
(* The invariants of the process table, for tables of any size and any     *)
(* number of forks, as long as init does not exit.                         *)
(*                                                                         *)
(* The properties are about pids that are compared across slots.  What     *)
(* makes them inductive: pids are handed out in increasing order and only  *)
(* once, so that comparing pids is comparing slots, and a parent is always *)
(* older than its children, so that every line of ancestors ends in init   *)
(* and init has a child as long as there is any other process.             *)
(***************************************************************************)
EXTENDS Proc, TLAPS

\* Pids are given out once, in order; init has the first.
Pids ==
  /\ nextpid >= 2 /\ pid[initproc] = 1
  /\ \A i \in Slots : pid[i] < nextpid
  /\ \A i \in Slots : state[i] # "UNUSED" => pid[i] >= 1

\* What is in the slots of no process, and of init.
Idle ==
  /\ \A i \in Slots : state[i] \in {"UNUSED", "EMBRYO"} => parent[i] = None /\ pc[i] = "none"
  /\ \A i \in Slots : state[i] = "ZOMBIE" => pc[i] = "user"
  /\ parent[initproc] = None /\ Alive(initproc)

\* A fork works on an embryo of its own, younger than the parent.
Embryos ==
  /\ \A p \in Slots : pc[p] \in {"stack", "fork"} => 
       kid[p] \in Slots /\ state[kid[p]] = "EMBRYO" /\ pid[p] < pid[kid[p]]
  /\ \A p, q \in Slots :
       pc[p] \in {"stack", "fork"} /\ pc[q] \in {"stack", "fork"} /\ kid[p] = kid[q] => p = q

\* A parent is alive and older than its child.
Family ==
  \A i \in Slots : parent[i] # None => Alive(parent[i]) /\ pid[parent[i]] < pid[i]

HasChild(p) == \E i \in Slots : parent[i] = p

\* Who has found a child has one.
Waiting ==
  \A p \in Slots : pc[p] = "reap" \/ (pc[p] = "scan" /\ found[p]) => HasChild(p)

\* Who searches and has a child has not passed all of them unseen.
Search ==
  \A p \in Slots : pc[p] = "scan" /\ ~found[p] /\ HasChild(p) =>
    \E i \in Slots : scan[p] <= i /\ parent[i] = p

\* Who sleeps in wait is in the loop and has no zombie to find.
Quiet ==
  \A p \in Slots : state[p] = "SLEEPING" /\ chan[p] = p =>
    /\ pc[p] = "reap"
    /\ \A i \in Slots : parent[i] = p => state[i] # "ZOMBIE"

\* The inductive invariant.
IInv ==
  /\ TypeOK /\ Pids /\ PidsDiffer /\ Idle /\ Embryos /\ Family /\ ParentAlive
  /\ Waiting /\ Search /\ Quiet

-----------------------------------------------------------------------------
\* Comparing the pid of a parent is comparing the parent.
LEMMA ChildIs ==
  ASSUME IInv, NEW i \in Slots, NEW p \in Slots, state[p] # "UNUSED"
  PROVE  ChildOf(i, p) <=> parent[i] = p
<1>1. p # None
  BY ProcAssumption DEF Slots, None
<1>2. parent[i] # None => parent[i] \in Slots /\ state[parent[i]] # "UNUSED"
  BY Zenon DEF IInv, TypeOK, Family, Alive
<1>3. \A q \in Slots : state[q] # "UNUSED" /\ pid[q] = pid[p] => q = p
  BY Zenon DEF IInv, PidsDiffer
<1> QED
  BY <1>1, <1>2, <1>3, Zenon DEF ChildOf

-----------------------------------------------------------------------------
\* userinit leaves one process, init.
LEMMA InitStep == Init => IInv
<1> SUFFICES ASSUME Init PROVE IInv
  BY Zenon
<1> USE ProcAssumption DEF Init, Slots, None, initproc
<1>1. TypeOK
  BY DEF TypeOK, States, Places, Event
<1>2. Pids /\ PidsDiffer
  BY DEF Pids, PidsDiffer
<1>3. Idle /\ Embryos
  BY DEF Idle, Embryos, Alive
<1>4. Family /\ ParentAlive /\ Waiting /\ Search /\ Quiet
  BY Zenon DEF Family, ParentAlive, Waiting, Search, HasChild, Quiet, Alive
<1> QED
  BY <1>1, <1>2, <1>3, <1>4, Zenon DEF IInv

\* No slot is a null pointer or the other channel.
LEMMA SlotFacts == initproc \in Slots /\ None \notin Slots /\ Event \notin Slots
BY ProcAssumption DEF Slots, None, Event, initproc

\* The scheduler takes a process, which clears its channel.
LEMMA ScheduleStep ==
  ASSUME IInv, NEW p \in Slots, Schedule(p)
  PROVE  IInv'
<1> USE SlotFacts DEF IInv, TypeOK, Schedule, At, MayCall, local
<1>1. TypeOK'
  <2>1. state' \in [Slots -> States]
    BY Zenon DEF States
  <2>2. chan' \in [Slots -> Slots \cup {None, Event}]
    BY Zenon
  <2> QED
    BY <2>1, <2>2, Zenon
<1>2. (Pids /\ PidsDiffer)'
  BY DEF Pids, PidsDiffer, Idle, Embryos
<1>3. (Idle /\ Embryos)'
  BY Zenon DEF Idle, Embryos, Alive
<1>4. (Family /\ ParentAlive)'
  BY DEF Family, ParentAlive, Idle, Embryos, Alive, Pids
<1>5. (Waiting /\ Search)'
  BY DEF Waiting, Search, HasChild, Idle, Embryos
<1>6. Quiet'
  BY DEF Quiet, Idle, Embryos
<1> QED
  BY <1>1, <1>2, <1>3, <1>4, <1>5, <1>6, Zenon

\* The timer takes the CPU from a process.
LEMMA YieldStep ==
  ASSUME IInv, NEW p \in Slots, Yield(p)
  PROVE  IInv'
<1> USE SlotFacts DEF IInv, TypeOK, Yield, At, MayCall, local
<1>1. TypeOK'
  <2>1. state' \in [Slots -> States]
    BY Zenon DEF States
  <2> QED
    BY <2>1, Zenon
<1>2. (Pids /\ PidsDiffer)'
  BY DEF Pids, PidsDiffer, Idle, Embryos
<1>3. (Idle /\ Embryos)'
  BY Zenon DEF Idle, Embryos, Alive
<1>4. (Family /\ ParentAlive)'
  BY DEF Family, ParentAlive, Idle, Embryos, Alive, Pids
<1>5. (Waiting /\ Search)'
  BY DEF Waiting, Search, HasChild, Idle, Embryos
<1>6. Quiet'
  BY DEF Quiet, Idle, Embryos
<1> QED
  BY <1>1, <1>2, <1>3, <1>4, <1>5, <1>6, Zenon

\* allocproc: the new pid is the greatest, and init keeps its slot.
LEMMA AllocProcStep ==
  ASSUME IInv, NEW p \in Slots, AllocProc(p)
  PROVE  IInv'
<1> USE SlotFacts DEF IInv, TypeOK, AllocProc, First, At, MayCall, local
<1>1. TypeOK'
  <2>1. state' \in [Slots -> States]
    BY Zenon DEF States
  <2>2. pid' \in [Slots -> Nat]
    BY Zenon
  <2>3. kid' \in [Slots -> Slots \cup {None}]
    OBVIOUS
  <2>4. nextpid' \in Nat
    OBVIOUS
  <2>5. pc' \in [Slots -> Places]
    BY Zenon DEF Places
  <2> QED
    BY <2>1, <2>2, <2>3, <2>4, <2>5, Zenon
<1>2. (Pids /\ PidsDiffer)'
  BY DEF Pids, PidsDiffer, Idle, Embryos, Alive
<1>3. (Idle /\ Embryos)'
  BY DEF Idle, Embryos, Alive, Pids
<1>4. (Family /\ ParentAlive)'
  BY DEF Family, ParentAlive, Idle, Embryos, Alive, Pids
<1>5. (Waiting /\ Search)'
  BY DEF Waiting, Search, HasChild, Idle, Embryos
<1>6. Quiet'
  BY DEF Quiet, Idle, Embryos
<1> QED
  BY <1>1, <1>2, <1>3, <1>4, <1>5, <1>6, Zenon

\* The embryo of a fork goes on or is given up.
LEMMA AllocStackStep ==
  ASSUME IInv, NEW p \in Slots, AllocStack(p)
  PROVE  IInv'
<1> USE SlotFacts DEF IInv, TypeOK, AllocStack, At, MayCall, local
<1>1. TypeOK'
  <2>1. state' \in [Slots -> States]
    BY Zenon DEF States
  <2>2. kid' \in [Slots -> Slots \cup {None}]
    BY Zenon
  <2>3. pc' \in [Slots -> Places]
    BY Zenon DEF Places
  <2> QED
    BY <2>1, <2>2, <2>3, Zenon
<1>2. (Pids /\ PidsDiffer)'
  BY DEF Pids, PidsDiffer, Idle, Embryos
<1>3. (Idle /\ Embryos)'
  BY DEF Idle, Embryos, Alive
<1>4. (Family /\ ParentAlive)'
  BY DEF Family, ParentAlive, Idle, Embryos, Alive, Pids
<1>5. (Waiting /\ Search)'
  BY DEF Waiting, Search, HasChild, Idle, Embryos
<1>6. Quiet'
  BY DEF Quiet, Idle, Embryos
<1> QED
  BY <1>1, <1>2, <1>3, <1>4, <1>5, <1>6, Zenon

\* The embryo becomes a child, younger than its parent.
LEMMA ForkDoneStep ==
  ASSUME IInv, NEW p \in Slots, ForkDone(p)
  PROVE  IInv'
<1> USE SlotFacts DEF IInv, TypeOK, ForkDone, At, MayCall, local
<1>1. TypeOK'
  <2>1. state' \in [Slots -> States]
    BY Zenon DEF States
  <2>2. parent' \in [Slots -> Slots \cup {None}]
    BY Zenon
  <2>3. pc' \in [Slots -> Places]
    BY Zenon DEF Places
  <2>4. kid' \in [Slots -> Slots \cup {None}]
    BY Zenon
  <2> QED
    BY <2>1, <2>2, <2>3, <2>4, Zenon
<1>2. (Pids /\ PidsDiffer)'
  BY DEF Pids, PidsDiffer, Idle, Embryos
<1>3. (Idle /\ Embryos)'
  BY DEF Idle, Embryos, Alive
<1>4. (Family /\ ParentAlive)'
  BY DEF Family, ParentAlive, Idle, Embryos, Alive, Pids
<1>5. (Waiting /\ Search)'
  BY DEF Waiting, Search, HasChild, Idle, Embryos
<1>6. Quiet'
  BY DEF Quiet, Idle, Embryos
<1> QED
  BY <1>1, <1>2, <1>3, <1>4, <1>5, <1>6, Zenon

\* The search begins before the first slot.
LEMMA WaitStep ==
  ASSUME IInv, NEW p \in Slots, Wait(p)
  PROVE  IInv'
<1> USE SlotFacts DEF IInv, TypeOK, Wait, At, MayCall, local
<1>1. TypeOK'
  <2>1. found' \in [Slots -> BOOLEAN]
    BY Zenon
  <2>2. scan' \in [Slots -> 1..NProc + 1]
    BY ProcAssumption
  <2> QED
    BY <2>1, <2>2, Zenon DEF Places
<1>2. (Pids /\ PidsDiffer)'
  BY DEF Pids, PidsDiffer, Idle, Embryos
<1>3. (Idle /\ Embryos)'
  BY DEF Idle, Embryos, Alive
<1>4. (Family /\ ParentAlive)'
  BY Zenon DEF Family, ParentAlive, Idle, Embryos, Alive, Pids
<1>5. (Waiting /\ Search)'
  <2>1. \A i \in Slots : 1 <= i
    BY DEF Slots
  <2>2. scan'[p] = 1 /\ ~found'[p] /\ \A q \in Slots : q # p => scan'[q] = scan[q] /\ found'[q] = found[q]
    BY Zenon
  <2> QED
    BY <2>1, <2>2 DEF Waiting, Search, HasChild
<1>6. Quiet'
  BY DEF Quiet, Idle, Embryos
<1> QED
  BY <1>1, <1>2, <1>3, <1>4, <1>5, <1>6, Zenon

\* The search remembers a child, or passes a slot that is none.
LEMMA ScanSlotStep ==
  ASSUME IInv, NEW p \in Slots, ScanSlot(p)
  PROVE  IInv'
<1> USE SlotFacts DEF IInv, TypeOK, ScanSlot, At, MayCall, local
<1>1. TypeOK'
  <2>1. found' \in [Slots -> BOOLEAN]
    BY Zenon
  <2>2. scan' \in [Slots -> 1..NProc + 1]
    BY ProcAssumption
  <2> QED
    BY <2>1, <2>2, Zenon DEF Places
<1>2. (Pids /\ PidsDiffer)'
  BY DEF Pids, PidsDiffer, Idle, Embryos
<1>3. (Idle /\ Embryos)'
  BY DEF Idle, Embryos, Alive
<1>4. (Family /\ ParentAlive)'
  BY Zenon DEF Family, ParentAlive, Idle, Embryos, Alive, Pids
<1>5. (Waiting /\ Search)'
  <2>1. scan[p] \in Slots /\ scan[p] \in Nat /\ \A i \in Slots : i \in Nat
    BY ProcAssumption DEF Slots
  <2>2. ChildOf(scan[p], p) <=> parent[scan[p]] = p
    BY <2>1, ChildIs, Zenon
  <2>3. parent[scan[p]] = p => state[scan[p]] # "UNUSED"
    BY <2>1, Zenon DEF Idle
  <2>4. found'[p] <=> found[p] \/ parent[scan[p]] = p
    BY <2>2, <2>3, Zenon
  <2>5. \A q \in Slots : q # p => scan'[q] = scan[q] /\ found'[q] = found[q]
    BY Zenon
  <2>6. Waiting'
    BY <2>1, <2>4, <2>5 DEF Waiting, HasChild
  <2>7. scan'[p] = scan[p] + 1
    BY Zenon
  <2>8. Search'
    BY <2>1, <2>4, <2>5, <2>7 DEF Search, HasChild
  <2> QED
    BY <2>6, <2>8, Zenon
<1>6. Quiet'
  BY Zenon DEF Quiet, Idle, Embryos
<1> QED
  BY <1>1, <1>2, <1>3, <1>4, <1>5, <1>6, Zenon

\* The loop of wait is entered with a child.
LEMMA ScanDoneStep ==
  ASSUME IInv, NEW p \in Slots, ScanDone(p)
  PROVE  IInv'
<1> USE SlotFacts DEF IInv, TypeOK, ScanDone, At, MayCall, local
<1>1. TypeOK'
  <2>1. found' \in [Slots -> BOOLEAN]
    BY Zenon
  <2>2. scan' \in [Slots -> 1..NProc + 1]
    BY ProcAssumption
  <2> QED
    BY <2>1, <2>2, Zenon DEF Places
<1>2. (Pids /\ PidsDiffer)'
  BY DEF Pids, PidsDiffer, Idle, Embryos
<1>3. (Idle /\ Embryos)'
  BY DEF Idle, Embryos, Alive
<1>4. (Family /\ ParentAlive)'
  BY Zenon DEF Family, ParentAlive, Idle, Embryos, Alive, Pids
<1>5. (Waiting /\ Search)'
  BY DEF Waiting, Search, HasChild, Idle, Embryos
<1>6. Quiet'
  BY Zenon DEF Quiet, Idle, Embryos
<1> QED
  BY <1>1, <1>2, <1>3, <1>4, <1>5, <1>6, Zenon

\* wait sleeps when it sees no zombie child.
LEMMA WaitSleepStep ==
  ASSUME IInv, NEW p \in Slots, WaitSleep(p)
  PROVE  IInv'
<1> USE SlotFacts DEF IInv, TypeOK, WaitSleep, At, MayCall, local
<1>1. TypeOK'
  <2>1. state' \in [Slots -> States]
    BY Zenon DEF States
  <2>2. chan' \in [Slots -> Slots \cup {None, Event}]
    BY Zenon
  <2> QED
    BY <2>1, <2>2, Zenon
<1>2. (Pids /\ PidsDiffer)'
  BY DEF Pids, PidsDiffer, Idle, Embryos
<1>3. (Idle /\ Embryos)'
  BY DEF Idle, Embryos, Alive
<1>4. (Family /\ ParentAlive)'
  BY DEF Family, ParentAlive, Idle, Embryos, Alive, Pids
<1>5. (Waiting /\ Search)'
  BY DEF Waiting, Search, HasChild, Idle, Embryos
<1>6. Quiet'
  <2>1. \A i \in Slots : ChildOf(i, p) <=> parent[i] = p
    BY ChildIs, Zenon
  <2> QED
    BY <2>1, Zenon DEF Quiet
<1> QED
  BY <1>1, <1>2, <1>3, <1>4, <1>5, <1>6, Zenon

\* Sleeping on another channel is not sleeping in wait.
LEMMA SleepStep ==
  ASSUME IInv, NEW p \in Slots, Sleep(p)
  PROVE  IInv'
<1> USE SlotFacts DEF IInv, TypeOK, Sleep, At, MayCall, local
<1>1. TypeOK'
  <2>1. state' \in [Slots -> States]
    BY Zenon DEF States
  <2>2. chan' \in [Slots -> Slots \cup {None, Event}]
    BY Zenon
  <2>3. pc' \in [Slots -> Places]
    BY Zenon DEF Places
  <2> QED
    BY <2>1, <2>2, <2>3, Zenon
<1>2. (Pids /\ PidsDiffer)'
  BY DEF Pids, PidsDiffer, Idle, Embryos
<1>3. (Idle /\ Embryos)'
  BY DEF Idle, Embryos, Alive
<1>4. (Family /\ ParentAlive)'
  BY DEF Family, ParentAlive, Idle, Embryos, Alive, Pids
<1>5. (Waiting /\ Search)'
  BY DEF Waiting, Search, HasChild, Idle, Embryos
<1>6. Quiet'
  BY DEF Quiet, Idle, Embryos
<1> QED
  BY <1>1, <1>2, <1>3, <1>4, <1>5, <1>6, Zenon

\* Nor is sleeping in kalloc.
LEMMA KallocSleepStep ==
  ASSUME IInv, NEW p \in Slots, KallocSleep(p)
  PROVE  IInv'
<1> USE SlotFacts DEF IInv, TypeOK, KallocSleep, At, MayCall, local
<1>1. TypeOK'
  <2>1. state' \in [Slots -> States]
    BY Zenon DEF States
  <2>2. chan' \in [Slots -> Slots \cup {None, Event}]
    BY Zenon
  <2> QED
    BY <2>1, <2>2, Zenon
<1>2. (Pids /\ PidsDiffer)'
  BY DEF Pids, PidsDiffer, Idle, Embryos
<1>3. (Idle /\ Embryos)'
  BY Zenon DEF Idle, Embryos, Alive
<1>4. (Family /\ ParentAlive)'
  BY DEF Family, ParentAlive, Idle, Embryos, Alive, Pids
<1>5. (Waiting /\ Search)'
  BY DEF Waiting, Search, HasChild, Idle, Embryos
<1>6. Quiet'
  BY DEF Quiet, Idle, Embryos
<1> QED
  BY <1>1, <1>2, <1>3, <1>4, <1>5, <1>6, Zenon

\* A system call returns.
LEMMA EventReturnStep ==
  ASSUME IInv, NEW p \in Slots, EventReturn(p)
  PROVE  IInv'
<1> USE SlotFacts DEF IInv, TypeOK, EventReturn, At, MayCall, local
<1>1. TypeOK'
  <2>1. pc' \in [Slots -> Places]
    BY Zenon DEF Places
  <2> QED
    BY <2>1, Zenon
<1>2. (Pids /\ PidsDiffer)'
  BY DEF Pids, PidsDiffer, Idle, Embryos
<1>3. (Idle /\ Embryos)'
  BY DEF Idle, Embryos, Alive
<1>4. (Family /\ ParentAlive)'
  BY Zenon DEF Family, ParentAlive, Idle, Embryos, Alive, Pids
<1>5. (Waiting /\ Search)'
  BY DEF Waiting, Search, HasChild, Idle, Embryos
<1>6. Quiet'
  BY Zenon DEF Quiet, Idle, Embryos
<1> QED
  BY <1>1, <1>2, <1>3, <1>4, <1>5, <1>6, Zenon

\* kill makes a sleeper runnable and changes nothing else that matters.
LEMMA KillStep ==
  ASSUME IInv, NEW p \in Slots, Kill(p)
  PROVE  IInv'
<1> USE SlotFacts DEF IInv, TypeOK, Kill, First, At, MayCall, local
<1>1. TypeOK'
  <2>1. killed' \in [Slots -> BOOLEAN]
    BY Zenon
  <2>2. state' \in [Slots -> States]
    BY Zenon DEF States
  <2> QED
    BY <2>1, <2>2, Zenon
<1>2. (Pids /\ PidsDiffer)'
  BY DEF Pids, PidsDiffer, Idle, Embryos
<1>3. (Idle /\ Embryos)'
  BY DEF Idle, Embryos, Alive
<1>4. (Family /\ ParentAlive)'
  BY DEF Family, ParentAlive, Idle, Embryos, Alive, Pids
<1>5. (Waiting /\ Search)'
  BY DEF Waiting, Search, HasChild, Idle, Embryos
<1>6. Quiet'
  BY DEF Quiet, Idle, Embryos
<1> QED
  BY <1>1, <1>2, <1>3, <1>4, <1>5, <1>6, Zenon

\* The slot of a zombie child is nobody's parent, fork or wait.
LEMMA ReapStep ==
  ASSUME IInv, NEW p \in Slots, Reap(p)
  PROVE  IInv'
<1> USE SlotFacts DEF IInv, TypeOK, At, local
<1>1. PICK z \in Slots :
        /\ ChildOf(z, p) /\ state[z] = "ZOMBIE"
        /\ state' = [state EXCEPT ![z] = "UNUSED"]
        /\ parent' = [parent EXCEPT ![z] = None]
        /\ pid' = [pid EXCEPT ![z] = 0]
        /\ killed' = [killed EXCEPT ![z] = FALSE]
        /\ pc' = [pc EXCEPT ![p] = "user", ![z] = "none"]
  BY Zenon DEF Reap, First
<1>2. At(p, "reap") /\ UNCHANGED <<chan, nextpid, kid, scan, found>>
  BY Zenon DEF Reap
<1>3. parent[z] = p /\ z # p /\ z # initproc
  BY <1>1, <1>2, ChildIs, Zenon DEF Idle
<1>4. \A i \in Slots : parent[i] # z
  BY <1>1, Zenon DEF Family, Alive
<1>5. TypeOK'
  BY <1>1, <1>2, Zenon DEF States, Places
<1>6. (Pids /\ PidsDiffer)'
  BY <1>1, <1>2, <1>3 DEF Pids, PidsDiffer
<1>7. (Idle /\ Embryos)'
  BY <1>1, <1>2, <1>3 DEF Idle, Embryos, Alive
<1>8. (Family /\ ParentAlive)'
  BY <1>1, <1>2, <1>3, <1>4, Zenon DEF Family, ParentAlive, Alive
<1>9. (Waiting /\ Search)'
  BY <1>1, <1>2, <1>3 DEF Waiting, Search, HasChild
<1>10. Quiet'
  BY <1>1, <1>2, Zenon DEF Quiet
<1> QED
  BY <1>5, <1>6, <1>7, <1>8, <1>9, <1>10, Zenon

\* wakeup makes sleepers runnable.
LEMMA WakeupStep ==
  ASSUME IInv, Wakeup
  PROVE  IInv'
<1> USE SlotFacts DEF IInv, TypeOK, Wakeup, Woken, local
<1>1. TypeOK'
  BY Zenon DEF States
<1>2. (Pids /\ PidsDiffer)'
  BY Zenon DEF Pids, PidsDiffer
<1>3. (Idle /\ Embryos)'
  BY Zenon DEF Idle, Embryos, Alive
<1>4. (Family /\ ParentAlive)'
  BY Zenon DEF Family, ParentAlive, Alive
<1>5. (Waiting /\ Search)'
  BY Zenon DEF Waiting, Search, HasChild
<1>6. Quiet'
  BY Zenon DEF Quiet
<1> QED
  BY <1>1, <1>2, <1>3, <1>4, <1>5, <1>6, Zenon

-----------------------------------------------------------------------------
INSTANCE WellFoundedInduction

\* Every nonempty set of numbers has a least one.
LEMMA Least ==
  ASSUME NEW T, T \subseteq Nat, T # {}
  PROVE  \E x \in T : \A y \in T : ~(y < x)
<1>1. \E x \in T : \A y \in T : ~(<<y, x>> \in OpToRel(<, Nat))
  BY NatLessThanWellFounded, WFMin, Zenon
<1> QED
  BY <1>1, Zenon DEF OpToRel

\* As long as some process has a parent, init has a child: the oldest of them.
LEMMA FirstBorn ==
  ASSUME IInv, NEW q \in Slots, parent[q] # None
  PROVE  HasChild(initproc)
<1> DEFINE T == {pid[i] : i \in {j \in Slots : parent[j] # None}}
<1>1. T \subseteq Nat /\ pid[q] \in T
  BY Zenon DEF IInv, TypeOK
<1>2. PICK x \in T : \A y \in T : ~(y < x)
  BY <1>1, Least, Zenon
<1>3. PICK i \in Slots : parent[i] # None /\ pid[i] = x
  BY <1>2, Zenon
<1>4. parent[i] \in Slots /\ Alive(parent[i]) /\ pid[parent[i]] < pid[i]
  BY <1>3, Zenon DEF IInv, TypeOK, Family
<1>5. CASE parent[i] # initproc
  <2>1. parent[parent[i]] # None
    BY <1>4, <1>5, Zenon DEF IInv, ParentAlive
  <2> QED
    BY <2>1, <1>2, <1>3, <1>4, Zenon
<1> QED
  BY <1>3, <1>5, Zenon DEF HasChild

\* exit: the children go to init, which has a child already and is awake, and the
\* parent of the new zombie is.
LEMMA ExitStep ==
  ASSUME IInv, InitExits = FALSE, NEW p \in Slots, Exit(p)
  PROVE  IInv'
<1> USE SlotFacts DEF IInv, TypeOK
<1>1. At(p, "user") /\ p # initproc /\ UNCHANGED <<pid, chan, killed, nextpid, pc, kid, scan, found>>
  BY Zenon DEF Exit, ExitWith, local
<1>2. \A i \in Slots : ChildOf(i, p) <=> parent[i] = p
  BY <1>1, ChildIs, Zenon DEF At
<1>3. parent' = [i \in Slots |-> IF parent[i] = p THEN initproc ELSE parent[i]]
  BY <1>2, Zenon DEF Exit, ExitWith, Children
<1>4. PICK C : /\ parent[p] \in C
               /\ (\E i \in Slots : parent[i] = p) => initproc \in C
               /\ state' = [Woken(C) EXCEPT ![p] = "ZOMBIE"]
  BY <1>2, Zenon DEF Exit, ExitWith, Children
<1>5. state' = [i \in Slots |-> IF i = p THEN "ZOMBIE"
                               ELSE IF state[i] = "SLEEPING" /\ chan[i] \in C THEN "RUNNABLE"
                               ELSE state[i]]
  BY <1>4, Zenon DEF Woken
<1>6. parent[p] # None /\ parent[p] # p /\ HasChild(initproc)
  <2>1. parent[p] # None
    BY <1>1, Zenon DEF At, ParentAlive, Alive
  <2>2. parent[p] # p
    BY <2>1 DEF Family
  <2> QED
    BY <2>1, <2>2, FirstBorn, Zenon
<1>7. TypeOK'
  BY <1>1, <1>3, <1>5, Zenon DEF States
<1>8. (Pids /\ PidsDiffer)'
  BY <1>1, <1>5, Zenon DEF Pids, PidsDiffer, At
<1>9. (Idle /\ Embryos)'
  BY <1>1, <1>3, <1>5 DEF Idle, Embryos, Alive, At
<1>10. Family'
  <2>1. \A i \in Slots : parent[i] # None => state[i] # "UNUSED" /\ i # initproc
    BY Zenon DEF Idle
  <2>2. \A i \in Slots : parent[i] # None => 1 < pid[i]
    BY <2>1 DEF Pids, PidsDiffer, Idle, Alive
  <2> QED
    BY <1>1, <1>3, <1>5, <2>2 DEF Family, Alive, Idle, Pids
<1>11. ParentAlive'
  BY <1>1, <1>3, <1>5 DEF ParentAlive, Alive, Idle, At
<1>12. Waiting'
  BY <1>1, <1>3, <1>6, Zenon DEF Waiting, HasChild, At
<1>13. Search'
  BY <1>1, <1>3, <1>6 DEF Search, HasChild, At
<1>14. Quiet'
  BY <1>1, <1>3, <1>4, <1>5 DEF Quiet, At
<1> QED
  BY <1>7, <1>8, <1>9, <1>10, <1>11, <1>12, <1>13, <1>14, Zenon

-----------------------------------------------------------------------------
\* The process table keeps its invariant as long as init does not exit.
THEOREM Invariance ==
  ASSUME InitExits = FALSE
  PROVE  Spec => []IInv
<1>1. IInv /\ [Next]_vars => IInv'
  <2> SUFFICES ASSUME IInv, [Next]_vars PROVE IInv'
    BY Zenon
  <2>1. CASE UNCHANGED vars
    BY <2>1, SMTT(40), Z3T(40) DEF vars, IInv, TypeOK, Pids, PidsDiffer, Idle, Embryos, Family, ParentAlive,
                Waiting, Search, Quiet, HasChild, Alive
  <2>2. CASE Wakeup
    BY <2>2, WakeupStep, Zenon
  <2>3. ASSUME NEW p \in Slots,
               \/ Schedule(p) \/ Yield(p) \/ AllocProc(p) \/ Exit(p) \/ Wait(p) \/ Kill(p)
               \/ Sleep(p) \/ KallocSleep(p) \/ EventReturn(p) \/ Proceed(p)
        PROVE  IInv'
    BY <2>3, ScheduleStep, YieldStep, AllocProcStep, ExitStep, WaitStep, KillStep, Zenon,
       SleepStep, KallocSleepStep, EventReturnStep, AllocStackStep, ForkDoneStep,
       ScanSlotStep, ScanDoneStep, ReapStep, WaitSleepStep DEF Proceed
  <2> QED
    BY <2>1, <2>2, <2>3, Zenon DEF Next
<1> QED
  BY <1>1, InitStep, PTL DEF Spec

\* The fields of the table keep their types: fork never loses its embryo, and
\* the search of wait stays inside the table (proc.c:50-91, 232).
THEOREM TypeCorrect ==
  ASSUME InitExits = FALSE
  PROVE  Spec => []TypeOK
<1>1. IInv => TypeOK
  BY Zenon DEF IInv
<1> QED
  BY <1>1, Invariance, PTL

\* exit leaves no orphan: every process has a parent that can wait for it
\* (proc.c:180-186).
THEOREM NoOrphans ==
  ASSUME InitExits = FALSE
  PROVE  Spec => []ParentAlive
<1>1. IInv => ParentAlive
  BY Zenon DEF IInv
<1> QED
  BY <1>1, Invariance, PTL

\* Pids tell processes apart (proc.c:65).
THEOREM PidsAreNames ==
  ASSUME InitExits = FALSE
  PROVE  Spec => []PidsDiffer
<1>1. IInv => PidsDiffer
  BY Zenon DEF IInv
<1> QED
  BY <1>1, Invariance, PTL

\* No wakeup of a process in wait is lost, and nobody waits there for nothing
\* (proc.c:180-188, 250-258).
THEOREM NoLostWakeup ==
  ASSUME InitExits = FALSE
  PROVE  Spec => []WaiterHasWork
<1>1. IInv => WaiterHasWork
  <2> SUFFICES ASSUME IInv, NEW p \in Slots, state[p] = "SLEEPING", chan[p] = p
               PROVE  /\ \E i \in Slots : ChildOf(i, p) /\ state[i] # "UNUSED"
                      /\ \A i \in Slots : ChildOf(i, p) => state[i] # "ZOMBIE"
    BY Zenon DEF WaiterHasWork
  <2>1. \A i \in Slots : ChildOf(i, p) <=> parent[i] = p
    BY ChildIs, Zenon
  <2>2. \A i \in Slots : parent[i] = p => state[i] # "UNUSED"
    BY SlotFacts, Zenon DEF IInv, Idle
  <2>3. Quiet /\ Waiting
    BY Zenon DEF IInv
  <2>4. \A i \in Slots : parent[i] = p => state[i] # "ZOMBIE"
    BY <2>3, Zenon DEF Quiet
  <2>5. \E i \in Slots : parent[i] = p
    BY <2>3, Zenon DEF Quiet, Waiting, HasChild
  <2> QED
    BY <2>1, <2>2, <2>4, <2>5, Zenon
<1> QED
  BY <1>1, Invariance, PTL

\* wait refuses only a process without children, although the search does not
\* hold the lock (proc.c:229-246).
THEOREM RefusalIsRight ==
  ASSUME InitExits = FALSE
  PROVE  Spec => []RefusedIsChildless
<1>1. IInv => RefusedIsChildless
  <2> SUFFICES ASSUME IInv, NEW p \in Slots, At(p, "scan"), scan[p] = NProc + 1, ~found[p],
                      NEW i \in Slots, ChildOf(i, p)
               PROVE  FALSE
    BY Zenon DEF RefusedIsChildless
  <2>1. parent[i] = p
    BY ChildIs, Zenon DEF At
  <2>2. PICK j \in Slots : scan[p] <= j
    BY <2>1, Zenon DEF IInv, Search, HasChild, At
  <2> QED
    BY <2>2, ProcAssumption DEF Slots
<1> QED
  BY <1>1, Invariance, PTL
=============================================================================
