-------------------------------- MODULE Proc --------------------------------
(***************************************************************************)
(* The process table, kernel/proc.c: allocproc, fork, exit, wait, kill,    *)
(* sleep, wakeup, yield and the scheduler, on the machine's one CPU.       *)
(*                                                                         *)
(* ptable.lock holds off interrupts, so what is done under it is one step; *)
(* anywhere else the timer may take the CPU from a process (Yield).  A     *)
(* process that goes to sleep or gives up the CPU does so with the lock    *)
(* held, and the scheduler hands the lock to the next one, which clears    *)
(* its channel before it lets go of it.                                    *)
(***************************************************************************)
EXTENDS Integers, FiniteSets

CONSTANTS
  NProc,      \* NPROC, slots of the table (64)
  MaxPid,     \* no fork once so many pids were given out
  InitExits   \* whether init may exit or be killed

ASSUME ProcAssumption == NProc \in Nat \ {0} /\ MaxPid \in Nat /\ InitExits \in BOOLEAN

VARIABLES
  state,      \* p->state
  pid,        \* p->pid
  parent,     \* p->parent, a slot or None
  chan,       \* p->chan: a slot (wait), Event (any other channel) or None
  killed,     \* p->killed
  nextpid,
  pc,         \* where the process in the slot is
  kid,        \* fork: the slot that allocproc found
  scan,       \* wait: the loop index i
  found       \* wait: has_child

vars  == <<state, pid, parent, chan, killed, nextpid, pc, kid, scan, found>>
local == <<kid, scan, found>>

Slots    == 1..NProc
initproc == 1
None     == 0
Event    == -1
States   == {"UNUSED", "EMBRYO", "RUNNABLE", "RUNNING", "SLEEPING", "ZOMBIE"}
Places   == {"none", "user", "stack", "fork", "scan", "reap", "event"}

\* The slot of S that a loop over the table finds first.
First(i, S) == i \in S /\ \A j \in S : i <= j

\* ptable.proc[i].parent->pid == p->pid.  (A null parent reads the four bytes of
\* user memory at the offset of pid, which are program text and no pid.)
ChildOf(i, p) == parent[i] # None /\ pid[parent[i]] = pid[p]

\* p is on the CPU, in user mode, and trap lets its system call through.
MayCall(p) == state[p] = "RUNNING" /\ pc[p] = "user" /\ ~killed[p]

At(p, place) == state[p] = "RUNNING" /\ pc[p] = place

\* State after wakeup1 of the channels in C.
Woken(C) == [i \in Slots |-> IF state[i] = "SLEEPING" /\ chan[i] \in C THEN "RUNNABLE" ELSE state[i]]

-----------------------------------------------------------------------------
\* userinit: the first process, made by allocproc.
Init ==
  /\ state = [i \in Slots |-> IF i = initproc THEN "RUNNABLE" ELSE "UNUSED"]
  /\ pid = [i \in Slots |-> IF i = initproc THEN 1 ELSE 0]
  /\ parent = [i \in Slots |-> None]
  /\ chan = [i \in Slots |-> None]
  /\ killed = [i \in Slots |-> FALSE]
  /\ nextpid = 2
  /\ pc = [i \in Slots |-> IF i = initproc THEN "user" ELSE "none"]
  /\ kid = [i \in Slots |-> None]
  /\ scan = [i \in Slots |-> 1]
  /\ found = [i \in Slots |-> FALSE]

\* scheduler: the CPU takes a runnable process, which returns from sched and,
\* in sleep, clears its channel.
Schedule(p) ==
  /\ \A q \in Slots : state[q] # "RUNNING"
  /\ state[p] = "RUNNABLE"
  /\ state' = [state EXCEPT ![p] = "RUNNING"]
  /\ chan' = [chan EXCEPT ![p] = None]
  /\ UNCHANGED <<pid, parent, killed, nextpid, pc, local>>

\* The timer interrupts p.
Yield(p) ==
  /\ state[p] = "RUNNING"
  /\ state' = [state EXCEPT ![p] = "RUNNABLE"]
  /\ UNCHANGED <<pid, parent, chan, killed, nextpid, pc, local>>

\* Variant: nextpid stays.
AllocProcSamePid(p) ==
  /\ MayCall(p) /\ nextpid <= MaxPid
  /\ \E i \in Slots :
       /\ First(i, {j \in Slots : state[j] = "UNUSED"})
       /\ state' = [state EXCEPT ![i] = "EMBRYO"]
       /\ pid' = [pid EXCEPT ![i] = nextpid]
       /\ kid' = [kid EXCEPT ![p] = i]
  /\ pc' = [pc EXCEPT ![p] = "stack"]
  /\ UNCHANGED <<parent, chan, killed, nextpid, scan, found>>

\* fork: allocproc takes the first free slot; with none fork returns -1 and
\* nothing changes.
AllocProc(p) ==
  /\ MayCall(p) /\ nextpid <= MaxPid
  /\ \E i \in Slots :
       /\ First(i, {j \in Slots : state[j] = "UNUSED"})
       /\ state' = [state EXCEPT ![i] = "EMBRYO"]
       /\ pid' = [pid EXCEPT ![i] = nextpid]
       /\ kid' = [kid EXCEPT ![p] = i]
  /\ nextpid' = nextpid + 1
  /\ pc' = [pc EXCEPT ![p] = "stack"]
  /\ UNCHANGED <<parent, chan, killed, scan, found>>

\* kalloc of the kernel stack; when it fails the slot is free again, without
\* the lock and with its pid.
AllocStack(p) ==
  /\ At(p, "stack")
  /\ \/ /\ pc' = [pc EXCEPT ![p] = "fork"]
        /\ UNCHANGED <<state, kid>>
     \/ /\ pc' = [pc EXCEPT ![p] = "user"]
        /\ state' = [state EXCEPT ![kid[p]] = "UNUSED"]
        /\ kid' = [kid EXCEPT ![p] = None]
  /\ UNCHANGED <<pid, parent, chan, killed, nextpid, scan, found>>

\* The end of fork: the child can run and has a parent.
ForkDone(p) ==
  /\ At(p, "fork")
  /\ state' = [state EXCEPT ![kid[p]] = "RUNNABLE"]
  /\ parent' = [parent EXCEPT ![kid[p]] = p]
  /\ pc' = [pc EXCEPT ![p] = "user", ![kid[p]] = "user"]
  /\ kid' = [kid EXCEPT ![p] = None]
  /\ UNCHANGED <<pid, chan, killed, nextpid, scan, found>>

\* Whom the loop of exit finds.
Children(p) == {i \in Slots : ChildOf(i, p)}

\* p becomes a zombie, heir the parent of its children, and the sleepers on Chans
\* are woken.
ExitWith(p, heir, Chans) ==
  /\ At(p, "user")
  /\ p # initproc \/ InitExits
  /\ parent' = [i \in Slots |-> IF i \in Children(p) THEN heir ELSE parent[i]]
  /\ state' = [Woken(Chans) EXCEPT ![p] = "ZOMBIE"]
  /\ UNCHANGED <<pid, chan, killed, nextpid, pc, local>>

\* Variants: the children are left, nobody is woken.
ExitNoHeir(p) == ExitWith(p, p, {parent[p], initproc})
ExitQuiet(p)  == ExitWith(p, initproc, {})

\* exit, called or forced by trap on a killed process: its children go to init,
\* which is woken, then its parent is.
Exit(p) ==
  ExitWith(p, initproc, {parent[p]} \cup (IF Children(p) = {} THEN {} ELSE {initproc}))

\* wait: the search for a child, a slot at a time.
Wait(p) ==
  /\ MayCall(p)
  /\ pc' = [pc EXCEPT ![p] = "scan"]
  /\ scan' = [scan EXCEPT ![p] = 1]
  /\ found' = [found EXCEPT ![p] = FALSE]
  /\ UNCHANGED <<state, pid, parent, chan, killed, nextpid, kid>>

\* Variant: has_child is overwritten.
ScanSlotLast(p) ==
  /\ At(p, "scan") /\ scan[p] <= NProc
  /\ found' = [found EXCEPT ![p] = ChildOf(scan[p], p) /\ state[scan[p]] # "UNUSED"]
  /\ scan' = [scan EXCEPT ![p] = @ + 1]
  /\ UNCHANGED <<state, pid, parent, chan, killed, nextpid, pc, kid>>

\* One slot, with the lock held for it ...
ScanSlot(p) ==
  /\ At(p, "scan") /\ scan[p] <= NProc
  /\ found' = [found EXCEPT ![p] = @ \/ (ChildOf(scan[p], p) /\ state[scan[p]] # "UNUSED")]
  /\ scan' = [scan EXCEPT ![p] = @ + 1]
  /\ UNCHANGED <<state, pid, parent, chan, killed, nextpid, pc, kid>>

\* ... and the end of the loop: -1 without a child.
ScanDone(p) ==
  /\ At(p, "scan") /\ scan[p] > NProc
  /\ pc' = [pc EXCEPT ![p] = IF found[p] THEN "reap" ELSE "user"]
  /\ scan' = [scan EXCEPT ![p] = 1]
  /\ found' = [found EXCEPT ![p] = FALSE]
  /\ UNCHANGED <<state, pid, parent, chan, killed, nextpid, kid>>

\* process_zombie_child finds a zombie child and frees its slot ...
Reap(p) ==
  /\ At(p, "reap")
  /\ \E z \in Slots :
       /\ First(z, {i \in Slots : ChildOf(i, p) /\ state[i] = "ZOMBIE"})
       /\ state' = [state EXCEPT ![z] = "UNUSED"]
       /\ parent' = [parent EXCEPT ![z] = None]
       /\ pid' = [pid EXCEPT ![z] = 0]
       /\ killed' = [killed EXCEPT ![z] = FALSE]
       /\ pc' = [pc EXCEPT ![p] = "user", ![z] = "none"]
  /\ UNCHANGED <<chan, nextpid, local>>

\* ... or wait sleeps.  It does not look at killed.
WaitSleep(p) ==
  /\ At(p, "reap")
  /\ \A i \in Slots : ~(ChildOf(i, p) /\ state[i] = "ZOMBIE")
  /\ state' = [state EXCEPT ![p] = "SLEEPING"]
  /\ chan' = [chan EXCEPT ![p] = p]
  /\ UNCHANGED <<pid, parent, killed, nextpid, pc, local>>

\* sleep in any other system call, on a pipe, a lock, a buffer or the ticks.
Sleep(p) ==
  /\ MayCall(p) \/ At(p, "event")
  /\ state' = [state EXCEPT ![p] = "SLEEPING"]
  /\ chan' = [chan EXCEPT ![p] = Event]
  /\ pc' = [pc EXCEPT ![p] = "event"]
  /\ UNCHANGED <<pid, parent, killed, nextpid, local>>

\* kalloc may swap a page out, and fork calls it for the stack and for the page
\* tables of the child.
KallocSleep(p) ==
  /\ At(p, "stack") \/ At(p, "fork")
  /\ state' = [state EXCEPT ![p] = "SLEEPING"]
  /\ chan' = [chan EXCEPT ![p] = Event]
  /\ UNCHANGED <<pid, parent, killed, nextpid, pc, local>>

\* The condition of Sleep came true.
EventReturn(p) ==
  /\ At(p, "event")
  /\ pc' = [pc EXCEPT ![p] = "user"]
  /\ UNCHANGED <<state, pid, parent, chan, killed, nextpid, local>>

\* wakeup, by a process or an interrupt handler.
Wakeup ==
  /\ state' = Woken({Event})
  /\ UNCHANGED <<pid, parent, chan, killed, nextpid, pc, local>>

\* kill takes the first slot with that pid; free slots have pids, too.
Kill(p) ==
  /\ MayCall(p)
  /\ \E n \in 0..MaxPid, i \in Slots :
       /\ First(i, {j \in Slots : pid[j] = n})
       /\ i # initproc \/ InitExits
       /\ killed' = [killed EXCEPT ![i] = TRUE]
       /\ state' = [state EXCEPT ![i] = IF @ = "SLEEPING" THEN "RUNNABLE" ELSE @]
  /\ UNCHANGED <<pid, parent, chan, nextpid, pc, local>>

\* What a process does once it is in the kernel.
Proceed(p) ==
  \/ AllocStack(p) \/ ForkDone(p)
  \/ ScanSlot(p) \/ ScanDone(p) \/ Reap(p) \/ WaitSleep(p)

Next ==
  \/ Wakeup
  \/ \E p \in Slots :
       \/ Schedule(p) \/ Yield(p)
       \/ AllocProc(p) \/ Exit(p) \/ Wait(p) \/ Kill(p)
       \/ Sleep(p) \/ KallocSleep(p) \/ EventReturn(p) \/ Proceed(p)

\* scheduler goes round the table, so a process that is runnable again and again
\* runs again and again; its time slices are long enough to make progress, and
\* the timer ends them.
\* init calls wait for ever (user/init.c), and what it sleeps on happens.
Fairness ==
  /\ \A p \in Slots : SF_vars(Schedule(p)) /\ SF_vars(Proceed(p)) /\ WF_vars(Yield(p))
  /\ SF_vars(Wait(initproc)) /\ SF_vars(EventReturn(initproc)) /\ SF_vars(Wakeup)

Spec == Init /\ [][Next]_vars /\ Fairness

-----------------------------------------------------------------------------
\* The fields of the table and the local variables of the calls stay in range.
TypeOK ==
  /\ state \in [Slots -> States]
  /\ pid \in [Slots -> Nat]
  /\ parent \in [Slots -> Slots \cup {None}]
  /\ chan \in [Slots -> Slots \cup {None, Event}]
  /\ killed \in [Slots -> BOOLEAN]
  /\ nextpid \in Nat
  /\ pc \in [Slots -> Places]
  /\ kid \in [Slots -> Slots \cup {None}]
  /\ scan \in [Slots -> 1..NProc + 1]
  /\ found \in [Slots -> BOOLEAN]

Alive(p) == state[p] \in {"RUNNABLE", "RUNNING", "SLEEPING"}

\* Every process but init has a parent that is alive and can wait for it: exit
\* leaves no orphan behind, zombies included, and the slot of a parent is never
\* given to another process (proc.c:180).
ParentAlive ==
  \A p \in Slots \ {initproc} : Alive(p) \/ state[p] = "ZOMBIE" =>
    parent[p] # None /\ Alive(parent[p])

\* No two processes share a pid, so wait, exit and kill, which compare pids, find
\* the process they mean (proc.c:65, 181, 201).
PidsDiffer ==
  \A p, q \in Slots : state[p] # "UNUSED" /\ state[q] # "UNUSED" /\ pid[p] = pid[q] => p = q

\* A process asleep in wait has a child, and none of its children is a zombie:
\* the wakeup of an exit is never lost, not even when the child came to init
\* from a parent that exited (proc.c:183, 187, 257).
WaiterHasWork ==
  \A p \in Slots : state[p] = "SLEEPING" /\ chan[p] = p =>
    /\ \E i \in Slots : ChildOf(i, p) /\ state[i] # "UNUSED"
    /\ \A i \in Slots : ChildOf(i, p) => state[i] # "ZOMBIE"

\* wait refuses only a process without children.  The search lets go of the lock
\* after each slot, and processes become children of init meanwhile, in slots it
\* has passed (proc.c:232-246).
RefusedIsChildless ==
  \A p \in Slots : At(p, "scan") /\ scan[p] = NProc + 1 /\ ~found[p] =>
    \A i \in Slots : ChildOf(i, p) => state[i] = "UNUSED"

\* A wait with a zombie child returns (proc.c:250-258): the parent is woken, gets
\* the CPU and finds the zombie.
ZombieFound ==
  \A p \in Slots :
    (pc[p] = "reap" /\ \E q \in Slots : parent[q] = p /\ state[q] = "ZOMBIE") ~> pc[p] = "user"

\* A zombie child of init, its own or one that came to it from a parent that
\* exited, does not keep its slot (proc.c:180-186, 198-224).
OrphanReaped ==
  \A q \in Slots \ {initproc} : (parent[q] = initproc /\ state[q] = "ZOMBIE") ~> state[q] = "UNUSED"

\* "Kill the process with the given pid" (proc.c:428): a new process has not been
\* killed.
BornAlive ==
  [][\A i \in Slots : state[i] = "UNUSED" /\ state'[i] = "EMBRYO" => ~killed'[i]]_vars
=============================================================================
