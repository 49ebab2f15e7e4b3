--------------------------------- MODULE Cpu ---------------------------------
(***************************************************************************)
(* The one CPU: the interrupt flag, the nesting of pushcli and popcli and  *)
(* the spinlocks of kernel/spinlock.c, the gates of kernel/trap.c, and the *)
(* switches between processes and the scheduler of kernel/proc.c.          *)
(*                                                                         *)
(* A thread is a process or the scheduler.  Its frames are the traps it is *)
(* in, innermost last, each with the interrupt flag that iretq restores and *)
(* the locks that were held when it came.  A system call comes through a   *)
(* trap gate and leaves the flag alone, an interrupt or a page fault       *)
(* through an interrupt gate, which clears it.                             *)
(***************************************************************************)
EXTENDS Integers, Sequences, FiniteSets

CONSTANTS
    Procs, Scheduler,
    Locks,          \* spinlocks other than ptable.lock
    MaxHeld         \* bound: locks held at a time

ASSUME SchedulerAssumption == Scheduler \notin Procs

VARIABLES
    IF_,            \* FLAGS_IF of the processor
    ncli, intena,   \* of struct cpu
    held,           \* the spinlocks that are locked
    running,        \* the thread that has the CPU
    pc,             \* where each thread is
    frames,         \* the traps each thread is in: [kind, flag, base]
    saved,          \* the local intena of sched of each process
    panicked

vars == <<IF_, ncli, intena, held, running, pc, frames, saved, panicked>>

ptable  == "ptable"
Threads == Procs \cup {Scheduler}

\* main: the scheduler starts with interrupts on and every process is new,
\* with forkret in its context.
Init ==
    /\ IF_ = TRUE /\ ncli = 0 /\ intena = FALSE /\ held = {}
    /\ running = Scheduler
    /\ pc = [t \in Threads |-> IF t = Scheduler THEN "loop" ELSE "forkret"]
    /\ frames = [t \in Threads |-> <<>>]
    /\ saved = [t \in Threads |-> FALSE]
    /\ panicked = ""

Goto(t, there) == pc' = [pc EXCEPT ![t] = there]
Top(t) == frames[t][Len(frames[t])]
In(t, kinds) == frames[t] # <<>> /\ Top(t).kind \in kinds
Active == pc[running] \in {"run", "loop"}   \* neither in a switch nor in forkret
-----------------------------------------------------------------------------
(* spinlock.c, as functions of the CPU's state c = [f, n, e, h]. *)

Cpu == [f |-> IF_, n |-> ncli, e |-> intena, h |-> held, bad |-> ""]
SetCpu(c) == /\ IF_' = c.f /\ ncli' = c.n /\ intena' = c.e /\ held' = c.h
             /\ panicked' = c.bad

pushcli(c) == [c EXCEPT !.f = FALSE, !.n = @ + 1, !.e = IF c.n = 0 THEN c.f ELSE @]

popcli(c) ==
    [c EXCEPT !.n = @ - 1, !.f = (c.n = 1 /\ c.e),
              !.bad = IF @ # "" THEN @ ELSE IF c.f THEN "popcli - interruptible"
                      ELSE IF c.n <= 0 THEN "popcli" ELSE ""]

holding(c, l) == l \in c.h
acquire(c, l) ==
    LET d == pushcli(c)
    IN  IF holding(d, l) THEN [d EXCEPT !.bad = "acquire"]
        ELSE [d EXCEPT !.h = @ \cup {l}]
release(c, l) ==
    IF ~holding(c, l) THEN [c EXCEPT !.bad = "release"]
    ELSE popcli([c EXCEPT !.h = @ \ {l}])

\* What sched asserts before swtch.
schedChecked(c) ==
    CASE ~holding(c, ptable) -> [c EXCEPT !.bad = "sched ptable.lock"]
      [] c.n # 1 -> [c EXCEPT !.bad = "sched locks"]
      [] c.f -> [c EXCEPT !.bad = "sched interruptible"]
      [] OTHER -> c
-----------------------------------------------------------------------------
(* Traps. *)

Trapped(kind) == [frames EXCEPT ![running] =
                     Append(@, [kind |-> kind, flag |-> IF_, base |-> held])]

\* A device interrupts whoever runs.  The handler takes a lock or two
\* (tickslock, the queue of the disk) and wakes sleepers.
Interrupt ==
    /\ IF_
    /\ frames' = Trapped("irq")
    /\ IF_' = FALSE
    /\ UNCHANGED <<ncli, intena, held, running, pc, saved, panicked>>

\* A process touches a page of its own that needs a copy or does not exist
\* yet: in user mode, or in a system call, with whatever locks it has.
PageFault ==
    /\ running \in Procs /\ Active /\ ~In(running, {"irq", "fault"})
    /\ frames' = Trapped("fault")
    /\ IF_' = FALSE
    /\ UNCHANGED <<ncli, intena, held, running, pc, saved, panicked>>

Syscall ==
    /\ running \in Procs /\ Active /\ frames[running] = <<>>
    /\ frames' = Trapped("sys")
    /\ UNCHANGED <<IF_, ncli, intena, held, running, pc, saved, panicked>>

\* The locks that the innermost trap has taken itself.
Own == held \ Top(running).base

\* trap returns: no lock of its own is left, and iretq restores the flag.
TrapRet ==
    /\ frames[running] # <<>> /\ Active /\ Own = {}
    /\ IF_' = Top(running).flag
    /\ frames' = [frames EXCEPT ![running] = SubSeq(@, 1, Len(@) - 1)]
    /\ UNCHANGED <<ncli, intena, held, running, pc, saved, panicked>>

\* The kernel code of a trap takes and gives back locks, never one that it
\* or the code it interrupted has.
Acquire(l) ==
    /\ frames[running] # <<>> /\ Active /\ Cardinality(held) < MaxHeld /\ l \notin held
    /\ SetCpu(acquire(Cpu, l))
    /\ UNCHANGED <<running, pc, frames, saved>>

Release(l) ==
    /\ frames[running] # <<>> /\ Active /\ l \in Own
    /\ SetCpu(release(Cpu, l))
    /\ UNCHANGED <<running, pc, frames, saved>>
-----------------------------------------------------------------------------
(* Switching. *)

\* sched: intena is kept in a local, and the scheduler goes on.
Switch(c, there) ==
    /\ SetCpu(schedChecked(c))
    /\ saved' = [saved EXCEPT ![running] = c.e]
    /\ Goto(running, there)
    /\ running' = Scheduler

\* The timer's handler, when it interrupted a process.
yield ==
    /\ running \in Procs /\ Active /\ In(running, {"irq"}) /\ held = {}
    /\ Switch(acquire(Cpu, ptable), "yield")
    /\ UNCHANGED frames

\* A system call sleeps with one lock, which it gives back: wait with
\* ptable.lock itself.
sleep(l) ==
    /\ running \in Procs /\ Active /\ In(running, {"sys"}) /\ held = {l}
    /\ Switch(IF l = ptable THEN Cpu ELSE release(acquire(Cpu, ptable), l),
              IF l = ptable THEN "wait" ELSE "sleep")
    /\ UNCHANGED frames

\* exit, in a system call or in another trap from user mode.  What runs next
\* in this entry of the table is a new process.
exit ==
    /\ running \in Procs /\ Active /\ Len(frames[running]) = 1 /\ held = {}
    /\ Switch(acquire(Cpu, ptable), "forkret")
    /\ frames' = [frames EXCEPT ![running] = <<>>]

\* The scheduler's loop: sti, which does nothing with interrupts on, acquire,
\* then a process that can run, or the end of the round.
sti ==
    /\ running = Scheduler /\ Active /\ frames[Scheduler] = <<>> /\ ~IF_
    /\ IF_' = TRUE
    /\ UNCHANGED <<ncli, intena, held, running, pc, frames, saved, panicked>>

Round ==
    /\ running = Scheduler /\ Active /\ frames[Scheduler] = <<>> /\ IF_
    /\ SetCpu(acquire(Cpu, ptable))
    /\ Goto(Scheduler, "choose")
    /\ UNCHANGED <<running, frames, saved>>

Choose(p) ==
    /\ running = Scheduler /\ pc[Scheduler] = "choose"
    /\ running' = p
    /\ UNCHANGED <<IF_, ncli, intena, held, pc, frames, saved, panicked>>

RoundEnd ==
    /\ running = Scheduler /\ pc[Scheduler] = "choose"
    /\ SetCpu(release(Cpu, ptable))
    /\ Goto(Scheduler, "loop")
    /\ UNCHANGED <<running, frames, saved>>

\* A process that had never run leaves forkret and reaches user mode.
forkret ==
    /\ pc[running] = "forkret"
    /\ SetCpu([release(Cpu, ptable) EXCEPT !.f = TRUE])
    /\ Goto(running, "run")
    /\ UNCHANGED <<running, frames, saved>>

\* sched returns with the local value of intena.  yield and sleep release
\* ptable.lock; wait goes on with it.  The lock that sleep takes again is an
\* Acquire like any other, as the process can be interrupted before it.
RestoredNot(c) == c
Restored(c) == [c EXCEPT !.e = saved[running]]
Resume ==
    /\ pc[running] \in {"yield", "sleep", "wait"}
    /\ SetCpu(IF pc[running] = "wait" THEN Restored(Cpu) ELSE release(Restored(Cpu), ptable))
    /\ Goto(running, "run")
    /\ saved' = [saved EXCEPT ![running] = FALSE]
    /\ UNCHANGED <<running, frames>>
-----------------------------------------------------------------------------
Next ==
    /\ panicked = ""
    /\ \/ Interrupt \/ PageFault \/ Syscall \/ TrapRet \/ yield \/ exit
       \/ sti \/ Round \/ RoundEnd \/ forkret \/ Resume
       \/ \E p \in Procs : Choose(p)
       \/ \E l \in Locks \cup {ptable} : Acquire(l) \/ Release(l) \/ sleep(l)

Spec == Init /\ [][Next]_vars
-----------------------------------------------------------------------------
(* Properties. *)

(* The matched pushcli and popcli count the locks that are held, across     *)
(* every switch, and interrupts stay off until the last one is released.    *)
NestingCounts == ncli = Cardinality(held) /\ (held # {} => ~IF_)

(* An interrupt handler is never interrupted, also after it has yielded and *)
(* other threads, with interrupts on, have used the same intena.            *)
HandlerAlone == Active /\ In(running, {"irq", "fault"}) => ~IF_

(* A system call that holds no lock can be interrupted: no sleep and no     *)
(* switch leaves it with interrupts off.                                    *)
SyscallOpen ==
    running \in Procs /\ Active /\ held = {} /\ ~In(running, {"irq", "fault"}) => IF_

(* No assertion of spinlock.c or of sched about locks and interrupts fails. *)
NoPanic == panicked = ""

(* The interrupt flag is what the code that runs expects, although intena   *)
(* belongs to the process and is kept in the CPU (spinlock.c:96).           *)
InterruptsKept == NestingCounts /\ HandlerAlone /\ SyscallOpen /\ NoPanic
=============================================================================
