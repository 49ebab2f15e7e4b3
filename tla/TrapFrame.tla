------------------------------ MODULE TrapFrame ------------------------------
(***************************************************************************)
(* The way into the kernel and out of it: kernel/vectors.S, trapasm.S and  *)
(* swtch.S, against the C structures laid over the stack, struct           *)
(* trap_frame (inc/trap.h) and struct context (inc/proc.h).                *)
(*                                                                         *)
(* One process and the scheduler.  A register holds a value that only says *)
(* whose it is: <<owner, name>>.  The stack is a sequence, its top first,  *)
(* so that a structure at the stack pointer is the front of the sequence.  *)
(***************************************************************************)
EXTENDS Integers, Sequences, SequencesExt

CONSTANT Vectors    \* the vectors of interest, of 0 .. 255

VARIABLES
    at,             \* where control is
    regs,           \* the processor's registers, rsp and ss aside
    kstack,         \* the kernel stack of the process, top first
    sstack,         \* the stack of the scheduler, top first
    vector          \* of the trap being handled

vars == <<at, regs, kstack, sstack, vector>>

General == {"rax", "rbx", "rcx", "rdx", "rbp", "rsi", "rdi",
            "r8", "r9", "r10", "r11", "r12", "r13", "r14", "r15"}

trap_frame == <<"rax", "rbx", "rcx", "rdx", "rbp", "rsi", "rdi", "r8", "r9", "r10", "r11",
                "r12", "r13", "r14", "r15", "trapno", "err", "rip", "cs", "rflags", "rsp", "ss">>
context == <<"r15", "r14", "r13", "r12", "r11", "rbx", "rbp", "rip">>

\* The processor pushes these, and an error code for some exceptions.
Hardware   == <<"rip", "cs", "rflags", "rsp", "ss">>
ErrorCodes == {8, 10, 11, 12, 13, 14, 17}

Of(owner, names) == [i \in 1 .. Len(names) |-> <<owner, names[i]>>]
\* The stack after these pushes, and the registers after these pops.
Pushed(r, names) == Reverse([i \in 1 .. Len(names) |-> r[names[i]]])
Popped(r, names, stack) ==
    [n \in General |-> IF n \in Range(names)
                       THEN stack[CHOOSE i \in 1 .. Len(names) : names[i] = n] ELSE r[n]]
Drop(stack, n) == SubSeq(stack, n + 1, Len(stack))

\* allocproc, then fork or the first process: the trap frame of a process
\* that will start in user mode, trapret as return address, and a zeroed
\* context with rip at forkret.
NewContext ==
    [i \in 1 .. Len(context) |-> IF context[i] = "rip" THEN <<"kernel", "forkret">> ELSE <<"zero", "">>]
NewStack == NewContext \o <<<<"kernel", "trapret">>>> \o Of("user", trap_frame)

\* scheduler() runs, and the process has never run.
Init ==
    /\ at = "scheduler"
    /\ regs = [n \in General |-> <<"sched", n>>]
    /\ kstack = NewStack
    /\ sstack = <<>>
    /\ vector = 0
-----------------------------------------------------------------------------
(* vectors.S and trapasm.S. *)

alltraps == <<"r15", "r14", "r13", "r12", "r11", "r10", "r9", "r8",
              "rdi", "rsi", "rbp", "rdx", "rcx", "rbx", "rax">>
TrapPops == <<"rax", "rbx", "rcx", "rdx", "rbp", "rsi", "rdi",
              "r8", "r9", "r10", "r11", "r12", "r13", "r14", "r15">>

\* The processor enters vector v in the middle of user code.
HardwarePush(v) == (IF v \in ErrorCodes THEN <<<<"cpu", "err">>>> ELSE <<>>) \o Of("user", Hardware)

\* vectorN: a 0 in place of the error code, then the number.
VectorPushShort(v) ==
    <<<<"trapno", v>>>> \o IF v \in {8} \cup 10 .. 17 THEN <<>> ELSE <<<<"zero", "err">>>>
VectorPush(v) ==
    <<<<"trapno", v>>>> \o IF v \in {8, 10, 11, 12, 13, 14, 17} THEN <<>> ELSE <<<<"zero", "err">>>>

Trap(v) ==
    /\ at = "user"
    /\ vector' = v
    /\ kstack' = Pushed(regs, alltraps) \o VectorPush(v) \o HardwarePush(v) \o kstack
    /\ at' = "trap"
    /\ UNCHANGED <<regs, sstack>>

\* trap runs C code, which uses every register.
Handle ==
    /\ at = "trap" /\ vector # 32
    /\ regs' = [n \in General |-> <<"C", n>>]
    /\ at' = "trapret"
    /\ UNCHANGED <<kstack, sstack, vector>>

\* trapret: fifteen pops, over the number and the error code, and iretq, which
\* goes to user code if what it finds are the five words the processor pushed.
trapret ==
    /\ at = "trapret"
    /\ regs' = Popped(regs, TrapPops, kstack)
    /\ LET rest == Drop(kstack, Len(TrapPops) + 2)
       IN  /\ at' = IF IsPrefix(Of("user", Hardware), rest) THEN "user" ELSE "nowhere"
           /\ kstack' = Drop(rest, Len(Hardware))
    /\ UNCHANGED <<sstack, vector>>
-----------------------------------------------------------------------------
(* swtch.S: the caller's call has pushed its rip. *)

SwtchPushes == <<"rbp", "rbx", "r11", "r12", "r13", "r14", "r15">>
SwtchPops == <<"r15", "r14", "r13", "r12", "r11", "rbx", "rbp">>
swtchPush(r, owner) == Pushed(r, SwtchPushes) \o <<<<owner, "rip">>>>
swtchPop(stack) == Popped([n \in General |-> <<"C", n>>], SwtchPops, stack)

\* A timer interrupt: C code reaches sched, which switches to the scheduler.
sched ==
    /\ at = "trap" /\ vector = 32
    /\ kstack' = swtchPush([n \in General |-> <<"proc", n>>], "proc") \o kstack
    /\ regs' = swtchPop(sstack)
    /\ sstack' = Drop(sstack, Len(context))
    /\ at' = "scheduler"
    /\ UNCHANGED vector

\* The scheduler switches to the process: ret goes to the rip of its context.
ToProcess ==
    /\ at = "scheduler"
    /\ sstack' = swtchPush([n \in General |-> <<"sched", n>>], "sched") \o sstack
    /\ regs' = swtchPop(kstack)
    /\ kstack' = Drop(kstack, Len(context))
    /\ at' = kstack[Len(SwtchPops) + 1][2]
    /\ UNCHANGED vector

\* forkret returns to the address allocproc left, and yield through trap to
\* the end of alltraps.
forkret ==
    /\ at = "forkret"
    /\ at' = kstack[1][2]
    /\ kstack' = Tail(kstack)
    /\ UNCHANGED <<regs, sstack, vector>>
Resume ==
    /\ at = "rip"
    /\ at' = "trapret"
    /\ UNCHANGED <<regs, kstack, sstack, vector>>

Next == (\E v \in Vectors : Trap(v)) \/ Handle \/ trapret \/ sched \/ ToProcess \/ forkret \/ Resume

Spec == Init /\ [][Next]_vars
-----------------------------------------------------------------------------
(* Properties. *)

Field(name) ==
    CASE name = "trapno" -> <<"trapno", vector>>
      [] name = "err" -> IF vector \in ErrorCodes THEN <<"cpu", "err">> ELSE <<"zero", "err">>
      [] OTHER -> <<"user", name>>

(* What lies at the stack pointer when trap is called is a struct           *)
(* trap_frame: every field has the register, the number or the error code   *)
(* of its name, for every vector, with an error code or without.            *)
FrameIsStruct ==
    at = "trap" => kstack = [i \in 1 .. Len(trap_frame) |-> Field(trap_frame[i])]

(* A program that is interrupted, switched out and resumed, or that starts  *)
(* for the first time through forkret and trapret, runs in user mode with   *)
(* its own registers and an empty kernel stack.                             *)
UserRestored == at = "user" => kstack = <<>> /\ \A n \in General : regs[n] = <<"user", n>>

(* The scheduler finds its own saved registers when swtch comes back to it, *)
(* and control only ever goes to code.                                      *)
SchedulerRestored ==
    /\ at = "scheduler" => sstack = <<>> /\ \A n \in Range(SwtchPops) : regs[n] = <<"sched", n>>
    /\ at \in {"user", "trap", "trapret", "scheduler", "forkret", "rip"}

(* Every register and every field is where its reader looks for it: the     *)
(* vectors, trapasm.S, swtch.S and allocproc agree on the stack.            *)
RegistersKept == FrameIsStruct /\ UserRestored /\ SchedulerRestored
=============================================================================
