----------------------------- MODULE CpuProofs ------------------------------
(***************************************************************************)
(* The interrupt flag is what the code that runs expects, for any number   *)
(* of processes and locks.                                                 *)
(*                                                                         *)
(* intena is one variable of the CPU, and what it must be depends on who   *)
(* runs: it is on for a system call that holds locks and off for a handler *)
(* (Flags).  That a thread finds it so when it gets the CPU back is what   *)
(* sched's local copy is for, so the invariant says what each thread that  *)
(* waits has saved (Waiting), and that traps nest at most two deep, the    *)
(* inner one with the flag that fits the locks of the outer (Nested).      *)
(***************************************************************************)
EXTENDS Cpu, FiniteSetTheorems, SequenceTheorems, TLAPS

Frame == [kind : {"sys", "irq", "fault"}, flag : BOOLEAN, base : SUBSET (Locks \cup {ptable})]
Points == {"loop", "choose", "run", "forkret", "yield", "sleep", "wait"}

\* The variables keep their types, and ncli counts the locks.
Types ==
    /\ IF_ \in BOOLEAN /\ intena \in BOOLEAN
    /\ held \subseteq Locks \cup {ptable} /\ IsFiniteSet(held) /\ ncli = Cardinality(held)
    /\ running \in Threads
    /\ pc \in [Threads -> Points]
    /\ frames \in [Threads -> Seq(Frame)]
    /\ saved \in [Threads -> BOOLEAN]
    /\ panicked = ""

\* The traps of a thread: a system call, and an interrupt or a fault inside of
\* it or of user mode.  Only a fault comes while locks are held.
Nested(s) ==
    /\ Len(s) <= 2
    /\ \A i \in 1 .. Len(s) : /\ s[i].flag <=> s[i].base = {}
                              /\ s[i].kind # "fault" \/ i = 1 => s[i].base = {}
    /\ Len(s) = 2 => s[1].kind = "sys" /\ s[2].kind # "sys"

\* Where a process can be that does not run, and the intena it keeps.
Waiting(p) ==
    /\ pc[p] \in {"run", "forkret", "yield", "sleep", "wait"}
    /\ pc[p] = "run" => running = p
    /\ pc[p] = "forkret" => frames[p] = <<>>
    /\ pc[p] = "yield" => In(p, {"irq"}) /\ ~saved[p]
    /\ pc[p] \in {"sleep", "wait"} => In(p, {"sys"}) /\ saved[p]

\* The scheduler is interrupted only between two rounds.
SchedulerAt ==
    /\ pc[Scheduler] \in {"loop", "choose"}
    /\ running # Scheduler => pc[Scheduler] = "choose"
    /\ pc[Scheduler] = "choose" => frames[Scheduler] = <<>>
    /\ Len(frames[Scheduler]) <= 1
    /\ frames[Scheduler] # <<>> => In(Scheduler, {"irq"})

\* An interrupt handler or a fault handler runs.
Handler == In(running, {"irq", "fault"})
\* The flag and intena, by what runs.
Flags ==
    /\ IF_ => held = {}
    /\ ~Active => held = {ptable} /\ ~IF_
    /\ Active =>
         /\ frames[running] = <<>> => held = {}
         /\ frames[running] # <<>> => Top(running).base \subseteq held
         /\ Handler => ~IF_
         /\ running \in Procs /\ ~Handler /\ held = {} => IF_
         /\ held # {} => (intena <=> ~(Handler /\ Top(running).base = {}))

\* The inductive invariant.
IInv ==
    /\ Types
    /\ \A t \in Threads : Nested(frames[t])
    /\ \A p \in Procs : Waiting(p)
    /\ SchedulerAt
    /\ Flags

-----------------------------------------------------------------------------
\* A trap is pushed on the frames of a thread ...
LEMMA Push ==
    ASSUME NEW S, NEW s \in Seq(S), NEW f \in S
    PROVE  /\ Append(s, f) \in Seq(S) /\ Append(s, f) # <<>>
           /\ Len(Append(s, f)) = Len(s) + 1
           /\ Append(s, f)[Len(s) + 1] = f
           /\ \A i \in 1 .. Len(s) : Append(s, f)[i] = s[i]
  OBVIOUS

\* ... and popped.
LEMMA Pop ==
    ASSUME NEW S, NEW s \in Seq(S), s # <<>>, NEW n \in Nat, n = Len(s) - 1
    PROVE  /\ SubSeq(s, 1, n) \in Seq(S)
           /\ Len(SubSeq(s, 1, n)) = n
           /\ \A i \in 1 .. n : SubSeq(s, 1, n)[i] = s[i]
  <1>1. SubSeq(s, 1, n) \in Seq(S)
    BY SubSeqProperties
  <1>2. Len(SubSeq(s, 1, n)) = n
    OBVIOUS
  <1>3. \A i \in 1 .. n : SubSeq(s, 1, n)[i] = s[i]
    OBVIOUS
  <1> QED
    BY <1>1, <1>2, <1>3, Zenon

\* A sequence is empty when its length is 0.
LEMMA Empty ==
    ASSUME NEW S, NEW s \in Seq(S)
    PROVE  Len(s) \in Nat /\ (s = <<>> <=> Len(s) = 0)
  OBVIOUS

\* acquire of a lock that is free.
LEMMA Acquired ==
    ASSUME NEW l, l \notin held, IsFiniteSet(held), ncli = Cardinality(held)
    PROVE  LET d == acquire(Cpu, l)
           IN  /\ d.f = FALSE
               /\ d.n = ncli + 1
               /\ d.e = IF held = {} THEN IF_ ELSE intena
               /\ d.h = held \cup {l}
               /\ d.bad = ""
               /\ ncli + 1 = Cardinality(held \cup {l}) /\ IsFiniteSet(held \cup {l})
  <1>1. ncli \in Nat /\ (ncli = 0 <=> held = {})
    BY FS_CardinalityType, FS_EmptySet, Zenon
  <1>2. IsFiniteSet(held \cup {l}) /\ ncli + 1 = Cardinality(held \cup {l})
    BY FS_AddElement, Zenon
  <1> QED
    BY <1>1, <1>2, Zenon DEF acquire, pushcli, holding, Cpu

\* The count of the locks without one of them.
LEMMA OneLess ==
    ASSUME NEW l, l \in held, IsFiniteSet(held), ncli = Cardinality(held)
    PROVE  /\ ncli \in Nat /\ ncli # 0 /\ (ncli = 1 <=> held = {l})
           /\ ncli - 1 = Cardinality(held \ {l}) /\ IsFiniteSet(held \ {l})
  <1>1. ncli \in Nat /\ ncli # 0
    BY FS_CardinalityType, FS_EmptySet, Zenon
  <1>2. IsFiniteSet(held \ {l}) /\ ncli - 1 = Cardinality(held \ {l})
    BY FS_RemoveElement, Zenon
  <1>3. ncli = 1 <=> held = {l}
    <2>1. Cardinality(held \ {l}) = 0 <=> held \ {l} = {}
      BY <1>2, FS_EmptySet, Zenon
    <2> QED
      BY <1>1, <1>2, <2>1
  <1> QED
    BY <1>1, <1>2, <1>3, Zenon

\* release of a lock that is held, with interrupts off.
LEMMA Released ==
    ASSUME NEW l, l \in held, IsFiniteSet(held), ncli = Cardinality(held), ~IF_
    PROVE  LET d == release(Cpu, l)
           IN  /\ d.f = (held = {l} /\ intena)
               /\ d.n = ncli - 1
               /\ d.e = intena
               /\ d.h = held \ {l}
               /\ d.bad = ""
               /\ ncli - 1 = Cardinality(held \ {l}) /\ IsFiniteSet(held \ {l})
  <1>1. /\ ncli \in Nat /\ ncli # 0 /\ (ncli = 1 <=> held = {l})
        /\ ncli - 1 = Cardinality(held \ {l}) /\ IsFiniteSet(held \ {l})
    BY OneLess, Zenon
  <1> QED
    BY <1>1 DEF release, popcli, holding, Cpu

\* sleep takes ptable.lock and then gives back the caller's.
LEMMA Handed ==
    ASSUME NEW l, l # ptable, held = {l}, ncli = 1, ~IF_
    PROVE  LET d == release(acquire(Cpu, ptable), l)
           IN  /\ d.f = FALSE
               /\ d.n = 1
               /\ d.e = intena
               /\ d.h = {ptable}
               /\ d.bad = ""
  <1> DEFINE c == [[Cpu EXCEPT !.f = FALSE, !.n = @ + 1, !.e = IF Cpu.n = 0 THEN Cpu.f ELSE @]
                      EXCEPT !.h = @ \cup {ptable}]
             d == [c EXCEPT !.h = @ \ {l}]
  <1>1. ({l} \cup {ptable}) \ {l} = {ptable} /\ ptable \notin {l}
    BY Zenon
  <1>2. acquire(Cpu, ptable) = c
    BY <1>1, Zenon DEF acquire, pushcli, holding, Cpu
  <1>3. c.n = 2 /\ c.e = intena /\ c.h = {l} \cup {ptable} /\ c.bad = "" /\ c.f = FALSE
    BY DEF Cpu
  <1>4. release(c, l) = popcli(d)
    BY <1>3, Zenon DEF release, holding
  <1>5. d.n = 2 /\ d.e = intena /\ d.h = {ptable} /\ d.bad = "" /\ d.f = FALSE
    BY <1>1 DEF Cpu
  <1>6. popcli(d).n = d.n - 1 /\ popcli(d).e = d.e /\ popcli(d).h = d.h
    BY DEF popcli, Cpu
  <1>7. popcli(d).f = FALSE /\ popcli(d).bad = ""
    <2>1. /\ popcli(d).f = (d.n = 1 /\ d.e)
          /\ popcli(d).bad = IF d.bad # "" THEN d.bad ELSE IF d.f THEN "popcli - interruptible"
                             ELSE IF d.n <= 0 THEN "popcli" ELSE ""
      BY Zenon DEF popcli, Cpu
    <2>2. 2 # 1 /\ ~(2 <= 0)
      OBVIOUS
    <2> HIDE DEF c, d
    <2> QED
      BY <1>5, <2>1, <2>2, Zenon
  <1> HIDE DEF c, d
  <1>8. popcli(d).n = 1
    <2>1. 2 - 1 = 1
      OBVIOUS
    <2> QED
      BY <1>5, <1>6, <2>1, Zenon
  <1> QED
    BY <1>2, <1>4, <1>5, <1>6, <1>7, <1>8, Zenon
-----------------------------------------------------------------------------
\* main leaves a scheduler with interrupts on and processes in forkret.
LEMMA InitInv ==
    ASSUME Scheduler \notin Procs, Init
    PROVE  IInv
  <1>1. Types
    <2>1. IsFiniteSet({}) /\ Cardinality({}) = 0
      BY FS_EmptySet, Zenon
    <2>2. pc \in [Threads -> Points] /\ running \in Threads /\ saved \in [Threads -> BOOLEAN]
      BY Zenon DEF Init, Threads, Points
    <2>3. frames \in [Threads -> Seq(Frame)]
      <3>1. <<>> \in Seq(Frame)
        OBVIOUS
      <3> QED
        BY <3>1, Zenon DEF Init
    <2> QED
      BY <2>1, <2>2, <2>3, Zenon DEF Init, Types
  <1>2. \A t \in Threads : frames[t] = <<>>
    BY Zenon DEF Init
  <1>3. \A t \in Threads : Nested(frames[t])
    BY <1>2 DEF Nested
  <1>4. \A p \in Procs : Waiting(p)
    BY <1>2, Zenon DEF Init, Waiting, Threads
  <1>5. Scheduler \in Threads /\ Len(frames[Scheduler]) = 0
    BY <1>2 DEF Threads
  <1>6. SchedulerAt
    <2>1. pc[Scheduler] = "loop" /\ running = Scheduler
      BY <1>5, Zenon DEF Init
    <2> QED
      BY <1>2, <1>5, <2>1 DEF SchedulerAt
  <1>7. Flags
    BY <1>2, <1>5, Zenon DEF Init, Flags, Handler, In, Active
  <1> QED
    BY <1>1, <1>3, <1>4, <1>6, <1>7, Zenon DEF IInv

\* The innermost trap of a thread.
LEMMA TopIs ==
    ASSUME IInv, NEW t \in Threads, frames[t] # <<>>
    PROVE  /\ Len(frames[t]) = 1 \/ Len(frames[t]) = 2
           /\ Top(t) \in Frame /\ Top(t) = frames[t][Len(frames[t])]
           /\ Len(frames[t]) = 2 => Top(t).kind # "sys" /\ frames[t][1].kind = "sys"
           /\ Top(t).flag <=> Top(t).base = {}
           /\ Top(t).kind # "fault" => Top(t).base = {}
  <1>1. frames[t] \in Seq(Frame) /\ Nested(frames[t])
    BY Zenon DEF IInv, Types
  <1> DEFINE s == frames[t]
  <1> HIDE DEF s
  <1>2. s \in Seq(Frame) /\ Nested(s) /\ s # <<>> /\ Top(t) = s[Len(s)]
    BY <1>1, Zenon DEF s, Top
  <1>3. Len(s) = 1 \/ Len(s) = 2
    <2>1. Len(s) \in Nat /\ Len(s) # 0
      BY <1>2, Empty, Zenon
    <2>2. Len(s) <= 2
      BY <1>2, Zenon DEF Nested
    <2>3. \A n \in Nat : n # 0 /\ n <= 2 => n = 1 \/ n = 2
      OBVIOUS
    <2> QED
      BY <2>1, <2>2, <2>3, Zenon
  <1>4. s[Len(s)] \in Frame /\ Len(s) \in 1 .. Len(s)
    BY <1>2, <1>3
  <1>5. Len(s) = 2 => s[1].kind = "sys" /\ s[Len(s)].kind # "sys"
    BY <1>2, Zenon DEF Nested
  <1>6. /\ s[Len(s)].flag <=> s[Len(s)].base = {}
        /\ s[Len(s)].kind # "fault" => s[Len(s)].base = {}
    BY <1>2, <1>4, Zenon DEF Nested
  <1> QED
    BY <1>2, <1>3, <1>4, <1>5, <1>6, Zenon DEF s

\* What a trap does to the frames.
LEMMA Trapping ==
    ASSUME Scheduler \notin Procs, IInv, NEW k \in {"sys", "irq", "fault"},
           frames' = Trapped(k), UNCHANGED <<ncli, intena, held, running, pc, saved, panicked>>,
           IF_' \in BOOLEAN, Active, ~Handler, IF_ <=> held = {},
           running = Scheduler => k = "irq",
           k = "sys" => frames[running] = <<>>,
           k # "fault" => held = {}
    PROVE  /\ Types' /\ (\A t \in Threads : Nested(frames[t]))' /\ SchedulerAt'
           /\ (\A p \in Procs : Waiting(p))'
           /\ frames'[running] # <<>>
           /\ Top(running)' = [kind |-> k, flag |-> IF_, base |-> held]
  <1> DEFINE f == [kind |-> k, flag |-> IF_, base |-> held]
  <1>1. f \in Frame /\ running \in Threads /\ frames[running] \in Seq(Frame)
    BY Zenon DEF IInv, Types, Frame
  <1>2. /\ frames' = [frames EXCEPT ![running] = Append(frames[running], f)]
        /\ frames'[running] = Append(frames[running], f)
        /\ \A t \in Threads : t # running => frames'[t] = frames[t]
    BY <1>1, Zenon DEF Trapped, IInv, Types
  <1>3. /\ frames'[running] \in Seq(Frame) /\ frames'[running] # <<>>
        /\ Len(frames'[running]) = Len(frames[running]) + 1
        /\ frames'[running][Len(frames[running]) + 1] = f
        /\ \A i \in 1 .. Len(frames[running]) : frames'[running][i] = frames[running][i]
    BY <1>1, <1>2, Push
  <1>4. Types'
    BY <1>1, <1>2, <1>3, Zenon DEF IInv, Types
  <1>5. Top(running)' = f
    BY <1>3, Zenon DEF Top
  <1>6. Len(frames[running]) = 0 \/ Len(frames[running]) = 1
    <2>1. CASE frames[running] = <<>>
      BY <2>1, Zenon
    <2>2. CASE frames[running] # <<>>
      BY <1>1, <2>2, TopIs, Zenon DEF Handler, In, Frame
    <2> QED
      BY <2>1, <2>2, Zenon
  <1>7. frames[running] # <<>> => frames[running][1].kind = "sys"
    BY <1>1, <1>6, TopIs, Zenon DEF Handler, In, Frame
  <1>8. frames[running] = <<>> => held = {}
    BY Zenon DEF IInv, Flags
  <1>9. Nested(frames'[running])
    <2>1. Nested(frames[running])
      BY <1>1, Zenon DEF IInv
    <2>2. Len(frames'[running]) <= 2
      BY <1>3, <1>6
    <2>3. ASSUME NEW i \in 1 .. Len(frames'[running])
          PROVE  /\ frames'[running][i].flag <=> frames'[running][i].base = {}
                 /\ frames'[running][i].kind # "fault" \/ i = 1 => frames'[running][i].base = {}
      <3>1. CASE i = Len(frames[running]) + 1
        BY <1>3, <1>6, <1>8, <3>1, <1>1, Empty
      <3>2. CASE i # Len(frames[running]) + 1
        BY <1>3, <1>6, <2>1, <3>2 DEF Nested
      <3> QED
        BY <3>1, <3>2, Zenon
    <2>4. Len(frames'[running]) = 2 => frames'[running][1].kind = "sys" /\ frames'[running][2].kind # "sys"
      BY <1>3, <1>6, <1>7, <1>1, Empty
    <2> QED
      BY <2>2, <2>3, <2>4, Zenon DEF Nested
  <1>10. (\A t \in Threads : Nested(frames[t]))'
    BY <1>2, <1>9, Zenon DEF IInv
  <1>11. SchedulerAt'
    <2>1. CASE running = Scheduler
      <3>1. frames[Scheduler] = <<>>
        BY <2>1, <1>7, <1>6, <1>1, TopIs DEF IInv, SchedulerAt, In
      <3> QED
        <4>1. Len(frames'[Scheduler]) = 1 /\ frames'[Scheduler] # <<>>
          BY <1>3, <2>1, <3>1
        <4>2. In(Scheduler, {"irq"})'
          BY <1>5, <2>1, <4>1 DEF In
        <4>3. pc[Scheduler] = "loop"
          BY <2>1, Zenon DEF IInv, SchedulerAt, Active
        <4> QED
          BY <2>1, <4>1, <4>2, <4>3 DEF SchedulerAt
    <2>2. CASE running # Scheduler
      BY <1>2, <2>2, Zenon DEF IInv, SchedulerAt, In, Top, Threads
    <2> QED
      BY <2>1, <2>2, Zenon
  <1>12. (\A p \in Procs : Waiting(p))'
    <2>1. ASSUME NEW p \in Procs, p = running PROVE Waiting(p)'
      BY <2>1, Zenon DEF IInv, Waiting, Active
    <2>2. ASSUME NEW p \in Procs, p # running PROVE Waiting(p)'
      BY <2>2, <1>2 DEF IInv, Waiting, In, Top, Threads
    <2> QED
      BY <2>1, <2>2, Zenon
  <1> QED
    BY <1>3, <1>4, <1>5, <1>10, <1>11, <1>12, Zenon

\* Interrupts are off in a handler, so it is a process or the scheduler that is
\* interrupted, without locks.
LEMMA InterruptInv ==
    ASSUME Scheduler \notin Procs, IInv, Interrupt
    PROVE  IInv'
  <1>1. Active /\ ~Handler /\ held = {}
    BY Zenon DEF IInv, Flags, Interrupt
  <1>2. /\ Types' /\ (\A t \in Threads : Nested(frames[t]))' /\ SchedulerAt'
        /\ (\A p \in Procs : Waiting(p))'
        /\ frames'[running] # <<>>
        /\ Top(running)' = [kind |-> "irq", flag |-> IF_, base |-> held]
    <2>1. IF_ <=> held = {}
      BY <1>1, Zenon DEF Interrupt
    <2>2. IF_' \in BOOLEAN
      BY Zenon DEF Interrupt
    <2> QED
      BY <1>1, <2>1, <2>2, Trapping, Zenon DEF Interrupt
  <1>3. Flags'
    BY <1>1, <1>2 DEF Interrupt, Flags, Handler, In, Active
  <1> QED
    BY <1>2, <1>3, Zenon DEF IInv

\* A fault comes with the locks of its system call, for which intena is on.
LEMMA PageFaultInv ==
    ASSUME Scheduler \notin Procs, IInv, PageFault
    PROVE  IInv'
  <1>1. Active /\ ~Handler /\ (IF_ <=> held = {}) /\ running # Scheduler
    BY Zenon DEF IInv, Flags, PageFault, Handler
  <1>2. /\ Types' /\ (\A t \in Threads : Nested(frames[t]))' /\ SchedulerAt'
        /\ (\A p \in Procs : Waiting(p))'
        /\ frames'[running] # <<>>
        /\ Top(running)' = [kind |-> "fault", flag |-> IF_, base |-> held]
    <2>1. IF_' \in BOOLEAN
      BY Zenon DEF PageFault
    <2> QED
      BY <1>1, <2>1, Trapping, Zenon DEF PageFault
  <1>3. held # {} => intena
    BY <1>1, Zenon DEF IInv, Flags
  <1>4. Flags'
    BY <1>1, <1>2, <1>3 DEF PageFault, Flags, Handler, In, Active
  <1> QED
    BY <1>2, <1>4, Zenon DEF IInv

\* A system call comes from user mode.
LEMMA SyscallInv ==
    ASSUME Scheduler \notin Procs, IInv, Syscall
    PROVE  IInv'
  <1>1. Active /\ ~Handler /\ held = {} /\ IF_ /\ running # Scheduler
    BY Zenon DEF IInv, Flags, Syscall, Handler, In
  <1>2. /\ Types' /\ (\A t \in Threads : Nested(frames[t]))' /\ SchedulerAt'
        /\ (\A p \in Procs : Waiting(p))'
        /\ frames'[running] # <<>>
        /\ Top(running)' = [kind |-> "sys", flag |-> IF_, base |-> held]
    <2>1. IF_' \in BOOLEAN /\ (IF_ <=> held = {})
      BY <1>1, Zenon DEF Syscall, IInv, Types
    <2> QED
      BY <1>1, <2>1, Trapping, Zenon DEF Syscall
  <1>3. Flags'
    BY <1>1, <1>2 DEF Syscall, Flags, Handler, In, Active
  <1> QED
    BY <1>2, <1>3, Zenon DEF IInv

\* A trap returns with the locks it came with, to user mode or a system call.
LEMMA TrapRetInv ==
    ASSUME Scheduler \notin Procs, IInv, TrapRet
    PROVE  IInv'
  <1> DEFINE s == frames[running]
             u == frames'[running]
  <1>1. /\ running \in Threads /\ s \in Seq(Frame) /\ s # <<>> /\ Nested(s) /\ Active
        /\ frames' = [frames EXCEPT ![running] = SubSeq(s, 1, Len(s) - 1)]
    BY Zenon DEF IInv, Types, TrapRet
  <1>2. /\ Len(s) = 1 \/ Len(s) = 2
        /\ Top(running).flag <=> Top(running).base = {}
        /\ Top(running) = s[Len(s)] /\ Top(running) \in Frame
    BY <1>1, TopIs, Zenon
  <1>3. /\ u = SubSeq(s, 1, Len(s) - 1)
        /\ \A t \in Threads : t # running => frames'[t] = frames[t]
    BY <1>1, Zenon DEF IInv, Types
  <1>4. u \in Seq(Frame) /\ Len(u) = Len(s) - 1 /\ \A i \in 1 .. Len(s) - 1 : u[i] = s[i]
    <2>1. Len(s) - 1 \in Nat
      <3>1. \A n : n = 1 \/ n = 2 => n - 1 \in Nat
        OBVIOUS
      <3> QED
        BY <1>2, <3>1, Zenon
    <2> QED
      BY <1>1, <1>3, <2>1, Pop
  <1>5. held = Top(running).base
    BY <1>1, Zenon DEF IInv, Flags, TrapRet, Own
  <1>6. Types'
    BY <1>1, <1>2, <1>3, <1>4, Zenon DEF IInv, Types, TrapRet, Frame
  <1>7. s[1].base = {}
    BY <1>1, <1>2 DEF Nested
  <1>8. CASE Len(s) = 1
    <2>1. u = <<>> /\ held = {}
      BY <1>2, <1>4, <1>5, <1>7, <1>8, Empty
    <2>2. (\A t \in Threads : Nested(frames[t]))'
      BY <1>3, <2>1 DEF IInv, Nested
    <2>3. (\A p \in Procs : Waiting(p))'
      <3>1. ASSUME NEW p \in Procs, p = running PROVE Waiting(p)'
        BY <3>1, <1>1, Zenon DEF IInv, Waiting, Active, TrapRet
      <3>2. ASSUME NEW p \in Procs, p # running PROVE Waiting(p)'
        BY <3>2, <1>3, Zenon DEF IInv, Waiting, In, Top, Threads, TrapRet
      <3> QED
        BY <3>1, <3>2, Zenon
    <2>4. SchedulerAt'
      <3>1. CASE running = Scheduler
        BY <2>1, <3>1 DEF IInv, SchedulerAt, TrapRet
      <3>2. CASE running # Scheduler
        BY <1>3, <3>2, Zenon DEF IInv, SchedulerAt, In, Top, Threads, TrapRet
      <3> QED
        BY <3>1, <3>2, Zenon
    <2>5. Flags'
      BY <1>1, <1>2, <1>5, <2>1, Zenon DEF Flags, Handler, In, Active, TrapRet
    <2> QED
      BY <1>6, <2>2, <2>3, <2>4, <2>5, Zenon DEF IInv
  <1>9. CASE Len(s) = 2
    <2>1. u # <<>> /\ Len(u) = 1 /\ u[1] = s[1] /\ u[1].kind = "sys" /\ Top(running)' = u[1]
      <3>1. Len(u) = 1 /\ u[1] = s[1]
        BY <1>4, <1>9
      <3>2. s[1].kind = "sys" /\ running' = running
        BY <1>1, <1>9, Zenon DEF Nested, TrapRet
      <3>3. u # <<>>
        BY <3>1
      <3> QED
        BY <3>1, <3>2, <3>3, Zenon DEF Top
    <2>2. (\A t \in Threads : Nested(frames[t]))'
      <3>1. Nested(u)
        BY <1>1, <2>1, <1>9 DEF Nested
      <3> QED
        BY <1>3, <3>1, Zenon DEF IInv
    <2>3. running # Scheduler
      BY <1>9 DEF IInv, SchedulerAt
    <2>4. (\A p \in Procs : Waiting(p))'
      <3>1. ASSUME NEW p \in Procs, p = running PROVE Waiting(p)'
        BY <3>1, <1>1, Zenon DEF IInv, Waiting, Active, TrapRet
      <3>2. ASSUME NEW p \in Procs, p # running PROVE Waiting(p)'
        BY <3>2, <1>3, Zenon DEF IInv, Waiting, In, Top, Threads, TrapRet
      <3> QED
        BY <3>1, <3>2, Zenon
    <2>5. SchedulerAt'
      BY <1>3, <2>3, Zenon DEF IInv, SchedulerAt, In, Top, Threads, TrapRet
    <2>6. Flags'
      <3>1. held # {} => intena
        BY <1>1, <1>5, Zenon DEF IInv, Flags
      <3>2. ~Handler'
        BY <2>1, Zenon DEF Handler, In, TrapRet
      <3>3. Top(running)'.base = {} /\ (IF_' <=> held = {})
        BY <1>2, <1>5, <1>7, <2>1, Zenon DEF TrapRet
      <3> QED
        BY <1>1, <2>1, <3>1, <3>2, <3>3, Zenon DEF Flags, Active, TrapRet
    <2> QED
      BY <1>6, <2>2, <2>4, <2>5, <2>6, Zenon DEF IInv
  <1> QED
    BY <1>2, <1>8, <1>9, Zenon

\* The first lock of a trap sets intena.
LEMMA AcquireInv ==
    ASSUME Scheduler \notin Procs, IInv, NEW l \in Locks \cup {ptable}, Acquire(l)
    PROVE  IInv'
  <1>1. /\ running \in Threads /\ Active /\ frames[running] # <<>> /\ l \notin held
        /\ UNCHANGED <<running, pc, frames, saved>>
    BY Zenon DEF IInv, Types, Acquire
  <1>2. /\ IF_' = FALSE /\ ncli' = Cardinality(held') /\ IsFiniteSet(held')
        /\ intena' = (IF held = {} THEN IF_ ELSE intena)
        /\ held' = held \cup {l} /\ panicked' = ""
    BY <1>1, Acquired, Zenon DEF IInv, Types, Acquire, SetCpu
  <1>3. Types'
    BY <1>1, <1>2, Zenon DEF IInv, Types
  <1>4. (\A t \in Threads : Nested(frames[t]))' /\ (\A p \in Procs : Waiting(p))' /\ SchedulerAt'
    BY <1>1, Zenon DEF IInv, Waiting, SchedulerAt, In, Top
  <1>5. (Handler' <=> Handler) /\ Active' /\ Top(running)' = Top(running)
    BY <1>1, Zenon DEF Handler, In, Top, Active
  <1>6. intena' <=> ~(Handler /\ Top(running).base = {})
    <2>1. CASE held # {}
      BY <1>1, <1>2, <2>1, Zenon DEF IInv, Flags
    <2>2. CASE held = {} /\ Handler
      BY <1>1, <1>2, <2>2, Zenon DEF IInv, Flags
    <2>3. CASE held = {} /\ ~Handler
      <3>1. running \in Procs
        BY <1>1, <2>3, Zenon DEF IInv, SchedulerAt, Handler, In, Threads
      <3> QED
        BY <1>1, <1>2, <2>3, <3>1, Zenon DEF IInv, Flags
    <2> QED
      BY <2>1, <2>2, <2>3, Zenon
  <1>7. Flags'
    BY <1>1, <1>2, <1>5, <1>6, Zenon DEF IInv, Flags
  <1> QED
    BY <1>3, <1>4, <1>7, Zenon DEF IInv

\* The last lock of a trap restores the flag from intena.
LEMMA ReleaseInv ==
    ASSUME Scheduler \notin Procs, IInv, NEW l, Release(l)
    PROVE  IInv'
  <1>1. /\ running \in Threads /\ Active /\ frames[running] # <<>>
        /\ l \in held /\ l \notin Top(running).base /\ ~IF_
        /\ UNCHANGED <<running, pc, frames, saved>>
    BY Zenon DEF IInv, Types, Release, Own, Flags
  <1>2. /\ IF_' = (held = {l} /\ intena) /\ ncli' = Cardinality(held') /\ IsFiniteSet(held')
        /\ intena' = intena /\ held' = held \ {l} /\ panicked' = ""
    BY <1>1, Released, ZenonT(60) DEF IInv, Types, Release, SetCpu
  <1>3. Types'
    BY <1>1, <1>2, Zenon DEF IInv, Types
  <1>4. (\A t \in Threads : Nested(frames[t]))' /\ (\A p \in Procs : Waiting(p))' /\ SchedulerAt'
    BY <1>1, Zenon DEF IInv, Waiting, SchedulerAt, In, Top
  <1>5. (Handler' <=> Handler) /\ Active' /\ Top(running)' = Top(running)
    BY <1>1, Zenon DEF Handler, In, Top, Active
  <1>6. held = {l} => Top(running).base = {}
    BY <1>1, Zenon DEF IInv, Flags
  <1>7. /\ Top(running).base \subseteq held'
        /\ intena <=> ~(Handler /\ Top(running).base = {})
    BY <1>1, <1>2, Zenon DEF IInv, Flags
  <1>8. Flags'
    BY <1>1, <1>2, <1>5, <1>6, <1>7, Zenon DEF Flags
  <1> QED
    BY <1>3, <1>4, <1>8, Zenon DEF IInv

\* A process gives up the CPU with ptable.lock alone.
LEMMA Switching ==
    ASSUME Scheduler \notin Procs, IInv, running \in Procs, Active,
           NEW c, NEW there \in {"forkret", "yield", "sleep", "wait"}, Switch(c, there),
           c.f = FALSE, c.n = 1, c.e \in BOOLEAN, c.h = {ptable}, c.bad = "",
           frames' \in [Threads -> Seq(Frame)],
           \A t \in Threads : t # running => frames'[t] = frames[t],
           Nested(frames'[running]),
           there = "forkret" => frames'[running] = <<>>,
           there = "yield" => In(running, {"irq"}) /\ frames' = frames /\ ~c.e,
           there \in {"sleep", "wait"} => In(running, {"sys"}) /\ frames' = frames /\ c.e
    PROVE  IInv'
  <1>1. schedChecked(c) = c
    BY Zenon DEF schedChecked, holding
  <1>2. /\ IF_' = FALSE /\ ncli' = 1 /\ intena' = c.e /\ held' = {ptable} /\ panicked' = ""
        /\ saved' = [saved EXCEPT ![running] = c.e] /\ pc' = [pc EXCEPT ![running] = there]
        /\ running' = Scheduler
    BY <1>1, Zenon DEF Switch, SetCpu, Goto
  <1>3. running \in Threads /\ Scheduler \in Threads /\ running # Scheduler
    BY Zenon DEF Threads
  <1>4. /\ pc'[running] = there /\ saved'[running] = c.e
        /\ \A t \in Threads : t # running => pc'[t] = pc[t] /\ saved'[t] = saved[t]
    BY <1>2, <1>3, Zenon DEF IInv, Types
  <1>5. Types'
    <2>1. IsFiniteSet({ptable}) /\ Cardinality({ptable}) = 1
      BY FS_Singleton, Zenon
    <2>2. pc' \in [Threads -> Points] /\ saved' \in [Threads -> BOOLEAN]
      BY <1>2, <1>3, Zenon DEF IInv, Types, Points
    <2> QED
      BY <1>2, <1>3, <2>1, <2>2, Zenon DEF Types
  <1>6. (\A t \in Threads : Nested(frames[t]))'
    BY Zenon DEF IInv
  <1>7. (\A p \in Procs : Waiting(p))'
    <2>1. ASSUME NEW p \in Procs, p = running PROVE Waiting(p)'
      BY <2>1, <1>2, <1>4, Zenon DEF Waiting, In, Top
    <2>2. ASSUME NEW p \in Procs, p # running PROVE Waiting(p)'
      <3>1. p \in Threads /\ Waiting(p)
        BY Zenon DEF Threads, IInv
      <3> QED
        BY <2>2, <3>1, <1>2, <1>4, ZenonT(60) DEF Waiting, In, Top
    <2> QED
      BY <2>1, <2>2, Zenon
  <1>8. pc'[Scheduler] = "choose" /\ frames'[Scheduler] = frames[Scheduler]
    BY <1>3, <1>4, Zenon DEF IInv, SchedulerAt
  <1>9. SchedulerAt' /\ Flags'
    BY <1>2, <1>3, <1>4, <1>8, Zenon DEF IInv, SchedulerAt, Flags, Active
  <1> QED
    BY <1>5, <1>6, <1>7, <1>9, Zenon DEF IInv

\* yield: the timer came to a process without locks, and intena is off.
LEMMA yieldInv ==
    ASSUME Scheduler \notin Procs, IInv, yield
    PROVE  IInv'
  <1> DEFINE c == acquire(Cpu, ptable)
  <1>1. /\ running \in Procs /\ Active /\ In(running, {"irq"}) /\ held = {} /\ ~IF_ /\ ncli = 0
        /\ frames' = frames /\ IF_ \in BOOLEAN
    BY FS_EmptySet, Zenon DEF yield, IInv, Flags, Handler, In, Types
  <1>2. c.f = FALSE /\ c.n = 1 /\ c.e = IF_ /\ c.h = {ptable} /\ c.bad = ""
    <2>1. /\ c.f = FALSE /\ c.n = ncli + 1 /\ c.e = (IF held = {} THEN IF_ ELSE intena)
          /\ c.h = held \cup {ptable} /\ c.bad = ""
      BY <1>1, Acquired, Zenon DEF IInv, Types
    <2> HIDE DEF c
    <2>2. c.n = 1
      <3>1. 0 + 1 = 1
        OBVIOUS
      <3> QED
        BY <1>1, <2>1, <3>1, Zenon
    <2>3. c.e = IF_
      BY <1>1, <2>1, Zenon
    <2>4. c.h = {ptable}
      BY <1>1, <2>1, Zenon
    <2> QED
      BY <2>1, <2>2, <2>3, <2>4, Zenon
  <1>3. Nested(frames'[running]) /\ frames' \in [Threads -> Seq(Frame)]
    BY <1>1, Zenon DEF IInv, Types, Threads
  <1>4. Switch(c, "yield")
    BY Zenon DEF yield
  <1> HIDE DEF c
  <1> QED
    BY <1>1, <1>2, <1>3, <1>4, Switching, Zenon

\* sleep, in a system call: intena is on.
LEMMA sleepInv ==
    ASSUME Scheduler \notin Procs, IInv, NEW l \in Locks \cup {ptable}, sleep(l)
    PROVE  IInv'
  <1> DEFINE c == IF l = ptable THEN Cpu ELSE release(acquire(Cpu, ptable), l)
             there == IF l = ptable THEN "wait" ELSE "sleep"
  <1>1. /\ running \in Procs /\ Active /\ In(running, {"sys"}) /\ held = {l}
        /\ frames' = frames /\ Switch(c, there)
    BY Zenon DEF sleep
  <1>2. ~Handler /\ intena /\ ~IF_ /\ intena \in BOOLEAN
    BY <1>1, Zenon DEF IInv, Types, Flags, Handler, In
  <1>3. ncli = 1
    BY <1>1, FS_Singleton, Zenon DEF IInv, Types
  <1>4. c.f = FALSE /\ c.n = 1 /\ c.e /\ c.e \in BOOLEAN /\ c.h = {ptable} /\ c.bad = ""
    <2>1. CASE l = ptable
      BY <1>1, <1>2, <1>3, <2>1, Zenon DEF Cpu, IInv, Types
    <2>2. CASE l # ptable
      BY <1>1, <1>2, <1>3, <2>2, Handed, Zenon
    <2> QED
      BY <2>1, <2>2, Zenon
  <1>5. Nested(frames'[running]) /\ frames' \in [Threads -> Seq(Frame)]
    BY <1>1, Zenon DEF IInv, Types, Threads
  <1>6. there \in {"sleep", "wait"}
    BY Zenon
  <1> HIDE DEF c, there
  <1> QED
    BY <1>1, <1>4, <1>5, <1>6, Switching, Zenon

\* exit leaves no frame.
LEMMA exitInv ==
    ASSUME Scheduler \notin Procs, IInv, exit
    PROVE  IInv'
  <1> DEFINE c == acquire(Cpu, ptable)
  <1>1. /\ running \in Procs /\ Active /\ held = {} /\ ncli = 0 /\ IF_ \in BOOLEAN
        /\ frames' = [frames EXCEPT ![running] = <<>>] /\ Switch(c, "forkret")
        /\ running \in Threads
    BY FS_EmptySet, Zenon DEF exit, IInv, Types, Threads
  <1>2. c.f = FALSE /\ c.n = 1 /\ c.e = IF_ /\ c.h = {ptable} /\ c.bad = ""
    <2>1. /\ c.f = FALSE /\ c.n = ncli + 1 /\ c.e = (IF held = {} THEN IF_ ELSE intena)
          /\ c.h = held \cup {ptable} /\ c.bad = ""
      BY <1>1, Acquired, Zenon DEF IInv, Types
    <2> HIDE DEF c
    <2>2. c.n = 1
      <3>1. 0 + 1 = 1
        OBVIOUS
      <3> QED
        BY <1>1, <2>1, <3>1, Zenon
    <2>3. c.e = IF_
      BY <1>1, <2>1, Zenon
    <2>4. c.h = {ptable}
      BY <1>1, <2>1, Zenon
    <2> QED
      BY <2>1, <2>2, <2>3, <2>4, Zenon
  <1>3. /\ frames'[running] = <<>>
        /\ \A t \in Threads : t # running => frames'[t] = frames[t]
    BY <1>1, Zenon DEF IInv, Types
  <1>4. frames' \in [Threads -> Seq(Frame)]
    <2>1. <<>> \in Seq(Frame)
      OBVIOUS
    <2> QED
      BY <1>1, <2>1, Zenon DEF IInv, Types
  <1>5. Nested(frames'[running])
    BY <1>3 DEF Nested
  <1> HIDE DEF c
  <1> QED
    BY <1>1, <1>2, <1>3, <1>4, <1>5, Switching, Zenon

\* The scheduler turns interrupts on without locks.
LEMMA stiInv ==
    ASSUME Scheduler \notin Procs, IInv, sti
    PROVE  IInv'
  <1>1. held = {} /\ Scheduler \in Threads
    BY Zenon DEF IInv, Flags, sti, Threads
  <1>2. Types' /\ (\A t \in Threads : Nested(frames[t]))'
    BY Zenon DEF IInv, Types, sti
  <1>3. (\A p \in Procs : Waiting(p))' /\ SchedulerAt'
    BY Zenon DEF IInv, Waiting, SchedulerAt, In, Top, sti
  <1>4. Flags'
    BY <1>1, Zenon DEF Flags, Handler, In, Active, sti
  <1> QED
    BY <1>2, <1>3, <1>4, Zenon DEF IInv

\* A round begins with ptable.lock ...
LEMMA RoundInv ==
    ASSUME Scheduler \notin Procs, IInv, Round
    PROVE  IInv'
  <1>1. /\ held = {} /\ Scheduler \in Threads /\ IF_ /\ frames[Scheduler] = <<>>
        /\ running = Scheduler /\ UNCHANGED <<running, frames, saved>>
        /\ pc' = [pc EXCEPT ![Scheduler] = "choose"]
    BY Zenon DEF IInv, Flags, Round, Threads, Goto
  <1>2. /\ IF_' = FALSE /\ ncli' = Cardinality(held') /\ IsFiniteSet(held')
        /\ intena' = (IF held = {} THEN IF_ ELSE intena)
        /\ held' = held \cup {ptable} /\ panicked' = ""
    <2>1. ptable \notin held
      BY <1>1, Zenon
    <2> QED
      BY <2>1, Acquired, Zenon DEF IInv, Types, Round, SetCpu
  <1>3. /\ pc' \in [Threads -> Points] /\ pc'[Scheduler] = "choose"
        /\ \A t \in Threads : t # Scheduler => pc'[t] = pc[t]
    BY <1>1, Zenon DEF IInv, Types, Points
  <1>4. intena' \in BOOLEAN
    BY <1>1, <1>2, Zenon
  <1>5. Types'
    BY <1>1, <1>2, <1>3, <1>4, Zenon DEF IInv, Types
  <1>6. (\A t \in Threads : Nested(frames[t]))'
    BY <1>1, Zenon DEF IInv
  <1>7. (\A p \in Procs : Waiting(p))'
    BY <1>1, <1>3, Zenon DEF IInv, Waiting, In, Top, Threads
  <1>8. SchedulerAt'
    BY <1>1, <1>3, Zenon DEF IInv, SchedulerAt
  <1>9. ~Active' /\ held' = {ptable} /\ ~IF_'
    BY <1>1, <1>2, <1>3, Zenon DEF Active
  <1>10. Flags'
    BY <1>9, Zenon DEF Flags
  <1> QED
    BY <1>5, <1>6, <1>7, <1>8, <1>10, Zenon DEF IInv

\* ... which the process that is chosen gets ...
LEMMA ChooseInv ==
    ASSUME Scheduler \notin Procs, IInv, NEW p \in Procs, Choose(p)
    PROVE  IInv'
  <1>1. /\ running = Scheduler /\ pc[Scheduler] = "choose" /\ running' = p /\ p \in Threads
        /\ UNCHANGED <<IF_, ncli, intena, held, pc, frames, saved, panicked>>
    BY Zenon DEF Choose, Threads
  <1>2. pc[p] \in {"forkret", "yield", "sleep", "wait"}
    BY <1>1, Zenon DEF IInv, Waiting
  <1>3. held = {ptable} /\ ~IF_
    BY <1>1, Zenon DEF IInv, Flags, Active
  <1>4. Types' /\ (\A t \in Threads : Nested(frames[t]))'
    BY <1>1, Zenon DEF IInv, Types
  <1>5. (\A q \in Procs : Waiting(q))'
    BY <1>1, <1>2, Zenon DEF IInv, Waiting, In, Top
  <1>6. SchedulerAt' /\ Flags'
    BY <1>1, <1>2, <1>3, Zenon DEF IInv, SchedulerAt, Flags, Active, In, Top
  <1> QED
    BY <1>4, <1>5, <1>6, Zenon DEF IInv

\* ... or which the scheduler gives back.
LEMMA RoundEndInv ==
    ASSUME Scheduler \notin Procs, IInv, RoundEnd
    PROVE  IInv'
  <1>1. /\ running = Scheduler /\ Scheduler \in Threads /\ pc[Scheduler] = "choose"
        /\ UNCHANGED <<running, frames, saved>> /\ pc' = [pc EXCEPT ![Scheduler] = "loop"]
    BY Zenon DEF RoundEnd, Threads, Goto
  <1>2. held = {ptable} /\ ~IF_ /\ frames[Scheduler] = <<>>
    BY <1>1, Zenon DEF IInv, Flags, Active, SchedulerAt
  <1>3. /\ IF_' = (held = {ptable} /\ intena) /\ ncli' = Cardinality(held') /\ IsFiniteSet(held')
        /\ intena' = intena /\ held' = held \ {ptable} /\ panicked' = ""
    BY <1>2, Released, Zenon DEF IInv, Types, RoundEnd, SetCpu
  <1>4. /\ pc' \in [Threads -> Points] /\ pc'[Scheduler] = "loop"
        /\ \A t \in Threads : t # Scheduler => pc'[t] = pc[t]
    BY <1>1, Zenon DEF IInv, Types, Points
  <1>5. held' = {}
    BY <1>2, <1>3, Zenon
  <1>6. Types'
    BY <1>1, <1>3, <1>4, <1>5, Zenon DEF IInv, Types
  <1>7. (\A t \in Threads : Nested(frames[t]))'
    BY <1>1, Zenon DEF IInv
  <1>8. (\A p \in Procs : Waiting(p))'
    BY <1>1, <1>4, Zenon DEF IInv, Waiting, In, Top, Threads
  <1>9. SchedulerAt'
    BY <1>1, <1>2, <1>4, Zenon DEF IInv, SchedulerAt
  <1>10. Flags'
    BY <1>1, <1>2, <1>4, <1>5, Zenon DEF Flags, Active, Handler, In
  <1> QED
    BY <1>6, <1>7, <1>8, <1>9, <1>10, Zenon DEF IInv

\* A new process gives back ptable.lock and is in user mode.
LEMMA forkretInv ==
    ASSUME Scheduler \notin Procs, IInv, forkret
    PROVE  IInv'
  <1>1. /\ pc[running] = "forkret" /\ UNCHANGED <<running, frames, saved>>
        /\ pc' = [pc EXCEPT ![running] = "run"]
    BY Zenon DEF forkret, Goto
  <1>2. running \in Procs /\ running \in Threads /\ frames[running] = <<>>
    BY <1>1, Zenon DEF IInv, Types, Threads, SchedulerAt, Waiting
  <1>3. held = {ptable} /\ ~IF_
    BY <1>1, Zenon DEF IInv, Flags, Active
  <1>4. /\ IF_' = TRUE /\ ncli' = Cardinality(held') /\ IsFiniteSet(held')
        /\ intena' = intena /\ held' = held \ {ptable} /\ panicked' = ""
    <2>1. ncli \in Nat /\ ncli # 0 /\ ncli - 1 = Cardinality(held \ {ptable}) /\ IsFiniteSet(held \ {ptable})
      BY <1>3, OneLess, Zenon DEF IInv, Types
    <2>2. ~IF_ /\ ptable \in held
      BY <1>3, Zenon
    <2> DEFINE c == [popcli([Cpu EXCEPT !.h = @ \ {ptable}]) EXCEPT !.f = TRUE]
    <2>3. SetCpu(c)
      BY <2>2, Zenon DEF forkret, release, holding, Cpu
    <2>4. c.f = TRUE /\ c.n = ncli - 1 /\ c.e = intena /\ c.h = held \ {ptable} /\ c.bad = ""
      BY <2>1, <2>2 DEF popcli, Cpu
    <2> HIDE DEF c
    <2> QED
      BY <2>1, <2>3, <2>4, Zenon DEF SetCpu
  <1>5. /\ pc' \in [Threads -> Points] /\ pc'[running] = "run"
        /\ \A t \in Threads : t # running => pc'[t] = pc[t]
    BY <1>1, <1>2, Zenon DEF IInv, Types, Points
  <1>6. held' = {}
    BY <1>3, <1>4, Zenon
  <1>7. Types'
    BY <1>1, <1>4, <1>5, <1>6, Zenon DEF IInv, Types
  <1>8. (\A t \in Threads : Nested(frames[t]))'
    BY <1>1, Zenon DEF IInv
  <1>9. (\A p \in Procs : Waiting(p))'
    BY <1>1, <1>2, <1>5, Zenon DEF IInv, Waiting, In, Top, Threads
  <1>10. SchedulerAt'
    BY <1>1, <1>2, <1>5, Zenon DEF IInv, SchedulerAt, In, Top, Threads
  <1>11. Flags'
    BY <1>1, <1>2, <1>4, <1>5, <1>6, Zenon DEF Flags, Active, Handler, In
  <1> QED
    BY <1>7, <1>8, <1>9, <1>10, <1>11, Zenon DEF IInv

\* A process gets its own intena back before it releases ptable.lock.
LEMMA ResumeInv ==
    ASSUME Scheduler \notin Procs, IInv, Resume
    PROVE  IInv'
  <1> DEFINE e == saved[running]
  <1>1. /\ pc[running] \in {"yield", "sleep", "wait"} /\ UNCHANGED <<running, frames>>
        /\ pc' = [pc EXCEPT ![running] = "run"]
        /\ saved' = [saved EXCEPT ![running] = FALSE]
    BY Zenon DEF Resume, Goto
  <1>2. /\ running \in Procs /\ running \in Threads
        /\ pc[running] = "yield" => In(running, {"irq"}) /\ ~e
        /\ pc[running] \in {"sleep", "wait"} => In(running, {"sys"}) /\ e
    BY <1>1, Zenon DEF IInv, Types, Threads, SchedulerAt, Waiting
  <1>3. held = {ptable} /\ ~IF_ /\ e \in BOOLEAN
    BY <1>1, <1>2, Zenon DEF IInv, Types, Flags, Active
  <1>4. /\ pc' \in [Threads -> Points] /\ pc'[running] = "run"
        /\ saved' \in [Threads -> BOOLEAN]
        /\ \A t \in Threads : t # running => pc'[t] = pc[t] /\ saved'[t] = saved[t]
    BY <1>1, <1>2, Zenon DEF IInv, Types, Points
  <1>5. (\A t \in Threads : Nested(frames[t]))'
    BY <1>1, Zenon DEF IInv
  <1>6. (\A p \in Procs : Waiting(p))'
    <2>1. ASSUME NEW p \in Procs, p = running PROVE Waiting(p)'
      BY <2>1, <1>1, <1>4, Zenon DEF Waiting
    <2>2. ASSUME NEW p \in Procs, p # running PROVE Waiting(p)'
      BY <2>2, <1>1, <1>4, Zenon DEF IInv, Waiting, In, Top, Threads
    <2> QED
      BY <2>1, <2>2, Zenon
  <1>7. SchedulerAt'
    BY <1>1, <1>2, <1>4, Zenon DEF IInv, SchedulerAt, In, Top, Threads
  <1>8. Active' /\ Top(running)' = Top(running) /\ (Handler' <=> Handler) /\ frames'[running] # <<>>
    BY <1>1, <1>2, <1>4, Zenon DEF Active, Top, Handler, In
  <1>9. In(running, {"irq", "sys"}) => Top(running).base = {}
    BY <1>2, TopIs, Zenon DEF In
  <1>10. CASE pc[running] = "wait"
    <2>1. /\ IF_' = IF_ /\ ncli' = ncli /\ held' = held /\ panicked' = "" /\ intena' = e
      BY <1>10, Zenon DEF Resume, SetCpu, Restored, Cpu
    <2>2. Types'
      BY <1>1, <1>3, <1>4, <2>1, Zenon DEF IInv, Types
    <2>3. ~Handler /\ Top(running).base = {} /\ e
      BY <1>2, <1>9, <1>10, Zenon DEF Handler, In
    <2>4. intena' /\ ~IF_' /\ held' = {ptable}
      BY <1>3, <2>1, <2>3, Zenon
    <2>5. Flags'
      BY <1>1, <1>8, <2>3, <2>4, Zenon DEF Flags
    <2> QED
      BY <1>5, <1>6, <1>7, <2>2, <2>5, Zenon DEF IInv
  <1>11. CASE pc[running] # "wait"
    <2>1. /\ IF_' = (ncli = 1 /\ e) /\ ncli' = ncli - 1 /\ held' = held \ {ptable} /\ panicked' = ""
          /\ intena' = e
      <3>1. ncli \in Nat /\ ncli # 0
        BY <1>3, OneLess, Zenon DEF IInv, Types
      <3> DEFINE c == popcli([[Cpu EXCEPT !.e = e] EXCEPT !.h = @ \ {ptable}])
      <3>2. ptable \in held
        BY <1>3, Zenon
      <3>3. SetCpu(c)
        BY <1>11, <3>2, Zenon DEF Resume, Restored, release, holding, Cpu
      <3>4. c.f = (ncli = 1 /\ e) /\ c.n = ncli - 1 /\ c.e = e /\ c.h = held \ {ptable} /\ c.bad = ""
        BY <1>3, <3>1 DEF popcli, Cpu
      <3> HIDE DEF c
      <3> QED
        BY <3>3, <3>4, Zenon DEF SetCpu
    <2>2. /\ held' = {} /\ ncli' = Cardinality(held') /\ IsFiniteSet(held')
          /\ IF_' \in BOOLEAN /\ (IF_' <=> e)
      <3>1. ncli = 1 /\ held \ {ptable} = {}
        BY <1>3, FS_Singleton, Zenon DEF IInv, Types
      <3>2. ncli - 1 = Cardinality(held \ {ptable}) /\ IsFiniteSet(held \ {ptable})
        BY <1>3, OneLess, Zenon DEF IInv, Types
      <3> QED
        BY <1>3, <2>1, <3>1, <3>2, Zenon
    <2>3. Types'
      BY <1>1, <1>3, <1>4, <2>1, <2>2, Zenon DEF IInv, Types
    <2>4. Top(running).base = {} /\ (Handler <=> ~e)
      BY <1>1, <1>2, <1>9, <1>11, Zenon DEF Handler, In
    <2>5. Flags'
      BY <1>3, <1>8, <2>2, <2>4, Zenon DEF Flags
    <2> QED
      BY <1>5, <1>6, <1>7, <2>3, <2>5, Zenon DEF IInv
  <1> QED
    BY <1>10, <1>11, Zenon

-----------------------------------------------------------------------------
\* Every step keeps the invariant.
LEMMA NextInv ==
    ASSUME Scheduler \notin Procs, IInv, [Next]_vars
    PROVE  IInv'
  <1>1. CASE UNCHANGED vars
    BY <1>1, Zenon DEF vars, IInv, Types, Waiting, SchedulerAt, Flags, Handler, In, Top, Active
  <1>2. CASE Next
    <2>1. CASE Interrupt \/ PageFault \/ Syscall \/ TrapRet \/ yield \/ exit
      BY <2>1, InterruptInv, PageFaultInv, SyscallInv, TrapRetInv, yieldInv, exitInv, Zenon
    <2>2. CASE sti \/ Round \/ RoundEnd \/ forkret \/ Resume
      BY <2>2, stiInv, RoundInv, RoundEndInv, forkretInv, ResumeInv, Zenon
    <2>3. CASE \E p \in Procs : Choose(p)
      BY <2>3, ChooseInv, Zenon
    <2>4. CASE \E l \in Locks \cup {ptable} : Acquire(l) \/ Release(l) \/ sleep(l)
      BY <2>4, AcquireInv, ReleaseInv, sleepInv, Zenon
    <2> QED
      BY <1>2, <2>1, <2>2, <2>3, <2>4, Zenon DEF Next
  <1> QED
    BY <1>1, <1>2, Zenon

(* The interrupt flag is right in every state of every number of processes  *)
(* and locks: pushcli, popcli, sched and the gates of trap keep it           *)
(* (spinlock.c:92-115, proc.c:303-321, trap.c:19-28).                        *)
THEOREM InterruptsRight == Spec => []InterruptsKept
  <1>1. Init => IInv
    BY InitInv, SchedulerAssumption, Zenon
  <1>2. IInv /\ [Next]_vars => IInv'
    BY NextInv, SchedulerAssumption, Zenon
  <1>3. IInv => InterruptsKept
    BY Zenon DEF IInv, Types, Flags, Handler, InterruptsKept, NestingCounts, HandlerAlone, SyscallOpen, NoPanic
  <1> QED
    BY <1>1, <1>2, <1>3, PTL DEF Spec

=============================================================================
