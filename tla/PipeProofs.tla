----------------------------- MODULE PipeProofs -----------------------------
(***************************************************************************)
(* Nobody sleeps on a pipe without a reason, for any number of processes,  *)
(* any ring and any width of the counters, wrapped around or not.          *)
(*                                                                         *)
(* The two waiting conditions are inductive together with the types of the *)
(* variables they mention and the bound on Count, which is what makes the  *)
(* int difference of the two counters the number of bytes in the ring.     *)
(*                                                                         *)
(* The pipe implements the queue of Fifo, as long as the counters have not *)
(* wrapped around.  Two counters less than Size apart name different bytes *)
(* (ModDistinct), so storing at tail leaves the bytes between front and    *)
(* tail alone (AfterStore), and taking at front leaves the rest in place   *)
(* (AfterTake).                                                            *)
(***************************************************************************)
EXTENDS Pipe, SequenceTheorems, TLAPS

Ints == -IntMax - 1..IntMax

\* The control state, and the counters at most Size apart.
Control ==
  /\ step \in [Procs -> Steps]
  /\ killed \in [Procs -> BOOLEAN]
  /\ valid \in [Ends -> BOOLEAN]
  /\ end \in [Procs -> Ends]

Counters ==
  /\ front \in Ints /\ tail \in Ints
  /\ Count \in 0..Size
  /\ arg \in [Procs -> Seq(Bytes)]
  /\ want \in [Procs -> Nat]


\* fork works on an embryo of its own, which nobody runs.
Embryos ==
  /\ child \in [Procs -> Procs]
  /\ \A p \in Procs : step[p] = "fork" => step[child[p]] = "embryo"
  /\ \A p, q \in Procs : step[p] = "fork" /\ step[q] = "fork" /\ child[p] = child[q] => p = q

SleepInv == Control /\ Counters /\ Embryos /\ WriterSleeps /\ ReaderSleeps

-----------------------------------------------------------------------------
\* int arithmetic: taking k of c bytes, and adding k.
LEMMA TakeCount ==
  ASSUME NEW f \in Ints, NEW t \in Ints, Int32(t - f) \in 0..Size,
         NEW k \in 0..Int32(t - f)
  PROVE  /\ Int32(f + k) \in Ints
         /\ Int32(t - Int32(f + k)) = Int32(t - f) - k
BY PipeAssumption DEF Int32, Ints

\* ... and k more bytes fit when there is room for them.
LEMMA AddCount ==
  ASSUME NEW f \in Ints, NEW t \in Ints, Int32(t - f) \in 0..Size,
         NEW k \in 0..Size - Int32(t - f)
  PROVE  /\ Int32(t + k) \in Ints
         /\ Int32(Int32(t + k) - f) = Int32(t - f) + k
BY PipeAssumption DEF Int32, Ints

\* The counters are equal exactly when no byte is in the ring.
LEMMA EmptyCount ==
  ASSUME NEW f \in Ints, NEW t \in Ints
  PROVE  Int32(t - f) = 0 <=> f = t
BY PipeAssumption DEF Int32, Ints

\* A step that puts nobody to sleep and leaves the counters, the slots and the
\* wakeups that are due alone keeps the invariant.
LEMMA Calm ==
  ASSUME SleepInv, Control', Counters', Embryos',
         UNCHANGED <<front, tail, valid>>,
         \A q \in Procs : step'[q] = "wsleep" => step[q] = "wsleep",
         \A q \in Procs : step'[q] = "rsleep" => step[q] = "rsleep",
         \A q \in Procs : step[q] = "wake" => step'[q] = "wake" /\ end'[q] = end[q],
         \A q \in Procs : killed[q] => killed'[q]
  PROVE  SleepInv'
<1>1. \A e \in Ends : WakeDue(e) => WakeDue(e)'
  BY Zenon DEF WakeDue
<1>2. Count' = Count
  BY Zenon DEF Count
<1>3. WriterSleeps'
  BY <1>1, <1>2, Zenon DEF SleepInv, WriterSleeps, Ends
<1>4. ReaderSleeps'
  BY <1>1, Zenon DEF SleepInv, ReaderSleeps, Ends
<1> QED
  BY <1>3, <1>4, Zenon DEF SleepInv

\* Only fork makes embryos and only fork runs them.
LEMMA EmbryoStep ==
  ASSUME Control, Embryos, NEW p \in Procs,
         \/ UNCHANGED step
         \/ /\ step[p] \notin {"embryo", "fork"}
            /\ \A q \in Procs : step[q] = "embryo" => step'[q] = "embryo"
            /\ \A q \in Procs : step'[q] = "fork" => step[q] = "fork",
         UNCHANGED child
  PROVE  Embryos'
BY Zenon DEF Control, Embryos

\* fork, from the embryo it takes to the child it lets go.
LEMMA ForkStep ==
  ASSUME Control, Embryos, NEW p \in Procs, Fork(p) \/ ForkDone(p)
  PROVE  Embryos'
<1>1. CASE Fork(p)
  <2>1. PICK q \in Procs : /\ step[q] = "unborn"
                          /\ child' = [child EXCEPT ![p] = q]
                          /\ step' = [step EXCEPT ![p] = "fork", ![q] = "embryo"]
    BY <1>1, Zenon DEF Fork
  <2>2. step[p] = "user"
    BY <1>1, Zenon DEF Fork, MayCall, At
  <2> QED
    BY <2>1, <2>2, Zenon DEF Control, Embryos
<1>2. CASE ForkDone(p)
  <2>1. /\ step[p] = "fork" /\ child' = [child EXCEPT ![p] = p]
        /\ step' = [step EXCEPT ![p] = "user", ![child[p]] = "user"]
    BY <1>2, Zenon DEF ForkDone, At
  <2> QED
    BY <2>1, Zenon DEF Control, Embryos
<1> QED
  BY <1>1, <1>2, Zenon

\* The actions around the ring: fork, dup, the entry of a call, the counts.
LEMMA AroundStep ==
  ASSUME SleepInv, NEW p \in Procs,
         \/ Fork(p) \/ ForkFile(p) \/ ForkDone(p) \/ SysDup(p) \/ SysClose(p)
         \/ Exit(p) \/ ExitTest(p) \/ ExitLoad(p) \/ ExitStore(p) \/ ExitFree(p)
         \/ Stray(p) \/ Kill(p)
  PROVE  SleepInv'
<1> USE DEF SleepInv, Control
<1>a. UNCHANGED <<front, tail, buf, valid, arg, want>>
  BY Zenon DEF Fork, ForkFile, ForkDone, SysDup, SysClose, Exit, ExitTest, ExitLoad,
         ExitStore, ExitFree, Stray, Kill, ring, ftable, call
<1>b. Counters'
  BY <1>a, Zenon DEF Counters, Count
<1>1. CASE Fork(p)
  <2>1. PICK q \in Procs : /\ step[q] = "unborn"
                          /\ step' = [step EXCEPT ![p] = "fork", ![q] = "embryo"]
    BY <1>1, Zenon DEF Fork
  <2> QED
    BY <1>1, <1>a, <1>b, <2>1, ForkStep, Calm, Zenon DEF Fork, MayCall, At, Steps, closing
<1>2. CASE ForkFile(p) \/ SysDup(p) \/ Stray(p)
  <2>1. UNCHANGED <<step, killed, closing, child>>
    BY <1>2, Zenon DEF ForkFile, SysDup, Stray
  <2> QED
    BY <2>1, <1>a, <1>b, EmbryoStep, Calm, Zenon DEF closing
<1>3. CASE ForkDone(p)
  <2>1. /\ step[p] = "fork" /\ UNCHANGED <<killed, closing>>
        /\ step' = [step EXCEPT ![p] = "user", ![child[p]] = "user"]
    BY <1>3, Zenon DEF ForkDone, At
  <2>2. child[p] \in Procs /\ step[child[p]] = "embryo"
    BY <2>1, Zenon DEF Embryos
  <2>3. Control'
    BY <2>1, <2>2, <1>a, Zenon DEF closing, Steps
  <2> QED
    BY <1>3, <2>1, <2>2, <2>3, <1>a, <1>b, ForkStep, Calm, Zenon DEF closing
<1>4. CASE SysClose(p)
  <2>1. /\ step[p] = "user" /\ UNCHANGED <<killed, child>>
        /\ step' = [step EXCEPT ![p] = "close"]
        /\ \E e \in Ends : end' = [end EXCEPT ![p] = e]
    BY <1>4, Zenon DEF SysClose, MayCall, At, Goto, Open
  <2> QED
    BY <2>1, <1>a, <1>b, EmbryoStep, Calm, Zenon DEF Steps
<1>5. CASE Exit(p) \/ ExitLoad(p)
  <2>1. /\ step[p] \in {"user", "dec"} /\ UNCHANGED <<killed, end, child>>
        /\ step' = [step EXCEPT ![p] = IF Exit(p) THEN "exit" ELSE "store"]
    BY <1>5, Zenon DEF Exit, ExitLoad, At, Goto, closing
  <2> QED
    BY <2>1, <1>a, <1>b, EmbryoStep, Calm, Zenon DEF Steps
<1>6. CASE ExitTest(p)
  <2>1. /\ step[p] = "exit" /\ UNCHANGED <<killed, child>>
        /\ \E s \in {"gone", "dec", "mark"} : step' = [step EXCEPT ![p] = s]
        /\ \E e \in Ends : end' = [end EXCEPT ![p] = e]
    BY <1>6, SMTT(40), Z3T(40) DEF ExitTest, At, Goto, Open
  <2> QED
    BY <2>1, <1>a, <1>b, EmbryoStep, Calm, Zenon DEF Steps
<1>7. CASE ExitStore(p) \/ ExitFree(p)
  <2>1. /\ step[p] \in {"store", "kfree"} /\ UNCHANGED <<killed, child>>
        /\ step' = [step EXCEPT ![p] = "exit"]
        /\ end' = [end EXCEPT ![p] = "r"]
    BY <1>7, Zenon DEF ExitStore, ExitFree, NextFile, At, Goto
  <2> QED
    BY <2>1, <1>a, <1>b, EmbryoStep, Calm, Zenon DEF Steps, Ends
<1>8. CASE Kill(p)
  <2>1. /\ killed' = [killed EXCEPT ![p] = TRUE] /\ UNCHANGED <<closing, child>>
        /\ step' = [step EXCEPT ![p] = CASE step[p] = "rsleep" -> "read"
                                         [] step[p] = "wsleep" -> "write"
                                         [] OTHER -> step[p]]
    BY <1>8, Zenon DEF Kill
  <2>2. Embryos'
    BY <2>1 DEF Embryos
  <2> QED
    BY <2>1, <2>2, <1>a, <1>b, Calm, Zenon DEF closing, Steps
<1> QED
  BY <1>1, <1>2, <1>3, <1>4, <1>5, <1>6, <1>7, <1>8, Zenon

\* The entry of a read or a write.
LEMMA EntryStep ==
  ASSUME SleepInv, NEW p \in Procs, SysWrite(p) \/ SysRead(p)
  PROVE  SleepInv'
<1> USE DEF SleepInv
<1>1. /\ step[p] = "user" /\ UNCHANGED <<front, tail, valid, killed, end, child>>
      /\ \E s \in {"write", "read", "user"} : step' = [step EXCEPT ![p] = s]
  BY Zenon DEF SysWrite, SysRead, MayCall, At, Goto, ring, ftable, closing
<1>2. /\ \A s \in Calls : s \in Seq(Bytes)
      /\ <<>> \in Seq(Bytes)
  BY PipeAssumption DEF Calls
<1>3. /\ arg' = arg \/ \E s \in Seq(Bytes) : arg' = [arg EXCEPT ![p] = s]
      /\ want' = want \/ \E n \in Nat : want' = [want EXCEPT ![p] = n]
  <2>1. CASE SysWrite(p)
    <3>1. PICK s \in Calls : arg' = [arg EXCEPT ![p] = IF valid["w"] THEN s ELSE <<>>]
      BY <2>1, Zenon DEF SysWrite
    <3>2. (IF valid["w"] THEN s ELSE <<>>) \in Seq(Bytes) /\ want' = want
      BY <2>1, <1>2, Zenon DEF SysWrite
    <3> QED
      BY <3>1, <3>2, Zenon
  <2>2. CASE SysRead(p)
    <3>1. PICK n \in 0..MaxCall : want' = [want EXCEPT ![p] = IF valid["r"] THEN n ELSE 0]
      BY <2>2, Zenon DEF SysRead
    <3>2. (IF valid["r"] THEN n ELSE 0) \in Nat /\ arg' = arg
      BY <2>2, PipeAssumption DEF SysRead
    <3> QED
      BY <3>1, <3>2, Zenon
  <2> QED
    BY <2>1, <2>2, Zenon
<1>4. arg' \in [Procs -> Seq(Bytes)] /\ want' \in [Procs -> Nat]
  BY <1>3, Zenon DEF Counters
<1>5. Control' /\ Counters' /\ Embryos'
  BY <1>1, <1>4, EmbryoStep, Zenon DEF Control, Counters, Count, Steps
<1> QED
  BY <1>1, <1>5, Calm, Zenon DEF Control

\* Waking the sleepers of one channel: p goes to s, they go on, nobody else moves.
LEMMA Woken ==
  ASSUME Control, Embryos, NEW p \in Procs, NEW s \in Steps \ {"fork"},
         step[p] \notin {"embryo", "fork"}, UNCHANGED child
  PROVE  /\ WakeReaders(p, s) =>
              /\ step' \in [Procs -> Steps] /\ Embryos'
              /\ \A q \in Procs \ {p} : step'[q] # "rsleep"
              /\ \A q \in Procs \ {p} : step'[q] = "wsleep" <=> step[q] = "wsleep"
              /\ \A q \in Procs \ {p} : step'[q] = "wake" <=> step[q] = "wake"
              /\ step'[p] = s
         /\ WakeWriters(p, s) =>
              /\ step' \in [Procs -> Steps] /\ Embryos'
              /\ \A q \in Procs \ {p} : step'[q] # "wsleep"
              /\ \A q \in Procs \ {p} : step'[q] = "rsleep" <=> step[q] = "rsleep"
              /\ \A q \in Procs \ {p} : step'[q] = "wake" <=> step[q] = "wake"
              /\ step'[p] = s
         /\ Goto(p, s) =>
              /\ step' \in [Procs -> Steps] /\ Embryos'
              /\ \A q \in Procs \ {p} : step'[q] = step[q]
              /\ step'[p] = s
<1>1. CASE WakeReaders(p, s)
  <2>1. step' \in [Procs -> Steps]
    BY <1>1, Zenon DEF WakeReaders, Control, Steps
  <2>2. Embryos'
    BY <1>1, EmbryoStep, Zenon DEF WakeReaders, Control, Steps
  <2> QED
    BY <1>1, <2>1, <2>2, Zenon DEF WakeReaders, WakeWriters, Goto, Control
<1>2. CASE WakeWriters(p, s)
  <2>1. step' \in [Procs -> Steps]
    BY <1>2, Zenon DEF WakeWriters, Control, Steps
  <2>2. Embryos'
    BY <1>2, EmbryoStep, Zenon DEF WakeWriters, Control, Steps
  <2> QED
    BY <1>2, <2>1, <2>2, Zenon DEF WakeReaders, WakeWriters, Goto, Control
<1>3. CASE Goto(p, s)
  <2>1. Embryos'
    BY <1>3, EmbryoStep, Zenon DEF Goto, Control
  <2> QED
    BY <1>3, <2>1, Zenon DEF WakeReaders, WakeWriters, Goto, Control
<1> QED
  BY <1>1, <1>2, <1>3, Zenon

\* writep: it leaves sleeping readers behind only when it fails on a full ring.
LEMMA WriteStep ==
  ASSUME SleepInv, NEW p \in Procs, WriteP(p)
  PROVE  SleepInv'
<1> DEFINE k == Least(Len(arg[p]), Size - Count)
<1> USE DEF SleepInv
<1>a. /\ step[p] = "write" /\ UNCHANGED <<front, valid, killed, want, child, end>>
      /\ tail' = Int32(tail + k)
  BY Zenon DEF WriteP, WriteSome, At, ftable, closing
<1>b. k \in 0..Size - Count /\ k <= Len(arg[p]) /\ Len(arg[p]) \in Nat
      /\ (k < Len(arg[p]) => k = Size - Count)
  BY PipeAssumption DEF Counters, Least
<1>c. tail' \in Ints /\ Count' = Count + k
  BY <1>a, <1>b, AddCount, Zenon DEF Counters, Count
<1>d. arg' \in [Procs -> Seq(Bytes)]
  <2>1. SubSeq(arg[p], k + 1, Len(arg[p])) \in Seq(Bytes) /\ <<>> \in Seq(Bytes)
    BY <1>b DEF Counters
  <2>2. \E s \in Seq(Bytes) : arg' = [arg EXCEPT ![p] = s]
    BY <2>1, Zenon DEF WriteP, WriteSome
  <2> QED
    BY <2>2, Zenon DEF Counters
<1>e. Counters'
  BY <1>a, <1>b, <1>c, <1>d, PipeAssumption DEF Counters
<1>f. \/ k = Len(arg[p]) /\ WakeReaders(p, "user")
      \/ k < Len(arg[p]) /\ (~valid["r"] \/ killed[p]) /\ Goto(p, "user")
      \/ k < Len(arg[p]) /\ valid["r"] /\ ~killed[p] /\ WakeReaders(p, "wsleep")
  BY Zenon DEF WriteP, WriteSome
<1>1. CASE k = Len(arg[p])
  <2>1. WakeReaders(p, "user")
    BY <1>1, <1>b, <1>f
  <2>2. /\ step' \in [Procs -> Steps] /\ Embryos'
        /\ \A q \in Procs : step'[q] # "rsleep"
        /\ \A q \in Procs : step'[q] = "wsleep" => step[q] = "wsleep"
        /\ \A q \in Procs : step[q] = "wake" => step'[q] = "wake"
    BY <2>1, <1>a, Woken DEF Steps
  <2>3. WriterSleeps'
    BY <2>2, <1>a, <1>b, <1>c, <1>e, SMTT(40), Z3T(40) DEF WriterSleeps, WakeDue, Counters
  <2> QED
    BY <2>2, <2>3, <1>a, <1>e, Zenon DEF ReaderSleeps, Control
<1>2. CASE k < Len(arg[p]) /\ (~valid["r"] \/ killed[p])
  <2>1. Goto(p, "user")
    BY <1>2, <1>b, <1>f
  <2>2. /\ step' \in [Procs -> Steps] /\ Embryos'
        /\ \A q \in Procs : step'[q] = "rsleep" => step[q] = "rsleep"
        /\ \A q \in Procs : step'[q] = "wsleep" => step[q] = "wsleep"
        /\ \A q \in Procs : step[q] = "wake" => step'[q] = "wake"
    BY <2>1, <1>a, Woken DEF Steps
  <2>3. WriterSleeps'
    BY <2>2, <1>a, <1>b, <1>c, <1>e DEF WriterSleeps, WakeDue, Counters
  <2>4. ReaderSleeps'
    BY <2>2, <1>2, <1>a, Zenon DEF ReaderSleeps, WakeDue, Control
  <2> QED
    BY <2>2, <2>3, <2>4, <1>a, <1>e, Zenon DEF Control
<1>3. CASE k < Len(arg[p]) /\ valid["r"] /\ ~killed[p]
  <2>1. WakeReaders(p, "wsleep")
    BY <1>3, <1>b, <1>f
  <2>2. /\ step' \in [Procs -> Steps] /\ Embryos'
        /\ \A q \in Procs : step'[q] # "rsleep"
        /\ \A q \in Procs : step[q] = "wake" => step'[q] = "wake"
    BY <2>1, <1>a, Woken DEF Steps
  <2>3. WriterSleeps'
    BY <2>2, <1>3, <1>a, <1>b, <1>c, PipeAssumption, SMTT(40), Z3T(40) DEF WriterSleeps, Counters
  <2> QED
    BY <2>2, <2>3, <1>a, <1>e, Zenon DEF ReaderSleeps, Control
<1> QED
  BY <1>1, <1>2, <1>3, <1>b DEF Control, Ends

\* readp: every byte taken wakes the writers.
LEMMA ReadStep ==
  ASSUME SleepInv, NEW p \in Procs, ReadP(p)
  PROVE  SleepInv'
<1> DEFINE k == Least(want[p], Count)
           wait == front = tail /\ valid["w"]
<1> USE DEF SleepInv
<1>a. step[p] = "read" /\ UNCHANGED <<tail, valid, killed, arg, child, end>>
  BY Zenon DEF ReadP, At, ftable, closing
<1>b. \/ /\ wait /\ ~killed[p] /\ WakeWriters(p, "rsleep")
         /\ UNCHANGED <<front, want>>
      \/ /\ killed[p] /\ Goto(p, "user")
         /\ want' = [want EXCEPT ![p] = 0] /\ UNCHANGED front
      \/ /\ WakeWriters(p, "user")
         /\ want' = [want EXCEPT ![p] = 0] /\ front' = Int32(front + k)
  BY Zenon DEF ReadP
<1>c. k \in 0..Count
  BY PipeAssumption DEF Counters, Least
<1>1. CASE wait /\ WakeWriters(p, "rsleep") /\ UNCHANGED <<front, want>>
  <2>1. /\ step' \in [Procs -> Steps] /\ Embryos'
        /\ \A q \in Procs : step'[q] # "wsleep"
    BY <1>1, <1>a, Woken DEF Steps
  <2>2. ReaderSleeps'
    BY <1>1, <1>a, Zenon DEF ReaderSleeps
  <2> QED
    BY <1>1, <1>a, <2>1, <2>2, Zenon DEF WriterSleeps, Control, Counters, Count
<1>2. CASE killed[p] /\ Goto(p, "user") /\ want' = [want EXCEPT ![p] = 0] /\ UNCHANGED front
  <2>1. Control' /\ Counters' /\ Embryos'
    BY <1>2, <1>a, Woken, Zenon DEF Steps, Control, Counters, Count
  <2> QED
    BY <1>2, <1>a, <2>1, Calm, Zenon DEF Goto, Control
<1>3. CASE WakeWriters(p, "user") /\ want' = [want EXCEPT ![p] = 0] /\ front' = Int32(front + k)
  <2>1. /\ step' \in [Procs -> Steps] /\ Embryos'
        /\ \A q \in Procs : step'[q] # "wsleep"
        /\ \A q \in Procs : step'[q] = "rsleep" => step[q] = "rsleep"
        /\ \A q \in Procs : step[q] = "wake" => step'[q] = "wake"
    BY <1>3, <1>a, Woken DEF Steps
  <2>2. front' \in Ints /\ Count' = Count - k
    BY <1>3, <1>a, <1>c, TakeCount, Zenon DEF Counters, Count
  <2>3. Counters'
    BY <1>3, <1>a, <1>c, <2>2, PipeAssumption DEF Counters
  <2>4. front = tail => front' = tail'
    <3>1. ASSUME front = tail PROVE Count = 0 /\ k = 0
      BY <3>1, <1>c, EmptyCount DEF Counters, Count
    <3> QED
      BY <3>1, <1>3, <1>a, PipeAssumption DEF Counters, Ints, Int32
  <2>5. ReaderSleeps'
    BY <2>1, <2>4, <1>a, Zenon DEF ReaderSleeps, WakeDue
  <2> QED
    BY <2>1, <2>3, <2>5, <1>a, Zenon DEF WriterSleeps, Control
<1> QED
  BY <1>b, <1>1, <1>2, <1>3, Zenon

\* fileclose wakes the other end whenever it marks a slot free: at once in
\* sys_close, in a later step in exit.
LEMMA CloseStep ==
  ASSUME SleepInv, NEW p \in Procs, FileClose(p)
  PROVE  SleepInv'
<1> DEFINE e == end[p]
<1> USE DEF SleepInv
<1>a. /\ step[p] = "close" /\ UNCHANGED <<front, tail, killed, arg, want, child>>
      /\ end' = [end EXCEPT ![p] = "r"]
  BY Zenon DEF FileClose, At, ring, call
<1>b. \/ Goto(p, "user") /\ UNCHANGED valid
      \/ WakeOther(p, e, "user") /\ valid' = [valid EXCEPT ![e] = FALSE]
  BY Zenon DEF FileClose, ftable
<1>c. Counters' /\ e \in Ends
  BY <1>a, Zenon DEF Counters, Count, Control
<1>1. CASE Goto(p, "user") /\ UNCHANGED valid
  <2>1. Control' /\ Embryos'
    BY <1>1, <1>a, Woken, Zenon DEF Steps, Control, Ends
  <2> QED
    BY <1>1, <1>a, <1>c, <2>1, Calm, Zenon DEF Goto, Control
<1>2. CASE e = "r" /\ WakeWriters(p, "user") /\ valid' = [valid EXCEPT ![e] = FALSE]
  <2>1. /\ step' \in [Procs -> Steps] /\ Embryos'
        /\ \A q \in Procs : step'[q] # "wsleep"
        /\ \A q \in Procs : step'[q] = "rsleep" => step[q] = "rsleep"
        /\ \A q \in Procs : step[q] = "wake" => step'[q] = "wake" /\ q # p
    BY <1>2, <1>a, Woken DEF Steps
  <2>2. valid'["w"] = valid["w"] /\ ~valid'["r"] /\ Control'
    BY <1>2, <1>a, <1>c, <2>1, Zenon DEF Control, Ends
  <2>3. ReaderSleeps'
    BY <2>1, <2>2, <1>a, Zenon DEF ReaderSleeps, WakeDue, Control
  <2> QED
    BY <2>1, <2>2, <2>3, <1>c, Zenon DEF WriterSleeps
<1>3. CASE e = "w" /\ WakeReaders(p, "user") /\ valid' = [valid EXCEPT ![e] = FALSE]
  <2>1. /\ step' \in [Procs -> Steps] /\ Embryos'
        /\ \A q \in Procs : step'[q] # "rsleep"
        /\ \A q \in Procs : step'[q] = "wsleep" => step[q] = "wsleep"
        /\ \A q \in Procs : step[q] = "wake" => step'[q] = "wake" /\ q # p
    BY <1>3, <1>a, Woken DEF Steps
  <2>2. valid'["r"] = valid["r"] /\ Control' /\ Count' = Count
    BY <1>3, <1>a, <1>c, <2>1, Zenon DEF Control, Ends, Count
  <2>3. WriterSleeps'
    BY <2>1, <2>2, <1>a, Zenon DEF WriterSleeps, WakeDue, Control
  <2> QED
    BY <2>1, <2>2, <2>3, <1>c, Zenon DEF ReaderSleeps
<1> QED
  BY <1>b, <1>c, <1>1, <1>2, <1>3, Zenon DEF WakeOther, Ends

\* exit marks the slot free and still owes the wakeup ...
LEMMA ExitMarkStep ==
  ASSUME SleepInv, NEW p \in Procs, ExitMark(p)
  PROVE  SleepInv'
<1> USE DEF SleepInv
<1>a. /\ step[p] = "mark" /\ UNCHANGED <<front, tail, killed, arg, want, child, end>>
      /\ valid' = [valid EXCEPT ![end[p]] = FALSE]
      /\ Goto(p, "wake")
  BY Zenon DEF ExitMark, At, ring, call, closing
<1>1. /\ step' \in [Procs -> Steps] /\ Embryos'
      /\ \A q \in Procs \ {p} : step'[q] = step[q]
      /\ step'[p] = "wake"
  BY <1>a, Woken, Zenon DEF Steps
<1>2. /\ Control' /\ Counters' /\ Count' = Count
      /\ \A e \in Ends : valid'[e] = valid[e] \/ e = end[p]
  BY <1>a, <1>1, Zenon DEF Control, Counters, Count
<1>3. \A e \in Ends : (valid[e] \/ WakeDue(e)) => (valid'[e] \/ WakeDue(e)')
  BY <1>a, <1>1, <1>2, Zenon DEF WakeDue
<1>4. WriterSleeps'
  BY <1>a, <1>1, <1>2, <1>3, Zenon DEF WriterSleeps, Ends
<1>5. ~valid["r"] => ~valid'["r"]
  BY <1>a, Zenon DEF Control, Ends
<1>6. ReaderSleeps'
  BY <1>a, <1>1, <1>3, <1>5, Zenon DEF ReaderSleeps, Ends
<1> QED
  BY <1>1, <1>2, <1>4, <1>6, Zenon

\* ... which it then does.
LEMMA ExitWakeStep ==
  ASSUME SleepInv, NEW p \in Procs, ExitWake(p)
  PROVE  SleepInv'
<1> USE DEF SleepInv
<1>a. /\ step[p] = "wake" /\ UNCHANGED <<front, tail, valid, killed, arg, want, child>>
      /\ end' = end \/ end' = [end EXCEPT ![p] = "r"]
      /\ \E s \in {"exit", "kfree"} : WakeOther(p, end[p], s)
  BY Zenon DEF ExitWake, NextFile, At, ring, call
<1>b. PICK s \in {"exit", "kfree"} : WakeOther(p, end[p], s)
  BY <1>a, Zenon
<1>c. end' \in [Procs -> Ends] /\ (\A q \in Procs \ {p} : end'[q] = end[q])
      /\ Counters' /\ Count' = Count
  BY <1>a, Zenon DEF Control, Counters, Count, Ends
<1>1. CASE end[p] = "r"
  <2>1. /\ step' \in [Procs -> Steps] /\ Embryos'
        /\ \A q \in Procs : step'[q] # "wsleep"
        /\ \A q \in Procs : step'[q] = "rsleep" => step[q] = "rsleep"
        /\ \A q \in Procs \ {p} : step[q] = "wake" => step'[q] = "wake"
    BY <1>1, <1>a, <1>b, Woken, SMTT(40), Z3T(40) DEF Steps, WakeOther
  <2>2. WakeDue("w") => WakeDue("w")'
    BY <2>1, <1>1, <1>c, Zenon DEF WakeDue
  <2>3. ReaderSleeps'
    BY <2>1, <2>2, <1>a, Zenon DEF ReaderSleeps
  <2> QED
    BY <2>1, <2>3, <1>a, <1>c, Zenon DEF WriterSleeps, Control
<1>2. CASE end[p] = "w"
  <2>1. /\ step' \in [Procs -> Steps] /\ Embryos'
        /\ \A q \in Procs : step'[q] # "rsleep"
        /\ \A q \in Procs : step'[q] = "wsleep" => step[q] = "wsleep"
        /\ \A q \in Procs \ {p} : step[q] = "wake" => step'[q] = "wake"
    BY <1>2, <1>a, <1>b, Woken DEF Steps, WakeOther
  <2>2. WakeDue("r") => WakeDue("r")'
    BY <2>1, <1>2, <1>c, Zenon DEF WakeDue
  <2>3. WriterSleeps'
    BY <2>1, <2>2, <1>a, <1>c, Zenon DEF WriterSleeps
  <2> QED
    BY <2>1, <2>3, <1>a, <1>c, Zenon DEF ReaderSleeps, Control
<1> QED
  BY <1>1, <1>2, Zenon DEF Control, Ends

-----------------------------------------------------------------------------
\* Every action of Next keeps the invariant.
LEMMA SleepNext == SleepInv /\ [Next]_vars => SleepInv'
<1> SUFFICES ASSUME SleepInv, [Next]_vars PROVE SleepInv'
  BY Zenon
<1>1. CASE UNCHANGED vars
  BY <1>1, Zenon DEF vars, ring, ftable, call, closing, SleepInv, Control, Counters, Count,
              Embryos, WriterSleeps, ReaderSleeps, WakeDue
<1>2. CASE Next
  <2>1. PICK p \in Procs : \/ Fork(p) \/ SysDup(p) \/ SysWrite(p) \/ SysRead(p)
                          \/ SysClose(p) \/ Exit(p) \/ Kill(p) \/ Proceed(p)
    BY <1>2, Zenon DEF Next
  <2> QED
    BY <2>1, AroundStep, EntryStep, WriteStep, ReadStep, CloseStep, ExitMarkStep,
       ExitWakeStep DEF Proceed
<1> QED
  BY <1>1, <1>2, Zenon

\* Nobody sleeps at the start.
LEMMA SleepInit == Init => SleepInv
<1> SUFFICES ASSUME Init PROVE SleepInv
  BY Zenon
<1>1. Control
  BY Zenon DEF Init, Control, Steps, Ends
<1>2. Counters
  BY PipeAssumption DEF Init, Counters, Ints, Count, Int32
<1>3. Embryos /\ WriterSleeps /\ ReaderSleeps
  BY Zenon DEF Init, Embryos, WriterSleeps, ReaderSleeps
<1> QED
  BY <1>1, <1>2, <1>3, Zenon DEF SleepInv

\* In every behaviour of readp, writep and the closes the invariant holds.
THEOREM Sleeping == Spec => []SleepInv
BY SleepInit, SleepNext, PTL DEF Spec

\* A writer asleep in writep faces a full ring and an open read end, or a closer
\* that is about to wake it: no read and no fileclose loses its wakeup.
THEOREM WritersSleepForAReason == Spec => []WriterSleeps
<1>1. SleepInv => WriterSleeps
  BY Zenon DEF SleepInv
<1> QED
  BY <1>1, Sleeping, PTL

\* A reader asleep in readp faces an open write end, or a closer about to wake
\* it, and an empty ring unless a writer was killed or found no reader.
THEOREM ReadersSleepForAReason == Spec => []ReaderSleeps
<1>1. SleepInv => ReaderSleeps
  BY Zenon DEF SleepInv
<1> QED
  BY <1>1, Sleeping, PTL

-----------------------------------------------------------------------------
\* Counters less than Size apart name different bytes of the ring.
LEMMA ModDistinct ==
  ASSUME NEW a \in Nat, NEW b \in Nat, NEW n \in Nat \ {0},
         a <= b, b - a < n, a % n = b % n
  PROVE  a = b
<1> DEFINE d == (b \div n) - (a \div n)
<1>1. a = n * (a \div n) + (a % n) /\ b = n * (b \div n) + (b % n)
  OBVIOUS
<1>2. a \div n \in Int /\ b \div n \in Int
  OBVIOUS
<1>3. b - a = n * d
  BY <1>1, <1>2
<1>4. CASE d >= 1
  <2>1. n * d >= n
    BY <1>4, <1>2
  <2> QED BY <2>1, <1>3
<1>5. CASE d <= 0
  <2>1. n * d <= 0
    BY <1>5, <1>2
  <2> QED BY <2>1, <1>3
<1> QED
  BY <1>2, <1>4, <1>5

\* tail has not gone past the largest int.
NoWrap == tail >= 0

\* What the mapping to Fifo reads: the counters in order, the bytes typed.
RingInv ==
  /\ front \in Nat /\ tail \in Nat /\ front <= tail /\ tail - front <= Size
  /\ tail <= IntMax
  /\ buf \in [0..Size - 1 -> Bytes]

Queue == Loaded(buf, front, Count)

\* A counter that is a natural number names the byte it does modulo Size.
LEMMA SlotNat ==
  ASSUME NEW c \in 0..IntMax
  PROVE  Slot(Int32(c)) = c % Size /\ c % Size \in 0..Size - 1
BY PipeAssumption DEF Slot, Int32, Rem

\* What Loaded and Stored are, while the counters have not wrapped.
LEMMA LoadedIs ==
  ASSUME NEW b \in [0..Size - 1 -> Bytes], NEW f \in Nat, NEW k \in Nat, f + k <= IntMax
  PROVE  /\ Loaded(b, f, k) \in [1..k -> Bytes]
         /\ Loaded(b, f, k) \in Seq(Bytes) /\ Len(Loaded(b, f, k)) = k
         /\ \A j \in 1..k : Loaded(b, f, k)[j] = b[(f + j - 1) % Size]
<1>0. \A j \in 1..k : f + j - 1 \in 0..IntMax
  BY PipeAssumption
<1>1. \A j \in 1..k : /\ Slot(Int32(f + j - 1)) = (f + j - 1) % Size
                      /\ (f + j - 1) % Size \in 0..Size - 1
  BY <1>0, SlotNat, Zenon
<1>2. Loaded(b, f, k) = [j \in 1..k |-> b[(f + j - 1) % Size]]
  BY <1>1, Zenon DEF Loaded
<1>3. Loaded(b, f, k) \in [1..k -> Bytes]
  BY <1>1, <1>2, Zenon
<1>4. Loaded(b, f, k) \in Seq(Bytes)
  BY <1>3, SeqDef
<1>5. Len(Loaded(b, f, k)) = k
  BY <1>3, <1>4, LenProperties
<1> QED
  BY <1>2, <1>3, <1>4, <1>5, Zenon

\* Stored changes the bytes from tail on and no others.
LEMMA StoredIs ==
  ASSUME NEW b \in [0..Size - 1 -> Bytes], NEW t \in Nat, NEW s \in Seq(Bytes),
         t + Len(s) <= IntMax, Len(s) <= Size
  PROVE  /\ Stored(b, t, s) \in [0..Size - 1 -> Bytes]
         /\ \A j \in 1..Len(s) : Stored(b, t, s)[(t + j - 1) % Size] = s[j]
         /\ \A i \in 0..Size - 1 :
              (\A j \in 1..Len(s) : (t + j - 1) % Size # i) => Stored(b, t, s)[i] = b[i]
<1> DEFINE J(i) == {j \in 1..Len(s) : Slot(Int32(t + j - 1)) = i}
           Val(i) == IF J(i) = {} THEN b[i] ELSE s[CHOOSE j \in J(i) : TRUE]
<1>0. \A j \in 1..Len(s) : t + j - 1 \in 0..IntMax
  BY PipeAssumption
<1>1. \A j \in 1..Len(s) : /\ Slot(Int32(t + j - 1)) = (t + j - 1) % Size
                           /\ (t + j - 1) % Size \in 0..Size - 1
  BY <1>0, SlotNat, Zenon
<1>2. Stored(b, t, s) = [i \in 0..Size - 1 |-> Val(i)]
  BY Zenon DEF Stored
<1>3. \A i : J(i) # {} => (CHOOSE j \in J(i) : TRUE) \in J(i)
  BY Zenon
<1>4. \A i \in 0..Size - 1 : Val(i) \in Bytes
  BY <1>3
<1>5. ASSUME NEW j \in 1..Len(s) PROVE Stored(b, t, s)[(t + j - 1) % Size] = s[j]
  <2> DEFINE i == (t + j - 1) % Size
             m == CHOOSE x \in J(i) : TRUE
  <2>1. j \in J(i) /\ i \in 0..Size - 1
    BY <1>1, Zenon
  <2>2. m \in J(i)
    BY <2>1, <1>3, Zenon
  <2>3. m \in 1..Len(s) /\ (t + m - 1) % Size = (t + j - 1) % Size
    BY <2>2, <1>1, Zenon
  <2>4. m = j
    <3> HIDE DEF m, i
    <3> DEFINE x == t + m - 1
               y == t + j - 1
    <3>1. /\ x \in Nat /\ y \in Nat /\ Size \in Nat \ {0}
          /\ x - y < Size /\ y - x < Size /\ x % Size = y % Size
          /\ (x = y => m = j)
      BY <2>3, PipeAssumption
    <3> HIDE DEF x, y
    <3>2. x <= y \/ y <= x
      BY <3>1
    <3> QED
      BY <3>1, <3>2, ModDistinct, Zenon
  <2>5. J(i) # {} /\ s[CHOOSE x \in J(i) : TRUE] = s[j]
    BY <2>1, <2>4, Zenon
  <2>6. Val(i) = s[j]
    BY <2>5, Zenon
  <2> HIDE DEF Val
  <2> QED
    BY <2>1, <2>6, <1>2, Zenon
<1>6. ASSUME NEW i \in 0..Size - 1, \A j \in 1..Len(s) : (t + j - 1) % Size # i
      PROVE  Stored(b, t, s)[i] = b[i]
  <2>1. J(i) = {}
    BY <1>1, <1>6, Zenon
  <2> QED
    BY <2>1, <1>2, Zenon
<1> HIDE DEF Val
<1> QED
  BY <1>2, <1>4, <1>5, <1>6, Zenon

\* Loading after k bytes were taken, and after s was stored.
LEMMA AfterTake ==
  ASSUME NEW b \in [0..Size - 1 -> Bytes], NEW f \in Nat, NEW c \in Nat, f + c <= IntMax,
         NEW k \in 0..c
  PROVE  /\ Loaded(b, f, k) = SubSeq(Loaded(b, f, c), 1, k)
         /\ Loaded(b, f + k, c - k) = SubSeq(Loaded(b, f, c), k + 1, c)
<1> DEFINE q == Loaded(b, f, c)
           head == Loaded(b, f, k)
           rest == Loaded(b, f + k, c - k)
<1>1. /\ q \in Seq(Bytes) /\ Len(q) = c
      /\ \A j \in 1..c : q[j] = b[(f + j - 1) % Size]
  BY LoadedIs, Zenon
<1>2. /\ head \in Seq(Bytes) /\ Len(head) = k
      /\ \A j \in 1..k : head[j] = b[(f + j - 1) % Size]
  <2>1. k \in Nat /\ f + k <= IntMax
    BY PipeAssumption
  <2> QED
    BY <2>1, LoadedIs, Zenon
<1>3. /\ rest \in Seq(Bytes) /\ Len(rest) = c - k
      /\ \A j \in 1..c - k : rest[j] = b[(f + k + j - 1) % Size]
  <2>1. f + k \in Nat /\ c - k \in Nat /\ (f + k) + (c - k) <= IntMax
    BY PipeAssumption
  <2> QED
    BY <2>1, LoadedIs, Zenon
<1>4. \A j \in 1..k : SubSeq(q, 1, k)[j] = head[j]
  BY <1>1, <1>2
<1>5. \A j \in 1..c - k : SubSeq(q, k + 1, c)[j] = rest[j]
  <2> TAKE j \in 1..c - k
  <2>1. SubSeq(q, k + 1, c)[j] = q[k + j]
    BY <1>1
  <2>2. q[k + j] = b[(f + (k + j) - 1) % Size]
    BY <1>1
  <2>3. f + (k + j) - 1 = f + k + j - 1
    OBVIOUS
  <2> QED
    BY <2>1, <2>2, <2>3, <1>3, Zenon
<1>6. /\ SubSeq(q, 1, k) \in Seq(Bytes) /\ Len(SubSeq(q, 1, k)) = k
      /\ SubSeq(q, k + 1, c) \in Seq(Bytes) /\ Len(SubSeq(q, k + 1, c)) = c - k
  BY <1>1
<1> HIDE DEF q, head, rest
<1>7. SubSeq(q, 1, k) = head
  BY <1>2, <1>4, <1>6
<1>8. SubSeq(q, k + 1, c) = rest
  BY <1>3, <1>5, <1>6
<1> QED
  BY <1>7, <1>8, Zenon DEF q, head, rest

\* Storing s appends it to what is loaded.
LEMMA AfterStore ==
  ASSUME NEW b \in [0..Size - 1 -> Bytes], NEW f \in Nat, NEW c \in Nat,
         NEW s \in Seq(Bytes), f + c + Len(s) <= IntMax, c + Len(s) <= Size
  PROVE  Loaded(Stored(b, f + c, s), f, c + Len(s)) = Loaded(b, f, c) \o s
<1> DEFINE n == Len(s)
           q == Loaded(b, f, c)
           d == Stored(b, f + c, s)
           r == Loaded(d, f, c + n)
<1>0. /\ n \in Nat /\ n <= Size /\ f + c \in Nat /\ c + n \in Nat
      /\ f + c <= IntMax /\ f + (c + n) <= IntMax /\ c + n <= Size
  BY PipeAssumption
<1>1. /\ q \in Seq(Bytes) /\ Len(q) = c
      /\ \A j \in 1..c : q[j] = b[(f + j - 1) % Size]
  BY LoadedIs, <1>0, Zenon
<1>2. /\ d \in [0..Size - 1 -> Bytes]
      /\ \A j \in 1..n : d[(f + c + j - 1) % Size] = s[j]
      /\ \A i \in 0..Size - 1 : (\A j \in 1..n : (f + c + j - 1) % Size # i) => d[i] = b[i]
  BY StoredIs, <1>0, Zenon
<1> HIDE DEF d
<1>3. /\ r \in Seq(Bytes) /\ Len(r) = c + n
      /\ \A j \in 1..c + n : r[j] = d[(f + j - 1) % Size]
  BY LoadedIs, <1>0, <1>2, ZenonT(60)
<1>4. ASSUME NEW j \in 1..c PROVE r[j] = q[j]
  <2>1. f + j - 1 \in Nat /\ (f + j - 1) % Size \in 0..Size - 1
    BY PipeAssumption
  <2>2. ASSUME NEW m \in 1..n, (f + c + m - 1) % Size = (f + j - 1) % Size PROVE FALSE
    <3> DEFINE x == f + j - 1
               y == f + c + m - 1
    <3>1. /\ x \in Nat /\ y \in Nat /\ Size \in Nat \ {0}
          /\ x <= y /\ x # y /\ y - x < Size /\ x % Size = y % Size
      BY <2>2, <1>0, PipeAssumption
    <3> HIDE DEF x, y
    <3> QED
      BY <3>1, ModDistinct, Zenon
  <2>3. d[(f + j - 1) % Size] = b[(f + j - 1) % Size]
    BY <1>2, <2>1, <2>2, Zenon
  <2> QED
    BY <2>3, <1>1, <1>3, <1>0, SMTT(40), Z3T(40)
<1>5. ASSUME NEW j \in 1..n PROVE r[c + j] = s[j]
  <2>0. c + j \in 1..c + n
    BY <1>0
  <2>1. r[c + j] = d[(f + (c + j) - 1) % Size]
    BY <1>3, <2>0, Zenon
  <2>2. f + (c + j) - 1 = f + c + j - 1
    BY <1>0
  <2> QED
    BY <2>1, <2>2, <1>2, Zenon
<1>6. /\ q \o s \in Seq(Bytes) /\ Len(q \o s) = c + n
      /\ \A j \in 1..c : (q \o s)[j] = q[j]
      /\ \A j \in 1..n : (q \o s)[c + j] = s[j]
  <2> HIDE DEF q
  <2>1. /\ q \o s \in Seq(Bytes) /\ Len(q \o s) = Len(q) + Len(s)
        /\ \A j \in 1..Len(q) + Len(s) :
             (q \o s)[j] = IF j <= Len(q) THEN q[j] ELSE s[j - Len(q)]
    BY <1>1, ConcatProperties, Zenon
  <2>2. \A j \in 1..n : c + j \in 1..c + n /\ ~(c + j <= c) /\ (c + j) - c = j
    BY <1>0
  <2>3. \A j \in 1..c : j \in 1..c + n /\ j <= c
    BY <1>0
  <2> QED
    BY <1>1, <2>1, <2>2, <2>3
<1> HIDE DEF q, r
<1>7. \A j \in 1..c + n : r[j] = (q \o s)[j]
  <2> SUFFICES ASSUME NEW j \in 1..c + n PROVE r[j] = (q \o s)[j]
    BY Zenon
  <2>1. CASE j \in 1..c
    BY <2>1, <1>4, <1>6, Zenon
  <2>2. CASE j - c \in 1..n
    <3>1. c + (j - c) = j
      BY <1>0
    <3> QED
      BY <2>2, <3>1, <1>5, <1>6, Zenon
  <2>3. j \in 1..c \/ j - c \in 1..n
    BY <1>0
  <2> QED
    BY <2>1, <2>2, <2>3, Zenon
<1>8. r = q \o s
  BY <1>3, <1>6, <1>7
<1> QED
  BY <1>8, Zenon DEF d, q, r

-----------------------------------------------------------------------------
\* Two counters that have not wrapped are as far apart as int arithmetic says.
LEMMA PlainDiff ==
  ASSUME NEW f \in Nat, NEW t \in Nat, f <= t, t <= IntMax
  PROVE  Int32(t - f) = t - f
BY PipeAssumption DEF Int32

\* The ring of a state that has not wrapped: Count is the plain difference.
LEMMA PlainCount ==
  ASSUME RingInv
  PROVE  Count = tail - front /\ Count \in 0..Size /\ front + Count <= IntMax
BY PipeAssumption DEF RingInv, Count, Int32

\* A step that leaves the ring alone and returns no bytes is a Put of nothing.
LEMMA Nothing ==
  ASSUME RingInv, UNCHANGED ring, ret'.data = <<>>
  PROVE  RingInv' /\ F!Next
<1>1. RingInv'
  BY Zenon DEF RingInv, ring
<1>2. /\ Queue \in Seq(Bytes) /\ Len(Queue) <= Size /\ Len(Queue) \in Nat
      /\ Queue' = Queue
  BY PlainCount, LoadedIs, PipeAssumption, SMTT(40), Z3T(40) DEF Queue, ring, RingInv, Count
<1>3. Queue \o <<>> = Queue
  BY <1>2, ConcatEmptySeq, Zenon
<1>4. <<>> \in [1..0 -> Bytes] /\ 0 \in 0..Size /\ Len(<<>>) = 0
  BY PipeAssumption
<1>5. F!Put(<<>>)
  BY <1>2, <1>3, <1>4, SMTT(40), Z3T(40) DEF F!Put, Queue
<1> QED
  BY <1>1, <1>4, <1>5, Zenon DEF F!Next

\* writep puts the bytes it stores at the end of the queue.
LEMMA WriteMaps ==
  ASSUME SleepInv, RingInv, NoWrap', NEW p \in Procs, WriteP(p)
  PROVE  RingInv' /\ F!Next
<1> DEFINE k == Least(Len(arg[p]), Size - Count)
           s == SubSeq(arg[p], 1, k)
<1>a. /\ front' = front /\ tail' = Int32(tail + k)
      /\ buf' = Stored(buf, tail, s)
  BY Zenon DEF WriteP, WriteSome
<1>b. ret'.data = <<>>
  <2>1. NoReturn \/ Return(TRUE, <<>>)
    BY Zenon DEF WriteP, WriteSome
  <2> QED
    BY <2>1 DEF NoReturn, Return
<1>c. /\ Count = tail - front /\ Count \in 0..Size /\ front + Count <= IntMax
      /\ front + Count = tail
  BY PlainCount DEF RingInv
<1>d. arg[p] \in Seq(Bytes) /\ Len(arg[p]) \in Nat
  BY DEF SleepInv, Counters
<1>e. k \in 0..Size - Count /\ k <= Len(arg[p])
  BY <1>c, <1>d, PipeAssumption DEF Least
<1>f. s \in Seq(Bytes) /\ Len(s) = k
  BY <1>d, <1>e
<1> HIDE DEF s, k
<1>g. tail' = tail + k /\ tail + k <= IntMax
  BY <1>a, <1>c, <1>e, PipeAssumption DEF NoWrap, Int32, RingInv
<1>h. buf' \in [0..Size - 1 -> Bytes]
  BY <1>a, <1>c, <1>e, <1>f, <1>g, StoredIs, PipeAssumption DEF RingInv
<1>1. RingInv'
  BY <1>a, <1>c, <1>e, <1>g, <1>h, PipeAssumption DEF RingInv
<1>2. Count' = Count + k
  <2>1. Count' = tail' - front'
    BY <1>1, PlainDiff, Zenon DEF RingInv, Count
  <2> QED
    BY <2>1, <1>a, <1>c, <1>e, <1>g DEF RingInv
<1>3. Queue' = Queue \o s
  <2>1. Loaded(Stored(buf, front + Count, s), front, Count + Len(s)) = Loaded(buf, front, Count) \o s
    <3>1. /\ buf \in [0..Size - 1 -> Bytes] /\ front \in Nat /\ Count \in Nat
          /\ front + Count + Len(s) <= IntMax /\ Count + Len(s) <= Size
      BY <1>c, <1>e, <1>f, <1>g, PipeAssumption DEF RingInv
    <3> QED
      BY <3>1, <1>f, AfterStore, Zenon
  <2>2. Queue' = Loaded(buf', front', Count')
    BY Zenon DEF Queue, Loaded
  <2> QED
    BY <2>1, <2>2, <1>a, <1>c, <1>f, <1>2, Zenon DEF Queue
<1>4. Len(Queue) = Count
  BY <1>c, LoadedIs DEF RingInv, Queue
<1>5. s \in [1..k -> Bytes] /\ k \in 0..Size
  BY <1>c, <1>e, <1>f, LenProperties, PipeAssumption
<1>6. F!Put(s)
  BY <1>b, <1>c, <1>e, <1>f, <1>3, <1>4, PipeAssumption DEF F!Put, Queue
<1> QED
  BY <1>1, <1>5, <1>6, Zenon DEF F!Next

\* readp gets the bytes it returns from the head of the queue.
LEMMA ReadMaps ==
  ASSUME SleepInv, RingInv, NEW p \in Procs, ReadP(p)
  PROVE  RingInv' /\ F!Next
<1> DEFINE k == Least(want[p], Count)
<1>a. UNCHANGED <<tail, buf>>
  BY Zenon DEF ReadP
<1>b. \/ UNCHANGED front /\ (NoReturn \/ Return(TRUE, <<>>))
      \/ front' = Int32(front + k) /\ Return(FALSE, Loaded(buf, front, k))
  BY Zenon DEF ReadP
<1>c. /\ Count = tail - front /\ Count \in 0..Size /\ front + Count <= IntMax
  BY PlainCount, Zenon
<1>d. k \in 0..Count
  BY <1>c, PipeAssumption DEF Least, SleepInv, Counters
<1>1. CASE UNCHANGED front /\ (NoReturn \/ Return(TRUE, <<>>))
  BY <1>1, <1>a, Nothing DEF ring, NoReturn, Return
<1>2. CASE front' = Int32(front + k) /\ Return(FALSE, Loaded(buf, front, k))
  <2> HIDE DEF k
  <2>1. front' = front + k
    BY <1>2, <1>c, <1>d, PipeAssumption DEF Int32, RingInv
  <2>2. RingInv'
    BY <2>1, <1>a, <1>c, <1>d, PipeAssumption DEF RingInv
  <2>3. Count' = Count - k
    <3>1. Count' = tail' - front'
      BY <2>2, PlainDiff, Zenon DEF RingInv, Count
    <3> QED
      BY <3>1, <2>1, <1>a, <1>c, <1>d DEF RingInv
  <2>4. /\ Loaded(buf, front, k) = SubSeq(Queue, 1, k)
        /\ Loaded(buf, front + k, Count - k) = SubSeq(Queue, k + 1, Count)
    <3>1. buf \in [0..Size - 1 -> Bytes] /\ front \in Nat /\ Count \in Nat
      BY <1>c DEF RingInv
    <3> QED
      BY <3>1, <1>c, <1>d, AfterTake, ZenonT(60) DEF Queue
  <2>5. Len(Queue) = Count
    BY <1>c, LoadedIs DEF RingInv, Queue
  <2>6. Queue' = SubSeq(Queue, k + 1, Len(Queue))
    <3>1. Queue' = Loaded(buf', front', Count')
      BY Zenon DEF Queue, Loaded
    <3> QED
      BY <3>1, <2>1, <2>3, <2>4, <2>5, <1>a, Zenon
  <2>7. F!Get(k)
    BY <1>2, <2>4, <2>6, Zenon DEF F!Get, Return, Queue
  <2> QED
    BY <2>2, <2>5, <2>7, <1>d, Zenon DEF F!Next, Queue
<1> QED
  BY <1>b, <1>1, <1>2, Zenon

\* Every step is a step of the queue or leaves it alone.
LEMMA FifoStep ==
  SleepInv /\ RingInv /\ NoWrap' /\ [Next]_vars
    => RingInv' /\ [F!Next]_<<Loaded(buf, front, Count), ret.data>>
<1> SUFFICES ASSUME SleepInv, RingInv, NoWrap', [Next]_vars
             PROVE  RingInv' /\ [F!Next]_<<Queue, ret.data>>
  BY Zenon DEF Queue
<1>1. CASE UNCHANGED vars
  BY <1>1, Zenon DEF vars, ring, RingInv, Queue, Count
<1>2. CASE Next
  <2>1. PICK p \in Procs : \/ Fork(p) \/ SysDup(p) \/ SysWrite(p) \/ SysRead(p)
                          \/ SysClose(p) \/ Exit(p) \/ Kill(p) \/ Proceed(p)
    BY <1>2, Zenon DEF Next
  <2>2. CASE WriteP(p)
    BY <2>2, WriteMaps, Zenon
  <2>3. CASE ReadP(p)
    BY <2>3, ReadMaps, Zenon
  <2>4. CASE ~WriteP(p) /\ ~ReadP(p)
    <3>1. UNCHANGED ring /\ (NoReturn \/ \E e \in {TRUE, FALSE} : Return(e, <<>>))
      BY <2>1, <2>4, Zenon DEF Proceed, Fork, ForkFile, ForkDone, SysDup, SysWrite, SysRead, SysClose,
           Exit, Kill, FileClose, ExitTest, ExitLoad, ExitStore, ExitMark, ExitWake,
           ExitFree, Stray
    <3>2. ret'.data = <<>>
      BY <3>1 DEF NoReturn, Return
    <3> QED
      BY <3>1, <3>2, Nothing, Zenon
  <2> QED
    BY <2>2, <2>3, <2>4, Zenon
<1> QED
  BY <1>1, <1>2, Zenon

\* Until tail has gone past the largest int, a pipe is a queue of at most Size
\* bytes: readp returns the bytes writep stored, in order, each of them once.
THEOREM FifoUntilWrap == Spec /\ []NoWrap => IsFifo
<1>1. Init => RingInv /\ F!Init
  <2> SUFFICES ASSUME Init PROVE RingInv /\ F!Init
    BY Zenon
  <2>1. Junk \in Bytes
    BY PipeAssumption, Zenon DEF Junk
  <2>2. RingInv
    BY <2>1, PipeAssumption DEF Init, RingInv
  <2>3. Count = 0
    BY PipeAssumption DEF Init, Count, Int32
  <2>4. Loaded(buf, front, Count) = <<>>
    BY <2>3 DEF Loaded
  <2> QED
    BY <2>2, <2>4, Zenon DEF Init, F!Init
<1> QED
  BY <1>1, FifoStep, Sleeping, PTL DEF Spec, IsFifo, F!Spec
=============================================================================
