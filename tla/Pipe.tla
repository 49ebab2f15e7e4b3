-------------------------------- MODULE Pipe --------------------------------
(***************************************************************************)
(* A pipe: readp and writep of kernel/fs.c, reached through fileread and   *)
(* filewrite, and the calls that open and close its two ends: fork,        *)
(* sys_close, and exit, whose fileclose runs without ftable.lock.          *)
(*                                                                         *)
(* There is one CPU and a spinlock holds off interrupts, so what a process *)
(* does between acquiring the pipe's lock and releasing it or going to     *)
(* sleep is one step.  The pipe's page goes back to kalloc when both slots *)
(* of ftable are marked free.  A process that uses the page after that     *)
(* sets stray: it reads junk or spins on a lock word that is junk, with    *)
(* interrupts off, and nothing is modelled from there on.                  *)
(***************************************************************************)
EXTENDS Integers, Sequences, FiniteSets

CONSTANTS
  Procs,      \* processes; the first one calls pipe()
  Creator,    \* that process
  Bytes,      \* values of a byte
  Size,       \* SIZE, the bytes buf holds (2048)
  IntMax,     \* largest int: front and tail are ints
  NoFile,     \* NOFILE, the descriptors a process can have
  MaxCall,    \* bytes in one read or write
  MaxBytes    \* no write starts once so many bytes have been written

\* The ring fits the counters, and one process exists.
ASSUME PipeAssumption ==
  /\ Creator \in Procs /\ Bytes # {}
  /\ Size \in Nat \ {0} /\ IntMax \in Nat /\ Size <= IntMax
  /\ NoFile \in Nat \ {0, 1}
  /\ MaxCall \in Nat /\ MaxBytes \in Nat

VARIABLES
  front, tail,  \* bytes read and written so far
  buf,          \* the ring
  valid,        \* valid[e]: ftable.valid_flags of the slot of end e
  refs,         \* refs[e]: ref_count in that slot
  freed,        \* the page went back to kalloc
  holds,        \* holds[p][e]: descriptors of end e in p's file table
  child,        \* the process p is forking
  step,         \* where p is
  killed,       \* p->killed
  arg,          \* bytes p's write has not stored yet
  want,         \* bytes p's read asks for
  ret,          \* what the last step returned to its process, if it did
  end,          \* the end p is closing
  copy,         \* the ref_count p read
  stray         \* a process used the page after it was freed

ring   == <<front, tail, buf>>
ftable == <<valid, refs, freed, holds>>
closing == <<end, copy>>
call   == <<arg, want>>
vars   == <<ring, ftable, child, step, killed, call, ret, closing, stray>>

Ends  == {"r", "w"}
Steps == {"unborn", "embryo", "user", "fork", "read", "rsleep", "write", "wsleep", "close",
          "exit", "dec", "store", "mark", "wake", "kfree", "gone"}
Calls == UNION {[1..n -> Bytes] : n \in 0..MaxCall}

\* int arithmetic (-fwrapv) and C's remainder, which has the sign of a.
Int32(x) == IF x > IntMax THEN x - 2 * (IntMax + 1)
            ELSE IF x < -IntMax - 1 THEN x + 2 * (IntMax + 1) ELSE x
Rem(a, n) == IF a >= 0 THEN a % n ELSE -((-a) % n)

\* kfree fills a page with one byte, and kalloc leaves it so.
Junk == CHOOSE c \in Bytes : TRUE

Count   == Int32(tail - front)
Slot(c) == Rem(c, Size)

\* Variant: the counter goes up before the store.
StoredNext(b, t, s) ==
  [i \in 0..Size - 1 |->
     LET J == {j \in 1..Len(s) : Slot(Int32(t + j)) = i}
     IN  IF J = {} THEN b[i] ELSE s[CHOOSE j \in J : TRUE]]

\* buf after the bytes of s are stored from counter t on.
Stored(b, t, s) ==
  [i \in 0..Size - 1 |->
     LET J == {j \in 1..Len(s) : Slot(Int32(t + j - 1)) = i}
     IN  IF J = {} THEN b[i] ELSE s[CHOOSE j \in J : TRUE]]

\* The k bytes from counter f on.
Loaded(b, f, k) == [j \in 1..k |-> b[Slot(Int32(f + j - 1))]]

Open(p) == {e \in Ends : holds[p][e] > 0}

Least(m, n) == IF m <= n THEN m ELSE n

Goto(p, s) == step' = [step EXCEPT ![p] = s]

\* Variant: no wakeup.
WakeNobody(p, s) == Goto(p, s)

\* wakeup(&pipe->front) or wakeup(&pipe->tail), and p goes on to s.
WakeReaders(p, s) ==
  step' = [q \in Procs |-> IF q = p THEN s ELSE IF step[q] = "rsleep" THEN "read" ELSE step[q]]

WakeWriters(p, s) ==
  step' = [q \in Procs |-> IF q = p THEN s ELSE IF step[q] = "wsleep" THEN "write" ELSE step[q]]

\* A step returns bytes, or -1, to its process; or it returns nothing.
Result == [err : BOOLEAN, data : UNION {[1..n -> Bytes] : n \in 0..Size}]
Return(e, d) == ret' = [err |-> e, data |-> d]
NoReturn == ret' = [err |-> FALSE, data |-> <<>>]

At(p, s) == step[p] = s /\ ~stray

\* fileread, filewrite or fileclose reaches the page after kfree.
Stray(p) ==
  /\ \E s \in {"read", "write", "wake", "kfree"} : At(p, s)
  /\ freed
  /\ stray' = TRUE
  /\ NoReturn
  /\ UNCHANGED <<ring, ftable, child, step, killed, call, closing>>

-----------------------------------------------------------------------------
\* pipe(): two slots, each with one reference.
Init ==
  /\ front = 0 /\ tail = 0
  /\ buf = [i \in 0..Size - 1 |-> Junk]
  /\ valid = [e \in Ends |-> TRUE]
  /\ refs = [e \in Ends |-> 1]
  /\ freed = FALSE
  /\ holds = [p \in Procs |-> [e \in Ends |-> IF p = Creator THEN 1 ELSE 0]]
  /\ child = [p \in Procs |-> p]
  /\ step = [p \in Procs |-> IF p = Creator THEN "user" ELSE "unborn"]
  /\ killed = [p \in Procs |-> FALSE]
  /\ arg = [p \in Procs |-> <<>>]
  /\ want = [p \in Procs |-> 0]
  /\ ret = [err |-> FALSE, data |-> <<>>]
  /\ end = [p \in Procs |-> "r"]
  /\ copy = [p \in Procs |-> 0]
  /\ stray = FALSE

\* In user mode p enters a system call; trap kills it if it must die.
MayCall(p) == At(p, "user") /\ ~killed[p]

\* fork up to the loop over the file table.
Fork(p) ==
  /\ MayCall(p)
  /\ \E q \in Procs :
       /\ step[q] = "unborn"
       /\ child' = [child EXCEPT ![p] = q]
       /\ step' = [step EXCEPT ![p] = "fork", ![q] = "embryo"]
  /\ NoReturn
  /\ UNCHANGED <<ring, ftable, killed, call, closing, stray>>

\* One descriptor of fork's loop, with ptable.lock held.
ForkFile(p) ==
  LET q == child[p] IN
  /\ At(p, "fork")
  /\ \E e \in Ends :
       /\ holds[q][e] < holds[p][e]
       /\ holds' = [holds EXCEPT ![q][e] = @ + 1]
       /\ refs' = [refs EXCEPT ![e] = @ + 1]
  /\ NoReturn
  /\ UNCHANGED <<ring, valid, freed, child, step, killed, call, closing, stray>>

\* The child is made runnable.
ForkDone(p) ==
  /\ At(p, "fork") /\ holds[child[p]] = holds[p]
  /\ step' = [step EXCEPT ![p] = "user", ![child[p]] = "user"]
  /\ child' = [child EXCEPT ![p] = p]
  /\ NoReturn
  /\ UNCHANGED <<ring, ftable, killed, call, closing, stray>>

\* sys_dup and filedup, with ftable.lock held; -1 when p's table is full.
SysDup(p) ==
  /\ MayCall(p)
  /\ \E e \in Open(p) :
       LET ok == valid[e] /\ holds[p]["r"] + holds[p]["w"] < NoFile IN
       /\ holds' = [holds EXCEPT ![p][e] = IF ok THEN @ + 1 ELSE @]
       /\ refs' = [refs EXCEPT ![e] = IF ok THEN @ + 1 ELSE @]
       /\ Return(~ok, <<>>)
  /\ UNCHANGED <<ring, valid, freed, child, step, killed, call, closing, stray>>

\* sys_write: the slot must be in use; filewrite comes next.
SysWrite(p) ==
  /\ MayCall(p) /\ "w" \in Open(p)
  /\ tail < MaxBytes
  /\ \E s \in Calls : arg' = [arg EXCEPT ![p] = IF valid["w"] THEN s ELSE <<>>]
  /\ Goto(p, IF valid["w"] THEN "write" ELSE "user")
  /\ Return(~valid["w"], <<>>)
  /\ UNCHANGED <<ring, ftable, child, killed, want, closing, stray>>

\* writep stores k bytes; when that leaves some, it fails if the reader is gone
\* or p was killed, else it wakes the readers and sleeps.
WriteSome(p, k, gone) ==
  /\ At(p, "write") /\ ~freed
  /\ buf' = Stored(buf, tail, SubSeq(arg[p], 1, k))
  /\ tail' = Int32(tail + k)
  /\ \/ /\ k = Len(arg[p])
        /\ WakeReaders(p, "user")
        /\ arg' = [arg EXCEPT ![p] = <<>>]
        /\ NoReturn
     \/ /\ k < Len(arg[p]) /\ (gone \/ killed[p])
        /\ Goto(p, "user")
        /\ arg' = [arg EXCEPT ![p] = <<>>]
        /\ Return(TRUE, <<>>)
     \/ /\ k < Len(arg[p]) /\ ~gone /\ ~killed[p]
        /\ WakeReaders(p, "wsleep")
        /\ arg' = [arg EXCEPT ![p] = SubSeq(@, k + 1, Len(@))]
        /\ NoReturn
  /\ UNCHANGED <<front, ftable, child, killed, want, closing, stray>>

\* writep from acquire, or from the return of sleep, to its next sleep or its end.
WriteP(p) == WriteSome(p, Least(Len(arg[p]), Size - Count), ~valid["r"])

\* sys_read, up to fileread.
SysRead(p) ==
  /\ MayCall(p) /\ "r" \in Open(p)
  /\ \E n \in 0..MaxCall : want' = [want EXCEPT ![p] = IF valid["r"] THEN n ELSE 0]
  /\ Goto(p, IF valid["r"] THEN "read" ELSE "user")
  /\ Return(~valid["r"], <<>>)
  /\ UNCHANGED <<ring, ftable, child, killed, arg, closing, stray>>

\* readp from acquire (or from sleep's return) on: an empty ring with the write
\* end open means sleep, or failure when p was killed; otherwise take what is
\* there and wake the writers.
ReadP(p) ==
  LET k == Least(want[p], Count)
      wait == front = tail /\ valid["w"]
  IN
  /\ At(p, "read") /\ ~freed
  /\ \/ /\ wait /\ ~killed[p]
        /\ WakeWriters(p, "rsleep")
        /\ NoReturn
        /\ UNCHANGED <<front, want>>
     \/ /\ killed[p] /\ (wait \/ want[p] > 0)
        /\ Goto(p, "user")
        /\ Return(TRUE, <<>>)
        /\ want' = [want EXCEPT ![p] = 0]
        /\ UNCHANGED front
     \/ /\ ~wait /\ ~(killed[p] /\ want[p] > 0)
        /\ Return(FALSE, Loaded(buf, front, k))
        /\ front' = Int32(front + k)
        /\ want' = [want EXCEPT ![p] = 0]
        /\ WakeWriters(p, "user")
  /\ UNCHANGED <<tail, buf, ftable, child, killed, arg, closing, stray>>

\* sys_close copies the struct file before it takes ftable.lock ...
SysClose(p) ==
  /\ MayCall(p)
  /\ \E e \in Open(p) :
       /\ end' = [end EXCEPT ![p] = e]
       /\ copy' = [copy EXCEPT ![p] = refs[e]]
  /\ Goto(p, "close")
  /\ NoReturn
  /\ UNCHANGED <<ring, ftable, child, killed, call, stray>>

\* Variant: the channels are swapped.
WakeSame(p, e, s) ==
  IF e = "w" THEN WakeWriters(p, s) ELSE WakeReaders(p, s)

\* fileclose wakes whoever waits for the other end of e.
WakeOther(p, e, s) ==
  IF e = "r" THEN WakeWriters(p, s) ELSE WakeReaders(p, s)

\* ... and fileclose trusts the copy, with ftable.lock held all along.
FileClose(p) ==
  LET e == end[p] IN
  /\ At(p, "close")
  /\ \/ /\ ~valid[e]
        /\ Goto(p, "user")
        /\ UNCHANGED ftable
     \/ /\ valid[e] /\ copy[p] > 1
        /\ refs' = [refs EXCEPT ![e] = @ - 1]
        /\ holds' = [holds EXCEPT ![p][e] = @ - 1]
        /\ Goto(p, "user")
        /\ UNCHANGED <<valid, freed>>
     \/ /\ valid[e] /\ copy[p] <= 1
        /\ valid' = [valid EXCEPT ![e] = FALSE]
        /\ WakeOther(p, e, "user")
        /\ freed' = \A d \in Ends : ~valid'[d]
        /\ holds' = [holds EXCEPT ![p][e] = @ - 1]
        /\ UNCHANGED refs
  /\ Return(~valid[e], <<>>)
  /\ copy' = [copy EXCEPT ![p] = 0]
  /\ end' = [end EXCEPT ![p] = "r"]
  /\ UNCHANGED <<ring, child, killed, call, stray>>

\* exit, by the process itself or in trap because it was killed.
Exit(p) ==
  /\ At(p, "user")
  /\ Goto(p, "exit")
  /\ NoReturn
  /\ UNCHANGED <<ring, ftable, child, killed, call, closing, stray>>

\* exit's loop over the file table: fileclose without ftable.lock.  The test of
\* ref_count ...
ExitTest(p) ==
  /\ At(p, "exit")
  /\ \/ /\ Open(p) = {}
        /\ Goto(p, "gone")
        /\ UNCHANGED end
     \/ \E e \in Open(p) :
          /\ end' = [end EXCEPT ![p] = e]
          /\ Goto(p, IF refs[e] > 1 THEN "dec" ELSE "mark")
  /\ NoReturn
  /\ UNCHANGED <<ring, ftable, child, killed, call, copy, stray>>

\* p->file_table[fd] = NULL: on to the next descriptor.
NextFile(p) ==
  /\ holds' = [holds EXCEPT ![p][end[p]] = @ - 1]
  /\ end' = [end EXCEPT ![p] = "r"]

\* ... the decrement, a load and a store ...
ExitLoad(p) ==
  /\ At(p, "dec")
  /\ copy' = [copy EXCEPT ![p] = refs[end[p]]]
  /\ Goto(p, "store")
  /\ NoReturn
  /\ UNCHANGED <<ring, ftable, child, killed, call, end, stray>>

ExitStore(p) ==
  /\ At(p, "store")
  /\ refs' = [refs EXCEPT ![end[p]] = copy[p] - 1]
  /\ copy' = [copy EXCEPT ![p] = 0]
  /\ NextFile(p)
  /\ Goto(p, "exit")
  /\ NoReturn
  /\ UNCHANGED <<ring, valid, freed, child, killed, call, stray>>

\* ... or the mark ...
ExitMark(p) ==
  /\ At(p, "mark")
  /\ valid' = [valid EXCEPT ![end[p]] = FALSE]
  /\ Goto(p, "wake")
  /\ NoReturn
  /\ UNCHANGED <<ring, refs, freed, holds, child, killed, call, closing, stray>>

\* ... the wakeup, with the pipe's lock held ...
ExitWake(p) ==
  /\ At(p, "wake") /\ ~freed
  /\ \/ /\ \E d \in Ends : valid[d]
        /\ WakeOther(p, end[p], "exit")
        /\ NextFile(p)
     \/ /\ \A d \in Ends : ~valid[d]
        /\ WakeOther(p, end[p], "kfree")
        /\ UNCHANGED <<holds, end>>
  /\ NoReturn
  /\ UNCHANGED <<ring, valid, refs, freed, child, killed, call, copy, stray>>

\* ... and, the lock released, kfree.
ExitFree(p) ==
  /\ At(p, "kfree") /\ ~freed
  /\ freed' = TRUE
  /\ NextFile(p)
  /\ Goto(p, "exit")
  /\ NoReturn
  /\ UNCHANGED <<ring, valid, refs, child, killed, call, copy, stray>>

\* Variant: kill leaves a sleeping process asleep.
KillAsleep(p) ==
  /\ step[p] \notin {"unborn", "gone"} /\ ~killed[p] /\ ~stray
  /\ killed' = [killed EXCEPT ![p] = TRUE]
  /\ NoReturn
  /\ UNCHANGED <<ring, ftable, child, step, call, closing, stray>>

\* kill: a sleeping process wakes up.
Kill(p) ==
  /\ step[p] \notin {"unborn", "gone"} /\ ~killed[p] /\ ~stray
  /\ killed' = [killed EXCEPT ![p] = TRUE]
  /\ step' = [step EXCEPT ![p] = CASE @ = "rsleep" -> "read"
                                   [] @ = "wsleep" -> "write"
                                   [] OTHER -> @]
  /\ NoReturn
  /\ UNCHANGED <<ring, ftable, child, call, closing, stray>>

\* What a process does once it is in the kernel.
Proceed(p) ==
  \/ ForkFile(p) \/ ForkDone(p)
  \/ WriteP(p) \/ ReadP(p) \/ FileClose(p)
  \/ ExitTest(p) \/ ExitLoad(p) \/ ExitStore(p)
  \/ ExitMark(p) \/ ExitWake(p) \/ ExitFree(p)
  \/ Stray(p)
  \/ killed[p] /\ Exit(p)

Next ==
  \E p \in Procs :
    \/ Fork(p) \/ SysDup(p) \/ SysWrite(p) \/ SysRead(p) \/ SysClose(p) \/ Exit(p) \/ Kill(p)
    \/ Proceed(p)

\* The scheduler runs every runnable process again and again.
Fairness == \A p \in Procs : WF_vars(Proceed(p))

Spec == Init /\ [][Next]_vars /\ Fairness

-----------------------------------------------------------------------------
\* The counters stay ints at most Size apart, and every variable in its range.
TypeOK ==
  /\ front \in -IntMax - 1..IntMax /\ tail \in -IntMax - 1..IntMax
  /\ Count \in 0..Size
  /\ buf \in [0..Size - 1 -> Bytes]
  /\ valid \in [Ends -> BOOLEAN]
  /\ refs \in [Ends -> Int]
  /\ freed \in BOOLEAN /\ stray \in BOOLEAN
  /\ holds \in [Procs -> [Ends -> 0..NoFile]]
  /\ child \in [Procs -> Procs]
  /\ step \in [Procs -> Steps]
  /\ killed \in [Procs -> BOOLEAN]
  /\ arg \in [Procs -> Calls]
  /\ want \in [Procs -> 0..MaxCall]
  /\ ret \in Result
  /\ end \in [Procs -> Ends]
  /\ copy \in [Procs -> Int]

\* The ring between front and tail is the queue.
F == INSTANCE Fifo WITH queue <- Loaded(buf, front, Count), got <- ret.data
\* readp and writep make a queue of the ring: every read returns the oldest
\* bytes not read yet, no byte is lost, repeated or made up, whatever the calls
\* and closes the processes interleave.
IsFifo == F!Spec

\* Somebody marked the slot of e free and has not woken the other end yet.
WakeDue(e) == \E q \in Procs : step[q] = "wake" /\ end[q] = e

\* A writer sleeps only while the ring is full and the read end open: no read
\* and no close of the read end forgets to wake it (fs.c:341, 359, file.c:43).
WriterSleeps ==
  \A p \in Procs : step[p] = "wsleep" => Count = Size /\ (valid["r"] \/ WakeDue("r"))

\* A reader sleeps only while the write end is open, and while the ring is empty
\* unless a writer gave up on the full ring, killed or without a reader
\* (fs.c:487, 496, file.c:45).
ReaderSleeps ==
  \A p \in Procs : step[p] = "rsleep" =>
    /\ valid["w"] \/ WakeDue("w")
    /\ front = tail \/ ~valid["r"] \/ \E q \in Procs : killed[q]

\* A killed process leaves readp and writep, whatever the others do, and exits
\* (proc.c:431, fs.c:337, 483).
KilledExits == \A p \in Procs : killed[p] ~> step[p] = "gone" \/ stray

\* Once the other end is marked free every read and every write comes back, also
\* one that is asleep: fileclose wakes the right channel (file.c:42-46).
CloseReaches ==
  \A p \in Procs :
    (\/ ~valid["w"] /\ step[p] \in {"read", "rsleep"}
     \/ ~valid["r"] /\ step[p] \in {"write", "wsleep"}) ~> step[p] = "user" \/ stray

-----------------------------------------------------------------------------
\* What the documents say of pipes and the code does not do.

\* "if both the read and the write file descriptor for the pipe are completely
\* closed, free the page" (file.c:48): it is not used after that.
PageFreedLast == ~stray

\* "A read from a pipe with no open write descriptors will return any remaining
\* buffered data, and then an error" (lab2.md:215): once no process has the write
\* end open, a read returns.
EofComes ==
  \A p \in Procs :
    (\A q \in Procs : holds[q]["w"] = 0) /\ step[p] \in {"read", "rsleep"}
      ~> step[p] = "user" \/ stray
=============================================================================
