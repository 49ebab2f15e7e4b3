------------------------------- MODULE Console -------------------------------
(* The console device: the line editing of consoleintr, the reads and writes *)
(* of user processes (kernel/console.c), and the way fileread and filewrite  *)
(* (kernel/file.c) reach it through the inode of the device.                 *)
(*                                                                           *)
(* cons.lock is a spinlock, so consoleintr for one character, consoleread    *)
(* between two sleeps and consolewrite are single steps.  The sleeping lock  *)
(* of the inode stays taken over the sleep of consoleread.                   *)
EXTENDS Integers, Sequences, FiniteSetsExt

CONSTANTS
    Procs,       \* the processes that have the console open
    INPUT_BUF,   \* size of the input ring
    UintMod,     \* 2^32: the indices r, w and e are unsigned ints
    MaxRead,     \* the largest read
    Letters,     \* characters without a meaning for the console
    None

ASSUME ConsoleAssumption ==
    /\ INPUT_BUF \in Nat \ {0} /\ UintMod \in Nat /\ MaxRead \in Nat
    /\ UintMod % INPUT_BUF = 0 /\ UintMod > INPUT_BUF
    /\ None \notin Procs
    /\ Letters \cap {"^P", "^U", "^H", "DEL", "\r", "\n", "^D", "none"} = {}

\* What getc (kbdgetc or uartgetc) may return; "none" is the code 0.
Getc == Letters \cup {"^P", "^U", "^H", "DEL", "\r", "\n", "^D", "none"}
Stored == Letters \cup {"\n", "^D"}

VARIABLES
    buf, r, w, e,   \* input
    ilock,          \* who has the sleeping lock of the console's inode
    pc,             \* where each process is
    op,             \* the system call it is in
    target,         \* of consoleread
    dst,            \* what the read has stored
    result,         \* what consoleread returned
    killed

input == <<buf, r, w, e>>
vars == <<input, ilock, pc, op, target, dst, result, killed>>

Init ==
    /\ buf = [i \in 0..(INPUT_BUF - 1) |-> "none"]
    /\ r = 0 /\ w = 0 /\ e = 0
    /\ ilock = None
    /\ pc = [p \in Procs |-> "user"]
    /\ op = [p \in Procs |-> "read"]
    /\ target = [p \in Procs |-> 0]
    /\ dst = [p \in Procs |-> <<>>]
    /\ result = [p \in Procs |-> 0]
    /\ killed = [p \in Procs |-> FALSE]

\* The n of consoleread: what is left to read.
n == [p \in Procs |-> target[p] - Len(dst[p])]

Uint(x) == x % UintMod
At(i) == buf[Uint(i) % INPUT_BUF]

\* The characters of the ring from index i up to index j.
Span(i, j) == [k \in 1..Uint(j - i) |-> At(i + k - 1)]

-----------------------------------------------------------------------------
(* consoleintr, for one character *)

procs == <<ilock, op, target, dst, result, killed>>

\* wakeup(&input.r)
WakeNot == UNCHANGED pc
Wake == pc' = [p \in Procs |-> IF pc[p] = "asleep" THEN "read" ELSE pc[p]]

ListProcesses(c) == c \in {"^P", "none"} /\ UNCHANGED <<input, pc>>

\* How far ^U goes back.
Unfinished == Max({k \in 0..Uint(e - w) : \A j \in 1..k : At(e - j) # "\n"})

KillLine(c) ==
    /\ c = "^U"
    /\ e' = Uint(e - Unfinished)
    /\ UNCHANGED <<buf, r, w, pc>>

BackspaceFree(c) ==
    /\ c \in {"^H", "DEL"}
    /\ e' = IF e # r THEN Uint(e - 1) ELSE e
    /\ UNCHANGED <<buf, r, w, pc>>
Backspace(c) ==
    /\ c \in {"^H", "DEL"}
    /\ e' = IF e # w THEN Uint(e - 1) ELSE e
    /\ UNCHANGED <<buf, r, w, pc>>

\* The ends of a line, and a ring without room for one.
FinishesNoFull(ch, e1) == ch \in {"\n", "^D"}
Finishes(ch, e1) == ch \in {"\n", "^D"} \/ e1 = Uint(r + INPUT_BUF)

TypeChar(c) ==
    LET ch == IF c = "\r" THEN "\n" ELSE c
        e1 == Uint(e + 1)
    IN  /\ ch \in Stored
        /\ IF Uint(e - r) < INPUT_BUF
           THEN /\ buf' = [buf EXCEPT ![e % INPUT_BUF] = ch]
                /\ e' = e1
                /\ IF Finishes(ch, e1) THEN w' = e1 /\ Wake ELSE UNCHANGED <<w, pc>>
                /\ UNCHANGED r
           ELSE UNCHANGED <<input, pc>>

consoleintr(c) ==
    /\ ListProcesses(c) \/ KillLine(c) \/ Backspace(c) \/ TypeChar(c)
    /\ UNCHANGED procs

-----------------------------------------------------------------------------
(* read and write *)

sys_read(p, k) ==
    /\ pc[p] = "user"
    /\ pc' = [pc EXCEPT ![p] = "lock"]
    /\ op' = [op EXCEPT ![p] = "read"]
    /\ target' = [target EXCEPT ![p] = k]
    /\ UNCHANGED <<input, ilock, dst, result, killed>>

sys_write(p) ==
    /\ pc[p] = "user"
    /\ pc' = [pc EXCEPT ![p] = "lock"]
    /\ op' = [op EXCEPT ![p] = "write"]
    /\ UNCHANGED <<input, ilock, target, dst, result, killed>>

\* acquiresleep of fileread and filewrite.
LockInode(p) ==
    /\ pc[p] = "lock" /\ ilock = None
    /\ ilock' = p
    /\ pc' = [pc EXCEPT ![p] = op[p]]
    /\ UNCHANGED <<input, op, target, dst, result, killed>>

Leave(p, res) ==
    /\ pc' = [pc EXCEPT ![p] = "done"]
    /\ result' = [result EXCEPT ![p] = res]
Take(p, chars) == dst' = [dst EXCEPT ![p] = @ \o chars]

\* ^D counts as read only when nothing was read before it.
EofReadAlways(p, k) == k
EofRead(p, k) == IF n[p] - (k - 1) < target[p] THEN k - 1 ELSE k

\* consoleread from where it runs to its return or its sleep: the characters
\* up to the first end among those it may take.
consoleread(p) ==
    LET ready == Span(r, w)
        may == 1..Min({Len(ready), n[p]})
        stops == {k \in may : ready[k] \in {"\n", "^D"}}
    IN  /\ pc[p] = "read"
        /\ \/ /\ stops # {} /\ ready[Min(stops)] = "\n"
              /\ r' = Uint(r + Min(stops))
              /\ Take(p, SubSeq(ready, 1, Min(stops)))
              /\ Leave(p, Len(dst'[p]))
           \/ /\ stops # {} /\ ready[Min(stops)] = "^D"
              /\ r' = Uint(r + EofRead(p, Min(stops)))
              /\ Take(p, SubSeq(ready, 1, Min(stops) - 1))
              /\ Leave(p, Len(dst'[p]))
           \/ /\ stops = {} /\ n[p] <= Len(ready)
              /\ r' = Uint(r + n[p])
              /\ Take(p, SubSeq(ready, 1, n[p]))
              /\ Leave(p, target[p])
           \/ /\ stops = {} /\ n[p] > Len(ready)
              /\ r' = w
              /\ Take(p, ready)
              /\ IF killed[p] THEN Leave(p, -1)
                 ELSE pc' = [pc EXCEPT ![p] = "asleep"] /\ UNCHANGED result
        /\ UNCHANGED <<buf, w, e, ilock, op, target, killed>>

consolewrite(p) ==
    /\ pc[p] = "write"
    /\ pc' = [pc EXCEPT ![p] = "done"]
    /\ UNCHANGED <<input, ilock, op, target, dst, result, killed>>

\* releasesleep and the return to user space; a killed process ends there, and
\* another takes its place.
UnlockInode(p) ==
    /\ pc[p] = "done"
    /\ ilock' = None
    /\ pc' = [pc EXCEPT ![p] = "user"]
    /\ killed' = [killed EXCEPT ![p] = FALSE]
    /\ op' = [op EXCEPT ![p] = "read"]
    /\ target' = [target EXCEPT ![p] = 0]
    /\ dst' = [dst EXCEPT ![p] = <<>>]
    /\ result' = [result EXCEPT ![p] = 0]
    /\ UNCHANGED input

\* A process that is killed outside these calls never enters one.
kill(p) ==
    /\ pc[p] # "user"
    /\ killed' = [killed EXCEPT ![p] = TRUE]
    /\ pc' = [pc EXCEPT ![p] = IF @ = "asleep" THEN "read" ELSE @]
    /\ UNCHANGED <<input, ilock, op, target, dst, result>>

Step(p) == LockInode(p) \/ consoleread(p) \/ consolewrite(p) \/ UnlockInode(p)

Next ==
    \/ \E c \in Getc : consoleintr(c)
    \/ \E p \in Procs : Step(p) \/ sys_write(p) \/ kill(p) \/ \E k \in 0..MaxRead : sys_read(p, k)

Fairness == \A p \in Procs : WF_vars(consoleread(p) \/ consolewrite(p) \/ UnlockInode(p))

Spec == Init /\ [][Next]_vars /\ Fairness
-----------------------------------------------------------------------------
(* The ring holds characters, its indices are uints, and every reader is    *)
(* somewhere in consoleread.                                                *)
TypeOK ==
    /\ buf \in [0..(INPUT_BUF - 1) -> Stored \cup {"none"}]
    /\ {r, w, e} \subseteq 0..(UintMod - 1)
    /\ ilock \in Procs \cup {None}
    /\ pc \in [Procs -> {"user", "lock", "read", "write", "asleep", "done"}]
    /\ op \in [Procs -> {"read", "write"}]
    /\ target \in [Procs -> 0..MaxRead] 
    /\ \A p \in Procs : dst[p] \in Seq(Letters \cup {"\n"}) /\ Len(dst[p]) <= target[p]
    /\ result \in [Procs -> -1..MaxRead]
    /\ killed \in [Procs -> BOOLEAN]

\* The ring never overwrites a character nobody read, also where the indices
\* wrap, and a full ring is readable to its end: the line that fills it is
\* finished, or typing and reading would both stop for ever.
FullIsReadable ==
    /\ TypeOK
    /\ Uint(w - r) + Uint(e - w) = Uint(e - r)
    /\ Uint(e - r) <= INPUT_BUF
    /\ Uint(e - r) = INPUT_BUF => w = e

\* A read that succeeds returns at most one line, all of it or as much as was
\* asked for, and stops short of that only at an end of file.
WholeLine ==
    \A p \in Procs : (pc[p] = "done" /\ op[p] = "read" /\ result[p] # -1) =>
        /\ result[p] = Len(dst[p])
        /\ \A i \in 1..(result[p] - 1) : dst[p][i] # "\n"
        /\ result[p] \in 1..(target[p] - 1) =>
              dst[p][result[p]] = "\n" \/ (r # w /\ At(r) = "^D")

\* "Save ^D for next time, to make sure caller gets a 0-byte result"
\* (console.c:282): the read that takes ^D out of the ring takes nothing else
\* and returns 0.
EofAlone ==
    LET gone == SubSeq(Span(r, w), 1, Uint(r' - r))
    IN  (\E i \in DOMAIN gone : gone[i] = "^D") =>
           /\ Len(gone) = 1
           /\ \E p \in Procs : pc[p] = "read" /\ pc'[p] = "done" /\ result'[p] = 0

\* consoleread reads line by line: at most one line, and an end of file only
\* when nothing precedes it.
LineByLine == [][EofAlone /\ WholeLine']_vars

Lines == INSTANCE LineInput WITH
    Chars <- Stored, Ends <- {"\n", "^D"}, N <- INPUT_BUF,
    line <- Span(w, e), ready <- Span(r, w)

\* The ring with its three wrapping indices is two sequences, the finished
\* characters and the line being edited.
IsLineInput == Lines!LSpec

\* Once a line is finished the process in consoleread returns, and a killed
\* one does at once: neither keeps the console for ever.
ReadReturns ==
    \A p \in Procs :
        (pc[p] \in {"read", "asleep"} /\ (killed[p] \/ \E i \in DOMAIN Span(r, w) : Span(r, w)[i] = "\n"))
            ~> pc[p] = "done"
=============================================================================
