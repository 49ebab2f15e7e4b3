------------------------------ MODULE LineInput ------------------------------
(* What the console's line editing promises: characters come out in the      *)
(* order they were typed, a line can be edited until it is finished, and     *)
(* nothing that was finished is lost or changed.                             *)
EXTENDS Naturals, Sequences

CONSTANTS Chars, Ends, N

VARIABLES
    line,    \* typed, not finished
    ready    \* finished, not read

LInit == line = <<>> /\ ready = <<>>

\* A character joins the line; an end character, or the last free place,
\* finishes it.
Type(c) ==
    /\ Len(line) + Len(ready) < N
    /\ IF c \in Ends \/ Len(line) + Len(ready) + 1 = N
       THEN line' = <<>> /\ ready' = ready \o Append(line, c)
       ELSE line' = Append(line, c) /\ UNCHANGED ready

\* The last k characters of the line are erased.
Erase(k) ==
    /\ line' = SubSeq(line, 1, Len(line) - k)
    /\ UNCHANGED ready

\* A reader takes the first k finished characters.
Consume(k) ==
    /\ ready' = SubSeq(ready, k + 1, Len(ready))
    /\ UNCHANGED line

LNext ==
    \/ \E c \in Chars : Type(c)
    \/ \E k \in {1, Len(line)} : k <= Len(line) /\ Erase(k)
    \/ \E k \in 1..Len(ready) : Consume(k)

LSpec == LInit /\ [][LNext]_<<line, ready>>
=============================================================================
