-------------------------- MODULE MCJournalTwoFiles --------------------------
(***************************************************************************)
(* Two processes write two different files, whose dinodes share a block.   *)
(***************************************************************************)
EXTENDS JournalProps

CONSTANTS p1, p2, f1, f2, d1, d2, d3

MCFileOf  == [p \in Procs |-> IF p = p1 THEN f1 ELSE f2]
MCData    == [f \in Files |-> IF f = f1 THEN {d1, d3} ELSE {d2}]
MCDataOne == [f \in Files |-> IF f = f1 THEN {d1} ELSE {d2}]
=============================================================================
