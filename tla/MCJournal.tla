----------------------------- MODULE MCJournal -----------------------------
(***************************************************************************)
(* Two processes write one file of three data blocks through a cache of    *)
(* three buffers: transactions of no, one and two blocks commit, one of    *)
(* three runs out of buffers.                                              *)
(***************************************************************************)
EXTENDS JournalSafety, JournalProps

CONSTANTS p1, p2, f1, d1, d2, d3

MCFileOf == [p \in Procs |-> f1]
MCData   == [f \in Files |-> {d1, d2, d3}]
=============================================================================
