----------------------------- MODULE AtomicDisk -----------------------------
(***************************************************************************)
(* What the journal of kernel/fs.c promises to the code above it: a disk   *)
(* on which a transaction (the blocks that one call of writei hands to     *)
(* log_write before log_commit_tx) takes effect in one step or, when the   *)
(* machine stops first, not at all.  Nothing here mentions a log.          *)
(***************************************************************************)
EXTENDS Naturals

CONSTANTS
  Procs,     \* processes that write files
  Files,     \* files; each owns one slot of every block
  FileOf,    \* FileOf[p] is the file that process p writes
  Blocks,    \* home blocks of the disk
  Vals,      \* what a slot of a block can hold
  Val0       \* what mkfs put there

VARIABLES
  store,     \* contents of the disk after recovery
  open       \* open[p]: the writes of p's transaction, not yet durable

\* A transaction assigns values to some blocks; Empty touches none.
Txns  == UNION {[D -> Vals] : D \in SUBSET Blocks}
Empty == [b \in {} |-> Val0]

\* The contents after the transactions of the processes in S.
Apply(S) ==
  [b \in Blocks |-> [f \in Files |->
     LET W == {p \in S : FileOf[p] = f /\ b \in DOMAIN open[p]}
     IN  IF W = {} THEN store[b][f] ELSE open[CHOOSE p \in W : TRUE][b]]]

Init ==
  /\ store = [b \in Blocks |-> [f \in Files |-> Val0]]
  /\ open = [p \in Procs |-> Empty]

Begin(p) ==
  /\ \E t \in Txns : open' = [open EXCEPT ![p] = t]
  /\ UNCHANGED store

\* The transactions of S become durable together; those of T are over (a
\* process may find that another one has committed for it).
Commit(S, T) ==
  /\ store' = Apply(S)
  /\ open' = [p \in Procs |-> IF p \in T THEN Empty ELSE open[p]]

\* The machine stops: every transaction that is not durable is forgotten.
Crash ==
  /\ open' = [p \in Procs |-> Empty]
  /\ UNCHANGED store

Next ==
  \/ Crash
  \/ \E p \in Procs : Begin(p)
  \/ \E S \in SUBSET Procs : \E T \in SUBSET S : Commit(S, T)

Spec == Init /\ [][Next]_<<store, open>>
=============================================================================
