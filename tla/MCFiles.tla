------------------------------- MODULE MCFiles -------------------------------
(***************************************************************************)
(* Instances of Files.  MCApart keeps calls that add a reference to a      *)
(* shared open file away from the exit of another process that has it.     *)
(***************************************************************************)
EXTENDS Files

MCApart == [p \in Procs |-> IF p = Parent THEN {"open", "close", "read", "fork"}
                            ELSE {"open", "close", "read", "dup", "exit"}]

MCOpens == {[path |-> 2, relative |-> FALSE, good |-> TRUE],
            [path |-> 3, relative |-> TRUE, good |-> TRUE],
            [path |-> 3, relative |-> FALSE, good |-> FALSE],
            [path |-> 9, relative |-> FALSE, good |-> TRUE]}
=============================================================================
