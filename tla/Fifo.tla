-------------------------------- MODULE Fifo --------------------------------
(***************************************************************************)
(* What a pipe promises to the processes at its ends: a bounded queue of   *)
(* bytes.  What a read returns is what was at the head of the queue, and   *)
(* it is gone from there; what a write adds goes to the end.               *)
(***************************************************************************)
EXTENDS Naturals, Sequences

CONSTANTS
  Bytes,     \* what a byte can be
  Size       \* capacity

VARIABLES
  queue,     \* bytes written and not yet read
  got        \* bytes the last step handed to a reader

Init == queue = <<>> /\ got = <<>>

Put(s) ==
  /\ Len(queue) + Len(s) <= Size
  /\ queue' = queue \o s
  /\ got' = <<>>

Get(k) ==
  /\ got' = SubSeq(queue, 1, k)
  /\ queue' = SubSeq(queue, k + 1, Len(queue))

Next ==
  \/ \E n \in 0..Size : \E s \in [1..n -> Bytes] : Put(s)
  \/ \E k \in 0..Len(queue) : Get(k)

Spec == Init /\ [][Next]_<<queue, got>>
=============================================================================
