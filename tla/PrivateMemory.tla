---------------------------- MODULE PrivateMemory ----------------------------
(***************************************************************************)
(* What the virtual memory of xk promises its processes, with no frames,   *)
(* no sharing and no faults: every process has an image of its own, a      *)
(* function from pages to what they hold.  A write changes one page of one *)
(* image, fork copies an image, sbrk and the stack add blank pages, exec   *)
(* replaces the image and the reaper of a process drops it.                *)
(***************************************************************************)
EXTENDS TLC

CONSTANTS Procs, Blank, Text, Args, Stored, NoImage

VARIABLE image

\* A store of a process lands in its own image alone.
Write(p) ==
    /\ image[p] # NoImage
    /\ \E v \in DOMAIN image[p] : image' = [image EXCEPT ![p][v] = Stored]

Grow(p, V) ==
    /\ image[p] # NoImage
    /\ image' = [image EXCEPT ![p] = @ @@ [v \in V |-> Blank]]

Fork(p, q) ==
    /\ image[p] # NoImage /\ image[q] = NoImage
    /\ image' = [image EXCEPT ![q] = image[p]]

\* exec: the text, and one page of stack above it with the arguments.
Exec(p) ==
    /\ image[p] # NoImage /\ image'[p] # NoImage
    /\ \E s \in DOMAIN image'[p] :
          image' = [image EXCEPT ![p] =
              [v \in DOMAIN image'[p] |-> IF v = s THEN Args ELSE Text]]

End(p) == image[p] # NoImage /\ image' = [image EXCEPT ![p] = NoImage]

PNext ==
    \E p \in Procs :
        \/ Write(p) \/ Exec(p) \/ End(p)
        \/ /\ image'[p] # NoImage
           /\ Grow(p, DOMAIN image'[p])
        \/ \E q \in Procs \ {p} : Fork(p, q)

\* At first there is one process.
PInit == \E p \in Procs : \A q \in Procs : (image[q] = NoImage) <=> (q # p)

PSpec == PInit /\ [][PNext]_image
==============================================================================
