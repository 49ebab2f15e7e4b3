----------------------------- MODULE BlockStore -----------------------------
(* What the buffer cache of kernel/bio.c promises its callers, without the   *)
(* buffers: every disk block has one current contents, at most one process   *)
(* at a time holds a block, the holder alone changes it, and a reboot falls  *)
(* back to what had reached the disk.                                        *)
CONSTANTS Procs, Blocks, Values, None

VARIABLES
    contents,   \* the contents every bread of a block has to return
    durable,    \* what the disk holds
    holder      \* the block a process is between bread and brelse of

svars == <<contents, durable, holder>>

SInit ==
    /\ contents = durable
    /\ durable \in [Blocks -> Values]
    /\ holder = [p \in Procs |-> None]

Take(p, k) ==
    /\ holder[p] = None
    /\ \A q \in Procs : holder[q] # k
    /\ holder' = [holder EXCEPT ![p] = k]
    /\ UNCHANGED <<contents, durable>>

Change(p, v) ==
    /\ holder[p] # None
    /\ contents' = [contents EXCEPT ![holder[p]] = v]
    /\ UNCHANGED <<durable, holder>>

\* A block reaches the disk; only while somebody holds it.
Persist(p) ==
    /\ holder[p] # None
    /\ durable' = [durable EXCEPT ![holder[p]] = contents[holder[p]]]
    /\ UNCHANGED <<contents, holder>>

Drop(p) ==
    /\ holder[p] # None
    /\ holder' = [holder EXCEPT ![p] = None]
    /\ UNCHANGED <<contents, durable>>

PowerLoss ==
    /\ contents' = durable
    /\ holder' = [p \in Procs |-> None]
    /\ UNCHANGED durable

SNext ==
    \/ \E p \in Procs :
          \/ \E k \in Blocks : Take(p, k)
          \/ \E v \in Values : Change(p, v)
          \/ Persist(p)
          \/ Drop(p)
    \/ PowerLoss

SSpec == SInit /\ [][SNext]_svars
=============================================================================
