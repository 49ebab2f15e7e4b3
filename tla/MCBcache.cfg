SPECIFICATION Spec
CONSTANTS
    b1 = b1
    b2 = b2
    Procs = {p1, p2}
    Blocks = {k1, k2, k3}
    Values = {0, 1}
    BufOrder <- MCBufOrder
    None = None
    ReadErrors = FALSE
INVARIANTS NeverStolen NoLostWakeup
PROPERTIES IsStore IoEnds
