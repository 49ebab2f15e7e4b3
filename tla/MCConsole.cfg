SPECIFICATION Spec
CONSTANTS
    Procs = {p1, p2}
    INPUT_BUF = 2
    UintMod = 4
    MaxRead = 2
    Letters = {"a", "b"}
    None = None
INVARIANTS FullIsReadable
PROPERTIES LineByLine IsLineInput ReadReturns
