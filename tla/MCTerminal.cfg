SPECIFICATION Spec
CONSTANTS
    KeysUsed <- MCKeysUsed
    Cols = 2
    Rows = 4
    INPUT_BUF = 3
    MaxDown = 2
    MaxShown = 4
INVARIANTS KeysMeant ScreenShowsText
