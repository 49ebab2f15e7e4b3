------------------------------ MODULE Terminal -------------------------------
(* From a key to the screen: the keyboard controller, kbdintr and kbdgetc    *)
(* (kernel/kbd.c), the echo of consoleintr, consputc and cgaputc             *)
(* (kernel/console.c), and the serial line (kernel/uart.c).                  *)
EXTENDS Keyboard, Integers, FiniteSetsExt, SequencesExt

CONSTANTS
    KeysUsed,    \* the keys of the keyboard: [code, e0] with e0 for a prefix
    Cols, Rows,  \* the screen, 80 and 25
    INPUT_BUF,   \* a line of that length is finished
    MaxDown,     \* bound: keys held down at a time
    MaxShown     \* bound: characters on the screen and above it

\* 80, 25 and 128 in the code: a line that can be erased fits the screen.
ASSUME ScreenAssumption ==
    Cols \in Nat \ {0} /\ Rows \in Nat \ {0, 1} /\ INPUT_BUF < (Rows - 2) * Cols

VARIABLES
    shift,       \* the shift word of kbdgetc
    down,        \* the keys the user holds down
    wire,        \* bytes of the last key event, still in the controller
    crt, pos,    \* CGA memory and the cursor
    uart,        \* is there a uart?
    serial, at,  \* what the terminal at the other end of the line shows
    line,        \* how much of it can be erased, e - w of the input ring
    shown,       \* the text the user has to see
    top,         \* how many of its rows have left the screen
    halted       \* panic

screen == <<crt, pos, serial, at, line, shown, top, halted>>
vars == <<shift, down, wire, uart, screen>>

Blank == Code(" ")
Cells == 0..(Rows * Cols - 1)

Init ==
    /\ shift = {} /\ down = {} /\ wire = <<>>
    /\ crt = [i \in Cells |-> Blank] /\ pos = 0
    /\ uart \in BOOLEAN
    /\ serial = <<>> /\ at = 0
    /\ line = 0 /\ shown = <<>> /\ top = 0
    /\ halted = FALSE

-----------------------------------------------------------------------------
BACKSPACE == 256

\* The cursor after c, before the screen scrolls.
Moved(p, c) == CASE c = Newline -> p + Cols - (p % Cols)
                 [] c = BACKSPACE -> IF p > 0 THEN p - 1 ELSE p
                 [] OTHER -> p + 1

Written(c) == IF c \in {Newline, BACKSPACE} THEN crt ELSE [crt EXCEPT ![pos] = c]

\* memmove of all rows but the first, memset of the rest.
ScrollShort(m, p) ==
    [i \in Cells |-> IF i < (Rows - 3) * Cols THEN m[i + Cols]
                     ELSE IF i >= p /\ i < (Rows - 1) * Cols THEN Blank ELSE m[i]]
Scroll(m, p) ==
    [i \in Cells |-> IF i < (Rows - 2) * Cols THEN m[i + Cols]
                     ELSE IF i >= p /\ i < (Rows - 1) * Cols THEN Blank ELSE m[i]]

cgaputc(c) ==
    LET p1 == Moved(pos, c)
        p2 == p1 - Cols
    IN  IF p1 > Rows * Cols
        THEN halted' = TRUE /\ UNCHANGED <<crt, pos, top>>
        ELSE /\ IF p1 \div Cols >= Rows - 1
                THEN /\ pos' = p2 /\ top' = top + 1
                     /\ crt' = [Scroll(Written(c), p2) EXCEPT ![p2] = Blank]
                ELSE /\ pos' = p1 /\ UNCHANGED top
                     /\ crt' = [Written(c) EXCEPT ![p1] = Blank]
             /\ UNCHANGED halted

\* The bytes consputc sends down the line.
BackspaceBytes == <<CtlH, Blank, CtlH>>

\* A terminal with one long line: \b goes left, anything else overwrites.
Receive(t, c) == IF c = CtlH THEN [t EXCEPT !.at = Max({@ - 1, 0})]
                 ELSE [text |-> IF t.at < Len(t.text) THEN [t.text EXCEPT ![t.at + 1] = c]
                                                      ELSE Append(t.text, c),
                       at |-> t.at + 1]

uartputc(bytes) ==
    LET t == FoldLeft(Receive, [text |-> serial, at |-> at], bytes)
    IN  IF uart THEN serial' = t.text /\ at' = t.at ELSE UNCHANGED <<serial, at>>

consputc(c) ==
    /\ uartputc(IF c = BACKSPACE THEN BackspaceBytes ELSE <<c>>)
    /\ cgaputc(c)

\* The end of a line, or of the ring, finishes the line.
LineAfter(ch) == IF ch = Newline \/ line + 1 = INPUT_BUF THEN 0 ELSE line + 1

\* The echo of consoleintr, with a reader that keeps the ring empty.
Echo(c) ==
    \/ c = 0 /\ UNCHANGED screen
    \/ /\ c = CtlH
       /\ IF line > 0
          THEN consputc(BACKSPACE) /\ shown' = Front(shown) /\ line' = line - 1
          ELSE UNCHANGED screen
    \/ /\ c \notin {0, CtlH}
       /\ LET ch == IF c = Return THEN Newline ELSE c
          IN  /\ consputc(ch)
              /\ shown' = Append(shown, ch)
              /\ line' = LineAfter(ch)

-----------------------------------------------------------------------------
(* The keyboard *)

Prefix(k) == IF k.e0 THEN <<224>> ELSE <<>>

Index(k) == IF k.e0 THEN k.code + 128 ELSE k.code
Silent(k) == normalmap[Index(k)] = NO

Make(k) == Prefix(k) \o <<k.code>>
Break(k) == Prefix(k) \o <<k.code + 128>>

\* A key that types something is pressed and released,
Strike(k) ==
    /\ wire = <<>> /\ ~Silent(k)
    /\ Len(shown) < MaxShown \/ normalmap[Index(k)] = CtlH
    /\ wire' = Make(k) \o Break(k)
    /\ UNCHANGED <<shift, down, uart, screen>>

\* any other one is held down, and repeats.
Press(k) ==
    /\ wire = <<>> /\ Silent(k) /\ Cardinality(down \cup {k}) <= MaxDown
    /\ wire' = Make(k)
    /\ down' = down \cup {k}
    /\ UNCHANGED <<shift, uart, screen>>

Release(k) ==
    /\ wire = <<>> /\ k \in down
    /\ wire' = Break(k)
    /\ down' = down \ {k}
    /\ UNCHANGED <<shift, uart, screen>>

kbdintr ==
    /\ wire # <<>>
    /\ LET got == kbdgetc(shift, Head(wire))
       IN  shift' = got.shift /\ Echo(got.c)
    /\ wire' = Tail(wire)
    /\ UNCHANGED <<down, uart>>

Next == ~halted /\ (kbdintr \/ \E k \in KeysUsed : Strike(k) \/ Press(k) \/ Release(k))

Spec == Init /\ [][Next]_vars

-----------------------------------------------------------------------------
\* The shift word, the screen and the serial line hold what they can hold,
\* and the cursor stays inside the screen.
TypeOK ==
    /\ shift \subseteq Bits /\ down \subseteq KeysUsed /\ wire \in Seq(0..255)
    /\ crt \in [Cells -> 0..255] /\ pos \in Cells
    /\ serial \in Seq(0..255) /\ at \in 0..Len(serial)
    /\ shown \in Seq(0..255) /\ line \in 0..(INPUT_BUF - 1) /\ top \in Nat
    /\ {uart, halted} \subseteq BOOLEAN

\* The bit of a key, if it is a modifier.
BitsOf(k) == shiftcode[Index(k)]

\* Between key events, no modifier is set that is not held down, none is
\* missing that has one key and is held, and no prefix is pending: scan codes
\* that differ only in the prefix never mix up the shift word.
ModifiersHeld ==
    wire = <<>> =>
        /\ "E0ESC" \notin shift
        /\ \A b \in {"SHIFT", "CTL", "ALT"} :
              LET keys == {k \in KeysUsed : b \in BitsOf(k)}
              IN  /\ b \in shift => keys \cap down # {}
                  /\ Cardinality(keys) = 1 /\ keys \subseteq down => b \in shift

LetterKeys == {sc \in 0..127 : normalmap[sc] \in Lower}

\* The three maps agree on the letters: whatever is held down and locked, a key
\* gives its control character with control, and else its capital exactly
\* when one of shift and caps lock is on.
MapsAgree ==
    wire = <<>> =>
        \A sc \in LetterKeys :
            kbdgetc(shift, sc).c =
                IF "CTL" \in shift THEN normalmap[sc] - 96
                ELSE IF ("SHIFT" \in shift) # ("CAPSLOCK" \in shift) THEN normalmap[sc] - 32
                ELSE normalmap[sc]

\* A key means what is printed on it: kbdgetc keeps the modifiers that are held,
\* and no others, and its tables agree (kbd.c:19-46).
KeysMeant == TypeOK /\ ModifiersHeld /\ MapsAgree

\* Where the cursor stands after the text s, on a screen without an end.
Place(s) == FoldLeft(Moved, 0, s)

\* What the screen shows at cell i of the text.
TextAt(i) == LET js == {j \in DOMAIN shown : shown[j] # Newline /\ Place(SubSeq(shown, 1, j - 1)) = i}
             IN  IF js = {} THEN Blank ELSE shown[Max(js)]

\* The screen is the end of the text: lines break at the right edge, the
\* cursor is where the next character goes, scrolling loses only the top row
\* and an erased character is gone, also when the erasure crosses a line
\* break; and the kernel does not panic over the cursor.
ScreenShowsText ==
    /\ ~halted
    /\ uart => SubSeq(serial, 1, at) = shown /\ \A i \in (at + 1)..Len(serial) : serial[i] = Blank
    /\ pos = Place(shown) - top * Cols
    /\ \A i \in 0..((Rows - 1) * Cols - 1) : crt[i] = TextAt(top * Cols + i)
=============================================================================
