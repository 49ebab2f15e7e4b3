------------------------------ MODULE Keyboard ------------------------------
(* The keyboard map and decoder: kernel/kbd.c and inc/kbd.h.                 *)
(* A character is its code, as in the C program; a scan code is a byte; the  *)
(* shift word is the set of its bits.                                        *)
EXTENDS Naturals, Sequences, FiniteSets, FiniteSetsExt, TLC

\* The printable characters in the order of their codes, from the space (32).
Printable == <<
    " ", "!", "\"", "#", "$", "%", "&", "'", "(", ")", "*", "+", ",", "-", ".", "/",
    "0", "1", "2", "3", "4", "5", "6", "7", "8", "9", ":", ";", "<", "=", ">", "?",
    "@", "A", "B", "C", "D", "E", "F", "G", "H", "I", "J", "K", "L", "M", "N", "O",
    "P", "Q", "R", "S", "T", "U", "V", "W", "X", "Y", "Z", "[", "\\", "]", "^", "_",
    "grave", "a", "b", "c", "d", "e", "f", "g", "h", "i", "j", "k", "l", "m", "n", "o",
    "p", "q", "r", "s", "t", "u", "v", "w", "x", "y", "z", "{", "|", "}", "~">>

Code(ch) == 31 + CHOOSE i \in DOMAIN Printable : Printable[i] = ch

\* The macro C(x), stored in an unsigned char.
C(ch) == (256 + Code(ch) - Code("@")) % 256

NO == 0
Esc == 27
Newline == 10
Return == 13
CtlH == C("H")
Lower == Code("a")..Code("z")
Upper == Code("A")..Code("Z")

\* A stretch of a map from scan code "first" on.
Row(first, codes) == [i \in first..(first + Len(codes) - 1) |-> codes[i - first + 1]]
Keys(first, chars) == Row(first, [i \in DOMAIN chars |-> Code(chars[i])])
Ctls(first, chars) == Row(first, [i \in DOMAIN chars |-> C(chars[i])])
Keymap(f) == [sc \in 0..255 |-> IF sc \in DOMAIN f THEN f[sc] ELSE NO]

\* 0xC8 KEY_UP, 0xD0 KEY_DN, 0xC9 KEY_PGUP, 0xD1 KEY_PGDN, 0xCB KEY_LF,
\* 0xCD KEY_RT, 0x97 KEY_HOME, 0xCF KEY_END, 0xD2 KEY_INS, 0xD3 KEY_DEL
Navigation ==
    200 :> 226 @@ 208 :> 227 @@ 201 :> 230 @@ 209 :> 231 @@ 203 :> 228 @@
    205 :> 229 @@ 151 :> 224 @@ 207 :> 225 @@ 210 :> 232 @@ 211 :> 233

Keypad == Keys(71, <<"7", "8", "9", "-", "4", "5", "6", "+", "1", "2", "3", "0", ".">>)

normalmap == Keymap(
    1 :> Esc @@ 14 :> CtlH @@ 15 :> C("I") @@ 28 :> Newline @@ 156 :> Newline @@
    Keys(2, <<"1", "2", "3", "4", "5", "6", "7", "8", "9", "0", "-", "=">>) @@
    Keys(16, <<"q", "w", "e", "r", "t", "y", "u", "i", "o", "p", "[", "]">>) @@
    Keys(30, <<"a", "s", "d", "f", "g", "h", "j", "k", "l", ";", "'", "grave">>) @@
    Keys(43, <<"\\", "z", "x", "c", "v", "b", "n", "m", ",", ".", "/">>) @@
    Keys(55, <<"*">>) @@ Keys(57, <<" ">>) @@ Keys(181, <<"/">>) @@
    Keypad @@ Navigation)

shiftmap == Keymap(
    1 :> Esc @@ 14 :> CtlH @@ 15 :> C("I") @@ 28 :> Newline @@ 156 :> Newline @@
    Keys(2, <<"!", "@", "#", "$", "%", "^", "&", "*", "(", ")", "_", "+">>) @@
    Keys(16, <<"Q", "W", "E", "R", "T", "Y", "U", "I", "O", "P", "{", "}">>) @@
    Keys(30, <<"A", "S", "D", "F", "G", "H", "J", "K", "L", ":", "\"", "~">>) @@
    Keys(43, <<"|", "Z", "X", "C", "V", "B", "N", "M", "<", ">", "?">>) @@
    Keys(55, <<"*">>) @@ Keys(57, <<" ">>) @@ Keys(181, <<"/">>) @@
    Keypad @@ Navigation)

ctlmap == Keymap(
    28 :> Return @@ 156 :> Return @@
    Ctls(16, <<"Q", "W", "E", "R", "T", "Y", "U", "I", "O", "P">>) @@
    Ctls(30, <<"A", "S", "D", "F", "G", "H", "J", "K", "L">>) @@
    Ctls(43, <<"\\", "Z", "X", "C", "V", "B", "N", "M">>) @@
    Ctls(53, <<"/">>) @@ Ctls(181, <<"/">>) @@ Navigation)

\* 0x1D and 0x9D are the control keys, 0x2A and 0x36 the shift keys, 0x38 and
\* 0xB8 the alt keys; 0x3A, 0x45 and 0x46 the locks.
shiftcode == [sc \in 0..255 |-> CASE sc \in {29, 157} -> {"CTL"}
                                  [] sc \in {42, 54} -> {"SHIFT"}
                                  [] sc \in {56, 184} -> {"ALT"}
                                  [] OTHER -> {}]

togglecode == [sc \in 0..255 |-> CASE sc = 58 -> {"CAPSLOCK"}
                                   [] sc = 69 -> {"NUMLOCK"}
                                   [] sc = 70 -> {"SCROLLLOCK"}
                                   [] OTHER -> {}]

charcode(shift) == IF "CTL" \in shift THEN ctlmap
                   ELSE IF "SHIFT" \in shift THEN shiftmap ELSE normalmap

\* What CAPSLOCK does to a letter.
SwapCase(c) == CASE c \in Lower -> c - 32
                 [] c \in Upper -> c + 32
                 [] OTHER -> c

Bits == {"SHIFT", "CTL", "ALT", "CAPSLOCK", "NUMLOCK", "SCROLLLOCK", "E0ESC"}

\* A release that forgets which of the two keys of a name it is.
ReleaseCodeLow(shift, data) == data - 128
ReleaseCode(shift, data) == IF "E0ESC" \in shift THEN data ELSE data - 128

\* One call of kbdgetc for a byte of the controller: the character (0 for
\* none) and the new shift word.
kbdgetc(shift, data) ==
    IF data = 224
    THEN [c |-> 0, shift |-> shift \cup {"E0ESC"}]
    ELSE IF data >= 128
    THEN [c |-> 0, shift |-> shift \ (shiftcode[ReleaseCode(shift, data)] \cup {"E0ESC"})]
    ELSE LET key == IF "E0ESC" \in shift THEN data + 128 ELSE data
             now == SymDiff((shift \ {"E0ESC"}) \cup shiftcode[key], togglecode[key])
             c == charcode(now)[key]
         IN  [c |-> IF "CAPSLOCK" \in now THEN SwapCase(c) ELSE c, shift |-> now]
=============================================================================
