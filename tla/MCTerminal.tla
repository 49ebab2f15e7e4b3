----------------------------- MODULE MCTerminal ------------------------------
(* A keyboard with a letter, enter, backspace, one shift key, both control   *)
(* keys, caps lock, and the key that sends a shift code behind a prefix      *)
(* (print screen); a screen of three lines of three characters.              *)
EXTENDS Terminal

Key(sc) == [code |-> sc, e0 |-> FALSE]
Extended(sc) == [code |-> sc, e0 |-> TRUE]

MCKeysUsed == {Key(30), Key(28), Key(14), Key(42), Key(29), Extended(29), Key(58), Extended(42)}
=============================================================================
