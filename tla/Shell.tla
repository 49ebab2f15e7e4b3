-------------------------------- MODULE Shell --------------------------------
(***************************************************************************)
(* The shell, user/sh.c: a line is typed, parsed by recursive descent into *)
(* a tree of commands, and run by a tree of processes.                     *)
(*                                                                         *)
(* A line is a sequence of characters: the blank " ", the symbols and "a"  *)
(* for any other; "" stands for the NUL after it.  A word is the pair q,   *)
(* eq of its first position and the one behind it, as in argv and eargv.   *)
(***************************************************************************)
EXTENDS Integers, FiniteSets, Sequences, SequencesExt, FiniteSetsExt

CONSTANTS
    Chars,          \* the characters that are typed
    MaxLine,        \* bound: length of a line
    MAXARGS         \* of the code

VARIABLE line

Symbols == {"<", "|", ">", "&", ";", "(", ")"}
-----------------------------------------------------------------------------
(* Tokens.  es is Len(line) + 1. *)

Char(s) == IF s <= Len(line) THEN line[s] ELSE ""
SkipBlanks(s) == Min({i \in s .. Len(line) + 1 : Char(i) # " "})
WordEnd(s) == Min({i \in s .. Len(line) + 1 : Char(i) \in Symbols \cup {" ", ""}})

gettoken(ps) ==
    LET q  == SkipBlanks(ps)
        c  == Char(q)
        eq == CASE c = "" -> q
                [] c = ">" /\ Char(q + 1) = ">" -> q + 2
                [] c \in Symbols -> q + 1
                [] OTHER -> WordEnd(q)
    IN  [tok |-> IF c = ">" /\ Char(q + 1) = ">" THEN "+" ELSE c,
         q |-> q, eq |-> eq, next |-> SkipBlanks(eq)]

peek(ps, toks) == Char(SkipBlanks(ps)) \in toks
-----------------------------------------------------------------------------
(* Commands, and results of parsing: the command and where it stopped.     *)

NoCmd == [type |-> "NONE"]
Parsed(cmd, s) == [cmd |-> cmd, s |-> s, err |-> ""]
Fail(msg) == [cmd |-> NoCmd, s |-> 0, err |-> msg]
Also(a, Op(_)) == IF a.err # "" THEN a ELSE Op(a)

execcmd(argv) == [type |-> "EXEC", argv |-> argv]
redircmd(cmd, file, mode, fd) == [type |-> "REDIR", cmd |-> cmd, file |-> file, mode |-> mode, fd |-> fd]
pipecmd(left, right) == [type |-> "PIPE", left |-> left, right |-> right]
listcmd(left, right) == [type |-> "LIST", left |-> left, right |-> right]
backcmd(cmd) == [type |-> "BACK", cmd |-> cmd]

Redirect(cmd, t, file) ==
    IF t.tok = "<" THEN redircmd(cmd, <<file.q, file.eq>>, {"RDONLY"}, 0)
                   ELSE redircmd(cmd, <<file.q, file.eq>>, {"WRONLY", "CREATE"}, 1)

RECURSIVE parseline(_), parsepipe(_), parseexec(_), parseredirs(_, _), Backs(_), Args(_, _)

parseredirs(cmd, ps) ==
    IF ~peek(ps, {"<", ">"}) THEN Parsed(cmd, ps)
    ELSE LET t == gettoken(ps)
             file == gettoken(t.next)
         IN  IF file.tok \in Symbols \cup {"", "+"} THEN Fail("missing file for redirection")
             ELSE parseredirs(Redirect(cmd, t, file), file.next)

\* The arguments go into the EXEC under whatever redirections surround it.
RECURSIVE AddArg(_, _)
AddArg(cmd, word) ==
    IF cmd.type = "EXEC" THEN execcmd(Append(cmd.argv, word))
    ELSE [cmd EXCEPT !.cmd = AddArg(cmd.cmd, word)]
RECURSIVE Argc(_)
Argc(cmd) == IF cmd.type = "EXEC" THEN Len(cmd.argv) ELSE Argc(cmd.cmd)

Args(cmd, ps) ==
    LET t == gettoken(ps)
    IN  IF peek(ps, {"|", ")", "&", ";"}) \/ t.tok = "" THEN Parsed(cmd, t.q)
        ELSE IF t.tok \in Symbols \cup {"+"} THEN Fail("syntax")
        ELSE IF Argc(cmd) + 1 >= MAXARGS THEN Fail("too many args")
        ELSE Also(parseredirs(AddArg(cmd, <<t.q, t.eq>>), t.next), LAMBDA a : Args(a.cmd, a.s))

parseblock(ps) ==
    Also(parseline(gettoken(ps).next),
         LAMBDA a : IF ~peek(a.s, {")"}) THEN Fail("syntax - missing )")
                    ELSE parseredirs(a.cmd, gettoken(a.s).next))

parseexec(ps) ==
    IF peek(ps, {"("}) THEN parseblock(ps)
    ELSE Also(parseredirs(execcmd(<<>>), ps), LAMBDA a : Args(a.cmd, a.s))

parsepipeLeft(ps) ==
    Also(parseexec(ps),
         LAMBDA a : IF ~peek(a.s, {"|"}) THEN a
                    ELSE Also(parseline(gettoken(a.s).next),
                              LAMBDA b : Parsed(pipecmd(a.cmd, b.cmd), b.s)))
parsepipe(ps) ==
    Also(parseexec(ps),
         LAMBDA a : IF ~peek(a.s, {"|"}) THEN a
                    ELSE Also(parsepipe(gettoken(a.s).next),
                              LAMBDA b : Parsed(pipecmd(a.cmd, b.cmd), b.s)))

Backs(a) == IF peek(a.s, {"&"}) THEN Backs(Parsed(backcmd(a.cmd), gettoken(a.s).next)) ELSE a

parseline(ps) ==
    Also(parsepipe(ps),
         LAMBDA a : LET b == Backs(a)
                    IN  IF ~peek(b.s, {";"}) THEN b
                        ELSE Also(parseline(gettoken(b.s).next),
                                  LAMBDA c : Parsed(listcmd(b.cmd, c.cmd), c.s)))

parsecmd ==
    Also(parseline(1), LAMBDA a : IF SkipBlanks(a.s) # Len(line) + 1 THEN Fail("syntax") ELSE a)
-----------------------------------------------------------------------------
\* The positions where nulterminate writes a NUL.
RECURSIVE nulterminate(_)
nulterminate(cmd) ==
    CASE cmd.type = "EXEC" -> {cmd.argv[i][2] : i \in DOMAIN cmd.argv}
      [] cmd.type = "REDIR" -> nulterminate(cmd.cmd) \cup {cmd.file[2]}
      [] cmd.type \in {"PIPE", "LIST"} -> nulterminate(cmd.left) \cup nulterminate(cmd.right)
      [] cmd.type = "BACK" -> nulterminate(cmd.cmd)
-----------------------------------------------------------------------------
(* runcmd.  fds is the file table of the process, <<>> where it is free;    *)
(* open, dup and pipe take the lowest free descriptor.  A pipe is named by   *)
(* the node of the tree it is for.  The result is every process that execs   *)
(* a program or waits for its children (argv <<>>), with its descriptors.    *)

NOFILE == 6
Std == [i \in 0 .. NOFILE - 1 |-> IF i <= 2 THEN <<"console">> ELSE <<>>]

Lowest(fds) == Min({i \in DOMAIN fds : fds[i] = <<>>})
Use(fds, file) == [fds EXCEPT ![Lowest(fds)] = file]
close(fds, fd) == [fds EXCEPT ![fd] = <<>>]
\* The modes that sys_open lets through.
Opens(mode) == mode \in {{"RDONLY"}, {"WRONLY"}, {"RDWR"}, {"CREATE"}, {"CREATE", "RDWR"}}

\* A child of a PIPE: close(fd), dup of the end p[k], close of both ends.
EndNotClosed(fds, fd, k, p) == close(Use(close(fds, fd), fds[p[k]]), p[k])
End(fds, fd, k, p) == close(close(Use(close(fds, fd), fds[p[k]]), p[1]), p[2])

RECURSIVE runcmd(_, _, _)
runcmd(cmd, fds, node) ==
    CASE cmd.type = "EXEC" -> IF cmd.argv = <<>> THEN {} ELSE {[argv |-> cmd.argv, fds |-> fds]}
      [] cmd.type = "REDIR" ->
            IF Opens(cmd.mode) THEN runcmd(cmd.cmd, Use(close(fds, cmd.fd), cmd.file), node) ELSE {}
      [] cmd.type = "LIST" -> runcmd(cmd.left, fds, Append(node, 1))
                                  \cup runcmd(cmd.right, fds, Append(node, 2))
      [] cmd.type = "BACK" -> runcmd(cmd.cmd, fds, node)
      [] cmd.type = "PIPE" ->
            LET both == Use(Use(fds, <<"r", node>>), <<"w", node>>)
                p    == <<Lowest(fds), Lowest(Use(fds, <<"r", node>>))>>
            IN  runcmd(cmd.left, End(both, 1, 2, p), Append(node, 1))
                    \cup runcmd(cmd.right, End(both, 0, 1, p), Append(node, 2))
                    \cup {[argv |-> <<>>, fds |-> close(close(both, p[1]), p[2])]}
-----------------------------------------------------------------------------
\* A line is typed; with the newline the shell forks a child that runs it.
Type(c) == Len(line) < MaxLine /\ line' = Append(line, c)
Enter   == line # <<>> /\ line' = <<>>

Init == line = <<>>
Next == Enter \/ \E c \in Chars : Type(c)
-----------------------------------------------------------------------------
(* What a line means, by its operators of lowest precedence first. *)

RECURSIVE TokensFrom(_)
TokensFrom(s) == LET t == gettoken(s) IN IF t.tok = "" THEN <<>> ELSE <<t>> \o TokensFrom(t.next)

Count(t, tok, n) == Cardinality({i \in 1 .. n : t[i].tok = tok})
Depth(t, n) == Count(t, "(", n) - Count(t, ")", n)
Top(t, tok) == {i \in DOMAIN t : t[i].tok = tok /\ Depth(t, i - 1) = 0}
Before(t, i) == SubSeq(t, 1, i - 1)
After(t, i) == SubSeq(t, i + 1, Len(t))
IsWord(t) == t.tok \notin Symbols \cup {"+"}
IsRedir(t) == t.tok \in {"<", ">", "+"}

\* Words and redirections, each with its file, and nothing else.
Simple(t) == \A i \in DOMAIN t : IsWord(t[i]) \/ (IsRedir(t[i]) /\ i < Len(t) /\ IsWord(t[i + 1]))
Redirs(t) == {i \in DOMAIN t : IsRedir(t[i])}
RECURSIVE Wrapped(_, _)
Wrapped(cmd, t) ==
    IF Redirs(t) = {} THEN cmd
    ELSE LET i == Min(Redirs(t)) IN Wrapped(Redirect(cmd, t[i], t[i + 1]), After(t, i))
Words(t) == SelectSeq([i \in DOMAIN t |-> IF IsWord(t[i]) /\ (i = 1 \/ ~IsRedir(t[i - 1]))
                                           THEN <<t[i].q, t[i].eq>> ELSE <<>>],
                      LAMBDA w : w # <<>>)

RECURSIVE LineOf(_), BackOf(_), PipeOf(_)
ExecOf(t) ==
    IF t # <<>> /\ t[1].tok = "("
    THEN LET closing == {i \in DOMAIN t : Depth(t, i) = 0}
         IN  IF closing = {} \/ ~Simple(After(t, Min(closing))) \/ Words(After(t, Min(closing))) # <<>>
             THEN NoCmd
             ELSE Wrapped(LineOf(SubSeq(t, 2, Min(closing) - 1)), After(t, Min(closing)))
    ELSE IF Simple(t) /\ Len(Words(t)) < MAXARGS THEN Wrapped(execcmd(Words(t)), t) ELSE NoCmd
PipeOf(t) == IF Top(t, "|") = {} THEN ExecOf(t)
             ELSE LET i == Min(Top(t, "|")) IN pipecmd(ExecOf(Before(t, i)), PipeOf(After(t, i)))
BackOf(t) == IF t # <<>> /\ Last(t).tok = "&" THEN backcmd(BackOf(Front(t))) ELSE PipeOf(t)
LineOf(t) == IF Top(t, ";") = {} THEN BackOf(t)
             ELSE LET i == Min(Top(t, ";")) IN listcmd(BackOf(Before(t, i)), LineOf(After(t, i)))

RECURSIVE WellFormed(_)
WellFormed(cmd) ==
    CASE cmd.type = "EXEC" -> TRUE
      [] cmd.type = "NONE" -> FALSE
      [] cmd.type \in {"REDIR", "BACK"} -> WellFormed(cmd.cmd)
      [] cmd.type \in {"PIPE", "LIST"} -> WellFormed(cmd.left) /\ WellFormed(cmd.right)

\* What each program of a command should read and write.
RECURSIVE Meant(_, _, _, _)
Meant(cmd, in, out, node) ==
    CASE cmd.type = "EXEC" -> IF cmd.argv = <<>> THEN {} ELSE {<<cmd.argv, in, out>>}
      [] cmd.type = "REDIR" -> IF cmd.fd = 0 THEN Meant(cmd.cmd, cmd.file, out, node) ELSE {}
      [] cmd.type = "BACK" -> Meant(cmd.cmd, in, out, node)
      [] cmd.type = "LIST" -> Meant(cmd.left, in, out, Append(node, 1))
                                  \cup Meant(cmd.right, in, out, Append(node, 2))
      [] cmd.type = "PIPE" -> Meant(cmd.left, in, <<"w", node>>, Append(node, 1))
                                  \cup Meant(cmd.right, <<"r", node>>, out, Append(node, 2))
-----------------------------------------------------------------------------
(* Properties. *)

(* The recursive descent of sh.c gives every line the tree its operators     *)
(* mean (";" loosest, then "&", then "|", then redirections, parentheses     *)
(* apart), and refuses exactly the lines that mean none, "too many args"     *)
(* included.                                                                 *)
ParsesAsMeant ==
    LET meant == LineOf(TokensFrom(1))
    IN  IF parsecmd.err = "" THEN parsecmd.cmd = meant ELSE ~WellFormed(meant)

(* nulterminate ends every word where it ends and cuts none: no NUL falls    *)
(* inside a word, also when words and symbols touch.                         *)
WordsWhole ==
    parsecmd.err = "" =>
        LET words == {t \in Range(TokensFrom(1)) : IsWord(t)}
        IN  nulterminate(parsecmd.cmd) = {t.eq : t \in words}

(* A line that is not refused is run as it was typed: its tree and its words *)
(* are the ones that the line means.                                         *)
RunsAsTyped == ParsesAsMeant /\ WordsWhole

(* Every program of a pipeline reads and writes what it should on            *)
(* descriptors 0 and 1, and no process that runs or waits keeps another      *)
(* descriptor: a pipe end left open would keep its reader from ever seeing   *)
(* the end.  A command with ">" never starts, since sys_open refuses the     *)
(* mode O_WRONLY | O_CREATE that sh.c passes.                                *)
Wired ==
    parsecmd.err = "" =>
        LET procs == runcmd(parsecmd.cmd, Std, <<>>)
        IN  /\ \A pr \in procs : \A fd \in 0 .. NOFILE - 1 : (pr.fds[fd] = <<>>) = (fd > 2)
            /\ {<<pr.argv, pr.fds[0], pr.fds[1]>> : pr \in {q \in procs : q.argv # <<>>}}
                   = Meant(parsecmd.cmd, <<"console">>, <<"console">>, <<>>)
=============================================================================
