------------------------------- MODULE Parser -------------------------------
(***************************************************************************)
(* The parser of the shell (user/sh.c), on lines of tokens: a word, or one *)
(* of < > >> | & ; ( ).  A parse function returns the command and the rest *)
(* of the line, or panics.                                                 *)
(***************************************************************************)
EXTENDS Integers, Sequences

CONSTANTS Words,    \* arguments and file names
          MAXARGS

EXEC(argv) == [type |-> "EXEC", argv |-> argv]
REDIR(cmd, file, tok) ==
  [type |-> "REDIR", cmd |-> cmd, file |-> file, mode |-> tok, fd |-> IF tok = "<" THEN 0 ELSE 1]
PIPE(left, right) == [type |-> "PIPE", left |-> left, right |-> right]
LIST(left, right) == [type |-> "LIST", left |-> left, right |-> right]
BACK(cmd) == [type |-> "BACK", cmd |-> cmd]

Panic == [ok |-> FALSE]
Parsed(cmd, rest) == [ok |-> TRUE, cmd |-> cmd, rest |-> rest]

peek(s, toks) == s # <<>> /\ Head(s) \in toks

RECURSIVE parseredirs(_, _)
parseredirs(cmd, s) ==
  IF ~peek(s, {"<", ">", ">>"}) THEN Parsed(cmd, s)
  ELSE IF ~peek(Tail(s), Words) THEN Panic
  ELSE parseredirs(REDIR(cmd, Head(Tail(s)), Head(s)), Tail(Tail(s)))

(* The command with one more argument, below the redirections so far. *)
RECURSIVE WithArg(_, _)
WithArg(cmd, word) ==
  IF cmd.type = "EXEC" THEN EXEC(Append(cmd.argv, word))
  ELSE [cmd EXCEPT !.cmd = WithArg(@, word)]

(* The loop of parseexec(), when argc arguments have been read. *)
RECURSIVE parseargs(_, _)
parseargs(r, argc) ==
  IF ~r.ok \/ r.rest = <<>> \/ peek(r.rest, {"|", ")", "&", ";"}) THEN r
  ELSE IF ~peek(r.rest, Words) \/ argc + 1 >= MAXARGS THEN Panic
  ELSE parseargs(parseredirs(WithArg(r.cmd, Head(r.rest)), Tail(r.rest)), argc + 1)

RECURSIVE parseline(_), parsepipe(_), parseexec(_), parseback(_)

parseblock(s) ==
  LET r == parseline(Tail(s)) IN
    IF ~r.ok \/ ~peek(r.rest, {")"}) THEN Panic ELSE parseredirs(r.cmd, Tail(r.rest))

parseexec(s) ==
  IF peek(s, {"("}) THEN parseblock(s) ELSE parseargs(parseredirs(EXEC(<<>>), s), 0)

(* A binary command, once its right side has been parsed. *)
Joined(right, cmd) == IF right.ok THEN Parsed(cmd, right.rest) ELSE Panic

parsepipe(s) ==
  LET r == parseexec(s)
      right == parsepipe(Tail(r.rest))
  IN IF r.ok /\ peek(r.rest, {"|"}) THEN Joined(right, PIPE(r.cmd, right.cmd)) ELSE r

(* The loop over & in parseline(). *)
parseback(r) ==
  IF r.ok /\ peek(r.rest, {"&"}) THEN parseback(Parsed(BACK(r.cmd), Tail(r.rest))) ELSE r

parseline(s) ==
  LET r == parseback(parsepipe(s))
      right == parseline(Tail(r.rest))
  IN IF r.ok /\ peek(r.rest, {";"}) THEN Joined(right, LIST(r.cmd, right.cmd)) ELSE r

parsecmd(s) ==
  LET r == parseline(s) IN IF r.ok /\ r.rest # <<>> THEN Panic ELSE r
-----------------------------------------------------------------------------
(* A line for a command, with the parentheses it needs. *)
RECURSIVE Line(_)
Parens(c, types) == IF c.type \in types THEN Line(c) ELSE <<"(">> \o Line(c) \o <<")">>
Line(c) ==
  CASE c.type = "EXEC"  -> c.argv
    [] c.type = "REDIR" -> Parens(c.cmd, {"EXEC", "REDIR"}) \o <<c.mode, c.file>>
    [] c.type = "PIPE"  -> Parens(c.left, {"EXEC", "REDIR"}) \o <<"|">> \o Parens(c.right, {"EXEC", "REDIR", "PIPE"})
    [] c.type = "BACK"  -> Parens(c.cmd, {"EXEC", "REDIR", "PIPE", "BACK"}) \o <<"&">>
    [] c.type = "LIST"  -> Parens(c.left, {"EXEC", "REDIR", "PIPE", "BACK"}) \o <<";">> \o Line(c.right)
=============================================================================
