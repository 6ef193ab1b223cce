-------------------------------- MODULE Shell --------------------------------
(***************************************************************************)
(* The command line parser of user/sh.c: recursive descent over the        *)
(* characters of the line, and the reference it is compared with, which    *)
(* splits a list of tokens at its operators.                               *)
(*                                                                         *)
(* A parser takes the line s and a position i and returns the command and  *)
(* the position after it.  panic() ends the process that parses; here it is*)
(* the command Panic.                                                      *)
(***************************************************************************)
EXTENDS Integers, Sequences, SequencesExt, FiniteSetsExt

CONSTANT MAXARGS

whitespace == {" ", "nl"}

symbols == {"<", "|", ">", "&", ";", "(", ")"}

Panic == [type |-> "PANIC"]

Bad == [cmd |-> Panic, i |-> 0]

execcmd(argv) == [type |-> "EXEC", argv |-> argv]

(* The mode stands for the flags of open(); the descriptor follows from it.*)
redircmd(cmd, file, mode) == [type |-> "REDIR", cmd |-> cmd, file |-> file, mode |-> mode]

pipecmd(left, right) == [type |-> "PIPE", left |-> left, right |-> right]

listcmd(left, right) == [type |-> "LIST", left |-> left, right |-> right]

backcmd(cmd) == [type |-> "BACK", cmd |-> cmd]

(***************************************************************************)
(* Tokens                                                                  *)
(***************************************************************************)
Skip(s, i) == Min({j \in i..Len(s) : s[j] \notin whitespace} \cup {Len(s) + 1})

WordEnd(s, i) == Min({j \in i..Len(s) : s[j] \in whitespace \cup symbols} \cup {Len(s) + 1})

(* The token at i ("0" at the end, "a" for a word), its place, and what    *)
(* comes after it.                                                         *)
gettoken(s, i) ==
    LET q == Skip(s, i)
        c == IF q > Len(s) THEN "0" ELSE s[q]
        append == c = ">" /\ q < Len(s) /\ s[q + 1] = ">"
        eq == CASE c = "0" -> q
                [] append -> q + 2
                [] c \in symbols -> q + 1
                [] OTHER -> WordEnd(s, q)
    IN [tok |-> CASE append -> "+" [] c \in symbols \cup {"0"} -> c [] OTHER -> "a",
        word |-> <<q, eq>>, ps |-> Skip(s, eq)]

peek(s, i, toks) == LET j == Skip(s, i) IN j <= Len(s) /\ s[j] \in toks

(***************************************************************************)
(* The grammar                                                             *)
(***************************************************************************)
RECURSIVE parseline(_, _), parsepipe(_, _), parseredirs(_, _, _), parseargs(_, _, _, _), Backs(_, _)

(* The parse l goes on as r, when neither failed, as a pipe or as a list.  *)
Piped(l, r) == IF Bad \in {l, r} THEN Bad ELSE [cmd |-> pipecmd(l.cmd, r.cmd), i |-> r.i]

Listed(l, r) == IF Bad \in {l, r} THEN Bad ELSE [cmd |-> listcmd(l.cmd, r.cmd), i |-> r.i]

(* The redirection whose arrow is t and whose file is the token f ...      *)
Redirection(t, f) == [file |-> f.word, mode |-> t.tok]

RedirFile(s, rs, t, f) ==
    IF f.tok # "a" THEN [redirs |-> rs, i |-> f.ps, ok |-> FALSE]
    ELSE parseredirs(s, f.ps, Append(rs, Redirection(t, f)))

(* ... and all of them at i, in order, after those in rs.                  *)
parseredirs(s, i, rs) ==
    IF peek(s, i, {"<", ">"})
    THEN RedirFile(s, rs, gettoken(s, i), gettoken(s, gettoken(s, i).ps))
    ELSE [redirs |-> rs, i |-> Skip(s, i), ok |-> TRUE]

Redirected(cmd, rs) == FoldLeft(LAMBDA c, r : redircmd(c, r.file, r.mode), cmd, rs)

(* The token t after the words argv and the redirections r.                *)
Argument(s, argv, r, t) ==
    IF ~ r.ok THEN Bad
    ELSE IF t.tok \in {"|", ")", "&", ";", "0"}
    THEN [cmd |-> Redirected(execcmd(argv), r.redirs), i |-> r.i]
    ELSE IF t.tok # "a" \/ Len(argv) + 1 >= MAXARGS THEN Bad
    ELSE parseargs(s, t.ps, Append(argv, t.word), r.redirs)

(* The loop of parseexec().                                                *)
parseargs(s, i, argv, rs) ==
    LET r == parseredirs(s, i, rs) IN Argument(s, argv, r, gettoken(s, r.i))

(* The block b and its redirections r.                                     *)
Block(b, r) == IF r.ok THEN [cmd |-> Redirected(b.cmd, r.redirs), i |-> r.i] ELSE Bad

BlockEnd(s, b) ==
    IF b = Bad THEN Bad
    ELSE IF ~ peek(s, b.i, {")"}) THEN Bad
    ELSE Block(b, parseredirs(s, gettoken(s, b.i).ps, << >>))

parseblock(s, i) == BlockEnd(s, parseline(s, gettoken(s, i).ps))

parseexec(s, i) == IF peek(s, i, {"("}) THEN parseblock(s, i) ELSE parseargs(s, i, << >>, << >>)

(* The operator op follows p.                                              *)
Follows(s, p, op) == p # Bad /\ peek(s, p.i, {op})

(* Mutant: the pipe is closed to the left.                                 *)
PipeRest_left(s, l) ==
    LET Two(r) == Piped(l, r)
        Three(two) == IF Follows(s, two, "|")
                      THEN Piped(two, parseexec(s, gettoken(s, two.i).ps)) ELSE two
    IN IF Follows(s, l, "|") THEN Three(Two(parseexec(s, gettoken(s, l.i).ps))) ELSE l

PipeRest(s, l) ==
    IF Follows(s, l, "|") THEN Piped(l, parsepipe(s, gettoken(s, l.i).ps)) ELSE l

parsepipe(s, i) == PipeRest(s, parseexec(s, i))

(* The loop over "&".                                                      *)
Backs(s, l) ==
    IF Follows(s, l, "&")
    THEN Backs(s, [cmd |-> backcmd(l.cmd), i |-> gettoken(s, l.i).ps])
    ELSE l

LineRest(s, l) ==
    IF Follows(s, l, ";") THEN Listed(l, parseline(s, gettoken(s, l.i).ps)) ELSE l

parseline(s, i) == LineRest(s, Backs(s, parsepipe(s, i)))

RECURSIVE nulterminate(_), Strings(_, _, _)

(* The places of the line that nulterminate() overwrites with NUL.         *)
nulterminate(cmd) ==
    CASE cmd.type = "EXEC" -> {cmd.argv[k][2] : k \in DOMAIN cmd.argv}
      [] cmd.type = "REDIR" -> nulterminate(cmd.cmd) \cup {cmd.file[2]}
      [] cmd.type = "BACK" -> nulterminate(cmd.cmd)
      [] OTHER -> nulterminate(cmd.left) \cup nulterminate(cmd.right)

(* The command with the strings runcmd() finds at its pointers.            *)
Strings(s, nul, cmd) ==
    LET String(w) == SubSeq(s, w[1], Min({j \in nul : j >= w[1]} \cup {Len(s) + 1}) - 1) IN
    CASE cmd.type = "EXEC" -> execcmd([k \in DOMAIN cmd.argv |-> String(cmd.argv[k])])
      [] cmd.type = "REDIR" -> redircmd(Strings(s, nul, cmd.cmd), String(cmd.file), cmd.mode)
      [] cmd.type = "BACK" -> backcmd(Strings(s, nul, cmd.cmd))
      [] OTHER -> [type |-> cmd.type, left |-> Strings(s, nul, cmd.left),
                                      right |-> Strings(s, nul, cmd.right)]

(* "leftovers" are an error.                                               *)
parsecmd(s) ==
    LET r == parseline(s, 1) IN
    IF r = Bad THEN Panic
    ELSE IF Skip(s, r.i) <= Len(s) THEN Panic
    ELSE Strings(s, nulterminate(r.cmd), r.cmd)

(***************************************************************************)
(* The reference: the tokens of a line as strings, split at the first      *)
(* operator outside parentheses.                                           *)
(***************************************************************************)
Gts(s, j) == j - 1 - Max({k \in 0..(j - 1) : k = 0 \/ s[k] # ">"})

Begins(s, j) ==
    /\ s[j] \notin whitespace
    /\ s[j] = ">" => Gts(s, j) % 2 = 0
    /\ s[j] \notin symbols => j = 1 \/ s[j - 1] \in whitespace \cup symbols

Tokens(s) ==
    LET starts == SetToSortSeq({j \in DOMAIN s : Begins(s, j)}, <)
        End(j) == CASE s[j] = ">" /\ j < Len(s) /\ s[j + 1] = ">" -> j + 1
                    [] s[j] \in symbols -> j
                    [] OTHER -> WordEnd(s, j) - 1
    IN [k \in DOMAIN starts |-> SubSeq(s, starts[k], End(starts[k]))]

IsWord(tok) == tok[1] \notin symbols

Depth(t, k) == Cardinality({j \in 1..k : t[j] = <<"(">>}) - Cardinality({j \in 1..k : t[j] = <<")">>})

(* The place of the first operator op outside parentheses.                 *)
Split(t, op) == Min({k \in DOMAIN t : t[k] = op /\ Depth(t, k) = 0} \cup {Len(t) + 1})

RedirTokens == {<<"<">>, <<">">>, <<">", ">">>}

(* Words and redirections, in any order; a word after an arrow is a file.  *)
RefWords(cmd, t, args) ==
    LET rs == {k \in DOMAIN t : t[k] \in RedirTokens}
        ws == DOMAIN t \ (rs \cup {k + 1 : k \in rs})
        words == SetToSortSeq(ws, <)
        arrows == SetToSortSeq(rs, <)
    IN IF \/ \E k \in ws : ~ IsWord(t[k])
          \/ \E k \in rs : IF k = Len(t) THEN TRUE ELSE ~ IsWord(t[k + 1])
          \/ Cardinality(ws) > args
       THEN Panic
       ELSE Redirected(IF cmd = Panic THEN execcmd([k \in DOMAIN words |-> t[words[k]]]) ELSE cmd,
                       [k \in DOMAIN arrows |-> [file |-> t[arrows[k] + 1],
                           mode |-> IF Len(t[arrows[k]]) = 2 THEN "+" ELSE t[arrows[k]][1]]])

RECURSIVE RefLine(_), RefPipe(_)

RefExec(t) ==
    LET close == Min({k \in DOMAIN t : Depth(t, k) = 0} \cup {Len(t) + 1})
        inner == RefLine(SubSeq(t, 2, close - 1))
    IN IF t = << >> THEN execcmd(<< >>)
       ELSE IF t[1] # <<"(">> THEN RefWords(Panic, t, MAXARGS - 1)
       ELSE IF close > Len(t) THEN Panic
       ELSE IF inner = Panic THEN Panic
       ELSE RefWords(inner, SubSeq(t, close + 1, Len(t)), 0)

RefPipe(t) ==
    LET k == Split(t, <<"|">>)
        l == RefExec(SubSeq(t, 1, k - 1))
        r == RefPipe(SubSeq(t, k + 1, Len(t)))
    IN IF k > Len(t) THEN l ELSE IF Panic \in {l, r} THEN Panic ELSE pipecmd(l, r)

RefLine(t) ==
    LET k == Split(t, <<";">>)
        last == Max({j \in 1..(k - 1) : t[j] # <<"&">>} \cup {0})
        p == RefPipe(SubSeq(t, 1, last))
        l == FoldLeft(LAMBDA c, x : backcmd(c), p, SubSeq(t, last + 1, k - 1))
        r == RefLine(SubSeq(t, k + 1, Len(t)))
    IN IF p = Panic THEN Panic
       ELSE IF k > Len(t) THEN l ELSE IF r = Panic THEN Panic ELSE listcmd(l, r)
==============================================================================
