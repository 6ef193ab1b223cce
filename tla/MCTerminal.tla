------------------------------ MODULE MCTerminal -----------------------------
(***************************************************************************)
(* The terminal for TLC: lines of at most two characters, longer ones with *)
(* several processes, and input for them are typed; the lines of at most   *)
(* three characters, and some longer ones, nested and wrong ones among     *)
(* them, are read already and only parsed and run.                         *)
(***************************************************************************)
EXTENDS Terminal

Short == UNION {[1..k -> {"a", "|", ";"}] : k \in 0..2}

Strings4 == [1..4 -> {"a", "|", "&", "(", ")"}]

Wide == {<<"b", ">", ">", "a">>, <<"b", ">", "a", "<", "b">>, <<">", "b", "a">>, <<"b", " ", "a">>,
         <<"b", " ", "a", " ", "a">>, <<"(", "b", "|", "a", ")", ">", "a">>, <<"b", ")", "|", "b">>,
         <<"(", "b", ";", "b", ")", "|", "a">>, <<"b", "|", "(", "a", "&", ")">>}

MCTexts ==
    {Append(t, "nl") : t \in Strings4 \cup Wide \cup UNION {[1..k -> {"a", " "} \cup symbols] : k \in 0..3}}

Long == {<<"b", "|", "a">>, <<"b", "|", "a", "|", "a">>, <<"b", "&", ";", "b">>,
         <<"b", "<", "a", "|", "a">>, <<"b", "a", "^H", "|", "a">>, <<"(", "b", "^U", "b">>,
         <<"c", "d", " ", "a">>, <<"b", "&", "b">>}

(* A line and what follows it: nothing, or input for the program.          *)
MCLines ==
    {Append(l, "cr") : l \in Short \cup Long} \cup
    {<<"a", "cr", "b", "cr", "^D">>, <<"a", "cr", "b", "^D", "^D">>, <<"a", "cr", "b", "b", "b", "b", "^D">>,
     <<"a", "&", "cr", "b", "^D", "cr">>, <<"^D", "b", "cr">>, <<"b", "cr", "b", "cr">>}

MCReaders == {<<"a">>}
==============================================================================
