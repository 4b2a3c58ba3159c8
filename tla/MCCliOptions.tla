---------------------------- MODULE MCCliOptions ----------------------------
(***************************************************************************)
(* CliOptions on every command line of a few words: all the options in     *)
(* short lines, and two numbers that may also stand for any other value;   *)
(* few of them for the two options that the usage text describes otherwise.*)
(***************************************************************************)
EXTENDS CliOptions

OptionNames == UNION {r.names : r \in AuthFetchRows \union DnsTokenRows}

MCWords == OptionNames \union {"0", "7"}
FewWords == {"-m", "--capath", "--key", "7", "url"}

MCNumber  == [w \in MCWords |-> IF w = "7" THEN 7 ELSE 0]
FewNumber == [w \in FewWords |-> IF w = "7" THEN 7 ELSE 0]
=============================================================================
