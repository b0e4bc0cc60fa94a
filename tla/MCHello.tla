------------------------------- MODULE MCHello -------------------------------
(***************************************************************************)
(* Small instances of Hello for TLC: who greets whom.                      *)
(***************************************************************************)
EXTENDS Hello

\* As a connection has it: its two ends greet each other.
Mutual == {<<"a", "b">>, <<"b", "a">>}

\* A third node that greets one of the two.
MutualAndOne == Mutual \cup {<<"c", "a">>}

None == {}

=============================================================================
