---------------------------- MODULE MCFetchBlocks ----------------------------
(***************************************************************************)
(* Small instances of FetchBlocks for TLC: blocks of up to three messages, *)
(* and the ways a block can be malformed.                                  *)
(***************************************************************************)
EXTENDS FetchBlocks

MCCids == {"b1", "b2", "s1", "garbage", "raw"}

\* "raw" has another prefix.
MCMessageCids == MCCids \ {"raw"}

MCDecodesAs ==
  [c \in MCCids |-> CASE c \in {"b1", "b2"} -> "Bls"
                      [] c = "s1" -> "Secpk"
                      [] OTHER -> "nothing"]

Block(bls, secpk) ==
  [header |-> "h", messages |-> [kind \in Kinds |-> IF kind = "Bls" THEN bls ELSE secpk]]

MCBlocks ==
  {Block(<<>>, <<>>), Block(<<"b1", "b2">>, <<"s1">>), Block(<<"b2", "b1">>, <<>>),
   Block(<<"b1", "b1">>, <<"s1">>), Block(<<"b1">>, <<"s1", "s1">>),
   Block(<<"raw">>, <<>>), Block(<<>>, <<"b1">>), Block(<<"s1", "b1">>, <<"s1">>),
   Block(<<"b1", "garbage">>, <<>>)}

=============================================================================
