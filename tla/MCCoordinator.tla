---------------------------- MODULE MCCoordinator ----------------------------
(***************************************************************************)
(* Small instances of Coordinator for TLC: good blocks, and one for each   *)
(* way a gossiped block can be bad.                                        *)
(***************************************************************************)
EXTENDS Coordinator

MCDecodesAs == [c \in {"b1", "b2", "s1"} |-> IF c = "s1" THEN "Secpk" ELSE "Bls"]

Header(cid, signed, weight, height) ==
  [cid |-> cid, signed |-> signed, weight |-> weight, height |-> height]

Block(header, bls, secpk) ==
  [header |-> header, messages |-> [kind \in Kinds |-> IF kind = "Bls" THEN bls ELSE secpk]]

Good == Header("h1", TRUE, 1, 1)
Light == Header("h2", TRUE, 0, 0)

Message(from, block) == [from |-> from, decodes |-> TRUE, block |-> block]

MCGossip ==
  {Message("peer", Block(Good, <<"b1">>, <<"s1">>)),
   Message("peer", Block(Light, <<>>, <<>>)),
   Message("self", Block(Light, <<>>, <<>>)),
   Message("peer", Block(Good, <<"b1", "b1">>, <<>>)),
   Message("peer", Block(Light, <<"s1">>, <<>>)),
   Message("peer", Block(Good, <<"b1", "b2">>, <<"s1">>)),
   Message("peer", Block(Header("h3", FALSE, 1, 1), <<>>, <<>>)),
   Message("peer", Block(Header("h4", TRUE, -1, 1), <<>>, <<>>)),
   Message("peer", Block(Header("h5", TRUE, 1, -1), <<>>, <<>>)),
   Message("peer", Block(NoHeader, <<>>, <<>>)),
   [from |-> "peer", decodes |-> FALSE, block |-> Block(Good, <<>>, <<>>)]}

=============================================================================
