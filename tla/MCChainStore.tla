----------------------------- MODULE MCChainStore -----------------------------
(***************************************************************************)
(* A small chain in blocks good and bad, for TLC.                          *)
(***************************************************************************)
EXTENDS ChainStore

Header(cid, ticket, height, parents) ==
  [cid |-> cid, ticket |-> ticket, height |-> height, parents |-> parents]

Root  == Header(1, 1, 0, <<>>)
Left  == Header(2, 2, 1, <<1>>)
Right == Header(3, 1, 1, <<1>>)
Twin  == Header(4, 1, 1, <<1>>)            \* Right's ticket
Bare  == Header(5, NoTicket, 1, <<1>>)     \* decodes without a ticket
Late  == Header(8, 1, 2, <<1>>)            \* of another height
Blank == Header(NoCid, 1, 1, <<1>>)        \* a cid in it is undefined

\* Block 6 is a header with something after it, whose own cid is 3.
MCContents ==
  [c \in 1..8 |->
     CASE c \in 1..5 -> [kind |-> "header", header |-> <<Root, Left, Right, Twin, Bare>>[c]]
       [] c = 6 -> [kind |-> "header", header |-> Right]
       [] c = 8 -> [kind |-> "header", header |-> Late]
       [] c = 7 -> [kind |-> "message", header |-> None]]

MCUnencodable == {Blank}

MCHeaderLists == {<<Left>>, <<Left, Right>>, <<Right, Blank>>}

MCCidLists ==
  {<<>>, <<1>>, <<2>>, <<2, 3>>, <<3, 2>>, <<4, 3>>, <<2, 3, 4>>, <<2, 8>>, <<2, 5>>,
   <<2, 6>>, <<6>>, <<7>>}

MCCars ==
  {[roots |-> <<2, 3>>, cids |-> {1, 2, 3}], [roots |-> <<6>>, cids |-> {1, 6}],
   [roots |-> <<7>>, cids |-> {1, 7}], [roots |-> <<2, 5>>, cids |-> {2, 5}]}

=============================================================================
