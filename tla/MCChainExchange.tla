--------------------------- MODULE MCChainExchange ---------------------------
(***************************************************************************)
(* Small instances of ChainExchange for TLC: a chain of three heights with *)
(* a tipset of two blocks in it, and answers made of its blocks and of     *)
(* blocks that do not belong.                                              *)
(***************************************************************************)
EXTENDS ChainExchange

Header(cid, ticket, height, parents) ==
  [cid |-> cid, ticket |-> ticket, height |-> height, parents |-> parents]

Root    == Header(1, 1, 0, <<>>)
Left    == Header(2, 1, 1, <<1>>)
Right   == Header(3, 2, 1, <<1>>)
Bare    == Header(4, NoTicket, 1, <<1>>)   \* decodes without a ticket
Both    == Header(5, 1, 2, <<2, 3>>)       \* child of Left and Right
OnLeft  == Header(6, 1, 2, <<2>>)
TooLow  == Header(7, 1, 1, <<2>>)          \* not above its parent
Fork    == Header(8, 3, 1, <<9>>)          \* Left's height, other parents
Twin    == Header(10, 1, 1, <<1>>)         \* Left's ticket

\* What an answer may give for the head, and for the tipset below it.
TopLists ==
  {<<>>, <<Root>>, <<Left>>, <<Both>>, <<OnLeft>>, <<TooLow>>,
   <<Left, Right>>, <<Right, Left>>, <<Left, Bare>>, <<Left, Fork>>, <<Left, Left>>,
   <<Left, Twin>>, <<Right, Twin, Left>>}

LowerLists ==
  {<<>>, <<Root>>, <<Left>>, <<Fork>>, <<Left, Right>>, <<Right, Left>>,
   <<Left, Bare>>, <<Left, Left>>, <<Left, Root>>}

Lists(list, includes) == [list |-> list, includes |-> includes]
Messages(bls, secpk) == [kind \in {"Bls", "Secpk"} |-> IF kind = "Bls" THEN bls ELSE secpk]

OneBlock == Lists(<<"m1">>, <<<<0>>>>)
TwoBlocks == Lists(<<"m1", "m2">>, <<<<0, 1>>, <<1>>>>)
NoBlock == Lists(<<"m1">>, <<>>)
PastTheEnd == Lists(<<"m1">>, <<<<1>>>>)
Huge == Lists(<<"m1">>, <<<<7>>>>)          \* 7 is 2 * MaxInt + 1: int makes it -1

MessageLists ==
  {NoMessages, Messages(OneBlock, OneBlock), Messages(TwoBlocks, TwoBlocks),
   Messages(NoBlock, OneBlock), Messages(OneBlock, NoBlock),
   Messages(PastTheEnd, OneBlock), Messages(OneBlock, PastTheEnd),
   Messages(Huge, OneBlock)}

Segment(blocks, messages) == [blocks |-> blocks, messages |-> messages]

Answer(status, chain) == [status |-> status, chain |-> chain]

\* Answers with headers, and with messages for one tipset.
BlockAnswers ==
  {Answer(status, [i \in DOMAIN lists |-> Segment(lists[i], NoMessages)]) :
     status \in {"Ok", "Partial"},
     lists \in {<<top>> : top \in TopLists}
            \cup {<<top, lower>> : top \in {<<Both>>, <<OnLeft>>, <<Left>>, <<TooLow>>},
                                  lower \in LowerLists}}
    \cup {Answer("Ok", <<Segment(blocks, messages)>>) :
            blocks \in {<<Left>>, <<Left, Right>>}, messages \in MessageLists}
    \cup {Answer("Ok", <<>>), Answer("NotFound", <<>>)}

\* Two good answers with headers, and answers with messages for two tipsets.
MessageAnswers ==
  {Answer("Ok", <<Segment(<<OnLeft>>, NoMessages), Segment(<<Left>>, NoMessages)>>),
   Answer("Ok", <<Segment(<<Both>>, NoMessages), Segment(<<Left, Right>>, NoMessages)>>)}
    \cup {Answer("Ok", <<Segment(<<>>, a), Segment(<<>>, b)>>) : a, b \in MessageLists}
    \cup {Answer("Partial", <<Segment(<<>>, a)>>) : a \in MessageLists}

AllAnswers == BlockAnswers \cup MessageAnswers

MCPeerLists == {<<>>, <<"p", "q">>}
MCHeads == {<<2>>, <<5>>, <<6>>, <<7>>, <<2, 3>>}

\* Turned huge and so refused, in range, and longer than the longest.
MCCounts == {-1, 2, 3}

=============================================================================
