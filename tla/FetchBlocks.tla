----------------------------- MODULE FetchBlocks -----------------------------
(***************************************************************************)
(* fetchFullBlock of src/sync/fetchblocks.go: the messages of one gossiped *)
(* block, first the BLS and then the SECP256K1 ones, are asked of the      *)
(* block exchange, which sends what it finds through a channel, in any     *)
(* order, and closes it.                                                   *)
(***************************************************************************)
EXTENDS FullBlock

CONSTANTS
  Cids,          \* all cids
  Blocks,        \* the gossiped blocks
  MaxArrivals    \* bound: blocks the exchange sends

ASSUME BlocksAssumption ==
  /\ \A b \in Blocks : \A kind \in Kinds : b.messages[kind] \in Seq(Cids)
  /\ Missing \notin Cids
  /\ MaxArrivals \in Nat

VARIABLES
  block,       \* the gossiped block
  fetching,    \* the kind being fetched, or "done"
  open,        \* the channel of the exchange is open
  sent,        \* the cids of the blocks that came through it
  got,         \* the messages so far, by kind
  broken,      \* the context has ended or the exchange has given up
  outcome,     \* what fetchFullBlock returned, or Pending
  arrivals     \* blocks that have come (bounded)

vars == <<block, fetching, open, sent, got, broken, outcome, arrivals>>

Pending == [header |-> "none"]

Init ==
  /\ block \in Blocks
  /\ fetching = "Bls"
  /\ open = FALSE
  /\ sent = {}
  /\ got = [kind \in Kinds |-> <<>>]
  /\ broken = FALSE
  /\ outcome = Pending
  /\ arrivals = 0

Wanted == block.messages[fetching]

Finish(result) ==
  /\ fetching' = "done"
  /\ open' = FALSE
  /\ outcome' = result

-----------------------------------------------------------------------------
\* The cids of this kind are indexed and asked for.
Ask ==
  /\ fetching # "done"
  /\ ~open
  /\ Indexable(Wanted)
  /\ got' = [got EXCEPT ![fetching] = [i \in DOMAIN Wanted |-> Missing]]
  /\ open' = TRUE
  /\ sent' = {}
  /\ UNCHANGED <<block, fetching, broken, outcome, arrivals>>

IndexFails ==
  /\ fetching # "done"
  /\ ~open
  /\ ~Indexable(Wanted)
  /\ Finish(Failed)
  /\ UNCHANGED <<block, sent, got, broken, arrivals>>

\* A block comes out of the channel.
Arrives(c) ==
  /\ open
  /\ arrivals < MaxArrivals
  /\ arrivals' = arrivals + 1
  /\ sent' = sent \cup {c}
  /\ UNCHANGED <<block, broken>>

New(c) == c \in ToSet(Wanted) /\ got[fetching][Index(Wanted, c)] = Missing

\* It was not asked for, or has come before.
IgnoreBlock ==
  /\ \E c \in Cids : Arrives(c) /\ ~New(c)
  /\ UNCHANGED <<fetching, open, got, outcome>>

\* Mutant: messages are stored in the order they come.
InOrder(list, cids, c) == Append(list, c)

Place(list, cids, c) == [list EXCEPT ![Index(cids, c)] = c]

TakeBlock ==
  /\ \E c \in Cids :
       /\ Arrives(c)
       /\ New(c)
       /\ DecodesAs[c] = fetching
       /\ got' = [got EXCEPT ![fetching] = Place(@, Wanted, c)]
  /\ UNCHANGED <<fetching, open, outcome>>

DecodeFails ==
  /\ \E c \in Cids : Arrives(c) /\ New(c) /\ DecodesAs[c] # fetching
  /\ Finish(Failed)
  /\ UNCHANGED got

\* Mutant: the request is made without the context.
AllSent(cids, came, cut) == ToSet(cids) \subseteq came

\* When the exchange closes the channel.
Closes(cids, came, cut) == ToSet(cids) \subseteq came \/ cut

\* The loop over the channel ends.
ChannelCloses ==
  /\ open
  /\ Closes(Wanted, sent, broken)
  /\ IF fetching = "Bls"
     THEN fetching' = "Secpk" /\ open' = FALSE /\ UNCHANGED outcome
     ELSE Finish([header |-> block.header, messages |-> got])
  /\ UNCHANGED <<block, sent, got, broken, arrivals>>

\* The context ends, or the exchange gives up.
Break ==
  /\ fetching # "done"
  /\ ~broken
  /\ broken' = TRUE
  /\ UNCHANGED <<block, fetching, open, sent, got, outcome, arrivals>>

Terminated == fetching = "done" /\ UNCHANGED vars

Next ==
  \/ Ask \/ IndexFails
  \/ IgnoreBlock \/ TakeBlock \/ DecodeFails
  \/ ChannelCloses
  \/ Break
  \/ Terminated

\* The code runs on, and the exchange closes a channel it has to close; that it
\* finds anything is not promised.
Fairness == WF_vars(Ask \/ IndexFails) /\ WF_vars(ChannelCloses)

Spec == Init /\ [][Next]_vars /\ Fairness

-----------------------------------------------------------------------------
\* The variables have their types; there are as many messages as cids, once they
\* have been asked for.
TypeOK ==
  /\ block \in Blocks
  /\ fetching \in Kinds \cup {"done"}
  /\ open \in BOOLEAN
  /\ sent \subseteq Cids
  /\ \A kind \in Kinds :
       got[kind] = <<>> \/ DOMAIN got[kind] = DOMAIN block.messages[kind]
  /\ broken \in BOOLEAN
  /\ arrivals \in 0..MaxArrivals

F == INSTANCE FetchRequest

\* Blocks that come out of order, twice or unasked make no difference: a fetch that
\* returns no error has at every place the message of its cid, unless it was cut
\* short, and it fails only for blocks that are not well formed.  FetchBlocks
\* implements FetchRequest.
FetchSpec == F!Spec

\* A fetch that is cut short ends: no goroutine waits for a message for ever
\* (fetchMessages, fetchSignedMessages).
FetchEnds == broken ~> fetching = "done"

=============================================================================
