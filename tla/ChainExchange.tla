---------------------------- MODULE ChainExchange ----------------------------
(***************************************************************************)
(* The chain exchange client, src/protocols/chainexchange: a call asks one *)
(* peer after the other for a piece of the chain until one gives an answer *)
(* that passes validation.                                                 *)
(*                                                                         *)
(* A peer may answer anything that decodes.  Messages come compacted: per  *)
(* kind, BLS or SECP256K1, one list of messages for the tipset and for     *)
(* each of its blocks the indices of its own in that list.                 *)
(***************************************************************************)
EXTENDS TipSet

CONSTANTS
  PeerLists,         \* what PeerProvider.Peers may return
  Heads,             \* tipset keys a caller asks for
  Counts,            \* counts a caller gives GetBlocks
  Answers,           \* [status, chain] a peer may send
  NoMessages,        \* the nil pointer in the place of messages
  MaxRequestLength,  \* the longest chain that may be asked for (900)
  MaxInt,            \* the largest int (2^63 - 1)
  MaxCalls           \* bound: calls made

Kinds == {"Bls", "Secpk"}

ASSUME HeadsAssumption ==
  \A head \in Heads : head \in Seq(Nat) /\ head # <<>> /\ IsInjective(head)

ASSUME LengthAssumption ==
  /\ MaxCalls \in Nat
  /\ MaxRequestLength \in Nat \ {0}
  /\ MaxInt \in Nat /\ MaxRequestLength <= MaxInt
  /\ Counts \subseteq -MaxInt..MaxInt

\* What an answer decodes to: blocks with the cids of their contents, and messages with
\* lists of indices.
ASSUME AnswersAssumption ==
  \A a \in Answers :
    /\ a.chain \in Seq(ToSet(a.chain))
    /\ \A i \in DOMAIN a.chain :
         /\ a.chain[i].blocks \in Seq(BlockHeader) /\ CidsDecide(a.chain[i].blocks)
         /\ a.chain[i].messages # NoMessages =>
              \A kind \in Kinds :
                /\ a.chain[i].messages[kind].includes \in Seq(Seq(0..2 * MaxInt + 1))
                /\ Len(a.chain[i].messages[kind].list) \in Nat

VARIABLES
  phase,      \* "idle", "loop" at the top of doRequest's loop, or "sending"
  call,       \* the call being served, or the last one
  todo,       \* the peers the loop has not come to
  cancelled,  \* the call's context is done
  answer,     \* the answer read from the peer asked last, or NoAnswer
  outcome,    \* what the last call ended with
  held,       \* the tipsets the caller got from its last GetBlocks
  made        \* calls made so far (bounded)

vars == <<phase, call, todo, cancelled, answer, outcome, held, made>>

Nothing == [kind |-> "none"]
Panic == [kind |-> "panic"]
Failure(reason) == [kind |-> reason]
Result(tipsets, messages, full) ==
  [kind |-> "result", tipsets |-> tipsets, messages |-> messages, full |-> full]

NoCall == [api |-> "none"]
NoAnswer == [status |-> "none"]

Init ==
  /\ phase = "idle"
  /\ call = NoCall
  /\ todo = <<>>
  /\ cancelled = FALSE
  /\ answer = NoAnswer
  /\ outcome = Nothing
  /\ held = <<>>
  /\ made = 0

-----------------------------------------------------------------------------
(* validateResponse: the checks in the order they are made.                *)

\* Mutant: a negative count stays one.
AsGiven(n) == n

\* uint64(count) of an int, and int(mi) of a uint64.
AsUint64(n) == IF n < 0 THEN n + 2 * (MaxInt + 1) ELSE n
AsInt(n) == IF n > MaxInt THEN n - 2 * (MaxInt + 1) ELSE n

WantsHeaders(c) == c.api \in {"GetBlocks", "GetFullTipSet"}
WantsMessages(c) == c.api \in {"GetFullTipSet", "GetChainMessages"}

\* As long as asked for, or shorter and marked so.
LengthFits(c, a) ==
  /\ a.chain # <<>>
  /\ Len(a.chain) <= c.length
  /\ Len(a.chain) < c.length => a.status = "Partial"

\* NewTipSet is called on one element of the chain after the other, so that it
\* panics on a later one only if all before it form tipsets.
HeadersPanic(chain) ==
  \E i \in DOMAIN chain :
    /\ TicketPanics(chain[i].blocks)
    /\ \A j \in 1..i - 1 : FormTipSet(chain[j].blocks)

TipSetsOf(chain) == [i \in DOMAIN chain |-> NewTipSet(chain[i].blocks)]

\* Mutant: the answer may begin anywhere.
AnyHead(tipsets, head) == TRUE

HeadMatches(tipsets, head) == CidArrsEqual(tipsets[1].cids, head)

Connected(tipsets) ==
  \A i \in 1..Len(tipsets) - 1 : IsChildOf(tipsets[i], tipsets[i + 1])

HeadersFit(c, chain) ==
  /\ \A i \in DOMAIN chain : FormTipSet(chain[i].blocks)
  /\ HeadMatches(TipSetsOf(chain), c.head)
  /\ Connected(TipSetsOf(chain))

\* Mutant: the number of lists is not checked.
IndicesOnly(messages, blocks) ==
  \A kind \in Kinds : \A i \in DOMAIN messages[kind].includes :
    \A j \in DOMAIN messages[kind].includes[i] :
      AsInt(messages[kind].includes[i][j]) < Len(messages[kind].list)

\* A list of indices per block, none of them past the end of the messages.
IndicesFit(messages, blocks) ==
  \A kind \in Kinds :
    /\ Len(messages[kind].includes) = Len(blocks)
    /\ \A i \in DOMAIN messages[kind].includes :
         \A j \in DOMAIN messages[kind].includes[i] :
           AsInt(messages[kind].includes[i][j]) < Len(messages[kind].list)

\* The blocks are those of the answer, or the caller's if it asked for none.
BlocksFor(c, chain) ==
  IF WantsHeaders(c) THEN [i \in DOMAIN chain |-> chain[i].blocks]
                     ELSE [i \in DOMAIN c.tipsets |-> c.tipsets[i].blocks]

MessagesFit(c, chain) ==
  /\ \A i \in DOMAIN chain : chain[i].messages # NoMessages
  /\ Len(chain) <= Len(BlocksFor(c, chain))
  /\ \A i \in DOMAIN chain : IndicesFit(chain[i].messages, BlocksFor(c, chain)[i])

AnswerPanics(c, a) ==
  /\ a.status \in {"Ok", "Partial"}
  /\ LengthFits(c, a)
  /\ WantsHeaders(c)
  /\ HeadersPanic(a.chain)

AnswerValid(c, a) ==
  /\ a.status \in {"Ok", "Partial"}
  /\ LengthFits(c, a)
  /\ WantsHeaders(c) => HeadersFit(c, a.chain)
  /\ WantsMessages(c) => MessagesFit(c, a.chain)

-----------------------------------------------------------------------------
(* toFullTipSets, of one tipset.                                           *)

\* An index is used as the uint64 it is.
FullTipSetPanics(ts, messages) ==
  \E kind \in Kinds : \E i \in DOMAIN ts.blocks :
    \/ i > Len(messages[kind].includes)
    \/ \E j \in DOMAIN messages[kind].includes[i] :
         messages[kind].includes[i][j] >= Len(messages[kind].list)

FullTipSet(ts, messages) ==
  [i \in DOMAIN ts.blocks |->
     [header |-> ts.blocks[i],
      messages |-> [kind \in Kinds |->
        [j \in DOMAIN messages[kind].includes[i] |->
           messages[kind].list[messages[kind].includes[i][j] + 1]]]]]

-----------------------------------------------------------------------------
(* The calls.                                                              *)

BeginCall(c) ==
  /\ phase = "idle"
  /\ outcome # Panic
  /\ made < MaxCalls
  /\ phase' = "loop"
  /\ call' = c
  /\ todo' \in PeerLists
  /\ cancelled' = FALSE
  /\ answer' = NoAnswer
  /\ outcome' = Nothing
  /\ made' = made + 1
  /\ UNCHANGED held

GetBlocks ==
  \E head \in Heads, count \in Counts :
    BeginCall([api |-> "GetBlocks", head |-> head, length |-> AsUint64(count),
               tipsets |-> <<>>])

GetFullTipSet ==
  \E head \in Heads :
    BeginCall([api |-> "GetFullTipSet", head |-> head, length |-> 1,
               tipsets |-> <<>>])

\* The caller wants the messages of tipsets it has.
GetChainMessages ==
  /\ held # <<>>
  /\ BeginCall([api |-> "GetChainMessages", head |-> held[1].cids,
                length |-> Len(held), tipsets |-> held])

\* A caller that has none: the first one's cids are taken before anything is checked.
GetMessagesOfNone ==
  /\ phase = "idle"
  /\ outcome # Panic
  /\ made < MaxCalls
  /\ held = <<>>
  /\ call' = [api |-> "GetChainMessages", head |-> <<>>, length |-> 0, tipsets |-> <<>>]
  /\ cancelled' = FALSE
  /\ answer' = NoAnswer
  /\ outcome' = Panic
  /\ made' = made + 1
  /\ UNCHANGED <<phase, todo, held>>

\* The call's context is cancelled, or its deadline passes.
Cancel ==
  /\ phase # "idle"
  /\ ~cancelled
  /\ cancelled' = TRUE
  /\ UNCHANGED <<phase, call, todo, answer, outcome, held, made>>

EndCall(result) ==
  /\ phase' = "idle"
  /\ outcome' = result
  /\ UNCHANGED <<call, todo, cancelled, made>>

\* The loop has no more peers.
GiveUp ==
  /\ phase = "loop"
  /\ todo = <<>>
  /\ EndCall(Failure("failed for all peers"))
  /\ UNCHANGED <<answer, held>>

\* The select at the top of the loop.
NoticeCancelled ==
  /\ phase = "loop"
  /\ todo # <<>>
  /\ cancelled
  /\ EndCall(Failure("context cancelled"))
  /\ UNCHANGED <<answer, held>>

\* Mutant: the peer is asked again.
SamePeers(peers) == peers

PeersAfter(peers) == Tail(peers)

AskPeer ==
  /\ phase = "loop"
  /\ todo # <<>>
  /\ ~cancelled
  /\ phase' = "sending"
  /\ todo' = PeersAfter(todo)
  /\ answer' = NoAnswer
  /\ UNCHANGED <<call, cancelled, outcome, held, made>>

MaySend(c) == c.length # 0 /\ c.length <= MaxRequestLength

\* Send fails: it refuses the request itself, does not reach the peer, or gives
\* up at a deadline.
SendFails ==
  /\ phase = "sending"
  /\ phase' = "loop"
  /\ UNCHANGED <<call, todo, cancelled, answer, outcome, held, made>>

\* Send returns an answer and validateResponse does not accept it.
RejectAnswer ==
  /\ phase = "sending"
  /\ MaySend(call)
  /\ answer' \in {a \in Answers : ~AnswerPanics(call, a) /\ ~AnswerValid(call, a)}
  /\ phase' = "loop"
  /\ UNCHANGED <<call, todo, cancelled, outcome, held, made>>

DieOfAnswer ==
  /\ phase = "sending"
  /\ MaySend(call)
  /\ answer' \in {a \in Answers : AnswerPanics(call, a)}
  /\ EndCall(Panic)
  /\ UNCHANGED held

\* The answer is accepted; the call returns what it was made for.
ReturnBlocks ==
  /\ phase = "sending"
  /\ MaySend(call)
  /\ call.api = "GetBlocks"
  /\ \E a \in Answers :
       /\ AnswerValid(call, a)
       /\ answer' = a
       /\ EndCall(Result(TipSetsOf(a.chain), <<>>, <<>>))
       /\ held' = TipSetsOf(a.chain)

ReturnFullTipSet ==
  /\ phase = "sending"
  /\ MaySend(call)
  /\ call.api = "GetFullTipSet"
  /\ \E a \in Answers :
       /\ AnswerValid(call, a)
       /\ answer' = a
       /\ LET ts == TipSetsOf(a.chain)[1]
              messages == a.chain[1].messages
          IN EndCall(IF FullTipSetPanics(ts, messages)
                     THEN Panic
                     ELSE Result(<<>>, <<>>, FullTipSet(ts, messages)))
  /\ UNCHANGED held

ReturnMessages ==
  /\ phase = "sending"
  /\ MaySend(call)
  /\ call.api = "GetChainMessages"
  /\ \E a \in Answers :
       /\ AnswerValid(call, a)
       /\ answer' = a
       /\ EndCall(Result(<<>>, [i \in DOMAIN a.chain |-> a.chain[i].messages], <<>>))
  /\ UNCHANGED held

\* No call is left within the bound, or the program has died.
Terminated ==
  /\ phase = "idle"
  /\ made = MaxCalls \/ outcome = Panic
  /\ UNCHANGED vars

SendEnds ==
  SendFails \/ RejectAnswer \/ DieOfAnswer
    \/ ReturnBlocks \/ ReturnFullTipSet \/ ReturnMessages

Next ==
  \/ GetBlocks \/ GetFullTipSet \/ GetChainMessages \/ GetMessagesOfNone
  \/ Cancel
  \/ GiveUp \/ NoticeCancelled \/ AskPeer
  \/ SendEnds
  \/ Terminated

\* The loop runs on, and every Send ends, by its deadlines if by nothing else.
Fairness == WF_vars(GiveUp \/ NoticeCancelled \/ AskPeer) /\ WF_vars(SendEnds)

Spec == Init /\ [][Next]_vars /\ Fairness

-----------------------------------------------------------------------------
(* Types.                                                                  *)

\* The variables have their types; what the caller holds are tipsets.
TypeOK ==
  /\ phase \in {"idle", "loop", "sending"}
  /\ call = NoCall \/ call.length \in Nat
  /\ cancelled \in BOOLEAN
  /\ answer \in Answers \cup {NoAnswer}
  /\ outcome.kind \in {"none", "result", "panic", "failed for all peers",
                       "context cancelled"}
  /\ \A i \in DOMAIN held : Len(held[i].cids) = Len(held[i].blocks)
  /\ made \in 0..MaxCalls

-----------------------------------------------------------------------------
(* Safety.                                                                 *)

R == INSTANCE ChainRequest WITH
       pending <- IF phase = "idle" THEN NoCall ELSE call,
       outcome <- outcome

\* Whatever peers answer, a call that succeeds returns what was asked for: all
\* blocks are the head's or ancestors of it, and message lists fit the blocks.
\* ChainExchange implements ChainRequest.
RequestSpec == R!Spec

\* The program dies only of a call for the messages of no tipsets, of a header without
\* ticket in a tipset of several, or of an index that int turns negative: every other
\* access in validation and in toFullTipSets is in range (client.go).
OnlyKnownPanics ==
  outcome = Panic =>
    \/ call.api = "GetChainMessages" /\ call.tipsets = <<>>
    \/ ~AnswerValid(call, answer) /\ HeadersPanic(answer.chain)
    \/ /\ AnswerValid(call, answer)
       /\ \E kind \in Kinds :
            \E indices \in ToSet(answer.chain[1].messages[kind].includes) :
              \E mi \in ToSet(indices) : mi > MaxInt

Permutings(s) == {p \in [DOMAIN s -> DOMAIN s] : IsInjective(p)}

\* Nodes that hear of the same blocks in another order build the same tipset, equal
\* tickets and repeated blocks included (NewTipSet, chain.go:162).
OrderIndependent ==
  answer # NoAnswer =>
    \A i \in DOMAIN answer.chain : FormTipSet(answer.chain[i].blocks) =>
      LET blks == answer.chain[i].blocks
      IN \A p \in Permutings(blks) :
           LET permuted == [j \in DOMAIN blks |-> blks[p[j]]]
           IN FormTipSet(permuted) /\ NewTipSet(permuted) = NewTipSet(blks)

-----------------------------------------------------------------------------
(* Liveness.                                                               *)

\* Every call ends, however its peers behave (doRequest's loop asks no peer twice,
\* and Send has deadlines).
CallReturns == phase # "idle" ~> phase = "idle"

-----------------------------------------------------------------------------
(* Statements of comments in the source.                                   *)

\* The answer of a peer that has the blocks and follows the protocol.
Honest(c, a) ==
  LET cidsOf(i) == {a.chain[i].blocks[j].cid : j \in DOMAIN a.chain[i].blocks}
      wholeTipSet(i, cids) ==
        /\ IsInjective(a.chain[i].blocks)
        /\ FormTipSet(a.chain[i].blocks)
        /\ Len(a.chain[i].blocks) = Len(cids)
        /\ cidsOf(i) = ToSet(cids)
  IN /\ a.status \in {"Ok", "Partial"}
     /\ LengthFits(c, a)
     /\ wholeTipSet(1, c.head)
     /\ \A i \in 1..Len(a.chain) - 1 :
          /\ wholeTipSet(i + 1, a.chain[i].blocks[1].parents)
          /\ a.chain[i].blocks[1].height > a.chain[i + 1].blocks[1].height

\* client.go:206, "Check that the returned head matches the one requested": the
\* answer of an honest peer to GetBlocks is accepted.
HonestAnswerAccepted ==
  answer # NoAnswer /\ call.api = "GetBlocks" /\ Honest(call, answer) =>
    outcome.kind = "result"

=============================================================================
