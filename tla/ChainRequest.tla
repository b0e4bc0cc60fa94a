---------------------------- MODULE ChainRequest ----------------------------
(***************************************************************************)
(* What the chain exchange client promises its caller, whatever the peers  *)
(* answer: a call ends with an error, or with blocks and messages that     *)
(* answer it, unless the program dies of an answer.                        *)
(*                                                                         *)
(* Peers, retries, deadlines and the checks made of an answer do not       *)
(* appear here.  ChainExchange implements this specification.              *)
(***************************************************************************)
EXTENDS Integers, Sequences, SequencesExt

VARIABLES
  pending,   \* the call being served, or NoCall: [api, head, length, tipsets]
  outcome    \* what the last call ended with

NoCall == [api |-> "none"]
Nothing == [kind |-> "none"]
Failures == [kind : {"failed for all peers", "context cancelled"}]
Panic == [kind |-> "panic"]

-----------------------------------------------------------------------------
(* What answers a call.                                                    *)

CidSet(ts) == {ts.blocks[i].cid : i \in DOMAIN ts.blocks}

\* A tipset: blocks of one height with the same parents, and their cids.
IsTipSet(ts) ==
  /\ ts.blocks # <<>>
  /\ ts.cids = [i \in DOMAIN ts.blocks |-> ts.blocks[i].cid]
  /\ \A i \in DOMAIN ts.blocks :
       /\ ts.blocks[i].height = ts.height
       /\ ts.blocks[i].parents = ts.blocks[1].parents

\* Back from the head, each tipset made of parents of the one before it: since a
\* cid is a hash, all of its blocks are ancestors of the head, whoever sent them.
IsSegment(head, tipsets) ==
  /\ tipsets # <<>>
  /\ \A i \in DOMAIN tipsets : IsTipSet(tipsets[i])
  /\ CidSet(tipsets[1]) = ToSet(head)
  /\ \A i \in 1..Len(tipsets) - 1 :
       /\ \A j \in DOMAIN tipsets[i].blocks :
            CidSet(tipsets[i + 1]) \subseteq ToSet(tipsets[i].blocks[j].parents)
       /\ tipsets[i].height > tipsets[i + 1].height

\* One list of message indices for each block of the tipset.
FitsTipSet(messages, ts) ==
  \A kind \in {"Bls", "Secpk"} :
    Len(messages[kind].includes) = Len(ts.blocks)

FulfilsCall(call, result) ==
  CASE call.api = "GetBlocks" ->
         /\ IsSegment(call.head, result.tipsets)
         /\ Len(result.tipsets) <= call.length
    [] call.api = "GetFullTipSet" ->
         /\ Len(result.full) = Len(call.head)
         /\ {result.full[i].header.cid : i \in DOMAIN result.full} = ToSet(call.head)
    [] call.api = "GetChainMessages" ->
         /\ Len(result.messages) \in 1..Len(call.tipsets)
         /\ \A i \in DOMAIN result.messages :
              FitsTipSet(result.messages[i], call.tipsets[i])

-----------------------------------------------------------------------------
Init ==
  /\ pending = NoCall
  /\ outcome = Nothing

Begin ==
  /\ pending = NoCall
  /\ outcome # Panic
  /\ pending' # NoCall
  /\ outcome' = Nothing

Fulfil ==
  /\ pending # NoCall
  /\ outcome'.kind = "result"
  /\ FulfilsCall(pending, outcome')
  /\ pending' = NoCall

Fail ==
  /\ pending # NoCall
  /\ outcome' \in Failures \cup {Panic}
  /\ pending' = NoCall

\* The program dies of the call itself, before any peer is asked.
DieAtOnce ==
  /\ pending = NoCall
  /\ outcome # Panic
  /\ outcome' = Panic
  /\ UNCHANGED pending

Next == Begin \/ Fulfil \/ Fail \/ DieAtOnce

Spec == Init /\ [][Next]_<<pending, outcome>>

=============================================================================
