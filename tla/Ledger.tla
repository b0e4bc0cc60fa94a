------------------------------- MODULE Ledger -------------------------------
(***************************************************************************)
(* What ApplyMessage promises whoever gives it messages: a message is      *)
(* atomic.  Accepting it costs its sender one nonce; then either all of    *)
(* its effects become visible at once, or none.                            *)
(*                                                                         *)
(* There are no frames, snapshots or rollbacks here.  VM implements this   *)
(* specification.                                                          *)
(***************************************************************************)
EXTENDS Integers

CONSTANTS
  Start,            \* the state tree at the beginning
  TotalBalance(_)   \* the money in a tree

VARIABLES
  ledger,    \* the state tree as seen between messages
  sender,    \* the sender of the message being applied, or Nobody
  receipt    \* the exit code of the last message

Nobody == -1

-----------------------------------------------------------------------------
(* What the messages of one sender may do to a tree.                       *)

\* No actor is lost and none changes its code.
ActorsKept(before, after) ==
  \A id \in DOMAIN before.actors :
    id \in DOMAIN after.actors /\ after.actors[id].code = before.actors[id].code

\* Within a message no nonce moves.
NoncesKept(before, after) ==
  \A id \in DOMAIN before.actors \cap DOMAIN after.actors :
    after.actors[id].callSeqNum = before.actors[id].callSeqNum

\* A new actor has an ID the init actor handed out meanwhile, and nonce 0.
NewActorsNumbered(before, after) ==
  /\ before.nextID <= after.nextID
  /\ \A id \in DOMAIN after.actors \ DOMAIN before.actors :
       /\ before.nextID <= id /\ id < after.nextID
       /\ after.actors[id].callSeqNum = 0

\* A public key names the same actor for ever.
KeysKept(before, after) ==
  \A a \in DOMAIN before.addressMap :
    /\ a \in DOMAIN after.addressMap
    /\ a.protocol = "KEY" => after.addressMap[a] = before.addressMap[a]

\* An account actor pays only for its own messages.
AccountsKept(before, after, payer) ==
  \A id \in DOMAIN before.actors \cap DOMAIN after.actors :
    id # payer /\ before.actors[id].code = "account" =>
      before.actors[id].balance <= after.actors[id].balance

Extends(before, after, payer) ==
  /\ ActorsKept(before, after)
  /\ NoncesKept(before, after)
  /\ NewActorsNumbered(before, after)
  /\ KeysKept(before, after)
  /\ AccountsKept(before, after, payer)

\* Money is moved, neither made nor destroyed.
FundsKept(before, after) == TotalBalance(before) = TotalBalance(after)

Grows(before, after, payer) ==
  Extends(before, after, payer) /\ FundsKept(before, after)

-----------------------------------------------------------------------------
Init ==
  /\ ledger = Start
  /\ sender = Nobody
  /\ receipt = "Ok"

Accept ==
  /\ sender = Nobody
  /\ \E id \in DOMAIN ledger.actors :
       /\ ledger' = [ledger EXCEPT !.actors[id].callSeqNum = @ + 1]
       /\ sender' = id
  /\ UNCHANGED receipt

\* A message whose sender has no actor leaves no trace.
Reject ==
  /\ sender = Nobody
  /\ receipt' = "SysErrSenderInvalid"
  /\ UNCHANGED <<ledger, sender>>

Commit ==
  /\ sender # Nobody
  /\ Grows(ledger, ledger', sender)
  /\ sender' = Nobody
  /\ receipt' = "Ok"

Discard ==
  /\ sender # Nobody
  /\ receipt' # "Ok"
  /\ sender' = Nobody
  /\ UNCHANGED ledger

Next == Accept \/ Reject \/ Commit \/ Discard

Spec == Init /\ [][Next]_<<ledger, sender, receipt>>

=============================================================================
