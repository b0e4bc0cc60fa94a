------------------------------ MODULE FullBlock ------------------------------
(***************************************************************************)
(* Gossiped blocks and full blocks, as operators on values.                *)
(*                                                                         *)
(* A gossiped block is [header, messages]: for each kind of message, BLS   *)
(* or SECP256K1, the cids of the block's messages.  In a full block the    *)
(* messages themselves have taken the place of the cids; a message is      *)
(* modelled by its cid, and Missing is the nil pointer where none came.    *)
(***************************************************************************)
EXTENDS Integers, Sequences, SequencesExt

CONSTANTS
  MessageCids,   \* the cids with MessageCidPrefix
  DecodesAs      \* [cid -> "Bls", "Secpk" or "nothing"], by the bytes it is the hash of

Kinds == {"Bls", "Secpk"}
Missing == "nil"
Failed == [header |-> "error"]

-----------------------------------------------------------------------------
\* Mutant: a cid may be listed twice.
PrefixedOnly(cids) == ToSet(cids) \subseteq MessageCids

\* newCidIndex returns no error.
Indexable(cids) == ToSet(cids) \subseteq MessageCids /\ IsInjective(cids)

\* The index: the last position a cid was entered with.
Index(cids, c) ==
  CHOOSE i \in DOMAIN cids :
    cids[i] = c /\ \A j \in i + 1..Len(cids) : cids[j] # c

\* Every message can be indexed and decoded.
WellFormed(block) ==
  \A kind \in Kinds :
    /\ ToSet(block.messages[kind]) \subseteq MessageCids
    /\ IsInjective(block.messages[kind])
    /\ \A c \in ToSet(block.messages[kind]) : DecodesAs[c] = kind

Places(block) ==
  UNION {{kind} \X DOMAIN block.messages[kind] : kind \in Kinds}

\* The full block without the messages of some places.
Full(block, lost) ==
  [header |-> block.header,
   messages |-> [kind \in Kinds |->
     [i \in DOMAIN block.messages[kind] |->
        IF <<kind, i>> \in lost THEN Missing ELSE block.messages[kind][i]]]]

\* What fetchFullBlock may return.  It fails for blocks that are not well formed
\* and for no others.  If the context has ended, or the exchange has given up
\* (broken), messages may be missing, of malformed blocks those that are malformed
\* included; otherwise every place has the message of its cid.
Outcomes(block, broken) ==
  (IF WellFormed(block) THEN {} ELSE {Failed})
    \cup {Full(block, lost) :
            lost \in {l \in SUBSET Places(block) :
                        /\ l # {} => broken
                        /\ \A kind \in Kinds : ToSet(block.messages[kind]) \subseteq MessageCids
                        /\ \A kind \in Kinds : IsInjective(block.messages[kind])
                        /\ \A p \in Places(block) \ l :
                             DecodesAs[block.messages[p[1]][p[2]]] = p[1]}}

=============================================================================
