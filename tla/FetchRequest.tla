----------------------------- MODULE FetchRequest -----------------------------
(***************************************************************************)
(* What fetching a block promises: one outcome, which depends on the block *)
(* and on whether the fetch was cut short, and not on the order, number or *)
(* relevance of the blocks that came.  FetchBlocks implements this         *)
(* specification; Coordinator relies on it.                                *)
(***************************************************************************)
EXTENDS FullBlock

VARIABLES
  block,     \* the gossiped block
  broken,    \* the context has ended or the exchange has given up
  outcome    \* Pending, Failed or the full block

Pending == [header |-> "none"]

Init ==
  /\ broken = FALSE
  /\ outcome = Pending

Break ==
  /\ ~broken
  /\ broken' = TRUE
  /\ UNCHANGED <<block, outcome>>

Finish ==
  /\ outcome = Pending
  /\ outcome' \in Outcomes(block, broken)
  /\ UNCHANGED <<block, broken>>

Next == Break \/ Finish

Spec == Init /\ [][Next]_<<block, broken, outcome>>

=============================================================================
