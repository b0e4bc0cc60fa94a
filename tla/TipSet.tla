------------------------------- MODULE TipSet -------------------------------
(***************************************************************************)
(* Block headers and tipsets, src/chain/chain.go, as operators on values.  *)
(*                                                                         *)
(* A header is [cid, ticket, height, parents].  Its cid is the hash of the *)
(* rest of it, so that two headers with the same cid are the same; cids    *)
(* are numbers, in the order of their bytes.  A ticket is the number its   *)
(* digest has among digests, or NoTicket for the nil a header may decode   *)
(* to.                                                                     *)
(***************************************************************************)
EXTENDS Integers, Sequences, SequencesExt, FiniteSets

NoTicket == -1

BlockHeader == [cid : Nat, ticket : Int, height : Int, parents : Seq(Nat)]

\* Blocks of which the cid decides the rest, as hashes do.
CidsDecide(blks) ==
  \A i, j \in DOMAIN blks : blks[i].cid = blks[j].cid => blks[i] = blks[j]

-----------------------------------------------------------------------------
\* Mutant: equal tickets are left in the order they came in.
ByTicketOnly(b, c) == b.ticket < c.ticket

\* The order of blocks in a tipset: by ticket, then by cid.
Before(b, c) ==
  \/ b.ticket < c.ticket
  \/ b.ticket = c.ticket /\ b.cid < c.cid

\* Comparing tickets dereferences them; the sort compares every block of two or
\* more.
TicketPanics(blks) ==
  Len(blks) > 1 /\ \E i \in DOMAIN blks : blks[i].ticket = NoTicket

\* Mutant: the heights are not compared.
SameParents(blks) == \A i, j \in DOMAIN blks : blks[i].parents = blks[j].parents

\* All blocks of a tipset have the first one's height and parents.
Alike(blks) ==
  \A i, j \in DOMAIN blks :
    blks[i].height = blks[j].height /\ blks[i].parents = blks[j].parents

\* Blocks that NewTipSet returns no error for.
FormTipSet(blks) == blks # <<>> /\ ~TicketPanics(blks) /\ Alike(blks)

\* The i-th block is sorted before the j-th.  sort.Slice may swap two that neither
\* goes before, but these are the same block.
Precedes(blks, i, j) ==
  Before(blks[i], blks[j]) \/ (~Before(blks[j], blks[i]) /\ i < j)

\* Where the sort puts the i-th block: after those that precede it.
Place(blks, i) == Cardinality({j \in DOMAIN blks : j = i \/ Precedes(blks, j, i)})

Sorted(blks) ==
  [k \in DOMAIN blks |-> blks[CHOOSE i \in DOMAIN blks : Place(blks, i) = k]]

\* Mutant: the first block is not put in before the loop.
KeptByLoop(sorted) == SubSeq(sorted, 1, Len(sorted) - 1)

\* What NewTipSet keeps: the first block and then, its loop over bcs[1:] taking
\* bcs[i], every block but the last.
Kept(sorted) == [i \in DOMAIN sorted |-> sorted[IF i = 1 THEN 1 ELSE i - 1]]

Cids(blks) == [i \in DOMAIN blks |-> blks[i].cid]

\* The tipset of blocks that form one.
NewTipSet(blks) ==
  LET kept == Kept(Sorted(blks))
  IN [cids |-> Cids(kept), blocks |-> kept, height |-> blks[1].height]

-----------------------------------------------------------------------------
\* As many in a as in b, and each of b in a.
CidArrsEqual(a, b) == Len(a) = Len(b) /\ ToSet(b) \subseteq ToSet(a)

IsChildOf(ts, parent) ==
  CidArrsEqual(ts.blocks[1].parents, parent.cids) /\ ts.height > parent.height

=============================================================================
