----------------------------- MODULE TipSetProofs -----------------------------
(***************************************************************************)
(* What NewTipSet does to any list of blocks.  The provers know nothing of *)
(* sorting: the place of a block is the number of blocks up to it, and     *)
(* that every place is taken by one block is a matter of counting.         *)
(***************************************************************************)
EXTENDS TipSet, FiniteSetTheorems, TLAPS

-----------------------------------------------------------------------------
(* Lists of blocks.                                                        *)

LEMMA BlocksTyped ==
  ASSUME NEW blks \in Seq(BlockHeader)
  PROVE  /\ Len(blks) \in Nat
         /\ DOMAIN blks = 1..Len(blks)
         /\ \A i \in DOMAIN blks : /\ blks[i] \in BlockHeader
                                   /\ blks[i].ticket \in Int /\ blks[i].cid \in Int
                                   /\ blks[i].height \in Int
<1>1. /\ Len(blks) \in Nat /\ DOMAIN blks = 1..Len(blks)
      /\ \A i \in DOMAIN blks : blks[i] \in BlockHeader
  OBVIOUS
<1>2. \A b \in BlockHeader : b.ticket \in Int /\ b.cid \in Int /\ b.height \in Int
  BY DEF BlockHeader
<1> QED  BY <1>1, <1>2

\* For two blocks either one goes before the other, or they have ticket and cid in
\* common.
LEMMA BeforeOrders ==
  ASSUME NEW b, b.ticket \in Int, b.cid \in Int,
         NEW c, c.ticket \in Int, c.cid \in Int,
         NEW d, d.ticket \in Int, d.cid \in Int
  PROVE  /\ ~Before(b, b)
         /\ Before(b, c) => ~Before(c, b)
         /\ Before(b, c) /\ Before(c, d) => Before(b, d)
         /\ Before(b, d) => Before(b, c) \/ Before(c, d)
         /\ ~Before(b, c) /\ ~Before(c, b) => b.cid = c.cid
  BY DEF Before

LEMMA PrecedesOrders ==
  ASSUME NEW blks \in Seq(BlockHeader),
         NEW i \in DOMAIN blks, NEW j \in DOMAIN blks, NEW k \in DOMAIN blks
  PROVE  /\ ~Precedes(blks, i, i)
         /\ Precedes(blks, i, j) => ~Precedes(blks, j, i)
         /\ i # j => Precedes(blks, i, j) \/ Precedes(blks, j, i)
         /\ Precedes(blks, i, j) /\ Precedes(blks, j, k) => Precedes(blks, i, k)
<1>1. i \in Int /\ j \in Int /\ k \in Int
  BY BlocksTyped
<1>2. \A x, y, z \in DOMAIN blks :
        /\ ~Before(blks[x], blks[x])
        /\ Before(blks[x], blks[y]) => ~Before(blks[y], blks[x])
        /\ Before(blks[x], blks[y]) /\ Before(blks[y], blks[z])
             => Before(blks[x], blks[z])
        /\ Before(blks[x], blks[z])
             => Before(blks[x], blks[y]) \/ Before(blks[y], blks[z])
  BY BlocksTyped, BeforeOrders
<1> QED
  BY <1>1, <1>2 DEF Precedes

-----------------------------------------------------------------------------
(* Places.                                                                 *)

UpTo(blks, i) == {j \in DOMAIN blks : j = i \/ Precedes(blks, j, i)}

LEMMA PlacesDiffer ==
  ASSUME NEW blks \in Seq(BlockHeader),
         NEW i \in DOMAIN blks, NEW j \in DOMAIN blks, Precedes(blks, i, j)
  PROVE  Place(blks, i) < Place(blks, j)
<1>1. UpTo(blks, i) \subseteq UpTo(blks, j)
  BY PrecedesOrders DEF UpTo
<1>2. j \in UpTo(blks, j) /\ j \notin UpTo(blks, i)
  BY PrecedesOrders DEF UpTo
<1>3. IsFiniteSet(UpTo(blks, j))
  BY BlocksTyped, FS_Interval, FS_Subset DEF UpTo
<1>4. /\ Cardinality(UpTo(blks, i)) <= Cardinality(UpTo(blks, j))
      /\ Cardinality(UpTo(blks, i)) # Cardinality(UpTo(blks, j))
  BY <1>1, <1>2, <1>3, FS_Subset
<1>5. Cardinality(UpTo(blks, i)) \in Nat /\ Cardinality(UpTo(blks, j)) \in Nat
  BY <1>1, <1>3, FS_Subset, FS_CardinalityType
<1> QED
  BY <1>4, <1>5 DEF Place, UpTo

LEMMA PlaceInRange ==
  ASSUME NEW blks \in Seq(BlockHeader), NEW i \in DOMAIN blks
  PROVE  Place(blks, i) \in DOMAIN blks
<1>1. i \in UpTo(blks, i) /\ UpTo(blks, i) \in SUBSET (1..Len(blks))
  BY BlocksTyped DEF UpTo
<1>2. IsFiniteSet(1..Len(blks)) /\ Cardinality(1..Len(blks)) = Len(blks)
  <2>1. Len(blks) \in Nat /\ 1 <= Len(blks)
    BY BlocksTyped
  <2> QED
    BY <2>1, FS_Interval
<1>3. /\ IsFiniteSet(UpTo(blks, i))
      /\ Cardinality(UpTo(blks, i)) <= Len(blks)
      /\ Cardinality(UpTo(blks, i)) \in Nat
  BY <1>1, <1>2, FS_Subset, FS_CardinalityType
<1>4. Cardinality(UpTo(blks, i)) # 0
  BY <1>1, <1>3, FS_EmptySet
<1> QED
  BY <1>3, <1>4, BlocksTyped DEF Place, UpTo

\* Every place is some block's.
LEMMA PlacesTaken ==
  ASSUME NEW blks \in Seq(BlockHeader), NEW k \in DOMAIN blks
  PROVE  \E i \in DOMAIN blks : Place(blks, i) = k
<1> DEFINE D == DOMAIN blks
           place == [i \in D |-> Place(blks, i)]
<1>1. place \in [D -> D]
  BY PlaceInRange
<1>2. \A i, j \in D : place[i] = place[j] => i = j
  <2> SUFFICES ASSUME NEW i \in D, NEW j \in D, i # j PROVE place[i] # place[j]
    OBVIOUS
  <2>1. Place(blks, i) < Place(blks, j) \/ Place(blks, j) < Place(blks, i)
    BY PrecedesOrders, PlacesDiffer
  <2>2. Place(blks, i) \in Int /\ Place(blks, j) \in Int
    BY PlaceInRange, BlocksTyped
  <2> QED
    BY <2>1, <2>2
<1>3. IsFiniteSet(D)
  BY BlocksTyped, FS_Interval
<1> HIDE DEF place, D
<1>4. place \in Injection(D, D)
  BY <1>1, <1>2 DEF Injection, IsInjective
<1>5. place \in Surjection(D, D)
  BY <1>3, <1>4, FS_Injection
<1> QED
  BY <1>5 DEF Surjection, place, D

\* The sort gives every place the block that belongs there.
LEMMA SortedArranges ==
  ASSUME NEW blks \in Seq(BlockHeader)
  PROVE  /\ Sorted(blks) \in Seq(BlockHeader)
         /\ DOMAIN Sorted(blks) = DOMAIN blks
         /\ Len(Sorted(blks)) = Len(blks)
         /\ \A k \in DOMAIN blks : \E i \in DOMAIN blks :
              Place(blks, i) = k /\ Sorted(blks)[k] = blks[i]
<1> DEFINE at(k) == CHOOSE i \in DOMAIN blks : Place(blks, i) = k
<1>1. \A k \in DOMAIN blks : at(k) \in DOMAIN blks /\ Place(blks, at(k)) = k
  BY PlacesTaken
<1>2. Sorted(blks) = [k \in 1..Len(blks) |-> blks[at(k)]]
  BY BlocksTyped DEF Sorted
<1> HIDE DEF at
<1>3. \A k \in 1..Len(blks) : blks[at(k)] \in BlockHeader
  BY <1>1, BlocksTyped
<1>4. Len(blks) \in Nat /\ DOMAIN blks = 1..Len(blks)
  BY BlocksTyped
<1>5. \A k \in DOMAIN blks : Sorted(blks)[k] = blks[at(k)]
  BY <1>2, <1>4
<1>6. /\ Sorted(blks) \in Seq(BlockHeader)
      /\ DOMAIN Sorted(blks) = DOMAIN blks
      /\ Len(Sorted(blks)) = Len(blks)
  BY <1>2, <1>3, <1>4
<1>7. \A k \in DOMAIN blks : \E i \in DOMAIN blks :
        Place(blks, i) = k /\ Sorted(blks)[k] = blks[i]
  BY <1>1, <1>5
<1> QED
  BY <1>6, <1>7

-----------------------------------------------------------------------------
(* The order blocks come in.                                               *)

Below(blks, b) == {i \in DOMAIN blks : Before(blks[i], b)}
NotAbove(blks, b) == {i \in DOMAIN blks : ~Before(b, blks[i])}

\* Whatever order equal blocks are put in, a block's place is after all that go before
\* it and not after any that it goes before.
LEMMA PlaceBounds ==
  ASSUME NEW blks \in Seq(BlockHeader), NEW i \in DOMAIN blks
  PROVE  /\ Cardinality(Below(blks, blks[i])) < Place(blks, i)
         /\ Place(blks, i) <= Cardinality(NotAbove(blks, blks[i]))
<1>1. \A j \in DOMAIN blks : /\ ~Before(blks[j], blks[j])
                             /\ Before(blks[j], blks[i]) => ~Before(blks[i], blks[j])
  BY BlocksTyped, BeforeOrders
<1>2. IsFiniteSet(DOMAIN blks)
  <2>1. DOMAIN blks = 1..Len(blks) /\ Len(blks) \in Int
    BY BlocksTyped
  <2> QED
    BY <2>1, FS_Interval
<1>3. /\ Below(blks, blks[i]) \in SUBSET UpTo(blks, i)
      /\ i \in UpTo(blks, i) /\ i \notin Below(blks, blks[i])
  BY <1>1 DEF Below, UpTo, Precedes
<1>4. UpTo(blks, i) \in SUBSET NotAbove(blks, blks[i])
  BY <1>1 DEF NotAbove, UpTo, Precedes
<1>5. NotAbove(blks, blks[i]) \in SUBSET DOMAIN blks
  BY DEF NotAbove
<1>6. /\ IsFiniteSet(NotAbove(blks, blks[i]))
      /\ IsFiniteSet(UpTo(blks, i)) /\ IsFiniteSet(Below(blks, blks[i]))
  BY <1>2, <1>3, <1>4, <1>5, FS_Subset
<1>7. /\ Cardinality(Below(blks, blks[i])) <= Cardinality(UpTo(blks, i))
      /\ Cardinality(Below(blks, blks[i])) # Cardinality(UpTo(blks, i))
      /\ Cardinality(UpTo(blks, i)) <= Cardinality(NotAbove(blks, blks[i]))
  BY <1>3, <1>4, <1>6, FS_Subset
<1>8. Cardinality(Below(blks, blks[i])) \in Nat /\ Cardinality(UpTo(blks, i)) \in Nat
  BY <1>6, FS_CardinalityType
<1> QED
  BY <1>7, <1>8 DEF Place, UpTo

Permuted(blks, p) == [j \in DOMAIN blks |-> blks[p[j]]]

LEMMA PermutedTyped ==
  ASSUME NEW blks \in Seq(BlockHeader), NEW p \in [DOMAIN blks -> DOMAIN blks]
  PROVE  /\ Permuted(blks, p) \in Seq(BlockHeader)
         /\ DOMAIN Permuted(blks, p) = DOMAIN blks
         /\ Len(Permuted(blks, p)) = Len(blks)
         /\ \A j \in DOMAIN blks : Permuted(blks, p)[j] = blks[p[j]]
<1>1. Permuted(blks, p) = [j \in 1..Len(blks) |-> blks[p[j]]]
  BY BlocksTyped DEF Permuted
<1>2. \A j \in 1..Len(blks) : blks[p[j]] \in BlockHeader
  BY BlocksTyped
<1> QED
  BY <1>1, <1>2, BlocksTyped

LEMMA PermutationOnto ==
  ASSUME NEW blks \in Seq(BlockHeader), NEW p \in [DOMAIN blks -> DOMAIN blks],
         IsInjective(p)
  PROVE  p \in Bijection(DOMAIN blks, DOMAIN blks)
<1> DEFINE D == DOMAIN blks
<1>1. IsFiniteSet(D)
  BY BlocksTyped, FS_Interval
<1>2. p \in Injection(D, D)
  BY DEF Injection
<1> HIDE DEF D
<1>3. p \in Surjection(D, D)
  BY <1>1, <1>2, FS_Injection
<1> QED
  BY <1>2, <1>3 DEF Bijection, D

\* A permutation leaves it alone how many blocks have a property.
LEMMA SameNumber ==
  ASSUME NEW blks \in Seq(BlockHeader), NEW p \in [DOMAIN blks -> DOMAIN blks],
         IsInjective(p), NEW S \in SUBSET DOMAIN blks
  PROVE  Cardinality({j \in DOMAIN blks : p[j] \in S}) = Cardinality(S)
<1> DEFINE T == {j \in DOMAIN blks : p[j] \in S}
           f == [j \in T |-> p[j]]
<1>1. p \in Bijection(DOMAIN blks, DOMAIN blks)
  BY PermutationOnto
<1>2. \A x \in S : \E j \in T : f[j] = x
  BY <1>1 DEF Bijection, Surjection
<1>3. \A i, j \in T : f[i] = f[j] => i = j
  BY DEF IsInjective
<1>4. f \in [T -> S]
  OBVIOUS
<1>5. IsFiniteSet(T)
  BY BlocksTyped, FS_Interval, FS_Subset
<1> HIDE DEF T, f
<1>6. f \in Bijection(T, S)
  BY <1>2, <1>3, <1>4 DEF Bijection, Injection, Surjection, IsInjective
<1>7. ExistsBijection(T, S)
  BY <1>6 DEF ExistsBijection
<1> QED
  BY <1>5, <1>7, FS_Bijection DEF T

LEMMA PermutedCounts ==
  ASSUME NEW blks \in Seq(BlockHeader), NEW p \in [DOMAIN blks -> DOMAIN blks],
         IsInjective(p), NEW b
  PROVE  /\ Cardinality(Below(Permuted(blks, p), b)) = Cardinality(Below(blks, b))
         /\ Cardinality(NotAbove(Permuted(blks, p), b)) = Cardinality(NotAbove(blks, b))
<1>1. /\ Below(Permuted(blks, p), b) = {j \in DOMAIN blks : p[j] \in Below(blks, b)}
      /\ NotAbove(Permuted(blks, p), b)
           = {j \in DOMAIN blks : p[j] \in NotAbove(blks, b)}
  BY PermutedTyped DEF Below, NotAbove
<1>2. Below(blks, b) \in SUBSET DOMAIN blks /\ NotAbove(blks, b) \in SUBSET DOMAIN blks
  BY DEF Below, NotAbove
<1> QED
  BY <1>1, <1>2, SameNumber

\* Of two blocks that the k-th place suits, neither goes before the other.
LEMMA NoneBefore ==
  ASSUME NEW blks \in Seq(BlockHeader),
         NEW b \in BlockHeader, NEW c \in BlockHeader, NEW k \in Int,
         k <= Cardinality(NotAbove(blks, b)), Cardinality(Below(blks, c)) < k
  PROVE  ~Before(b, c)
<1> SUFFICES ASSUME Before(b, c) PROVE FALSE
  OBVIOUS
<1>1. /\ b.ticket \in Int /\ b.cid \in Int /\ c.ticket \in Int /\ c.cid \in Int
      /\ \A j \in DOMAIN blks : blks[j].ticket \in Int /\ blks[j].cid \in Int
  BY BlocksTyped DEF BlockHeader
<1>2. \A j \in DOMAIN blks : Before(b, blks[j]) \/ Before(blks[j], c)
  BY <1>1, BeforeOrders
<1>3. NotAbove(blks, b) \in SUBSET Below(blks, c)
  BY <1>2 DEF NotAbove, Below
<1>4. IsFiniteSet(Below(blks, c))
  BY BlocksTyped, FS_Interval, FS_Subset DEF Below
<1>5. /\ Cardinality(NotAbove(blks, b)) <= Cardinality(Below(blks, c))
      /\ Cardinality(NotAbove(blks, b)) \in Nat /\ Cardinality(Below(blks, c)) \in Nat
  BY <1>3, <1>4, FS_Subset, FS_CardinalityType
<1> QED
  BY <1>5

\* The same blocks in another order are sorted the same.
LEMMA SortedPermuted ==
  ASSUME NEW blks \in Seq(BlockHeader), CidsDecide(blks),
         NEW p \in [DOMAIN blks -> DOMAIN blks], IsInjective(p)
  PROVE  Sorted(Permuted(blks, p)) = Sorted(blks)
<1> DEFINE per == Permuted(blks, p)
<1>1. /\ per \in Seq(BlockHeader) /\ DOMAIN per = DOMAIN blks
      /\ \A j \in DOMAIN blks : per[j] = blks[p[j]]
  BY PermutedTyped
<1> HIDE DEF per
<1>2. ASSUME NEW k \in DOMAIN blks PROVE Sorted(per)[k] = Sorted(blks)[k]
  <2>1. PICK i \in DOMAIN blks : Place(per, i) = k /\ Sorted(per)[k] = per[i]
    <3>1. \A l \in DOMAIN per : \E i \in DOMAIN per :
            Place(per, i) = l /\ Sorted(per)[l] = per[i]
      BY <1>1, SortedArranges
    <3> QED
      BY <1>1, <3>1
  <2>2. PICK j \in DOMAIN blks : Place(blks, j) = k /\ Sorted(blks)[k] = blks[j]
    BY SortedArranges
  <2>3. /\ Cardinality(Below(per, per[i])) < k /\ k <= Cardinality(NotAbove(per, per[i]))
        /\ Cardinality(Below(blks, blks[j])) < k /\ k <= Cardinality(NotAbove(blks, blks[j]))
    BY <1>1, <2>1, <2>2, PlaceBounds
  <2>4. /\ Cardinality(Below(blks, per[i])) < k
        /\ k <= Cardinality(NotAbove(blks, per[i]))
    BY <2>3, PermutedCounts DEF per
  <2>5. /\ per[i] = blks[p[i]] /\ p[i] \in DOMAIN blks /\ k \in Int
        /\ per[i] \in BlockHeader /\ blks[j] \in BlockHeader
    BY <1>1, BlocksTyped
  <2>6. ~Before(per[i], blks[j]) /\ ~Before(blks[j], per[i])
    BY <2>3, <2>4, <2>5, NoneBefore
  <2>7. per[i].cid = blks[j].cid
    <3>1. /\ per[i].ticket \in Int /\ per[i].cid \in Int
          /\ blks[j].ticket \in Int /\ blks[j].cid \in Int
      BY <2>5 DEF BlockHeader
    <3> QED
      BY <2>6, <3>1, BeforeOrders
  <2> QED
    BY <2>1, <2>2, <2>5, <2>7 DEF CidsDecide
<1>3. /\ Sorted(per) \in Seq(BlockHeader) /\ Sorted(blks) \in Seq(BlockHeader)
      /\ DOMAIN Sorted(per) = DOMAIN blks /\ DOMAIN Sorted(blks) = DOMAIN blks
  BY <1>1, SortedArranges
<1> QED
  BY <1>2, <1>3 DEF per, Sorted

-----------------------------------------------------------------------------
(* Tipsets.                                                                *)

LEMMA KeptTyped ==
  ASSUME NEW s \in Seq(BlockHeader)
  PROVE  /\ Kept(s) \in Seq(BlockHeader)
         /\ DOMAIN Kept(s) = DOMAIN s /\ Len(Kept(s)) = Len(s)
         /\ \A k \in DOMAIN s : Kept(s)[k] = s[IF k = 1 THEN 1 ELSE k - 1]
<1>1. Kept(s) = [k \in 1..Len(s) |-> s[IF k = 1 THEN 1 ELSE k - 1]]
  BY BlocksTyped DEF Kept
<1>2. \A k \in 1..Len(s) : s[IF k = 1 THEN 1 ELSE k - 1] \in BlockHeader
  BY BlocksTyped
<1> QED
  BY <1>1, <1>2, BlocksTyped

\* The blocks NewTipSet keeps are some of those it was given, as many as these.
LEMMA KeptAreGiven ==
  ASSUME NEW blks \in Seq(BlockHeader)
  PROVE  /\ NewTipSet(blks).blocks \in Seq(BlockHeader)
         /\ DOMAIN NewTipSet(blks).blocks = DOMAIN blks
         /\ Len(NewTipSet(blks).blocks) = Len(blks)
         /\ \A k \in DOMAIN blks : \E i \in DOMAIN blks :
              NewTipSet(blks).blocks[k] = blks[i]
<1> DEFINE s == Sorted(blks)
<1>1. NewTipSet(blks).blocks = Kept(s)
  BY DEF NewTipSet
<1>2. /\ s \in Seq(BlockHeader) /\ DOMAIN s = DOMAIN blks /\ Len(s) = Len(blks)
      /\ \A k \in DOMAIN blks : \E i \in DOMAIN blks : s[k] = blks[i]
  BY SortedArranges
<1> HIDE DEF s
<1>3. /\ Kept(s) \in Seq(BlockHeader) /\ DOMAIN Kept(s) = DOMAIN blks
      /\ Len(Kept(s)) = Len(blks)
      /\ \A k \in DOMAIN blks : Kept(s)[k] = s[IF k = 1 THEN 1 ELSE k - 1]
  BY <1>2, KeptTyped
<1>4. \A k \in DOMAIN blks : (IF k = 1 THEN 1 ELSE k - 1) \in DOMAIN blks
  BY BlocksTyped
<1> QED
  BY <1>1, <1>2, <1>3, <1>4

\* What NewTipSet makes of blocks that form a tipset is one: cids of its blocks, all
\* of one height, all with the same parents.
LEMMA NewTipSetForms ==
  ASSUME NEW blks \in Seq(BlockHeader), FormTipSet(blks)
  PROVE  LET ts == NewTipSet(blks) IN
         /\ Len(blks) > 0
         /\ ts.cids = [i \in DOMAIN ts.blocks |-> ts.blocks[i].cid]
         /\ ts.height \in Int
         /\ \A i \in DOMAIN ts.blocks :
              /\ ts.blocks[i].height = ts.height
              /\ ts.blocks[i].parents = ts.blocks[1].parents
<1> DEFINE ts == NewTipSet(blks)
<1>1. Len(blks) > 0 /\ 1 \in DOMAIN blks
  BY BlocksTyped DEF FormTipSet
<1>2. ts.cids = [i \in DOMAIN ts.blocks |-> ts.blocks[i].cid]
  BY DEF NewTipSet, Cids
<1>3. ts.height = blks[1].height
  BY DEF NewTipSet
<1>4. blks[1].height \in Int
  BY <1>1, BlocksTyped
<1> HIDE DEF ts
<1>5. /\ DOMAIN ts.blocks = DOMAIN blks
      /\ \A k \in DOMAIN blks : \E i \in DOMAIN blks : ts.blocks[k] = blks[i]
  BY KeptAreGiven DEF ts
<1>6. \A i, j \in DOMAIN blks :
        blks[i].height = blks[j].height /\ blks[i].parents = blks[j].parents
  BY DEF FormTipSet, Alike
<1>7. \A i \in DOMAIN ts.blocks : /\ ts.blocks[i].height = ts.height
                                  /\ ts.blocks[i].parents = blks[1].parents
  <2> SUFFICES ASSUME NEW i \in DOMAIN ts.blocks
               PROVE  /\ ts.blocks[i].height = ts.height
                      /\ ts.blocks[i].parents = blks[1].parents
    OBVIOUS
  <2>1. PICK j \in DOMAIN blks : ts.blocks[i] = blks[j]
    BY <1>5
  <2>2. blks[j].height = blks[1].height /\ blks[j].parents = blks[1].parents
    BY <1>1, <1>6
  <2> QED
    BY <1>3, <2>1, <2>2
<1> QED
  BY <1>1, <1>2, <1>3, <1>4, <1>5, <1>7 DEF ts

TipSets == [cids : Seq(Nat), blocks : Seq(BlockHeader), height : Int]

LEMMA NewTipSetTyped ==
  ASSUME NEW blks \in Seq(BlockHeader), FormTipSet(blks)
  PROVE  /\ NewTipSet(blks) \in TipSets
         /\ Len(NewTipSet(blks).cids) = Len(blks)
<1> DEFINE kept == Kept(Sorted(blks))
<1>1. NewTipSet(blks) = [cids |-> Cids(kept), blocks |-> kept, height |-> blks[1].height]
  BY DEF NewTipSet
<1>2. blks[1].height \in Int
  <2>1. 1 \in DOMAIN blks
    BY BlocksTyped DEF FormTipSet
  <2> QED
    BY <2>1, BlocksTyped
<1>3. kept \in Seq(BlockHeader) /\ Len(kept) = Len(blks)
  BY SortedArranges, KeptTyped
<1> HIDE DEF kept
<1>4. Cids(kept) \in Seq(Nat) /\ Len(Cids(kept)) = Len(kept)
  <2>1. /\ Len(kept) \in Nat /\ DOMAIN kept = 1..Len(kept)
        /\ \A i \in DOMAIN kept : kept[i] \in BlockHeader
    BY <1>3, BlocksTyped
  <2>2. \A i \in DOMAIN kept : kept[i].cid \in Nat
    BY <2>1 DEF BlockHeader
  <2>3. Cids(kept) = [i \in 1..Len(kept) |-> kept[i].cid]
    BY <2>1 DEF Cids
  <2> QED
    BY <2>1, <2>2, <2>3
<1> QED
  BY <1>1, <1>2, <1>3, <1>4 DEF TipSets

\* Whoever hears of the same blocks in another order builds the same tipset.
LEMMA NewTipSetPermuted ==
  ASSUME NEW blks \in Seq(BlockHeader), CidsDecide(blks), FormTipSet(blks),
         NEW p \in [DOMAIN blks -> DOMAIN blks], IsInjective(p)
  PROVE  FormTipSet(Permuted(blks, p)) /\ NewTipSet(Permuted(blks, p)) = NewTipSet(blks)
<1> DEFINE per == Permuted(blks, p)
<1>1. /\ per \in Seq(BlockHeader) /\ DOMAIN per = DOMAIN blks /\ Len(per) = Len(blks)
      /\ \A j \in DOMAIN blks : per[j] = blks[p[j]] /\ p[j] \in DOMAIN blks
  BY PermutedTyped
<1>2. Sorted(per) = Sorted(blks)
  BY SortedPermuted
<1> HIDE DEF per
<1>3. Len(blks) > 0 /\ 1 \in DOMAIN blks
  BY BlocksTyped DEF FormTipSet
<1>4. per # <<>>
  BY <1>1, <1>3
<1>5. Alike(per)
  BY <1>1 DEF FormTipSet, Alike
<1>6. ~TicketPanics(per)
  BY <1>1 DEF FormTipSet, TicketPanics
<1>7. per[1].height = blks[1].height
  BY <1>1, <1>3 DEF FormTipSet, Alike
<1> QED
  BY <1>2, <1>4, <1>5, <1>6, <1>7 DEF FormTipSet, NewTipSet, per

\* A tipset of one or two blocks is one block over and over; sorted and copied again
\* it stays as it is.
LEMMA NewTipSetOfFew ==
  ASSUME NEW blks \in Seq(BlockHeader), FormTipSet(blks), Len(blks) <= 2
  PROVE  NewTipSet(NewTipSet(blks).blocks) = NewTipSet(blks)
<1> DEFINE kept == NewTipSet(blks).blocks
<1>1. /\ kept \in Seq(BlockHeader) /\ DOMAIN kept = DOMAIN blks
      /\ Len(kept) = Len(blks) /\ Len(blks) \in Nat /\ DOMAIN blks = 1..Len(blks)
      /\ Len(blks) > 0
  BY KeptAreGiven, NewTipSetForms, BlocksTyped
<1>2. kept = Kept(Sorted(blks))
  BY DEF NewTipSet
<1>3. \A k \in DOMAIN kept : kept[k] = kept[1]
  <2>1. Sorted(blks) \in Seq(BlockHeader) /\ DOMAIN Sorted(blks) = DOMAIN blks
    BY SortedArranges
  <2>2. \A k \in DOMAIN blks :
          Kept(Sorted(blks))[k] = Sorted(blks)[IF k = 1 THEN 1 ELSE k - 1]
    BY <2>1, KeptTyped
  <2> HIDE DEF kept
  <2>3. \A k \in DOMAIN kept : k = 1 \/ k = 2
    BY <1>1
  <2> QED
    BY <1>1, <1>2, <2>2, <2>3
<1>4. NewTipSet(blks).cids = Cids(kept) /\ NewTipSet(blks).height = kept[1].height
  BY <1>1, NewTipSetForms DEF Cids
<1>5. NewTipSet(blks) = [cids |-> Cids(kept), blocks |-> kept, height |-> kept[1].height]
  BY <1>4 DEF NewTipSet
<1> HIDE DEF kept
<1>6. /\ Sorted(kept) \in Seq(BlockHeader) /\ DOMAIN Sorted(kept) = DOMAIN kept
      /\ Len(Sorted(kept)) = Len(kept)
      /\ \A k \in DOMAIN kept : Sorted(kept)[k] = kept[1]
  BY <1>1, <1>3, SortedArranges
<1>7. /\ Kept(Sorted(kept)) \in Seq(BlockHeader)
      /\ DOMAIN Kept(Sorted(kept)) = DOMAIN kept
      /\ \A k \in DOMAIN kept : Kept(Sorted(kept))[k] = kept[1]
  <2>1. \A k \in DOMAIN kept : (IF k = 1 THEN 1 ELSE k - 1) \in DOMAIN kept
    BY <1>1
  <2>2. /\ Kept(Sorted(kept)) \in Seq(BlockHeader)
        /\ DOMAIN Kept(Sorted(kept)) = DOMAIN kept
        /\ \A k \in DOMAIN kept :
             Kept(Sorted(kept))[k] = Sorted(kept)[IF k = 1 THEN 1 ELSE k - 1]
    BY <1>6, KeptTyped
  <2> QED
    BY <2>1, <2>2, <1>6
<1>8. Kept(Sorted(kept)) = kept
  BY <1>1, <1>3, <1>7
<1> QED
  BY <1>5, <1>8 DEF NewTipSet, kept

-----------------------------------------------------------------------------
(* Comparing cids.                                                         *)

\* CidArrsEqual looks one way only, which is enough when there are no repetitions in
\* the second array: every cid of the first is then one of the second's.
LEMMA SameCids ==
  ASSUME NEW S, NEW a \in Seq(S), NEW b \in Seq(S), CidArrsEqual(a, b), IsInjective(b)
  PROVE  ToSet(a) = ToSet(b)
<1>1. /\ Len(a) \in Nat /\ DOMAIN a = 1..Len(a) /\ DOMAIN b = 1..Len(a)
      /\ ToSet(b) \subseteq ToSet(a)
  BY DEF CidArrsEqual
<1>2. a \in Surjection(1..Len(a), ToSet(a))
  <2>1. a \in [1..Len(a) -> ToSet(a)]
    BY <1>1 DEF ToSet
  <2>2. \A c \in ToSet(a) : \E i \in 1..Len(a) : a[i] = c
    BY <1>1 DEF ToSet
  <2> QED
    BY <2>1, <2>2 DEF Surjection
<1>3. b \in Injection(1..Len(a), ToSet(a))
  <2>1. b \in [1..Len(a) -> ToSet(a)]
    BY <1>1 DEF ToSet
  <2> QED
    BY <2>1 DEF Injection
<1>4. IsFiniteSet(1..Len(a))
  BY <1>1, FS_Interval
<1>5. /\ IsFiniteSet(ToSet(a))
      /\ Cardinality(ToSet(a)) <= Cardinality(1..Len(a))
  BY <1>2, <1>4, FS_Surjection
<1>6. /\ Cardinality(1..Len(a)) <= Cardinality(ToSet(a))
      /\ Cardinality(1..Len(a)) = Cardinality(ToSet(a))
           <=> b \in Surjection(1..Len(a), ToSet(a))
  BY <1>3, <1>5, FS_Injection
<1>7. Cardinality(1..Len(a)) \in Nat /\ Cardinality(ToSet(a)) \in Nat
  BY <1>4, <1>5, FS_CardinalityType
<1>8. b \in Surjection(1..Len(a), ToSet(a))
  BY <1>5, <1>6, <1>7
<1> QED
  BY <1>1, <1>8 DEF Surjection, ToSet

=============================================================================
