---------------------------- MODULE NetworksProofs ----------------------------
(***************************************************************************)
(* Theorems about Networks, for any tables and epochs.                     *)
(***************************************************************************)
EXTENDS Networks, FiniteSetTheorems, TLAPS

\* The best entry so far is the last one at or before the epoch among those that
\* have come.
BestOfVisited ==
  at # "called" =>
    /\ bestEpoch <= epoch
    /\ \A f \in DOMAIN table.prices \ left : f <= epoch => f <= bestEpoch

Done ==
  /\ at \in {"returned", "panicked"} => left = {}
  /\ at = "returned" => bestPrice # NoPrice
  /\ at = "panicked" => bestPrice = NoPrice

IInv == TypeOK /\ BestOfVisited /\ Done

LEMMA Typed ==
  ASSUME IInv
  PROVE  /\ DOMAIN table.prices \subseteq Nat
         /\ epoch \in Nat /\ bestEpoch \in Nat
         /\ \A e \in DOMAIN table.prices : table.prices[e] # NoPrice
  BY TablesAssumption DEF IInv, TypeOK

LEMMA InitGood == Init => IInv
  BY TablesAssumption DEF Init, IInv, TypeOK, BestOfVisited, Done

LEMMA CallGood == IInv /\ PricelistByEpoch => IInv'
<1> SUFFICES ASSUME IInv, PricelistByEpoch PROVE IInv'
  OBVIOUS
<1> USE Typed
<1>1. TypeOK'
  BY DEF IInv, TypeOK, PricelistByEpoch, PriceAt
<1>2. BestOfVisited'
  BY DEF PricelistByEpoch, BestOfVisited
<1>3. Done'
  BY DEF PricelistByEpoch, Done
<1> QED
  BY <1>1, <1>2, <1>3 DEF IInv

LEMMA VisitGood ==
  ASSUME IInv, NEW e \in left, Visit(e)
  PROVE  IInv'
<1> USE Typed
<1>1. TypeOK'
  BY DEF IInv, TypeOK, Visit, Better, NewPrice, PriceAt
<1>2. BestOfVisited'
  <2>1. CASE Better(e, bestEpoch)
    BY <2>1 DEF IInv, TypeOK, Visit, Better, BestOfVisited
  <2>2. CASE ~Better(e, bestEpoch)
    BY <2>2 DEF IInv, TypeOK, Visit, Better, BestOfVisited
  <2> QED
    BY <2>1, <2>2
<1>3. Done'
  BY DEF IInv, Visit, Done
<1> QED
  BY <1>1, <1>2, <1>3 DEF IInv

LEMMA ReturnGood == IInv /\ (Return \/ Again) => IInv'
<1> SUFFICES ASSUME IInv, Return \/ Again PROVE IInv'
  OBVIOUS
<1>1. TypeOK'
  BY DEF IInv, TypeOK, Return, Again, PriceAt
<1>2. BestOfVisited'
  BY DEF IInv, BestOfVisited, Return, Again
<1>3. Done'
  BY DEF IInv, Done, Return, Again
<1> QED
  BY <1>1, <1>2, <1>3 DEF IInv

LEMMA NextGood == IInv /\ [Next]_vars => IInv'
<1> SUFFICES ASSUME IInv, [Next]_vars PROVE IInv'
  OBVIOUS
<1>1. CASE Next
  BY <1>1, CallGood, VisitGood, ReturnGood DEF Next
<1>2. CASE UNCHANGED vars
  BY <1>2 DEF IInv, TypeOK, BestOfVisited, Done, PriceAt, vars
<1> QED
  BY <1>1, <1>2

THEOREM Invariance == Spec => []IInv
  BY InitGood, NextGood, PTL DEF Spec

\* Whatever entries a network's table has, and in whatever order the map gives
\* them, the search finds the latest price, and panics only if there is none.
THEOREM LatestPriceFound == Spec => []LatestPrice
<1>1. IInv => LatestPrice
  <2> SUFFICES ASSUME IInv PROVE LatestPrice
    OBVIOUS
  <2> USE Typed
  <2>1. ASSUME at = "returned"
        PROVE  \E e \in DOMAIN table.prices : IsLatest(e) /\ bestPrice = table.prices[e]
    <3>1. bestEpoch \in DOMAIN table.prices /\ bestPrice = table.prices[bestEpoch]
      BY <2>1 DEF IInv, TypeOK, Done, PriceAt
    <3>2. IsLatest(bestEpoch)
      BY <2>1, <3>1 DEF IInv, BestOfVisited, Done, IsLatest
    <3> QED
      BY <3>1, <3>2
  <2>2. ASSUME at = "panicked", NEW e \in DOMAIN table.prices
        PROVE  e > epoch
    <3>1. bestEpoch \notin DOMAIN table.prices
      BY <2>2 DEF IInv, TypeOK, Done, PriceAt
    <3>2. bestEpoch = 0
      BY <3>1 DEF IInv, TypeOK
    <3>3. e # 0
      BY <3>1, <3>2
    <3>4. e <= epoch => e <= bestEpoch
      BY <2>2 DEF IInv, BestOfVisited, Done
    <3> QED
      BY <3>2, <3>3, <3>4
  <2> QED
    BY <2>1, <2>2 DEF LatestPrice
<1> QED
  BY <1>1, Invariance, PTL

\* In particular the best price is always that of the best epoch.
THEOREM TypeCorrect == Spec => []TypeOK
<1>1. IInv => TypeOK
  BY DEF IInv
<1> QED
  BY <1>1, Invariance, PTL

-----------------------------------------------------------------------------
(* The two networks.                                                       *)

\* What the tables of both networks have in common.  The first upgrades of calibnet
\* lie before epoch 0, in any order.
Ladder(t) ==
  LET u == t.upgrades IN
  /\ u.versions \in [1..9 -> Int]
  /\ Len(u.versions) = 9
  /\ \A i, j \in 1..9 : i <= j => u.versions[i] <= u.versions[j] \/ u.versions[i] <= 0
  /\ u.actorsV2 = u.versions[4]
  /\ u.calico = u.versions[7]
  /\ u.calico > 0
  /\ DOMAIN t.prices = {0, u.calico}
  /\ t.prices[0] = FirstPrices
  /\ t.prices[u.calico] = CalicoPrices

LEMMA NineSteps ==
  ASSUME NEW v \in [1..9 -> Int],
         v[1] <= 0 \/ v[1] <= v[2], v[2] <= 0 \/ v[2] <= v[3], v[3] <= 0 \/ v[3] <= v[4],
         v[1] <= 0 \/ v[1] <= v[3], v[1] <= v[4], v[2] <= v[4],
         v[3] <= v[4], v[4] <= v[5], v[5] <= v[6], v[6] <= v[7], v[7] <= v[8], v[8] <= v[9]
  PROVE  \A i, j \in 1..9 : i <= j => v[i] <= v[j] \/ v[i] <= 0
<1>1. \A i \in 1..9 : i \in {1, 2, 3, 4, 5, 6, 7, 8, 9} /\ v[i] \in Int
  OBVIOUS
<1>2. /\ v[1] \in Int /\ v[2] \in Int /\ v[3] \in Int /\ v[4] \in Int /\ v[5] \in Int
      /\ v[6] \in Int /\ v[7] \in Int /\ v[8] \in Int /\ v[9] \in Int
  BY <1>1
<1> QED
  BY <1>1, <1>2

LEMMA NetworksAreLadders == Ladder(Mainnet) /\ Ladder(Calibnet)
<1>1. Ladder(Mainnet)
  <2> DEFINE v == <<41280, 51000, 94000, 138720, 140760, 170000, 265200, 272400, 336458>>
  <2>1. MainnetUpgrades = [versions |-> v, actorsV2 |-> 138720, calico |-> 265200]
    BY DEF MainnetUpgrades, EpochsInHour
  <2>2. v \in [1..9 -> Int] /\ Len(v) = 9
    OBVIOUS
  <2>3. /\ v[1] = 41280 /\ v[2] = 51000 /\ v[3] = 94000 /\ v[4] = 138720
        /\ v[5] = 140760 /\ v[6] = 170000 /\ v[7] = 265200 /\ v[8] = 272400
        /\ v[9] = 336458
    OBVIOUS
  <2> HIDE DEF v
  <2>4. \A i, j \in 1..9 : i <= j => v[i] <= v[j] \/ v[i] <= 0
    BY <2>2, <2>3, NineSteps
  <2>5. /\ MainnetUpgrades.versions = v
        /\ MainnetUpgrades.actorsV2 = 138720
        /\ MainnetUpgrades.calico = 265200
    BY <2>1
  <2> QED
    BY <2>2, <2>3, <2>4, <2>5 DEF Ladder, Mainnet, MainnetPrices
<1>2. Ladder(Calibnet)
  <2> DEFINE v == <<-1, -2, -3, 30, 60, 90, 92000, 99200, 250666>>
  <2>1. CalibnetUpgrades = [versions |-> v, actorsV2 |-> 30, calico |-> 92000]
    BY DEF CalibnetUpgrades, EpochsInHour
  <2>2. v \in [1..9 -> Int] /\ Len(v) = 9
    OBVIOUS
  <2>3. /\ v[1] = -1 /\ v[2] = -2 /\ v[3] = -3 /\ v[4] = 30
        /\ v[5] = 60 /\ v[6] = 90 /\ v[7] = 92000 /\ v[8] = 99200
        /\ v[9] = 250666
    OBVIOUS
  <2> HIDE DEF v
  <2>4. \A i, j \in 1..9 : i <= j => v[i] <= v[j] \/ v[i] <= 0
    BY <2>2, <2>3, NineSteps
  <2>5. /\ CalibnetUpgrades.versions = v
        /\ CalibnetUpgrades.actorsV2 = 30
        /\ CalibnetUpgrades.calico = 92000
    BY <2>1
  <2> QED
    BY <2>2, <2>3, <2>4, <2>5 DEF Ladder, Calibnet, CalibnetPrices
<1> QED
  BY <1>1, <1>2

\* The version of an epoch counts the upgrades that have begun.
LEMMA VersionCounts ==
  ASSUME NEW t, Ladder(t), NEW e \in Nat
  PROVE  LET v == VersionByEpoch(t.upgrades, e)
         IN /\ v \in 0..9
            /\ \A i \in 1..9 : t.upgrades.versions[i] <= e <=> i <= v
<1> DEFINE w == t.upgrades.versions
           Decides(v) == /\ v = 9 \/ Before(e, w[v + 1])
                         /\ \A i \in 1..v : ~Before(e, w[i])
<1>1. /\ w \in [1..9 -> Int]
      /\ Len(w) = 9
      /\ \A i, j \in 1..9 : i <= j => w[i] <= w[j] \/ w[i] <= 0
  BY DEF Ladder
<1>2. VersionByEpoch(t.upgrades, e) = CHOOSE v \in 0..9 : Decides(v)
  BY <1>1 DEF VersionByEpoch
<1> HIDE DEF w
<1>3. \E v \in 0..9 : Decides(v)
  <2>1. CASE w[9] <= e
    <3>1. \A i \in 1..9 : ~Before(e, w[i])
      BY <1>1, <2>1 DEF Before
    <3> QED
      BY <3>1
  <2>2. CASE ~(w[9] <= e)
    <3>1. PICK v \in 0..8 : Before(e, w[v + 1]) /\ (v = 0 \/ ~Before(e, w[v]))
      <4>1. CASE Before(e, w[1])
        BY <4>1
      <4>2. CASE ~Before(e, w[1]) /\ Before(e, w[2])
        BY <4>2
      <4>3. CASE ~Before(e, w[2]) /\ Before(e, w[3])
        BY <4>3
      <4>4. CASE ~Before(e, w[3]) /\ Before(e, w[4])
        BY <4>4
      <4>5. CASE ~Before(e, w[4]) /\ Before(e, w[5])
        BY <4>5
      <4>6. CASE ~Before(e, w[5]) /\ Before(e, w[6])
        BY <4>6
      <4>7. CASE ~Before(e, w[6]) /\ Before(e, w[7])
        BY <4>7
      <4>8. CASE ~Before(e, w[7]) /\ Before(e, w[8])
        BY <4>8
      <4>9. CASE ~Before(e, w[8])
        BY <1>1, <2>2, <4>9 DEF Before
      <4> QED
        BY <4>1, <4>2, <4>3, <4>4, <4>5, <4>6, <4>7, <4>8, <4>9
    <3>2. \A i \in 1..v : ~Before(e, w[i])
      BY <1>1, <3>1 DEF Before
    <3> QED
      BY <3>1, <3>2
  <2> QED
    BY <2>1, <2>2
<1> DEFINE v == VersionByEpoch(t.upgrades, e)
<1>4. v \in 0..9 /\ Decides(v)
  <2> HIDE DEF Decides
  <2> QED
    BY <1>2, <1>3
<1> HIDE DEF v
<1>5. ASSUME NEW i \in 1..9 PROVE w[i] <= e <=> i <= v
  <2>1. CASE i <= v
    <3>1. i \in 1..v
      BY <1>4, <2>1
    <3> QED
      BY <1>1, <1>4, <2>1, <3>1 DEF Before
  <2>2. CASE ~(i <= v)
    <3>1. v # 9 /\ v + 1 \in 1..9 /\ v + 1 <= i
      BY <1>4, <2>2
    <3>2. e < w[v + 1]
      BY <1>4, <3>1 DEF Before
    <3> QED
      BY <1>1, <2>2, <3>1, <3>2
  <2> QED
    BY <2>1, <2>2
<1> QED
  BY <1>4, <1>5 DEF v, w

LEMMA PriceListsDiffer == FirstPrices # CalicoPrices
<1>1. FirstPrices.verifyPostDiscount = TRUE /\ CalicoPrices.verifyPostDiscount = FALSE
  BY DEF FirstPrices, CalicoPrices
<1> QED
  BY <1>1

\* Of both networks, at any epochs: the version, the actors' version and the prices
\* change at the same upgrades, whose epoch is on the new side (version.go,
\* gaspricing.go).
THEOREM UpgradesAlwaysAgree ==
  ASSUME Tables \subseteq {Mainnet, Calibnet}
  PROVE  Spec => []UpgradesAgree
<1>1. ASSUME IInv, LatestPrice PROVE UpgradesAgree
  <2> DEFINE u == table.upgrades
             v == VersionByEpoch(u, epoch)
             begun == {i \in DOMAIN u.versions : u.versions[i] <= epoch}
  <2>1. Ladder(table) /\ epoch \in Nat
    BY <1>1, NetworksAreLadders, Typed DEF IInv, TypeOK
  <2>2. v \in 0..9 /\ \A i \in 1..9 : u.versions[i] <= epoch <=> i <= v
    BY <2>1, VersionCounts
  <2>3. /\ u.versions \in [1..9 -> Int]
        /\ u.actorsV2 = u.versions[4] /\ u.calico = u.versions[7] /\ u.calico > 0
        /\ DOMAIN table.prices = {0, u.calico}
        /\ table.prices[0] = FirstPrices /\ table.prices[u.calico] = CalicoPrices
    BY <2>1 DEF Ladder
  <2> HIDE DEF v
  <2>4. begun = 1..v
    BY <2>2, <2>3
  <2>5. v = Cardinality(begun)
    <3>1. Cardinality(1..v) = IF 1 > v THEN 0 ELSE v - 1 + 1
      BY <2>2, FS_Interval
    <3> HIDE DEF begun
    <3> QED
      BY <2>2, <2>4, <3>1
  <2>6. ActorsVersionByEpoch(u, epoch) = 2 <=> v >= 4
    <3>1. u.versions[4] <= epoch <=> 4 <= v
      BY <2>2
    <3>2. u.versions[4] \in Int
      BY <2>3
    <3> QED
      BY <2>1, <2>2, <2>3, <3>1, <3>2 DEF ActorsVersionByEpoch
  <2>7. ASSUME at = "returned" PROVE bestPrice = CalicoPrices <=> v >= 7
    <3>1. PICK f \in DOMAIN table.prices : IsLatest(f) /\ bestPrice = table.prices[f]
      BY <1>1, <2>7 DEF LatestPrice
    <3>2. u.calico \in Int /\ (u.calico <= epoch <=> 7 <= v)
      BY <2>2, <2>3
    <3>3. CASE f = u.calico
      <4>1. u.calico <= epoch /\ bestPrice = CalicoPrices
        BY <2>3, <3>1, <3>3 DEF IsLatest
      <4> QED
        BY <2>2, <3>2, <4>1
    <3>4. CASE f = 0
      <4>1. bestPrice = FirstPrices /\ ~(u.calico <= epoch)
        BY <2>3, <3>1, <3>2, <3>4 DEF IsLatest
      <4> QED
        BY <2>2, <3>2, <4>1, PriceListsDiffer
    <3> QED
      BY <2>3, <3>3, <3>4
  <2> QED
    BY <2>5, <2>6, <2>7 DEF UpgradesAgree, v
<1> QED
  BY <1>1, Invariance, LatestPriceFound, PTL

-----------------------------------------------------------------------------
(* What the price lists charge.                                            *)

PriceLists == {FirstPrices, CalicoPrices}

LEMMA PriceFields ==
  ASSUME NEW pl \in PriceLists
  PROVE  /\ pl.storageGasMulti \in {1000, 1300}
         /\ pl.onChainMessageComputeBase = 38863 /\ pl.onChainMessageStorageBase = 36
         /\ pl.onChainMessageStoragePerByte = 1 /\ pl.onChainReturnValuePerByte = 1
         /\ pl.sendBase = 29233 /\ pl.sendTransferFunds = 27500
         /\ pl.sendTransferOnlyPremium = 159672 /\ pl.sendInvokeMethod = -5377
         /\ pl.ipldGetBase \in {75242, 114617} /\ pl.ipldPutBase \in {84070, 353640}
         /\ pl.ipldPutPerByte = 1
         /\ pl.createActorCompute = 1108454 /\ pl.createActorStorage = 76
         /\ pl.deleteActor = -76
         /\ pl.hashingBase = 31355 /\ pl.computeUnsealedSectorCidBase = 98647
         /\ pl.verifySealBase = 2000 /\ pl.verifyConsensusFault = 495422
<1>1. CASE pl = FirstPrices
  BY <1>1 DEF FirstPrices
<1>2. CASE pl = CalicoPrices
  BY <1>2 DEF FirstPrices, CalicoPrices
<1> QED
  BY <1>1, <1>2 DEF PriceLists

LEMMA SignatureAndPostPrices ==
  ASSUME NEW pl \in PriceLists
  PROVE  /\ \A s \in DOMAIN pl.verifySignature : pl.verifySignature[s] \in Nat \ {0}
         /\ "MiB512" \in DOMAIN pl.verifyPostLookup
         /\ \A p \in DOMAIN pl.verifyPostLookup :
              /\ pl.verifyPostLookup[p].flat \in Nat \ 0..1
              /\ pl.verifyPostLookup[p].scale \in Nat
<1>1. pl.verifySignature = [BLS |-> 16598605, Secp256k1 |-> 1637292]
  <2>1. CASE pl = FirstPrices
    BY <2>1 DEF FirstPrices
  <2>2. CASE pl = CalicoPrices
    BY <2>2 DEF FirstPrices, CalicoPrices
  <2> QED
    BY <2>1, <2>2 DEF PriceLists
<1>2. \/ pl.verifyPostLookup =
           [MiB512 |-> [flat |-> 123861062, scale |-> 9226981],
            GiB32  |-> [flat |-> 748593537, scale |-> 85639],
            GiB64  |-> [flat |-> 748593537, scale |-> 85639]]
      \/ pl.verifyPostLookup =
           [MiB512 |-> CalicoPost, GiB32 |-> CalicoPost, GiB64 |-> CalicoPost]
  <2>1. CASE pl = FirstPrices
    BY <2>1 DEF FirstPrices
  <2>2. CASE pl = CalicoPrices
    <3> HIDE DEF CalicoPost
    <3> QED
      BY <2>2 DEF FirstPrices, CalicoPrices
  <2> QED
    BY <2>1, <2>2 DEF PriceLists
<1>3. \A s \in DOMAIN pl.verifySignature : pl.verifySignature[s] \in Nat \ {0}
  BY <1>1
<1>4. CalicoPost.flat = 117680921 /\ CalicoPost.scale = 43780
  BY DEF CalicoPost
<1>5. "MiB512" \in DOMAIN pl.verifyPostLookup
  BY <1>2
<1>6. \A p \in DOMAIN pl.verifyPostLookup :
        /\ pl.verifyPostLookup[p].flat \in Nat \ 0..1
        /\ pl.verifyPostLookup[p].scale \in Nat
  <2> SUFFICES ASSUME NEW p \in DOMAIN pl.verifyPostLookup
               PROVE  /\ pl.verifyPostLookup[p].flat \in Nat \ 0..1
                      /\ pl.verifyPostLookup[p].scale \in Nat
    OBVIOUS
  <2>1. p \in {"MiB512", "GiB32", "GiB64"}
    BY <1>2
  <2>2. CASE p = "MiB512"
    BY <1>2, <1>4, <2>2
  <2>3. CASE p = "GiB32"
    BY <1>2, <1>4, <2>3
  <2>4. CASE p = "GiB64"
    BY <1>2, <1>4, <2>4
  <2> QED
    BY <2>1, <2>2, <2>3, <2>4
<1> QED
  BY <1>3, <1>5, <1>6

\* Everything is charged for, whatever its size, except a return value of no bytes.
LEMMA ChargesPositive ==
  ASSUME NEW pl \in PriceLists, NEW c \in Charges(pl, Sizes, Sectors)
  PROVE  Total(c) > 0 \/ c = OnChainReturnValue(pl, 0)
<1> USE PriceFields
<1>1. \A a, b : Total(Charge(a, b)) = a + b
  BY DEF Total, Charge
<1>2. CASE c \in {OnIpldGet(pl), OnCreateActor(pl), OnHashing(pl),
                  OnComputeUnsealedSectorCid(pl), OnVerifySeal(pl),
                  OnVerifyConsensusFault(pl)}
  BY <1>1, <1>2 DEF OnIpldGet, OnCreateActor, OnHashing, OnComputeUnsealedSectorCid,
                    OnVerifySeal, OnVerifyConsensusFault
<1>3. CASE \E n \in Sizes : c \in {OnChainMessage(pl, n), OnChainReturnValue(pl, n),
                                   OnIpldPut(pl, n)}
  <2>1. PICK n \in Nat : c \in {OnChainMessage(pl, n), OnChainReturnValue(pl, n),
                                OnIpldPut(pl, n)}
    BY <1>3, SizesAssumption
  <2>2. /\ pl.storageGasMulti \in Nat
        /\ n * pl.storageGasMulti \in Nat
        /\ (36 + n) * pl.storageGasMulti \in Nat
        /\ n > 0 => n * pl.storageGasMulti > 0
    OBVIOUS
  <2>3. Total(OnChainMessage(pl, n)) > 0
    <3>1. 36 + 1 * n = 36 + n
      OBVIOUS
    <3> QED
      BY <1>1, <2>2, <3>1 DEF OnChainMessage
  <2>4. /\ n > 0 => Total(OnChainReturnValue(pl, n)) > 0
        /\ Total(OnIpldPut(pl, n)) > 0
    <3>1. n * 1 = n
      OBVIOUS
    <3> QED
      BY <1>1, <2>2, <3>1 DEF OnChainReturnValue, OnIpldPut
  <2> QED
    BY <2>1, <2>3, <2>4
<1>4. CASE \E v \in {0, 1}, m \in {0, 1} : c = OnMethodInvocation(pl, v, m)
  BY <1>1, <1>4 DEF OnMethodInvocation
<1>5. CASE \E s \in DOMAIN pl.verifySignature : c = OnVerifySignature(pl, s)
  BY <1>1, <1>5, SignatureAndPostPrices DEF OnVerifySignature
<1>6. CASE \E p \in DOMAIN pl.verifyPostLookup \cup {"none"}, n \in Sectors :
             c = OnVerifyPost(pl, p, n)
  <2>1. PICK p \in DOMAIN pl.verifyPostLookup \cup {"none"}, n \in Nat :
          c = OnVerifyPost(pl, p, n)
    BY <1>6, SizesAssumption
  <2> DEFINE cost == pl.verifyPostLookup[IF p \in DOMAIN pl.verifyPostLookup
                                           THEN p ELSE "MiB512"]
             gasUsed == cost.flat + n * cost.scale
  <2>2. cost.flat \in Nat \ 0..1 /\ cost.scale \in Nat
    BY SignatureAndPostPrices
  <2> HIDE DEF cost
  <2>3. gasUsed \in Nat \ 0..1
    BY <2>2
  <2>4. c = Charge(IF pl.verifyPostDiscount THEN gasUsed \div 2 ELSE gasUsed, 0)
    BY <2>1 DEF OnVerifyPost, cost
  <2> HIDE DEF gasUsed
  <2>5. gasUsed \div 2 \in Nat \ {0}
    BY <2>3
  <2> QED
    BY <1>1, <2>3, <2>4, <2>5
<1> QED
  BY <1>2, <1>3, <1>4, <1>5, <1>6 DEF Charges

\* What deletion gives back, at either price of storage, is less than what creation
\* cost at the lower one.
LEMMA RefundSmall ==
  ASSUME NEW pl \in PriceLists, NEW ql \in PriceLists
  PROVE  Total(OnCreateActor(pl)) + Total(OnDeleteActor(ql)) > 0
<1>1. /\ pl.createActorCompute = 1108454 /\ pl.createActorStorage = 76
      /\ pl.storageGasMulti \in {1000, 1300}
      /\ ql.deleteActor = -76 /\ ql.storageGasMulti \in {1000, 1300}
  BY PriceFields
<1> QED
  BY <1>1 DEF OnCreateActor, OnDeleteActor, Total, Charge

\* Of both networks, at any epochs and for any sizes: no charge is negative, none zero
\* but that of an empty return value, and a refund stays below its cost
\* (gaspricing.go:204).
THEOREM RefundsStayBelowCost ==
  ASSUME Tables \subseteq {Mainnet, Calibnet}
  PROVE  Spec => []RefundsBelowCost
<1>1. ASSUME IInv, LatestPrice PROVE RefundsBelowCost
  <2>1. \A e \in DOMAIN table.prices : table.prices[e] \in PriceLists
    <3>1. Ladder(table)
      BY <1>1, NetworksAreLadders DEF IInv, TypeOK
    <3> QED
      BY <3>1 DEF Ladder, PriceLists
  <2>2. at = "returned" => bestPrice \in PriceLists
    BY <1>1, <2>1 DEF LatestPrice
  <2> QED
    BY <2>1, <2>2, ChargesPositive, RefundSmall DEF RefundsBelowCost
<1> QED
  BY <1>1, Invariance, LatestPriceFound, PTL

=============================================================================
