------------------------------- MODULE Networks -------------------------------
(***************************************************************************)
(* Network parameters by epoch (src/networks): network and actors versions *)
(* as operators, and the search for the price list of an epoch, a loop     *)
(* over a Go map and so in any order, as a state machine.                  *)
(***************************************************************************)
EXTENDS GasPrices, Sequences, FiniteSets

CONSTANTS
  Tables,    \* [upgrades, prices] of each network
  Epochs,    \* the epochs asked for
  NoPrice,   \* the nil pointer in the place of a price list
  Sizes,     \* lengths of messages, of return values and of objects
  Sectors    \* numbers of sectors a proof is about

\* A map has finitely many entries, at epochs of blocks, none of them nil.
ASSUME TablesAssumption ==
  /\ Epochs \subseteq Nat
  /\ \A t \in Tables :
       /\ DOMAIN t.prices \subseteq Nat
       /\ IsFiniteSet(DOMAIN t.prices)
       /\ \A e \in DOMAIN t.prices : t.prices[e] # NoPrice

ASSUME SizesAssumption == Sizes \subseteq Nat /\ Sectors \subseteq Nat

VARIABLES
  table,      \* the network's table
  epoch,      \* the epoch asked for
  at,         \* "called", "looping", "returned" or "panicked"
  left,       \* the entries still to come
  bestEpoch,
  bestPrice

vars == <<table, epoch, at, left, bestEpoch, bestPrice>>

-----------------------------------------------------------------------------
(* Versions.                                                               *)

EpochsInHour == 120

\* The upgrades that begin network versions 1 to 9, in the order of the code.
MainnetUpgrades ==
  LET calico == 265200
  IN  [versions |-> <<41280, 51000, 94000, 138720, 140760, 170000,
                      calico, calico + EpochsInHour * 60, 336458>>,
       actorsV2 |-> 138720, calico |-> calico]

CalibnetUpgrades ==
  LET calico == 92000
  IN  [versions |-> <<-1, -2, -3, 30, 60, 90,
                      calico, calico + EpochsInHour * 60, 250666>>,
       actorsV2 |-> 30, calico |-> calico]

\* Mutant: an upgrade begins after its epoch.
BeforeOrAt(e, upgrade) == e <= upgrade

Before(e, upgrade) == e < upgrade

\* The ladder of conditions: the first that holds decides.
VersionByEpoch(u, e) ==
  CHOOSE v \in 0..Len(u.versions) :
    /\ v = Len(u.versions) \/ Before(e, u.versions[v + 1])
    /\ \A i \in 1..v : ~Before(e, u.versions[i])

ActorsVersionByEpoch(u, e) == IF e < u.actorsV2 THEN 0 ELSE 2

-----------------------------------------------------------------------------
(* Prices.                                                                 *)

MainnetPrices ==
  [e \in {0, MainnetUpgrades.calico} |-> IF e = 0 THEN FirstPrices ELSE CalicoPrices]

CalibnetPrices ==
  [e \in {0, CalibnetUpgrades.calico} |-> IF e = 0 THEN FirstPrices ELSE CalicoPrices]

Mainnet == [upgrades |-> MainnetUpgrades, prices |-> MainnetPrices]
Calibnet == [upgrades |-> CalibnetUpgrades, prices |-> CalibnetPrices]

Init ==
  /\ table \in Tables
  /\ epoch \in Epochs
  /\ at = "called"
  /\ left = {}
  /\ bestEpoch = 0
  /\ bestPrice = NoPrice

\* A map gives the zero value for a key it does not have: nil.
PriceAt(e) == IF e \in DOMAIN table.prices THEN table.prices[e] ELSE NoPrice

PricelistByEpoch ==
  /\ at = "called"
  /\ at' = "looping"
  /\ left' = DOMAIN table.prices
  /\ bestEpoch' = 0
  /\ bestPrice' = PriceAt(0)
  /\ UNCHANGED <<table, epoch>>

\* Mutant: the best so far is forgotten.
Earlier(e, best) == e <= epoch

Better(e, best) == e > best /\ e <= epoch

\* Mutant: the price is taken at the old best epoch.
OldPrice(e) == PriceAt(bestEpoch)

NewPrice(e) == PriceAt(e)

Visit(e) ==
  /\ at = "looping"
  /\ e \in left
  /\ left' = left \ {e}
  /\ IF Better(e, bestEpoch)
     THEN bestEpoch' = e /\ bestPrice' = NewPrice(e)
     ELSE UNCHANGED <<bestEpoch, bestPrice>>
  /\ UNCHANGED <<table, epoch, at>>

Return ==
  /\ at = "looping"
  /\ left = {}
  /\ at' = IF bestPrice = NoPrice THEN "panicked" ELSE "returned"
  /\ UNCHANGED <<table, epoch, left, bestEpoch, bestPrice>>

\* The next caller asks for another epoch.
Again ==
  /\ at = "returned"
  /\ at' = "called"
  /\ epoch' \in Epochs
  /\ UNCHANGED <<table, left, bestEpoch, bestPrice>>

Next ==
  \/ PricelistByEpoch
  \/ \E e \in left : Visit(e)
  \/ Return
  \/ Again

Spec == Init /\ [][Next]_vars

-----------------------------------------------------------------------------
\* The variables have their types; the best price is that of the best epoch.
TypeOK ==
  /\ table \in Tables
  /\ epoch \in Epochs
  /\ at \in {"called", "looping", "returned", "panicked"}
  /\ left \subseteq DOMAIN table.prices
  /\ bestEpoch \in {0} \cup DOMAIN table.prices
  /\ at # "called" => bestPrice = PriceAt(bestEpoch)

\* e is the last epoch at or before the one asked for with a price list.
IsLatest(e) ==
  /\ e \in DOMAIN table.prices /\ e <= epoch
  /\ \A f \in DOMAIN table.prices : f <= epoch => f <= e

\* network.go:16, "Pricelist finds the latest prices for the given epoch": in
\* whatever order the entries come, the list returned is that of the last entry at
\* or before the epoch.  The search panics only if there is no such entry.
LatestPrice ==
  /\ at = "returned" => \E e \in DOMAIN table.prices :
                          IsLatest(e) /\ bestPrice = table.prices[e]
  /\ at = "panicked" => \A e \in DOMAIN table.prices : e > epoch

\* What changes with an upgrade changes at the same epoch wherever it is asked for,
\* and an upgrade's own epoch is on its new side: the version counts the upgrades
\* that have begun, actors are of version 2 from network version 4 on
\* (version.go), and prices are Calico's from network version 7 on (gaspricing.go).
UpgradesAgree ==
  LET upgrades == table.upgrades
      version == VersionByEpoch(upgrades, epoch)
  IN  /\ version = Cardinality({i \in DOMAIN upgrades.versions :
                                  upgrades.versions[i] <= epoch})
      /\ ActorsVersionByEpoch(upgrades, epoch) = 2 <=> version >= 4
      /\ at = "returned" => (bestPrice = CalicoPrices <=> version >= 7)

\* No charge is negative, for all that a method's discount and a deletion's refund are,
\* and but for a return value of no bytes none is zero; and nothing is paid back but
\* part of what the creation of the actor cost, at whatever earlier epoch and price that
\* was (gaspricing.go:204).
RefundsBelowCost ==
  at = "returned" =>
    /\ \A charge \in Charges(bestPrice, Sizes, Sectors) :
         Total(charge) > 0 \/ charge = OnChainReturnValue(bestPrice, 0)
    /\ \A e \in DOMAIN table.prices : e <= epoch =>
         Total(OnCreateActor(table.prices[e])) + Total(OnDeleteActor(bestPrice)) > 0

=============================================================================
