------------------------------ MODULE VMProofs ------------------------------
(***************************************************************************)
(* Proofs about VM for every value of its constants.                       *)
(*                                                                         *)
(* The inductive invariant IInv keeps, for every tree that is or may again *)
(* become the current one, that it is well formed (GoodTree), and for the  *)
(* running frames that their snapshots lie in order between base and the   *)
(* current tree (Ordered).  While a panic is on its way out, the current   *)
(* tree may be half written: then only the frames and their snapshots are  *)
(* in order (Torn).  The lemmas follow the code: what one write            *)
(* does to a tree, what resolveTarget and transfer do, what invoke and its *)
(* deferred handler do; then there is one step per action.                 *)
(***************************************************************************)
EXTENDS VM, SequenceTheorems, FiniteSetTheorems, TLAPS

-----------------------------------------------------------------------------
(* Trees and frames as sets.  TLC evaluates IsTree and IsFrame; the        *)
(* provers work better with membership.                                    *)

ActorMap == UNION {[D -> Actor] : D \in SUBSET Nat}
AddressMap == UNION {[D -> Nat] : D \in SUBSET Address}
Tree == [actors : ActorMap, addressMap : AddressMap, nextID : Nat]

Store == [tree : Tree, stateRoot : Tree]

Frame == [to : Nat, method : Nat, value : Nat, prior : Tree, balance : Nat,
          validated : BOOLEAN, sideEffects : BOOLEAN,
          tx : Seq([state : Heads, pierced : BOOLEAN]),
          out : {"none", "discard", "typed"}]

\* A tree is in Tree when it passes the test TLC makes.
LEMMA TreeDef == \A t : IsTree(t) <=> t \in Tree
<1>1. ASSUME NEW t, IsTree(t) PROVE t \in Tree
  <2>1. t.actors \in ActorMap
    BY <1>1 DEF IsTree, ActorMap
  <2>2. t.addressMap \in AddressMap
    BY <1>1 DEF IsTree, AddressMap
  <2> QED
    BY <1>1, <2>1, <2>2 DEF IsTree, Tree
<1>2. ASSUME NEW t \in Tree PROVE IsTree(t)
  <2>1. PICK D \in SUBSET Nat : t.actors \in [D -> Actor]
    BY DEF Tree, ActorMap
  <2>2. PICK E \in SUBSET Address : t.addressMap \in [E -> Nat]
    BY DEF Tree, AddressMap
  <2> QED
    BY <2>1, <2>2 DEF IsTree, Tree
<1> QED
  BY <1>1, <1>2

\* Likewise for frames.
LEMMA FrameDef == \A f : IsFrame(f) <=> f \in Frame
  BY TreeDef DEF IsFrame, Frame

\* SetActor writes one entry and leaves the rest of the tree alone.
LEMMA SetActorTree ==
  ASSUME NEW t \in Tree, NEW id \in Nat, NEW a \in Actor
  PROVE  /\ SetActor(t, id, a) \in Tree
         /\ SetActor(t, id, a).addressMap = t.addressMap
         /\ SetActor(t, id, a).nextID = t.nextID
         /\ DOMAIN SetActor(t, id, a).actors = DOMAIN t.actors \cup {id}
         /\ \A x \in DOMAIN t.actors \cup {id} :
              SetActor(t, id, a).actors[x] = IF x = id THEN a ELSE t.actors[x]
<1> DEFINE f == [x \in DOMAIN t.actors \cup {id} |->
                   IF x = id THEN a ELSE t.actors[x]]
<1>1. PICK D \in SUBSET Nat : t.actors \in [D -> Actor]
  BY DEF Tree, ActorMap
<1>2. f \in [D \cup {id} -> Actor]
  BY <1>1
<1>3. f \in ActorMap
  BY <1>2 DEF ActorMap
<1>4. SetActor(t, id, a) = [t EXCEPT !.actors = f]
  BY DEF SetActor
<1> HIDE DEF f
<1>5. /\ [t EXCEPT !.actors = f] \in Tree
      /\ [t EXCEPT !.actors = f].addressMap = t.addressMap
      /\ [t EXCEPT !.actors = f].nextID = t.nextID
      /\ [t EXCEPT !.actors = f].actors = f
  BY <1>3 DEF Tree
<1> QED
  BY <1>4, <1>5 DEF f

-----------------------------------------------------------------------------
(* One message's trees, in order.                                          *)

GoodTree(t) == t \in Tree /\ Consistent(t)

\* Extends, and with it Grows, is a preorder on trees.
LEMMA ExtendsReflexive ==
  ASSUME NEW t \in Tree, NEW payer
  PROVE  L!Extends(t, t, payer)
<1>1. PICK D \in SUBSET Nat : t.actors \in [D -> Actor]
  BY DEF Tree, ActorMap
<1>2. \A id \in DOMAIN t.actors : t.actors[id].balance \in Nat
  BY <1>1 DEF Actor
<1>3. t.nextID \in Nat
  BY DEF Tree
<1> QED
  BY <1>2, <1>3 DEF L!Extends, L!ActorsKept, L!NoncesKept, L!NewActorsNumbered,
                    L!KeysKept, L!AccountsKept

LEMMA ExtendsTransitive ==
  ASSUME NEW t \in Tree, NEW u \in Tree, NEW v \in Tree, NEW payer,
         L!Extends(t, u, payer), L!Extends(u, v, payer)
  PROVE  L!Extends(t, v, payer)
<1>1. /\ DOMAIN t.actors \subseteq Nat
      /\ DOMAIN u.actors \subseteq Nat
      /\ DOMAIN v.actors \subseteq Nat
      /\ \A id \in DOMAIN t.actors : t.actors[id].balance \in Nat
      /\ \A id \in DOMAIN u.actors : u.actors[id].balance \in Nat
      /\ \A id \in DOMAIN v.actors : v.actors[id].balance \in Nat
      /\ t.nextID \in Nat /\ u.nextID \in Nat /\ v.nextID \in Nat
  <2>1. /\ DOMAIN t.actors \subseteq Nat /\ DOMAIN u.actors \subseteq Nat
        /\ DOMAIN v.actors \subseteq Nat
        /\ t.actors \in [DOMAIN t.actors -> Actor]
        /\ u.actors \in [DOMAIN u.actors -> Actor]
        /\ v.actors \in [DOMAIN v.actors -> Actor]
    BY TreeDef DEF IsTree
  <2> QED
    BY <2>1 DEF Actor, Tree
<1>2. L!ActorsKept(t, v)
  BY DEF L!Extends, L!ActorsKept
<1>3. L!NoncesKept(t, v)
  BY DEF L!Extends, L!ActorsKept, L!NoncesKept
<1>4. L!NewActorsNumbered(t, v)
  <2>1. t.nextID <= v.nextID
    BY <1>1 DEF L!Extends, L!NewActorsNumbered
  <2>2. ASSUME NEW id \in DOMAIN v.actors \ DOMAIN t.actors
        PROVE  /\ t.nextID <= id /\ id < v.nextID
               /\ v.actors[id].callSeqNum = 0
    <3>1. CASE id \in DOMAIN u.actors
      BY <1>1, <3>1 DEF L!Extends, L!NewActorsNumbered, L!NoncesKept
    <3>2. CASE id \notin DOMAIN u.actors
      BY <1>1, <3>2 DEF L!Extends, L!NewActorsNumbered
    <3> QED
      BY <3>1, <3>2
  <2> QED
    BY <2>1, <2>2 DEF L!NewActorsNumbered
<1>5. L!KeysKept(t, v)
  BY DEF L!Extends, L!KeysKept
<1>6. L!AccountsKept(t, v, payer)
  <2> SUFFICES ASSUME NEW id \in DOMAIN t.actors \cap DOMAIN v.actors,
                      id # payer, t.actors[id].code = "account"
               PROVE  t.actors[id].balance <= v.actors[id].balance
    BY DEF L!AccountsKept
  <2>1. id \in DOMAIN u.actors /\ u.actors[id].code = "account"
    BY DEF L!Extends, L!ActorsKept
  <2>2. /\ t.actors[id].balance <= u.actors[id].balance
        /\ u.actors[id].balance <= v.actors[id].balance
    BY <2>1 DEF L!Extends, L!AccountsKept
  <2> QED
    BY <1>1, <2>1, <2>2
<1> QED
  BY <1>2, <1>3, <1>4, <1>5, <1>6 DEF L!Extends

LEMMA GrowsReflexive ==
  ASSUME NEW t \in Tree, NEW payer
  PROVE  L!Grows(t, t, payer)
BY ExtendsReflexive DEF L!Grows, L!FundsKept

LEMMA GrowsTransitive ==
  ASSUME NEW t \in Tree, NEW u \in Tree, NEW v \in Tree, NEW payer,
         L!Grows(t, u, payer), L!Grows(u, v, payer)
  PROVE  L!Grows(t, v, payer)
BY ExtendsTransitive DEF L!Grows, L!FundsKept

-----------------------------------------------------------------------------
(* Counting coins.                                                         *)

LEMMA GoodActors ==
  ASSUME NEW t, GoodTree(t)
  PROVE  /\ DOMAIN t.actors \subseteq Nat
         /\ t.nextID \in Nat
         /\ \A id \in DOMAIN t.actors :
              t.actors[id] \in Actor /\ t.actors[id].balance \in Nat /\ id < t.nextID
BY TreeDef DEF GoodTree, IsTree, Consistent, Actor

\* A good tree has finitely many actors, each with finitely many coins.
LEMMA CoinsFinite ==
  ASSUME NEW t, GoodTree(t)
  PROVE  IsFiniteSet(Coins(t))
<1> DEFINE D == DOMAIN t.actors
           purse == [id \in D |-> {id} \X (1..t.actors[id].balance)]
           purses == {purse[id] : id \in D}
<1>1. IsFiniteSet(D)
  <2>1. D \subseteq Nat /\ t.nextID \in Nat /\ \A id \in D : id <= t.nextID
    BY GoodActors
  <2> HIDE DEF D
  <2> QED
    BY <2>1, FS_BoundedSetOfNaturals
<1>2. \A id \in D : IsFiniteSet(purse[id])
  <2> SUFFICES ASSUME NEW id \in D
               PROVE  IsFiniteSet({id} \X (1..t.actors[id].balance))
    OBVIOUS
  <2>1. t.actors[id].balance \in Int
    BY GoodActors
  <2> DEFINE n == t.actors[id].balance
             coins == 1..n
  <2> HIDE DEF n
  <2>2. IsFiniteSet({id}) /\ IsFiniteSet(coins)
    <3>1. n \in Int
      BY <2>1 DEF n
    <3>2. IsFiniteSet(1..n)
      BY <3>1, FS_Interval
    <3> QED
      BY <3>2, FS_Singleton
  <2> HIDE DEF coins
  <2>3. IsFiniteSet({id} \X coins)
    BY <2>2, FS_Product
  <2> QED
    BY <2>3 DEF coins, n
<1>3. Coins(t) = UNION purses
  BY DEF Coins
<1> HIDE DEF D
<1>4. purse \in Surjection(D, purses)
  <2>1. /\ \A id \in D : purse[id] \in purses
        /\ \A p \in purses : \E id \in D : purse[id] = p
    OBVIOUS
  <2> HIDE DEF purses
  <2>2. purse \in [D -> purses]
    BY <2>1
  <2> QED
    BY <2>1, <2>2 DEF Surjection
<1> HIDE DEF purse
<1>5. IsFiniteSet(purses)
  <2> HIDE DEF purses
  <2> QED
    BY <1>1, <1>4, FS_Surjection
<1>6. \A T \in purses : IsFiniteSet(T)
  BY <1>2
<1> HIDE DEF purses
<1> QED
  BY <1>3, <1>5, <1>6, FS_UNION

LEMMA CoinsMembers ==
  ASSUME NEW t, NEW c
  PROVE  c \in Coins(t) <=>
           \E id \in DOMAIN t.actors : c \in {id} \X (1..t.actors[id].balance)
BY DEF Coins

\* Balances unchanged, and new actors without money.
LEMMA SameCoins ==
  ASSUME NEW t, NEW u,
         DOMAIN t.actors \subseteq DOMAIN u.actors,
         \A id \in DOMAIN u.actors :
           u.actors[id].balance = IF id \in DOMAIN t.actors THEN t.actors[id].balance
                                                            ELSE 0
  PROVE  L!FundsKept(t, u)
<1>1. ASSUME NEW c PROVE c \in Coins(t) <=> c \in Coins(u)
  <2>1. \A id \in DOMAIN u.actors \ DOMAIN t.actors :
          {id} \X (1..u.actors[id].balance) = {}
    <3>1. 1..0 = {}
      OBVIOUS
    <3> QED
      BY <3>1
  <2> QED
    BY <2>1, CoinsMembers
<1>2. Coins(t) = Coins(u)
  BY <1>1
<1> QED
  BY <1>2 DEF L!FundsKept, TotalBalance

\* One actor with more money than before.
LEMMA MoreCoins ==
  ASSUME NEW t, GoodTree(t), NEW u, NEW id \in DOMAIN t.actors, NEW amount \in Nat,
         DOMAIN u.actors = DOMAIN t.actors,
         \A x \in DOMAIN t.actors :
           u.actors[x].balance = IF x = id THEN t.actors[x].balance + amount
                                           ELSE t.actors[x].balance
  PROVE  /\ TotalBalance(t) \in Nat
         /\ TotalBalance(u) = TotalBalance(t) + amount
<1> DEFINE b == t.actors[id].balance
           I == (b + 1)..(b + amount)
           new == {id} \X I
<1>1. b \in Nat /\ b + 1 \in Int /\ b + amount \in Int
  BY GoodActors
<1>2. Coins(u) = Coins(t) \cup new
  <2> SUFFICES ASSUME NEW c PROVE c \in Coins(u) <=> c \in Coins(t) \/ c \in new
    OBVIOUS
  <2>1. 1..(b + amount) = (1..b) \cup I
    BY <1>1
  <2>2. u.actors[id].balance = b + amount
    OBVIOUS
  <2> HIDE DEF I
  <2>3. {id} \X (1..u.actors[id].balance) = ({id} \X (1..b)) \cup new
    BY <2>1, <2>2
  <2>4. \A x \in DOMAIN t.actors : x # id =>
          {x} \X (1..u.actors[x].balance) = {x} \X (1..t.actors[x].balance)
    OBVIOUS
  <2> HIDE DEF new
  <2> QED
    BY <2>3, <2>4, CoinsMembers
<1>3. Coins(t) \cap new = {}
  <2> SUFFICES ASSUME NEW c \in Coins(t), c \in new PROVE FALSE
    OBVIOUS
  <2>1. PICK x \in DOMAIN t.actors : c \in {x} \X (1..t.actors[x].balance)
    BY CoinsMembers
  <2>2. x = id /\ c[2] \in 1..b /\ c[2] \in I
    BY <2>1
  <2> QED
    BY <1>1, <2>2
<1>4. IsFiniteSet(new) /\ Cardinality(new) = amount
  <2>1. IsFiniteSet(I) /\ Cardinality(I) = amount
    <3>1. /\ IsFiniteSet(I)
          /\ Cardinality(I) = IF b + 1 > b + amount THEN 0 ELSE (b + amount) - (b + 1) + 1
      BY <1>1, FS_Interval
    <3> HIDE DEF I, b
    <3> QED
      BY <1>1, <3>1
  <2> HIDE DEF I
  <2>2. /\ IsFiniteSet({id} \X I)
        /\ Cardinality({id} \X I) = Cardinality({id}) * Cardinality(I)
    BY <2>1, FS_Singleton, FS_Product
  <2>3. Cardinality({id}) = 1
    BY FS_Singleton
  <2> QED
    BY <2>1, <2>2, <2>3
<1>5. IsFiniteSet(Coins(t)) /\ Cardinality(Coins(t)) \in Nat
  BY CoinsFinite, FS_CardinalityType
<1> HIDE DEF new
<1>6. Cardinality(Coins(u)) = Cardinality(Coins(t)) + Cardinality(new) - Cardinality({})
  BY <1>2, <1>3, <1>4, <1>5, FS_Union
<1>7. Cardinality({}) = 0
  BY FS_EmptySet
<1> QED
  BY <1>4, <1>5, <1>6, <1>7 DEF TotalBalance

-----------------------------------------------------------------------------
(* What one write does to a tree.                                          *)

\* A write to an existing actor that keeps its code and nonce, and takes money from
\* no account actor but the payer.
LEMMA WriteExtends ==
  ASSUME NEW t, GoodTree(t), NEW id \in DOMAIN t.actors, NEW a \in Actor, NEW payer,
         a.code = t.actors[id].code,
         a.callSeqNum = t.actors[id].callSeqNum,
         \/ id = payer
         \/ a.code # "account"
         \/ t.actors[id].balance <= a.balance
  PROVE  /\ GoodTree(SetActor(t, id, a))
         /\ L!Extends(t, SetActor(t, id, a), payer)
         /\ DOMAIN SetActor(t, id, a).actors = DOMAIN t.actors
         /\ \A x \in DOMAIN t.actors :
              SetActor(t, id, a).actors[x] = IF x = id THEN a ELSE t.actors[x]
<1>1. t \in Tree /\ Consistent(t)
  BY DEF GoodTree
<1>2. id \in Nat /\ t.actors \in [DOMAIN t.actors -> Actor] /\ t.nextID \in Nat
  BY <1>1, TreeDef DEF IsTree
<1> DEFINE u == SetActor(t, id, a)
<1>3. /\ u \in Tree
      /\ u.addressMap = t.addressMap
      /\ u.nextID = t.nextID
      /\ DOMAIN u.actors = DOMAIN t.actors
      /\ \A x \in DOMAIN t.actors :
           u.actors[x] = IF x = id THEN a ELSE t.actors[x]
  <2>1. DOMAIN t.actors \cup {id} = DOMAIN t.actors
    OBVIOUS
  <2>2. /\ u \in Tree
        /\ u.addressMap = t.addressMap
        /\ u.nextID = t.nextID
        /\ DOMAIN u.actors = DOMAIN t.actors \cup {id}
        /\ \A x \in DOMAIN t.actors \cup {id} :
             u.actors[x] = IF x = id THEN a ELSE t.actors[x]
    <3>1. t \in Tree /\ id \in Nat
      BY <1>1, <1>2
    <3> QED
      BY <3>1, SetActorTree
  <2> QED
    BY <2>1, <2>2
<1> HIDE DEF u
<1>4. GoodTree(u)
  BY <1>1, <1>3 DEF GoodTree, Consistent, Found
<1>5. L!Extends(t, u, payer)
  <2>1. \A x \in DOMAIN t.actors : t.actors[x].balance \in Nat
    BY <1>2 DEF Actor
  <2> QED
    BY <1>2, <1>3, <2>1 DEF L!Extends, L!ActorsKept, L!NoncesKept, L!NewActorsNumbered,
                            L!KeysKept, L!AccountsKept
<1> QED
  BY <1>3, <1>4, <1>5 DEF u

\* A new actor under the next free ID, and an address mapped to it.  A public key
\* may only be mapped if it is not yet.
LEMMA CreateGrows ==
  ASSUME NEW t, GoodTree(t), NEW addr \in Address, NEW code \in Codes, NEW payer,
         addr.protocol = "KEY" => addr \notin DOMAIN t.addressMap
  PROVE  LET u == CreateActor(MapAddressToNewID(t, addr), code, t.nextID)
         IN /\ GoodTree(u)
            /\ L!Grows(t, u, payer)
            /\ DOMAIN u.actors = DOMAIN t.actors \cup {t.nextID}
            /\ u.actors[t.nextID] = [code |-> code, head |-> EmptyObject,
                                     callSeqNum |-> 0, balance |-> 0]
            /\ \A x \in DOMAIN t.actors : u.actors[x] = t.actors[x]
<1>1. t \in Tree /\ Consistent(t)
  BY DEF GoodTree
<1>2. /\ t.nextID \in Nat
      /\ t.addressMap \in [DOMAIN t.addressMap -> Nat]
      /\ DOMAIN t.addressMap \subseteq Address
      /\ t.actors \in [DOMAIN t.actors -> Actor]
      /\ DOMAIN t.actors \subseteq Nat
  BY <1>1, TreeDef DEF IsTree
<1> DEFINE g == [x \in DOMAIN t.addressMap \cup {addr} |->
                   IF x = addr THEN t.nextID ELSE t.addressMap[x]]
           m == [t EXCEPT !.addressMap = g, !.nextID = t.nextID + 1]
           a == [code |-> code, head |-> EmptyObject, callSeqNum |-> 0, balance |-> 0]
           u == SetActor(m, t.nextID, a)
<1>3. g \in AddressMap
  <2>1. g \in [DOMAIN t.addressMap \cup {addr} -> Nat]
    BY <1>2
  <2>2. DOMAIN t.addressMap \cup {addr} \in SUBSET Address
    BY <1>2
  <2> HIDE DEF g
  <2> QED
    BY <2>1, <2>2 DEF AddressMap
<1>4. m = MapAddressToNewID(t, addr)
  BY DEF MapAddressToNewID
<1>5. /\ DOMAIN g = DOMAIN t.addressMap \cup {addr}
      /\ \A x \in DOMAIN g : g[x] = IF x = addr THEN t.nextID ELSE t.addressMap[x]
  OBVIOUS
<1> HIDE DEF g
<1>6. m \in Tree /\ m.actors = t.actors /\ m.addressMap = g /\ m.nextID = t.nextID + 1
  <2>1. /\ [t EXCEPT !.addressMap = g] \in Tree
        /\ [t EXCEPT !.addressMap = g].actors = t.actors
        /\ [t EXCEPT !.addressMap = g].addressMap = g
    BY <1>1, <1>3 DEF Tree
  <2> DEFINE n == t.nextID + 1
             k == [t EXCEPT !.addressMap = g]
  <2>2. n \in Nat
    BY <1>2
  <2> HIDE DEF n, k
  <2>3. k \in Tree => /\ [k EXCEPT !.nextID = n] \in Tree
                      /\ [k EXCEPT !.nextID = n].actors = k.actors
                      /\ [k EXCEPT !.nextID = n].addressMap = k.addressMap
                      /\ [k EXCEPT !.nextID = n].nextID = n
    BY <2>2 DEF Tree
  <2> QED
    BY <2>1, <2>3 DEF n, k
<1>7. a \in Actor
  BY DEF Actor, Heads
<1> HIDE DEF m, a
<1>8. /\ u \in Tree
      /\ u.addressMap = g
      /\ u.nextID = t.nextID + 1
      /\ DOMAIN u.actors = DOMAIN t.actors \cup {t.nextID}
      /\ \A x \in DOMAIN t.actors \cup {t.nextID} :
           u.actors[x] = IF x = t.nextID THEN a ELSE t.actors[x]
  <2>1. /\ u \in Tree
        /\ u.addressMap = m.addressMap
        /\ u.nextID = m.nextID
        /\ DOMAIN u.actors = DOMAIN m.actors \cup {t.nextID}
        /\ \A x \in DOMAIN m.actors \cup {t.nextID} :
             u.actors[x] = IF x = t.nextID THEN a ELSE m.actors[x]
    <3>1. m \in Tree /\ t.nextID \in Nat /\ a \in Actor
      BY <1>2, <1>6, <1>7
    <3> QED
      BY <3>1, SetActorTree
  <2> QED
    BY <1>6, <2>1
<1>9. u = CreateActor(MapAddressToNewID(t, addr), code, t.nextID)
  BY <1>4 DEF CreateActor, a
<1> HIDE DEF u
<1>10. t.nextID \notin DOMAIN t.actors
  BY <1>1, <1>2 DEF Consistent
<1>11. \A x \in DOMAIN t.actors : u.actors[x] = t.actors[x]
  BY <1>8, <1>10
<1>12. u.actors[t.nextID] = a
  BY <1>8
<1>13. Consistent(u)
  <2>1. Found(u, InitActorAddr)
    BY <1>1, <1>8 DEF Consistent, Found
  <2>2. \A x \in DOMAIN u.addressMap : Found(u, u.addressMap[x])
    BY <1>1, <1>5, <1>8 DEF Consistent, Found
  <2>3. \A id \in DOMAIN u.actors : id < u.nextID
    BY <1>1, <1>2, <1>8 DEF Consistent
  <2> QED
    BY <2>1, <2>2, <2>3 DEF Consistent
<1>14. L!Extends(t, u, payer)
  <2>1. L!ActorsKept(t, u) /\ L!NoncesKept(t, u)
    BY <1>8, <1>11 DEF L!ActorsKept, L!NoncesKept
  <2>2. L!NewActorsNumbered(t, u)
    BY <1>2, <1>8, <1>12 DEF L!NewActorsNumbered, a
  <2>3. L!KeysKept(t, u)
    BY <1>5, <1>8 DEF L!KeysKept
  <2>4. L!AccountsKept(t, u, payer)
    <3>1. \A x \in DOMAIN t.actors : t.actors[x].balance \in Nat
      BY <1>2 DEF Actor
    <3> QED
      BY <1>8, <1>11, <3>1 DEF L!AccountsKept
  <2> QED
    BY <2>1, <2>2, <2>3, <2>4 DEF L!Extends
<1>15. L!FundsKept(t, u)
  BY <1>8, <1>10, SameCoins DEF a
<1> QED
  BY <1>8, <1>9, <1>11, <1>12, <1>13, <1>14, <1>15 DEF GoodTree, a, L!Grows

\* Storing a state object.
LEMMA SetHeadGrows ==
  ASSUME NEW t, GoodTree(t), NEW id \in DOMAIN t.actors, NEW head \in Heads, NEW payer
  PROVE  /\ GoodTree(SetHead(t, id, head))
         /\ L!Grows(t, SetHead(t, id, head), payer)
         /\ DOMAIN SetHead(t, id, head).actors = DOMAIN t.actors
<1>1. t.actors[id] \in Actor
  BY TreeDef DEF GoodTree, IsTree
<1> DEFINE a == [t.actors[id] EXCEPT !.head = head]
<1>2. /\ a \in Actor
      /\ a.code = t.actors[id].code
      /\ a.callSeqNum = t.actors[id].callSeqNum
      /\ t.actors[id].balance = a.balance
      /\ t.actors[id].balance <= a.balance
  BY <1>1 DEF Actor
<1> DEFINE u == SetHead(t, id, head)
<1>3. u = SetActor(t, id, a)
  BY DEF SetHead
<1> HIDE DEF a, u
<1>4. /\ GoodTree(u)
      /\ L!Extends(t, u, payer)
      /\ DOMAIN u.actors = DOMAIN t.actors
      /\ \A x \in DOMAIN t.actors : u.actors[x] = IF x = id THEN a ELSE t.actors[x]
  BY <1>2, <1>3, WriteExtends
<1>5. L!FundsKept(t, u)
  BY <1>2, <1>4, SameCoins
<1> QED
  BY <1>4, <1>5 DEF u, L!Grows

-----------------------------------------------------------------------------
(* resolveTarget and transfer.                                             *)

\* A store in the middle of a message: its tree is at or past its flushed root.
GoodStore(st, payer) ==
  /\ st \in Store
  /\ GoodTree(st.tree)
  /\ GoodTree(st.stateRoot)
  /\ L!Grows(st.stateRoot, st.tree, payer)

LEMMA CheckpointGood ==
  ASSUME NEW st, NEW payer, GoodStore(st, payer)
  PROVE  /\ GoodStore(Checkpoint(st), payer)
         /\ Checkpoint(st).tree = st.tree
  BY GrowsReflexive DEF GoodStore, Store, Checkpoint, GoodTree

LEMMA RollbackGood ==
  ASSUME NEW t, NEW payer, GoodTree(t)
  PROVE  GoodStore(Rollback(t), payer) /\ Rollback(t).tree = t
  BY GrowsReflexive DEF GoodStore, Store, Rollback, GoodTree

\* A later tree in the same store.
LEMMA LaterStoreGood ==
  ASSUME NEW st, NEW payer, GoodStore(st, payer), NEW t, GoodTree(t),
         L!Grows(st.tree, t, payer)
  PROVE  /\ GoodStore([st EXCEPT !.tree = t], payer)
         /\ [st EXCEPT !.tree = t].tree = t
<1>1. L!Grows(st.stateRoot, t, payer)
  BY GrowsTransitive DEF GoodStore, GoodTree
<1> QED
  BY <1>1 DEF GoodStore, Store, GoodTree

\* resolveTarget leaves a later tree, in which the target exists.
LEMMA ResolveTargetGood ==
  ASSUME NEW st, NEW payer, GoodStore(st, payer), NEW addr \in Address,
         ResolveTarget(st, addr).code = Ok
  PROVE  LET r == ResolveTarget(st, addr)
         IN /\ GoodStore(r.store, payer)
            /\ L!Grows(st.tree, r.store.tree, payer)
            /\ Found(r.store.tree, r.id)
<1> DEFINE r == ResolveTarget(st, addr)
           t == st.tree
<1>1. GoodTree(t) /\ t \in Tree
  BY DEF GoodStore, GoodTree
<1>2. CASE Resolves(t, addr)
  <2>1. r.store = st /\ Found(t, r.id)
    BY <1>2 DEF ResolveTarget, Ok
  <2> QED
    BY <1>1, <2>1, GrowsReflexive
<1>3. CASE ~Resolves(t, addr)
  <2>1. /\ CanCreate(t, "account", t.nextID)
        /\ r.id = t.nextID
        /\ r.store = CreateAccount(t, addr)
    BY <1>3 DEF ResolveTarget, Ok
  <2> DEFINE created == CreateActor(MapAddressToNewID(t, addr), "account", t.nextID)
             tree == SetHead(created, t.nextID, "account")
  <2>2. CreateAccount(t, addr) = [tree |-> tree, stateRoot |-> created]
    BY DEF CreateAccount
  <2>3. "account" \in Codes /\ addr \notin DOMAIN t.addressMap
    BY <1>3, CodesAssumption DEF Resolves
  <2>4. /\ GoodTree(created)
        /\ L!Grows(t, created, payer)
        /\ t.nextID \in DOMAIN created.actors
    <3> HIDE DEF t
    <3>1. /\ GoodTree(created)
          /\ L!Grows(t, created, payer)
          /\ DOMAIN created.actors = DOMAIN t.actors \cup {t.nextID}
      BY <1>1, <2>3, CreateGrows
    <3> QED
      BY <3>1
  <2> HIDE DEF created
  <2>5. /\ GoodTree(tree)
        /\ L!Grows(created, tree, payer)
        /\ Found(tree, t.nextID)
    BY <2>4, SetHeadGrows DEF Heads, Found
  <2> HIDE DEF tree
  <2>6. L!Grows(t, tree, payer)
    BY <1>1, <2>4, <2>5, GrowsTransitive DEF GoodTree
  <2> QED
    BY <2>1, <2>2, <2>4, <2>5, <2>6 DEF GoodStore, Store, GoodTree
<1> QED
  BY <1>2, <1>3

\* A transfer the debit account can afford and may make.
LEMMA TransferGood ==
  ASSUME NEW t, GoodTree(t), NEW payer, NEW from \in DOMAIN t.actors,
         NEW to \in DOMAIN t.actors, NEW amount \in Nat,
         DebitSuffices(t, from, amount),
         from = payer \/ t.actors[from].code # "account"
  PROVE  /\ GoodTree(Transfer(t, from, to, amount))
         /\ L!Grows(t, Transfer(t, from, to, amount), payer)
<1>1. /\ t.actors[from] \in Actor
      /\ t \in Tree
  BY TreeDef DEF GoodTree, IsTree
<1> DEFINE a == [t.actors[from] EXCEPT !.balance = @ - amount]
           d == Debit(t, from, amount)
<1>2. /\ a \in Actor
      /\ a.code = t.actors[from].code
      /\ a.callSeqNum = t.actors[from].callSeqNum
      /\ t.actors[from].balance = a.balance + amount
  BY <1>1 DEF Actor, DebitSuffices
<1>3. d = SetActor(t, from, a)
  BY DEF Debit
<1> HIDE DEF a
<1>4. /\ GoodTree(d)
      /\ L!Extends(t, d, payer)
      /\ DOMAIN d.actors = DOMAIN t.actors
      /\ \A x \in DOMAIN t.actors : d.actors[x] = IF x = from THEN a ELSE t.actors[x]
  BY <1>2, <1>3, WriteExtends
<1> HIDE DEF d
<1>5. d \in Tree /\ d.actors[to] \in Actor
  BY <1>4, TreeDef DEF GoodTree, IsTree
<1> DEFINE b == [d.actors[to] EXCEPT !.balance = @ + amount]
           u == Credit(d, to, amount)
<1>6. /\ b \in Actor
      /\ b.code = d.actors[to].code
      /\ b.callSeqNum = d.actors[to].callSeqNum
      /\ b.balance = d.actors[to].balance + amount
      /\ d.actors[to].balance <= b.balance
  BY <1>5 DEF Actor
<1>7. u = SetActor(d, to, b)
  BY DEF Credit
<1> HIDE DEF b
<1>8. /\ GoodTree(u)
      /\ L!Extends(d, u, payer)
      /\ DOMAIN u.actors = DOMAIN t.actors
      /\ \A x \in DOMAIN t.actors : u.actors[x] = IF x = to THEN b ELSE d.actors[x]
  BY <1>4, <1>6, <1>7, WriteExtends
<1>9. Transfer(t, from, to, amount) = u
  BY DEF Transfer, d
<1> HIDE DEF u
<1>10. L!Extends(t, u, payer)
  BY <1>1, <1>4, <1>5, <1>8, ExtendsTransitive DEF GoodTree
<1>11. TotalBalance(t) = TotalBalance(d) + amount
  <2>1. /\ GoodTree(d) /\ from \in DOMAIN d.actors
        /\ DOMAIN t.actors = DOMAIN d.actors
        /\ \A x \in DOMAIN d.actors :
             t.actors[x].balance = IF x = from THEN d.actors[x].balance + amount
                                               ELSE d.actors[x].balance
    BY <1>2, <1>4
  <2> QED
    BY <2>1, MoreCoins
<1>12. TotalBalance(u) = TotalBalance(d) + amount
  <2>1. /\ GoodTree(d) /\ to \in DOMAIN d.actors
        /\ DOMAIN u.actors = DOMAIN d.actors
        /\ \A x \in DOMAIN d.actors :
             u.actors[x].balance = IF x = to THEN d.actors[x].balance + amount
                                             ELSE d.actors[x].balance
    <3>1. GoodTree(d) /\ DOMAIN d.actors = DOMAIN t.actors
      BY <1>4
    <3>2. \A x \in DOMAIN d.actors : u.actors[x] = IF x = to THEN b ELSE d.actors[x]
      BY <1>8, <3>1
    <3> QED
      BY <1>6, <1>8, <3>1, <3>2
  <2> QED
    BY ONLY <2>1, MoreCoins, amount \in Nat
<1> QED
  BY <1>8, <1>9, <1>10, <1>11, <1>12 DEF L!Grows, L!FundsKept

-----------------------------------------------------------------------------
(* Frames and their snapshots.                                             *)

Front(stk) == SubSeq(stk, 1, Len(stk) - 1)

\* The frames stk of a message of payer that started on tree b and has come to t.
Ordered(stk, t, b, payer) ==
  /\ stk \in Seq(Frame)
  /\ GoodTree(b)
  /\ GoodTree(t)
  /\ L!Grows(b, t, payer)
  /\ stk # <<>> => stk[1].prior = b
  /\ \A i \in 1..Len(stk) :
       /\ GoodTree(stk[i].prior)
       /\ L!Grows(b, stk[i].prior, payer)
       /\ L!Grows(stk[i].prior, t, payer)
       /\ Found(t, stk[i].to)
       /\ \A j \in 1..Len(stk) :
            i < j => /\ L!Grows(stk[i].prior, stk[j].prior, payer)
                     /\ Found(stk[j].prior, stk[i].to)

\* Removing and adding the innermost frame.
LEMMA FrontIsPrefix ==
  ASSUME NEW stk \in Seq(Frame), stk # <<>>
  PROVE  /\ Front(stk) \in Seq(Frame)
         /\ Len(stk) \in Nat /\ Len(stk) > 0
         /\ Len(Front(stk)) = Len(stk) - 1
         /\ \A i \in 1..Len(Front(stk)) : Front(stk)[i] = stk[i]
         /\ stk[Len(stk)] \in Frame
<1>1. Len(stk) \in Nat /\ Len(stk) > 0 /\ stk[Len(stk)] \in Frame
  OBVIOUS
<1>2. /\ Front(stk) \in Seq(Frame)
      /\ Len(Front(stk)) = Len(stk) - 1
      /\ \A i \in 1..Len(Front(stk)) : Front(stk)[i] = stk[i]
  <2> DEFINE n == Len(stk) - 1
  <2>1. n \in Nat /\ n <= Len(stk) /\ \A i \in 1..n : stk[i] \in Frame
    BY <1>1
  <2> HIDE DEF n
  <2>2. /\ SubSeq(stk, 1, n) \in Seq(Frame)
        /\ Len(SubSeq(stk, 1, n)) = IF 1 <= n THEN n - 1 + 1 ELSE 0
        /\ \A i \in 1..n - 1 + 1 : SubSeq(stk, 1, n)[i] = stk[1 + i - 1]
    BY <2>1, SubSeqProperties
  <2>3. Front(stk) = SubSeq(stk, 1, n)
    BY DEF Front, n
  <2>4. n = Len(stk) - 1
    BY DEF n
  <2> QED
    BY <2>1, <2>2, <2>3, <2>4
<1> QED
  BY <1>1, <1>2

LEMMA OrderedFront ==
  ASSUME NEW stk, NEW t, NEW b, NEW payer, Ordered(stk, t, b, payer), stk # <<>>
  PROVE  /\ Ordered(Front(stk), t, b, payer)
         /\ Ordered(Front(stk), stk[Len(stk)].prior, b, payer)
         /\ Found(stk[Len(stk)].prior, stk[Len(stk)].to) \/ Found(t, stk[Len(stk)].to)
<1>1. /\ Front(stk) \in Seq(Frame)
      /\ Len(stk) \in Nat /\ Len(stk) > 0
      /\ Len(Front(stk)) = Len(stk) - 1
      /\ \A i \in 1..Len(Front(stk)) : Front(stk)[i] = stk[i]
  BY FrontIsPrefix DEF Ordered
<1> HIDE DEF Front
<1>2. Front(stk) # <<>> => Front(stk)[1].prior = b
  <2> SUFFICES ASSUME Front(stk) # <<>> PROVE Front(stk)[1].prior = b
    OBVIOUS
  <2>1. 1 \in 1..Len(Front(stk))
    BY <1>1
  <2> QED
    BY <1>1, <2>1 DEF Ordered
<1> QED
  BY <1>1, <1>2 DEF Ordered

\* The tree moves on under the same frames.
LEMMA OrderedLater ==
  ASSUME NEW stk, NEW t, NEW b, NEW payer, Ordered(stk, t, b, payer),
         NEW u, GoodTree(u), L!Grows(t, u, payer)
  PROVE  Ordered(stk, u, b, payer)
<1>1. t \in Tree /\ u \in Tree /\ b \in Tree
  BY DEF Ordered, GoodTree
<1>2. L!Grows(b, u, payer)
  BY <1>1, GrowsTransitive DEF Ordered
<1>3. ASSUME NEW i \in 1..Len(stk)
      PROVE  L!Grows(stk[i].prior, u, payer) /\ Found(u, stk[i].to)
  <2>1. stk[i].prior \in Tree /\ L!Grows(stk[i].prior, t, payer) /\ Found(t, stk[i].to)
    BY DEF Ordered, GoodTree
  <2>2. L!Grows(stk[i].prior, u, payer)
    BY <1>1, <2>1, GrowsTransitive
  <2>3. Found(u, stk[i].to)
    BY <2>1 DEF L!Grows, L!Extends, L!ActorsKept, Found
  <2> QED
    BY <2>2, <2>3
<1> QED
  BY <1>2, <1>3 DEF Ordered

\* A frame is entered: its snapshot is the tree as it was.
LEMMA OrderedAppend ==
  ASSUME NEW stk, NEW t, NEW b, NEW payer, Ordered(stk, t, b, payer),
         NEW u, GoodTree(u), L!Grows(t, u, payer),
         NEW frame \in Frame, frame.prior = t, Found(u, frame.to),
         stk = <<>> => t = b
  PROVE  Ordered(Append(stk, frame), u, b, payer)
<1> DEFINE new == Append(stk, frame)
<1>1. Ordered(stk, u, b, payer)
  BY OrderedLater
<1>2. /\ new \in Seq(Frame)
      /\ Len(stk) \in Nat
      /\ Len(new) = Len(stk) + 1
      /\ \A i \in 1..Len(stk) : new[i] = stk[i]
      /\ new[Len(new)] = frame
  BY DEF Ordered
<1> HIDE DEF new
<1>3. ASSUME NEW i \in 1..Len(new)
      PROVE  /\ GoodTree(new[i].prior)
             /\ L!Grows(b, new[i].prior, payer)
             /\ L!Grows(new[i].prior, u, payer)
             /\ Found(u, new[i].to)
             /\ \A j \in 1..Len(new) :
                  i < j => /\ L!Grows(new[i].prior, new[j].prior, payer)
                           /\ Found(new[j].prior, new[i].to)
  <2>1. CASE i \in 1..Len(stk)
    <3>1. new[i] = stk[i]
      BY <1>2, <2>1
    <3>2. /\ GoodTree(new[i].prior)
          /\ L!Grows(b, new[i].prior, payer)
          /\ L!Grows(new[i].prior, u, payer)
          /\ Found(u, new[i].to)
      BY <1>1, <2>1, <3>1 DEF Ordered
    <3>3. ASSUME NEW j \in 1..Len(new), i < j
          PROVE  /\ L!Grows(new[i].prior, new[j].prior, payer)
                 /\ Found(new[j].prior, new[i].to)
      <4>1. CASE j \in 1..Len(stk)
        BY <1>2, <2>1, <3>1, <3>3, <4>1 DEF Ordered
      <4>2. CASE j = Len(new)
        <5>1. new[j].prior = t
          BY <1>2, <4>2
        <5> QED
          BY <2>1, <3>1, <5>1 DEF Ordered
      <4> QED
        BY <1>2, <4>1, <4>2
    <3> QED
      BY <3>2, <3>3
  <2>2. CASE i = Len(new)
    <3>1. new[i] = frame
      BY <1>2, <2>2
    <3>2. \A j \in 1..Len(new) : ~(i < j)
      BY <1>2, <2>2
    <3> QED
      BY <3>1, <3>2 DEF Ordered
  <2> QED
    BY <1>2, <2>1, <2>2
<1>4. new[1].prior = b
  <2>1. CASE stk = <<>>
    <3>1. Len(new) = 1
      BY <1>2, <2>1
    <3> QED
      BY <1>2, <2>1, <3>1
  <2>2. CASE stk # <<>>
    <3>1. 1 \in 1..Len(stk)
      BY <2>2 DEF Ordered
    <3> QED
      BY <1>2, <2>2, <3>1 DEF Ordered
  <2> QED
    BY <2>1, <2>2
<1> QED
  BY <1>1, <1>2, <1>3, <1>4 DEF Ordered, new

\* What the innermost frame records beside its actor and snapshot does not matter.
LEMMA OrderedSetTop ==
  ASSUME NEW stk, NEW t, NEW b, NEW payer, Ordered(stk, t, b, payer), stk # <<>>,
         NEW frame \in Frame, frame.prior = stk[Len(stk)].prior,
         frame.to = stk[Len(stk)].to
  PROVE  Ordered(Append(Front(stk), frame), t, b, payer)
<1> DEFINE new == Append(Front(stk), frame)
<1>1. /\ Front(stk) \in Seq(Frame)
      /\ Len(stk) \in Nat /\ Len(stk) > 0
      /\ Len(Front(stk)) = Len(stk) - 1
      /\ \A i \in 1..Len(Front(stk)) : Front(stk)[i] = stk[i]
  BY FrontIsPrefix DEF Ordered
<1> HIDE DEF Front
<1>2. /\ new \in Seq(Frame)
      /\ Len(new) = Len(stk)
      /\ \A i \in 1..Len(stk) : new[i] = IF i = Len(stk) THEN frame ELSE stk[i]
  BY <1>1
<1> HIDE DEF new
<1>3. /\ \A i \in 1..Len(stk) : new[i].prior = stk[i].prior /\ new[i].to = stk[i].to
      /\ 1 \in 1..Len(stk)
  BY <1>1, <1>2
<1> QED
  BY <1>2, <1>3 DEF Ordered, new

-----------------------------------------------------------------------------
(* invoke and its deferred handler.                                        *)

\* A panic has left the tree in any shape; it has lost no actor that a running
\* frame needs, and the frames were in order before it.
Torn(st, stk, b, payer) ==
  /\ st \in Store
  /\ \E t : /\ Ordered(stk, t, b, payer)
            /\ DOMAIN t.actors \subseteq DOMAIN st.tree.actors

\* The state between two steps of a message of payer.
GoodState(st, stk, r, c, b, payer) ==
  /\ r = NoRet \/ r.val \in {"empty", "typed"}
  /\ stk = <<>> /\ r = NoRet => b = st.tree
  /\ c # "none" => r = NoRet
  /\ c = "none" \/ stk = <<>> => /\ GoodStore(st, payer)
                                /\ Ordered(stk, st.tree, b, payer)
  /\ c # "none" /\ stk # <<>> => Torn(st, stk, b, payer)

LEMMA EmptyOrdered ==
  ASSUME NEW t, GoodTree(t), NEW payer
  PROVE  Ordered(<<>>, t, t, payer)
<1>1. t \in Tree
  BY DEF GoodTree
<1>2. L!Grows(t, t, payer)
  BY <1>1, GrowsReflexive
<1>3. <<>> \in Seq(Frame) /\ Len(<<>>) = 0
  OBVIOUS
<1> QED
  BY <1>2, <1>3 DEF Ordered

LEMMA FailGood ==
  ASSUME NEW payer, NEW code, NEW root, NEW below,
         Ordered(below, root, base', payer), crash = "none",
         Fail(code, root, below)
  PROVE  /\ GoodState(store', stack', ret', crash', base', payer)
         /\ ~Idle'
<1>1. /\ store' = Rollback(root)
      /\ stack' = below
      /\ ret' = [code |-> code, val |-> "empty"]
      /\ crash' = "none"
  BY DEF Fail
<1>2. GoodStore(store', payer) /\ store'.tree = root
  BY <1>1, RollbackGood DEF Ordered
<1>3. ret' # NoRet /\ ret'.val = "empty"
  BY <1>1 DEF NoRet
<1> QED
  BY <1>1, <1>2, <1>3 DEF GoodState, Idle

LEMMA RepanicGood ==
  ASSUME NEW payer, NEW reason, reason # "none", NEW root, NEW below,
         Ordered(below, root, base', payer), below = <<>> => root = base',
         Repanic(reason, root, below)
  PROVE  /\ GoodState(store', stack', ret', crash', base', payer)
         /\ ~Idle'
<1>1. /\ store' = Rollback(root)
      /\ stack' = below
      /\ ret' = NoRet
      /\ crash' = reason
  BY DEF Repanic
<1>2. GoodStore(store', payer) /\ store'.tree = root
  BY <1>1, RollbackGood DEF Ordered
<1>3. Torn(store', stack', base', payer)
  BY <1>1, <1>2 DEF Torn, GoodStore
<1> QED
  BY <1>1, <1>2, <1>3 DEF GoodState, Idle

\* From the Send short cut on: the value has been moved, giving st, and the frame
\* may be entered.
LEMMA DispatchGood ==
  ASSUME NEW payer, NEW m, m.value \in Nat, m.method \in Nat,
         NEW id, NEW st, GoodStore(st, payer), Found(st.tree, id),
         NEW prior, L!Grows(prior, st.tree, payer),
         NEW balance \in Nat, NEW below,
         Ordered(below, prior, base', payer), below = <<>> => prior = base',
         crash = "none",
         Dispatch(m, id, st, prior, balance, below)
  PROVE  /\ GoodState(store', stack', ret', crash', base', payer)
         /\ ~Idle'
<1>1. GoodTree(prior) /\ GoodTree(base') /\ GoodTree(st.tree)
  BY DEF Ordered, GoodStore
<1>2. CASE /\ store' = st
           /\ stack' = below
           /\ ret' = [code |-> Ok, val |-> "empty"]
           /\ UNCHANGED crash
  <2>1. Ordered(below, st.tree, base', payer)
    BY <1>1, OrderedLater
  <2>2. ret' # NoRet /\ ret'.val = "empty"
    BY <1>2 DEF NoRet, Ok
  <2> QED
    BY <1>2, <2>1, <2>2 DEF GoodState, Idle
<1>3. CASE \/ Repanic("index out of range", prior, below)
           \/ Repanic("reflect: Call using a value of another type", prior, below)
  BY <1>3, RepanicGood
<1>4. CASE Fail("SysErrInvalidMethod", prior, below)
  BY <1>4, FailGood
<1>5. CASE /\ store' = st
           /\ stack' = Append(below, NewFrame(id, m.method, m.value, prior, balance))
           /\ ret' = NoRet
           /\ UNCHANGED crash
  <2> DEFINE frame == NewFrame(id, m.method, m.value, prior, balance)
  <2>1. id \in Nat
    BY <1>1, TreeDef DEF GoodTree, IsTree, Found
  <2>2. prior \in Tree
    BY <1>1 DEF GoodTree
  <2>3. frame \in Frame /\ frame.prior = prior /\ frame.to = id
    BY <2>1, <2>2 DEF Frame, NewFrame
  <2> HIDE DEF frame
  <2>4. Ordered(Append(below, frame), st.tree, base', payer)
    BY <1>1, <2>3, OrderedAppend
  <2>5. stack' # <<>> /\ stack' = Append(below, frame)
    <3>1. below \in Seq(Frame)
      BY DEF Ordered
    <3>2. Append(below, frame) # <<>>
      BY <3>1, <2>3
    <3> QED
      BY <1>5, <3>2 DEF frame
  <2> QED
    BY <1>5, <2>4, <2>5 DEF GoodState, Idle
<1> QED
  BY <1>2, <1>3, <1>4, <1>5 DEF Dispatch

LEMMA InvokeGood ==
  ASSUME NEW payer, NEW m, m.to \in Address, m.value \in Int, m.method \in Nat,
         NEW st, GoodStore(st, payer), NEW from, Found(st.tree, from),
         from = payer \/ st.tree.actors[from].code # "account",
         NEW cached, NEW below, Ordered(below, st.tree, base', payer),
         below = <<>> => st.tree = base',
         crash = "none", Invoke(m, from, cached, st, below)
  PROVE  /\ GoodState(store', stack', ret', crash', base', payer)
         /\ ~Idle'
<1> DEFINE checked == Checkpoint(st)
           prior == checked.tree
           target == ResolveTarget(checked, m.to)
           tree == target.store.tree
           moved == Transfer(tree, from, target.id, m.value)
           Affordable == /\ target.code = Ok
                         /\ m.value > 0
                         /\ DebitSuffices(tree, from, m.value)
<1>1. /\ GoodStore(checked, payer)
      /\ prior = st.tree
      /\ Ordered(below, prior, base', payer)
  BY CheckpointGood
<1>2. GoodTree(base')
  BY DEF Ordered
<1>3. \/ \E code : Fail(code, prior, below)
      \/ Repanic("unreachable: insufficient balance on debit account", prior, below)
      \/ /\ Affordable
         /\ Dispatch(m, target.id, [target.store EXCEPT !.tree = moved], prior,
                     ToActor(tree, moved, target.id).balance, below)
      \/ /\ target.code = Ok
         /\ m.value = 0
         /\ Dispatch(m, target.id, target.store, prior,
                     tree.actors[target.id].balance, below)
  BY DEF Invoke
<1>4. CASE \E code : Fail(code, prior, below)
  BY <1>1, <1>4, FailGood
<1>5. CASE Repanic("unreachable: insufficient balance on debit account", prior, below)
  BY <1>1, <1>5, RepanicGood
<1>6. ASSUME target.code = Ok
      PROVE  /\ GoodStore(target.store, payer)
             /\ L!Grows(prior, tree, payer)
             /\ Found(tree, target.id)
             /\ GoodTree(tree)
  <2> HIDE DEF checked
  <2>1. /\ GoodStore(target.store, payer)
        /\ L!Grows(prior, tree, payer)
        /\ Found(tree, target.id)
    BY <1>1, <1>6, ResolveTargetGood
  <2> QED
    BY <2>1 DEF GoodStore
<1>7. CASE /\ Affordable
           /\ Dispatch(m, target.id, [target.store EXCEPT !.tree = moved], prior,
                       ToActor(tree, moved, target.id).balance, below)
  <2> DEFINE next == [target.store EXCEPT !.tree = moved]
  <2> HIDE DEF checked, prior, target
  <2>1. /\ GoodStore(target.store, payer)
        /\ L!Grows(prior, tree, payer)
        /\ Found(tree, target.id)
        /\ GoodTree(tree)
    BY <1>6, <1>7
  <2>2. /\ from \in DOMAIN tree.actors
        /\ from = payer \/ tree.actors[from].code # "account"
    BY <1>1, <2>1 DEF L!Grows, L!Extends, L!ActorsKept, Found
  <2>3. m.value \in Nat
    BY <1>7
  <2> HIDE DEF tree
  <2>4. GoodTree(moved) /\ L!Grows(tree, moved, payer)
    <3>1. DebitSuffices(tree, from, m.value)
      BY <1>7
    <3>2. target.id \in DOMAIN tree.actors
      BY <2>1 DEF Found
    <3> QED
      BY <2>1, <2>2, <2>3, <3>1, <3>2, TransferGood
  <2> HIDE DEF moved
  <2>5. /\ GoodStore(next, payer)
        /\ next.tree = moved
    BY <2>1, <2>4, LaterStoreGood DEF tree
  <2>6. L!Grows(prior, moved, payer)
    BY <1>1, <2>1, <2>4, GrowsTransitive DEF GoodTree, Ordered
  <2>7. Found(moved, target.id)
    BY <2>1, <2>4 DEF Found, L!Grows, L!Extends, L!ActorsKept
  <2>8. moved.actors[target.id].balance \in Nat
    BY <2>4, <2>7, TreeDef DEF GoodTree, IsTree, Found, Actor
  <2>9. Dispatch(m, target.id, next, prior, moved.actors[target.id].balance, below)
    BY <1>7 DEF ToActor
  <2> HIDE DEF next
  <2> QED
    BY <1>1, <2>3, <2>5, <2>6, <2>7, <2>8, <2>9, DispatchGood
<1>8. CASE /\ target.code = Ok
           /\ m.value = 0
           /\ Dispatch(m, target.id, target.store, prior,
                       tree.actors[target.id].balance, below)
  <2> HIDE DEF checked, prior, target
  <2>1. /\ GoodStore(target.store, payer)
        /\ L!Grows(prior, tree, payer)
        /\ Found(tree, target.id)
        /\ GoodTree(tree)
    BY <1>6, <1>8
  <2>2. tree.actors[target.id].balance \in Nat
    BY <2>1, TreeDef DEF GoodTree, IsTree, Found, Actor
  <2>3. m.value \in Nat /\ (below = <<>> => prior = base')
    BY <1>1, <1>8
  <2>4. Dispatch(m, target.id, target.store, prior, tree.actors[target.id].balance,
                 below)
    BY <1>8
  <2> QED
    BY <1>1, <2>1, <2>2, <2>3, <2>4, DispatchGood
<1> QED
  BY <1>3, <1>4, <1>5, <1>7, <1>8

-----------------------------------------------------------------------------
(* The inductive invariant, and the steps inside a message.                *)

IInv ==
  /\ topLevel \in [originator : Nat, callSeq : Nat, addressCount : Nat]
  /\ applied \in Nat
  /\ calls \in Nat
  /\ GoodState(store, stack, ret, crash, base, topLevel.originator)

\* What a step inside a message keeps.
StepGood ==
  /\ GoodState(store', stack', ret', crash', base', topLevel.originator)
  /\ ~Idle'

\* What is known of the innermost frame.
LEMMA TopGood ==
  ASSUME IInv, stack # <<>>, crash = "none"
  PROVE  /\ Top \in Frame
         /\ Below = Front(stack)
         /\ Ordered(Below, store.tree, base, topLevel.originator)
         /\ Ordered(Below, Top.prior, base, topLevel.originator)
         /\ Found(store.tree, Top.to)
         /\ GoodStore(store, topLevel.originator)
         /\ GoodTree(base)
<1>1. Ordered(stack, store.tree, base, topLevel.originator)
  BY DEF IInv, GoodState
<1>2. Top \in Frame /\ Len(stack) \in 1..Len(stack)
  BY <1>1, FrontIsPrefix DEF Ordered, Top
<1>3. Below = Front(stack)
  BY DEF Below, Front
<1>4. Found(store.tree, Top.to)
  BY <1>1, <1>2 DEF Ordered, Top
<1>5. /\ Ordered(Front(stack), store.tree, base, topLevel.originator)
      /\ Ordered(Front(stack), Top.prior, base, topLevel.originator)
  BY <1>1, OrderedFront DEF Top
<1> QED
  BY <1>1, <1>2, <1>3, <1>4, <1>5 DEF IInv, GoodState, Ordered

LEMMA AbortGood ==
  ASSUME IInv, stack # <<>>, crash = "none", NEW code, Abort(code), base' = base
  PROVE  StepGood
<1>1. Ordered(Below, Top.prior, base', topLevel.originator)
  BY TopGood
<1>2. Fail(code, Top.prior, Below)
  BY DEF Abort
<1> QED
  BY <1>1, <1>2, FailGood DEF StepGood

LEMMA ReturnsGood ==
  ASSUME IInv, stack # <<>>, crash = "none", NEW val \in {"empty", "typed"}, Returns(val), base' = base
  PROVE  StepGood
<1>1. /\ store' = store
      /\ stack' = Below
      /\ ret' = [code |-> Ok, val |-> val]
      /\ crash' = "none"
  BY TopGood DEF Returns
<1>2. ret' # NoRet /\ ret'.val \in {"empty", "typed"}
  BY <1>1 DEF NoRet, Ok
<1> QED
  BY <1>1, <1>2, TopGood DEF StepGood, GoodState, Idle

LEMMA PanicGood ==
  ASSUME IInv, stack # <<>>, ret = NoRet, crash = "none", NEW reason, reason # "none",
         NEW t \in Tree, DOMAIN store.tree.actors \subseteq DOMAIN t.actors,
         Panic(reason, t), base' = base
  PROVE  StepGood
<1>1. /\ store' = [store EXCEPT !.tree = t]
      /\ crash' = reason
      /\ UNCHANGED <<stack, ret>>
  BY DEF Panic
<1>2. store' \in Store /\ store'.tree = t
  BY <1>1, TopGood DEF GoodStore, Store
<1>3. Ordered(stack, store.tree, base, topLevel.originator)
  BY DEF IInv, GoodState
<1>4. Torn(store', stack', base', topLevel.originator)
  BY <1>1, <1>2, <1>3 DEF Torn
<1> QED
  BY <1>1, <1>4 DEF StepGood, GoodState, Idle

\* The panics that write nothing.
LEMMA PlainPanicGood ==
  ASSUME IInv, stack # <<>>, ret = NoRet, crash = "none", NEW reason, reason # "none",
         Panic(reason, store.tree), base' = base
  PROVE  StepGood
  BY TopGood, PanicGood DEF GoodStore, GoodTree

\* A step that leaves the store alone and changes what the innermost frame records.
LEMMA SetTopGood ==
  ASSUME IInv, stack # <<>>, crash = "none", NEW frame \in Frame, frame.prior = Top.prior,
         frame.to = Top.to, SetTop(frame), ret' = ret, crash' = crash, base' = base,
         NEW t, GoodTree(t), L!Grows(store.tree, t, topLevel.originator),
         store' = [store EXCEPT !.tree = t]
  PROVE  StepGood
<1>1. Ordered(stack, store.tree, base, topLevel.originator) /\ crash = "none"
  BY TopGood DEF IInv, GoodState
<1>2. GoodStore(store', topLevel.originator) /\ store'.tree = t
  BY TopGood, LaterStoreGood
<1>3. Ordered(stack, t, base, topLevel.originator)
  BY <1>1, OrderedLater
<1>4. stack' = Append(Front(stack), frame)
  BY TopGood DEF SetTop
<1>5. Ordered(stack', t, base, topLevel.originator)
  BY <1>3, <1>4, OrderedSetTop DEF Top
<1>6. stack' # <<>>
  <2>1. Front(stack) \in Seq(Frame)
    BY <1>1, FrontIsPrefix DEF Ordered
  <2> QED
    BY <1>4, <2>1
<1> QED
  BY <1>1, <1>2, <1>5, <1>6 DEF StepGood, GoodState, IInv, Idle

\* The same with the stack untouched.
LEMMA SetTreeGood ==
  ASSUME IInv, stack # <<>>, crash = "none", stack' = stack, ret' = ret, crash' = crash, base' = base,
         NEW t, GoodTree(t), L!Grows(store.tree, t, topLevel.originator),
         store' = [store EXCEPT !.tree = t]
  PROVE  StepGood
<1>1. Ordered(stack, store.tree, base, topLevel.originator) /\ crash = "none"
  BY TopGood DEF IInv, GoodState
<1>2. GoodStore(store', topLevel.originator) /\ store'.tree = t
  BY TopGood, LaterStoreGood
<1>3. Ordered(stack, t, base, topLevel.originator)
  BY <1>1, OrderedLater
<1> QED
  BY <1>1, <1>2, <1>3 DEF StepGood, GoodState, IInv, Idle

LEMMA SameGood ==
  ASSUME IInv, stack # <<>>, crash = "none", UNCHANGED <<store, stack, crash, base>>,
         ret' \in {NoRet, ret}
  PROVE  StepGood
  BY TopGood DEF IInv, StepGood, GoodState, Idle

\* The records a store holds.
LEMMA StoredActor ==
  ASSUME NEW t, GoodTree(t), NEW id \in DOMAIN t.actors
  PROVE  t.actors[id].head \in Heads
  BY TreeDef DEF GoodTree, IsTree, Actor

\* One step per runtime call of user code.
LEMMA SendGood ==
  ASSUME IInv, Send
  PROVE  StepGood
<1>1. /\ stack # <<>> /\ crash = "none" /\ CodeOf(Top) \in UserCodes /\ base' = base
      /\ \/ Abort("SysErrorIllegalActor")
         \/ \E m \in Messages, out \in {"discard", "typed"} :
              Invoke(m, Top.to, Top.balance, store,
                     Append(Below, [Top EXCEPT !.out = out]))
  BY DEF Send, UserCalls, Running
<1>2. CASE Abort("SysErrorIllegalActor")
  BY <1>1, <1>2, AbortGood
<1>3. ASSUME NEW m \in Messages, NEW out \in {"discard", "typed"},
             Invoke(m, Top.to, Top.balance, store,
                    Append(Below, [Top EXCEPT !.out = out]))
      PROVE  StepGood
  <2> DEFINE frame == [Top EXCEPT !.out = out]
             below == Append(Below, frame)
  <2>1. frame \in Frame /\ frame.prior = Top.prior /\ frame.to = Top.to
    BY <1>1, TopGood DEF Frame
  <2> HIDE DEF frame
  <2>2. Ordered(below, store.tree, base, topLevel.originator)
    BY <1>1, <2>1, TopGood, OrderedSetTop DEF Top, IInv, GoodState
  <2>6. below # <<>>
    BY <1>1, <2>1, TopGood DEF Ordered
  <2>3. /\ Found(store.tree, Top.to)
        /\ GoodStore(store, topLevel.originator)
        /\ store.tree.actors[Top.to].code # "account"
    BY <1>1, TopGood, CodesAssumption DEF CodeOf
  <2>4. m.to \in Address /\ m.value \in Int /\ m.method \in Nat
    BY MessagesAssumption
  <2>5. Invoke(m, Top.to, Top.balance, store, below)
    BY <1>3 DEF frame
  <2> HIDE DEF below
  <2> QED
    BY <1>1, <2>2, <2>3, <2>4, <2>5, <2>6, InvokeGood DEF StepGood
<1> QED
  BY <1>1, <1>2, <1>3

LEMMA SendReturnsGood ==
  ASSUME IInv, SendReturns
  PROVE  StepGood
<1>1. /\ stack # <<>> /\ crash = "none" /\ base' = base
      /\ \/ Abort("ErrSerialization")
         \/ ret' = NoRet /\ UNCHANGED <<store, stack, crash>>
  BY DEF SendReturns, IInv, GoodState
<1> QED
  BY <1>1, AbortGood, SameGood

LEMMA ValidateGood ==
  ASSUME IInv, ValidateImmediateCaller
  PROVE  StepGood
<1> DEFINE frame == [Top EXCEPT !.validated = TRUE]
<1>1. /\ stack # <<>> /\ ret = NoRet /\ crash = "none" /\ base' = base
      /\ \/ Panic("caller has been double validated", store.tree)
         \/ Abort("ErrForbidden")
         \/ SetTop(frame) /\ UNCHANGED <<store, ret, crash>>
  BY DEF ValidateImmediateCaller, UserCalls, Running
<1>2. CASE SetTop(frame) /\ UNCHANGED <<store, ret, crash>>
  <2>1. frame \in Frame /\ frame.prior = Top.prior /\ frame.to = Top.to
    BY <1>1, TopGood DEF Frame
  <2> HIDE DEF frame
  <2>2. /\ GoodTree(store.tree)
        /\ L!Grows(store.tree, store.tree, topLevel.originator)
        /\ store' = [store EXCEPT !.tree = store.tree]
    BY <1>1, <1>2, TopGood, GrowsReflexive DEF GoodStore, GoodTree, Store
  <2> QED
    BY <1>1, <1>2, <2>1, <2>2, SetTopGood
<1> QED
  BY <1>1, <1>2, AbortGood, PlainPanicGood

LEMMA StateCreateGood ==
  ASSUME IInv, StateCreate
  PROVE  StepGood
<1>1. /\ stack # <<>> /\ ret = NoRet /\ crash = "none" /\ base' = base
      /\ \/ Abort("SysErrorIllegalActor")
         \/ /\ \E obj \in Objects :
                 store' = [store EXCEPT !.tree = SetHead(store.tree, Top.to, obj)]
            /\ UNCHANGED <<stack, ret, crash>>
  BY DEF StateCreate, UserCalls, Running
<1>2. ASSUME NEW obj \in Objects,
             store' = [store EXCEPT !.tree = SetHead(store.tree, Top.to, obj)],
             UNCHANGED <<stack, ret, crash>>
      PROVE  StepGood
  <2> DEFINE t == SetHead(store.tree, Top.to, obj)
  <2>1. GoodTree(t) /\ L!Grows(store.tree, t, topLevel.originator)
    BY <1>1, TopGood, SetHeadGrows DEF GoodStore, Found, Heads
  <2> HIDE DEF t
  <2>2. store' = [store EXCEPT !.tree = t]
    BY <1>2 DEF t
  <2> QED
    BY <1>1, <1>2, <2>1, <2>2, SetTreeGood
<1> QED
  BY <1>1, <1>2, AbortGood

LEMMA StateReadonlyGood ==
  ASSUME IInv, StateReadonly
  PROVE  StepGood
<1>1. /\ stack # <<>> /\ ret = NoRet /\ crash = "none" /\ base' = base
      /\ Panic("failed to load state", store.tree) \/ UNCHANGED <<store, stack, ret, crash>>
  BY DEF StateReadonly, LoadStatePanics, UserCalls, Running
<1> QED
  BY <1>1, PlainPanicGood, SameGood

LEMMA BeginTransactionGood ==
  ASSUME IInv, BeginTransaction
  PROVE  StepGood
<1> DEFINE open == [state |-> store.tree.actors[Top.to].head, pierced |-> FALSE]
           frame == [Top EXCEPT !.tx = Append(@, open), !.sideEffects = FALSE]
<1>1. /\ stack # <<>> /\ ret = NoRet /\ crash = "none" /\ base' = base
      /\ \/ Panic("failed to load state", store.tree)
         \/ SetTop(frame) /\ UNCHANGED <<store, ret, crash>>
  BY DEF BeginTransaction, LoadStatePanics, UserCalls, Running
<1>2. CASE SetTop(frame) /\ UNCHANGED <<store, ret, crash>>
  <2>1. store.tree.actors[Top.to].head \in Heads
    BY <1>1, TopGood, StoredActor DEF GoodStore, Found
  <2>2. Append(Top.tx, open) \in Seq([state : Heads, pierced : BOOLEAN])
    <3>1. Top.tx \in Seq([state : Heads, pierced : BOOLEAN])
      BY <1>1, TopGood DEF Frame
    <3>2. open \in [state : Heads, pierced : BOOLEAN]
      BY <2>1
    <3> HIDE DEF open
    <3> QED
      BY <3>1, <3>2
  <2> HIDE DEF open
  <2>3. frame \in Frame /\ frame.prior = Top.prior /\ frame.to = Top.to
    BY <1>1, <2>2, TopGood DEF Frame
  <2> HIDE DEF frame
  <2>4. /\ GoodTree(store.tree)
        /\ L!Grows(store.tree, store.tree, topLevel.originator)
        /\ store' = [store EXCEPT !.tree = store.tree]
    BY <1>1, <1>2, TopGood, GrowsReflexive DEF GoodStore, GoodTree, Store
  <2> QED
    BY <1>1, <1>2, <2>3, <2>4, SetTopGood
<1> QED
  BY <1>1, <1>2, PlainPanicGood

\* The transactions still open when the innermost ends.
LEMMA PiercedTx ==
  ASSUME NEW tx \in Seq([state : Heads, pierced : BOOLEAN]), tx # <<>>
  PROVE  /\ Pierced(tx) \in Seq([state : Heads, pierced : BOOLEAN])
         /\ \A k \in DOMAIN Pierced(tx) : Pierced(tx)[k].pierced
<1> DEFINE Open == [state : Heads, pierced : BOOLEAN]
           n == Len(tx) - 1
           f == [k \in 1..n |-> [tx[k] EXCEPT !.pierced = TRUE]]
<1>1. Len(tx) \in Nat /\ Len(tx) # 0 /\ \A k \in 1..Len(tx) : tx[k] \in Open
  BY LenProperties, EmptySeq, ElementOfSeq
<1>2. n \in Nat /\ \A k \in 1..n : tx[k] \in Open
  BY <1>1
<1>3. Pierced(tx) = f
  BY DEF Pierced
<1> HIDE DEF n
<1>4. \A k \in 1..n : /\ [tx[k] EXCEPT !.pierced = TRUE] \in Open
                      /\ [tx[k] EXCEPT !.pierced = TRUE].pierced
  BY <1>2
<1>5. DOMAIN f = 1..n /\ \A k \in 1..n : f[k] \in Open /\ f[k].pierced
  BY <1>4
<1>6. f \in [1..n -> Open]
  BY <1>4
<1> HIDE DEF f, Open
<1>7. f \in Seq(Open)
  BY <1>2, <1>6, SeqDef
<1> QED
  BY <1>3, <1>5, <1>7 DEF Open

LEMMA EndTransactionGood ==
  ASSUME IInv, EndTransaction
  PROVE  StepGood
<1> DEFINE frame == [Top EXCEPT !.tx = Pierced(@), !.sideEffects = TRUE]
<1>1. /\ stack # <<>> /\ crash = "none" /\ base' = base /\ Top.tx # <<>>
      /\ SetTop(frame) /\ UNCHANGED <<ret, crash>>
  BY DEF EndTransaction, Running
<1>2. PICK obj \in Objects :
        store' = [store EXCEPT !.tree = SetHead(store.tree, Top.to, obj)]
  BY DEF EndTransaction
<1>3. Pierced(Top.tx) \in Seq([state : Heads, pierced : BOOLEAN])
  BY <1>1, TopGood, PiercedTx DEF Frame
<1>4. frame \in Frame /\ frame.prior = Top.prior /\ frame.to = Top.to
  BY <1>1, <1>3, TopGood DEF Frame
<1> HIDE DEF frame
<1> DEFINE t == SetHead(store.tree, Top.to, obj)
<1>5. GoodTree(t) /\ L!Grows(store.tree, t, topLevel.originator)
  BY <1>1, TopGood, SetHeadGrows DEF GoodStore, Found, Heads
<1>6. store' = [store EXCEPT !.tree = t]
  BY <1>2
<1> HIDE DEF t
<1> QED
  BY <1>1, <1>4, <1>5, <1>6, SetTopGood

\* The debit and the credit of DeleteActor are writes of actors that exist.
LEMMA MoveTyped ==
  ASSUME NEW t \in Tree, NEW id \in DOMAIN t.actors, NEW move,
         \/ \E amount \in Nat : amount <= t.actors[id].balance
                               /\ move = Debit(t, id, amount)
         \/ \E amount \in Nat : move = Credit(t, id, amount)
  PROVE  move \in Tree /\ DOMAIN move.actors = DOMAIN t.actors
<1>1. id \in Nat /\ t.actors[id] \in Actor
  BY TreeDef DEF IsTree
<1>2. CASE \E amount \in Nat : amount <= t.actors[id].balance
                              /\ move = Debit(t, id, amount)
  <2>1. PICK amount \in Nat : /\ amount <= t.actors[id].balance
                              /\ move = Debit(t, id, amount)
    BY <1>2
  <2> DEFINE a == [t.actors[id] EXCEPT !.balance = @ - amount]
  <2>2. a \in Actor /\ move = SetActor(t, id, a)
    BY <1>1, <2>1 DEF Actor, Debit
  <2> HIDE DEF a
  <2>3. move \in Tree /\ DOMAIN move.actors = DOMAIN t.actors \cup {id}
    BY <1>1, <2>2, SetActorTree
  <2> QED
    BY <2>3
<1>3. CASE \E amount \in Nat : move = Credit(t, id, amount)
  <2>1. PICK amount \in Nat : move = Credit(t, id, amount)
    BY <1>3
  <2> DEFINE a == [t.actors[id] EXCEPT !.balance = @ + amount]
  <2>2. a \in Actor /\ move = SetActor(t, id, a)
    BY <1>1, <2>1 DEF Actor, Credit
  <2> HIDE DEF a
  <2>3. move \in Tree /\ DOMAIN move.actors = DOMAIN t.actors \cup {id}
    BY <1>1, <2>2, SetActorTree
  <2> QED
    BY <2>3
<1> QED
  BY <1>2, <1>3

LEMMA DeleteActorGood ==
  ASSUME IInv, DeleteActor
  PROVE  StepGood
<1> DEFINE tree == store.tree
           amount == tree.actors[Top.to].balance
           debited == Debit(tree, Top.to, amount)
<1>1. stack # <<>> /\ ret = NoRet /\ crash = "none" /\ base' = base
  BY DEF DeleteActor, UserCalls, Running
<1>2. PICK id :
        \/ Panic("ActorStore.DeleteActor not implemented", tree)
        \/ Panic("address must use ID protocol", debited)
        \/ Panic("unreachable: credit account not found", debited)
        \/ /\ Found(debited, id)
           /\ Panic("ActorStore.DeleteActor not implemented",
                    Credit(debited, id, amount))
  BY DEF DeleteActor
<1>3. tree \in Tree /\ Top.to \in DOMAIN tree.actors
  BY <1>1, TopGood DEF GoodStore, GoodTree, Found
<1>4. amount \in Nat
  BY <1>3, TreeDef DEF IsTree, Actor
<1> HIDE DEF tree
<1>5. debited \in Tree /\ DOMAIN debited.actors = DOMAIN tree.actors
  <2>1. amount <= tree.actors[Top.to].balance
    BY <1>4
  <2> QED
    BY <1>3, <1>4, <2>1, MoveTyped
<1> HIDE DEF amount, debited
<1>6. ASSUME Found(debited, id)
      PROVE  /\ Credit(debited, id, amount) \in Tree
             /\ DOMAIN Credit(debited, id, amount).actors = DOMAIN tree.actors
  BY <1>4, <1>5, <1>6, MoveTyped DEF Found
<1> QED
  BY <1>1, <1>2, <1>3, <1>5, <1>6, PanicGood DEF tree

\* A panic takes one frame away.
LEMMA UnwindGood ==
  ASSUME IInv, Unwind
  PROVE  StepGood /\ ~Idle
<1> DEFINE payer == topLevel.originator
<1>1. /\ stack # <<>> /\ crash # "none"
      /\ Repanic(crash, Top.prior, Below) /\ base' = base
  BY DEF Unwind, Unwinding
<1>2. PICK t : Ordered(stack, t, base, payer)
  BY <1>1 DEF IInv, GoodState, Torn
<1>3. Below = Front(stack)
  BY DEF Below, Front
<1>4. Ordered(Below, Top.prior, base, payer)
  BY <1>1, <1>2, <1>3, OrderedFront DEF Top
<1>5. Below = <<>> => Top.prior = base
  <2> SUFFICES ASSUME Below = <<>> PROVE Top.prior = base
    OBVIOUS
  <2>1. Len(Front(stack)) = Len(stack) - 1 /\ Len(stack) \in Nat
    BY <1>1, <1>2, FrontIsPrefix DEF Ordered
  <2>2. Len(stack) = 1
    BY <1>3, <2>1
  <2> QED
    BY <1>1, <1>2, <2>2 DEF Ordered, Top
<1> QED
  BY <1>1, <1>4, <1>5, RepanicGood DEF StepGood, Idle

\* The methods of the init actor.
LEMMA ExecGood ==
  ASSUME IInv, Exec
  PROVE  StepGood
<1> DEFINE addr == NewActorAddress
           id == store.tree.nextID
           created(code) == CreateActor(MapAddressToNewID(store.tree, addr), code, id)
           m == [to |-> IDAddress(id), value |-> Top.value,
                 method |-> MethodConstructor, params |-> "decodes"]
           frame == [Top EXCEPT !.out = "discard"]
<1>1. stack # <<>> /\ crash = "none" /\ CodeOf(Top) = "init" /\ base' = base
  BY DEF Exec, Running
<1>2. \/ \E code : Abort(code)
      \/ \E code \in Codes :
           Invoke(m, Top.to, Top.balance,
                  [store EXCEPT !.tree = created(code)], Append(Below, frame))
  BY DEF Exec
<1>3. CASE \E code : Abort(code)
  BY <1>1, <1>3, AbortGood
<1>4. ASSUME NEW code \in Codes,
             Invoke(m, Top.to, Top.balance,
                    [store EXCEPT !.tree = created(code)], Append(Below, frame))
      PROVE  StepGood
  <2>1. addr \in Address /\ addr.protocol # "KEY"
    BY DEF NewActorAddress, ActorAddress, Address, IInv
  <2> HIDE DEF addr
  <2>2. GoodTree(store.tree) /\ id \in Nat
    BY <1>1, TopGood DEF GoodStore, GoodTree, Tree
  <2> DEFINE u == created(code)
             st == [store EXCEPT !.tree = u]
             below == Append(Below, frame)
  <2>3. /\ GoodTree(u)
        /\ L!Grows(store.tree, u, topLevel.originator)
    BY <2>1, <2>2, CreateGrows
  <2>4. m.to \in Address /\ m.value \in Int /\ m.method \in Nat
    BY <1>1, <2>2, TopGood DEF IDAddress, Address, MethodConstructor, Frame
  <2>5. Invoke(m, Top.to, Top.balance, st, below)
    BY <1>4
  <2> HIDE DEF u, m
  <2>6. GoodStore(st, topLevel.originator) /\ st.tree = u
    BY <1>1, <2>3, TopGood, LaterStoreGood
  <2> HIDE DEF st
  <2>7. frame \in Frame /\ frame.prior = Top.prior /\ frame.to = Top.to
    BY <1>1, TopGood DEF Frame
  <2> HIDE DEF frame
  <2>8. Ordered(below, store.tree, base, topLevel.originator)
    BY <1>1, <2>7, TopGood, OrderedSetTop DEF Top, IInv, GoodState
  <2>11. below # <<>>
    <3>1. Below \in Seq(Frame)
      BY <1>1, TopGood DEF Ordered
    <3> QED
      BY <2>7, <3>1
  <2> HIDE DEF below
  <2>9. Ordered(below, st.tree, base', topLevel.originator)
    BY <1>1, <2>3, <2>6, <2>8, OrderedLater
  <2>10. Found(st.tree, Top.to) /\ st.tree.actors[Top.to].code # "account"
    BY <1>1, <2>3, <2>6, TopGood DEF L!Grows, L!Extends, L!ActorsKept, Found, CodeOf
  <2> QED
    BY <1>1, <2>4, <2>5, <2>6, <2>9, <2>10, <2>11, InvokeGood DEF StepGood
<1> QED
  BY <1>2, <1>3, <1>4

-----------------------------------------------------------------------------
(* The steps of ApplyMessage.                                              *)

\* Accepting a message: the nonce of an existing actor goes up by one.
LEMMA BumpGood ==
  ASSUME NEW t, GoodTree(t), NEW id \in DOMAIN t.actors
  PROVE  /\ GoodTree(BumpCallSeqNum(t, id))
         /\ BumpCallSeqNum(t, id) = [t EXCEPT !.actors[id].callSeqNum = @ + 1]
         /\ DOMAIN BumpCallSeqNum(t, id).actors = DOMAIN t.actors
         /\ BumpCallSeqNum(t, id).actors[id].code = t.actors[id].code
         /\ L!FundsKept(t, BumpCallSeqNum(t, id))
<1> DEFINE a == [t.actors[id] EXCEPT !.callSeqNum = @ + 1]
           u == BumpCallSeqNum(t, id)
<1>1. /\ t \in Tree /\ Consistent(t)
      /\ t.actors \in [DOMAIN t.actors -> Actor]
      /\ id \in Nat
  BY TreeDef DEF GoodTree, IsTree
<1>2. a \in Actor /\ a.code = t.actors[id].code /\ a.balance = t.actors[id].balance
  BY <1>1 DEF Actor
<1>3. u = SetActor(t, id, a)
  BY DEF BumpCallSeqNum
<1>4. u = [t EXCEPT !.actors[id].callSeqNum = @ + 1]
  <2>1. DOMAIN t.actors \cup {id} = DOMAIN t.actors
    OBVIOUS
  <2>2. [x \in DOMAIN t.actors \cup {id} |-> IF x = id THEN a ELSE t.actors[x]]
          = [t.actors EXCEPT ![id] = a]
    BY <1>1, <2>1
  <2>3. SetActor(t, id, a) = [t EXCEPT !.actors = [t.actors EXCEPT ![id] = a]]
    BY <2>2 DEF SetActor
  <2> QED
    BY <1>3, <2>3
<1> HIDE DEF a, u
<1>5. /\ u \in Tree
      /\ u.addressMap = t.addressMap
      /\ u.nextID = t.nextID
      /\ DOMAIN u.actors = DOMAIN t.actors
      /\ u.actors[id] = a
      /\ \A x \in DOMAIN t.actors : u.actors[x] = IF x = id THEN a ELSE t.actors[x]
  <2>1. DOMAIN t.actors \cup {id} = DOMAIN t.actors
    OBVIOUS
  <2>2. /\ u \in Tree
        /\ u.addressMap = t.addressMap
        /\ u.nextID = t.nextID
        /\ DOMAIN u.actors = DOMAIN t.actors \cup {id}
        /\ \A x \in DOMAIN t.actors \cup {id} :
             u.actors[x] = IF x = id THEN a ELSE t.actors[x]
    <3>1. t \in Tree /\ id \in Nat /\ a \in Actor /\ u = SetActor(t, id, a)
      BY <1>1, <1>2, <1>3
    <3> QED
      BY <3>1, SetActorTree
  <2> QED
    BY <2>1, <2>2
<1>6. GoodTree(u)
  BY <1>1, <1>5 DEF GoodTree, Consistent, Found
<1>7. L!FundsKept(t, u)
  BY <1>2, <1>5, SameCoins
<1> QED
  BY <1>2, <1>4, <1>5, <1>6, <1>7 DEF u

\* What ApplyMessage accepts, in terms of Ledger, and the state it leads to.
LEMMA ApplyGood ==
  ASSUME IInv, ApplyMessage
  PROVE  /\ IInv'
         /\ ~Idle'
         /\ Idle
         /\ topLevel'.originator \in DOMAIN base.actors
         /\ base' = [base EXCEPT !.actors[topLevel'.originator].callSeqNum = @ + 1]
         /\ L!FundsKept(base, base')
         /\ UNCHANGED receipt
<1>1. /\ Idle /\ applied' = applied + 1 /\ calls' = 0 /\ UNCHANGED receipt
  BY DEF ApplyMessage
<1>2. PICK from \in Senders, m \in Messages :
        /\ KnownSender(from)
        /\ LET fromID == NormalizeAddress(store.tree, from)
               fromActor == store.tree.actors[fromID]
               bumped == [store EXCEPT !.tree = BumpCallSeqNum(store.tree, fromID)]
           IN /\ base' = bumped.tree
              /\ topLevel' = [originator |-> fromID, callSeq |-> 0,
                              addressCount |-> 0]
              /\ Invoke(m, fromID, fromActor.balance, Checkpoint(bumped), <<>>)
  BY DEF ApplyMessage
<1> DEFINE fromID == NormalizeAddress(store.tree, from)
           u == BumpCallSeqNum(store.tree, fromID)
           st == Checkpoint([store EXCEPT !.tree = u])
<1>3. /\ fromID \in DOMAIN store.tree.actors
      /\ topLevel' = [originator |-> fromID, callSeq |-> 0, addressCount |-> 0]
  BY <1>2 DEF KnownSender, Found
<1>4. /\ GoodTree(store.tree) /\ store \in Store
      /\ base = store.tree
      /\ crash = "none"
  BY <1>1 DEF IInv, GoodState, GoodStore, Idle
<1>5. fromID \in Nat
  BY <1>3, <1>4, TreeDef DEF GoodTree, IsTree
<1> HIDE DEF fromID
<1>6. /\ GoodTree(u)
      /\ u = [store.tree EXCEPT !.actors[fromID].callSeqNum = @ + 1]
      /\ DOMAIN u.actors = DOMAIN store.tree.actors
      /\ L!FundsKept(store.tree, u)
  BY <1>3, <1>4, BumpGood
<1>7. base' = u /\ Invoke(m, fromID, store.tree.actors[fromID].balance, st, <<>>)
  <2>1. /\ base' = [store EXCEPT !.tree = u].tree
        /\ Invoke(m, fromID, store.tree.actors[fromID].balance, st, <<>>)
    BY <1>2 DEF fromID
  <2> HIDE DEF u
  <2> QED
    BY <1>4, <2>1 DEF Store
<1> HIDE DEF u
<1>8. GoodStore(st, fromID) /\ st.tree = u
  <2>1. st = [tree |-> u, stateRoot |-> u]
    <3>1. store = [tree |-> store.tree, stateRoot |-> store.stateRoot]
      BY <1>4 DEF Store
    <3>2. [store EXCEPT !.tree = u] = [tree |-> u, stateRoot |-> store.stateRoot]
      BY <3>1
    <3>3. \A r : Checkpoint([tree |-> u, stateRoot |-> r]) = [tree |-> u, stateRoot |-> u]
      BY DEF Checkpoint
    <3>4. st = Checkpoint([tree |-> u, stateRoot |-> store.stateRoot])
      BY <3>2
    <3> QED
      BY <3>3, <3>4
  <2>2. u \in Tree
    BY <1>6 DEF GoodTree
  <2>3. L!Grows(u, u, fromID)
    BY <2>2, GrowsReflexive
  <2> HIDE DEF st
  <2> QED
    BY <1>6, <2>1, <2>2, <2>3 DEF GoodStore, Store
<1> HIDE DEF st
<1>9. Ordered(<<>>, st.tree, base', fromID) /\ st.tree = base'
  BY <1>6, <1>7, <1>8, EmptyOrdered
<1>10. m.to \in Address /\ m.value \in Int /\ m.method \in Nat
  BY MessagesAssumption
<1>11. Found(st.tree, fromID)
  BY <1>3, <1>6, <1>8 DEF Found
<1>12. GoodState(store', stack', ret', crash', base', fromID) /\ ~Idle'
  BY <1>4, <1>7, <1>8, <1>9, <1>10, <1>11, InvokeGood
<1>13. IInv'
  BY <1>1, <1>3, <1>5, <1>12 DEF IInv
<1> QED
  BY <1>1, <1>3, <1>4, <1>6, <1>7, <1>12, <1>13

\* Finishing it: the tree base grew into, or base itself.
LEMMA FinishGood ==
  ASSUME IInv, FinishMessage
  PROVE  /\ IInv'
         /\ ~Idle
         /\ Idle'
         /\ receipt' = ret.code
         /\ receipt' = Ok => L!Grows(base, base', topLevel.originator)
         /\ receipt' # Ok => base' = base
<1>1. /\ stack = <<>> /\ ret # NoRet
      /\ receipt' = ret.code
      /\ store' = IF ret.code # Ok THEN Rollback(base) ELSE store
      /\ base' = store'.tree
      /\ ret' = NoRet /\ stack' = stack
      /\ UNCHANGED <<topLevel, crash, applied, calls>>
  BY DEF FinishMessage
<1>2. /\ GoodStore(store, topLevel.originator)
      /\ GoodTree(base)
      /\ L!Grows(base, store.tree, topLevel.originator)
      /\ crash = "none"
  BY <1>1 DEF IInv, GoodState, Ordered
<1>3. /\ GoodStore(store', topLevel.originator)
      /\ receipt' = Ok => store' = store
      /\ receipt' # Ok => store'.tree = base
  BY <1>1, <1>2, RollbackGood
<1>4. Ordered(<<>>, store'.tree, base', topLevel.originator)
  BY <1>1, <1>3, EmptyOrdered DEF GoodStore
<1>5. IInv'
  BY <1>1, <1>2, <1>3, <1>4 DEF IInv, GoodState
<1> QED
  BY <1>1, <1>2, <1>3, <1>5 DEF Idle

-----------------------------------------------------------------------------
(* The theorems.                                                           *)

\* The steps inside a message.
Inside ==
  \/ Send \/ SendReturns
  \/ ValidateImmediateCaller
  \/ StateCreate \/ StateReadonly \/ BeginTransaction \/ EndTransaction
  \/ DeleteActor
  \/ Return \/ UserAbort
  \/ AccountMethod \/ InitConstructor \/ Exec \/ ExecReturns
  \/ Unwind

LEMMA InsideGood ==
  ASSUME IInv, Inside
  PROVE  /\ IInv'
         /\ ~Idle
         /\ ~Idle'
         /\ UNCHANGED <<base, topLevel, receipt>>
<1>1. /\ ~Idle
      /\ UNCHANGED <<base, topLevel, receipt, applied>>
      /\ calls' = calls \/ calls' = calls + 1
  BY DEF Inside, Send, SendReturns, ValidateImmediateCaller, StateCreate, StateReadonly,
         BeginTransaction, EndTransaction, DeleteActor, Return, UserAbort,
         AccountMethod, InitConstructor, Exec, ExecReturns, Unwind, Unwinding, UserCalls, Running,
         Idle
<1>2. StepGood
  <2>1. CASE Send
    BY <2>1, SendGood
  <2>2. CASE SendReturns
    BY <2>2, SendReturnsGood
  <2>3. CASE ValidateImmediateCaller
    BY <2>3, ValidateGood
  <2>4. CASE StateCreate
    BY <2>4, StateCreateGood
  <2>5. CASE StateReadonly
    BY <2>5, StateReadonlyGood
  <2>6. CASE BeginTransaction
    BY <2>6, BeginTransactionGood
  <2>7. CASE EndTransaction
    BY <2>7, EndTransactionGood
  <2>8. CASE DeleteActor
    BY <2>8, DeleteActorGood
  <2>9. CASE Return
    <3>1. /\ stack # <<>> /\ crash = "none" /\ base' = base
          /\ \E val \in {"empty", "typed"} : Returns(val)
      BY <2>9 DEF Return, Running
    <3> QED
      BY <3>1, ReturnsGood
  <2>10. CASE UserAbort
    <3>1. stack # <<>> /\ crash = "none" /\ base' = base /\ \E code : Abort(code)
      BY <2>10 DEF UserAbort, Running
    <3> QED
      BY <3>1, AbortGood
  <2>11. CASE AccountMethod
    <3>1. /\ stack # <<>> /\ crash = "none" /\ base' = base
          /\ Abort("ErrForbidden") \/ Returns("typed")
      BY <2>11 DEF AccountMethod, Running
    <3> QED
      BY <3>1, AbortGood, ReturnsGood
  <2>12. CASE InitConstructor
    <3>1. stack # <<>> /\ crash = "none" /\ base' = base /\ Abort("ErrForbidden")
      BY <2>12 DEF InitConstructor, Running
    <3> QED
      BY <3>1, AbortGood
  <2>13. CASE Exec
    BY <2>13, ExecGood
  <2>14. CASE ExecReturns
    <3>1. /\ stack # <<>> /\ crash = "none" /\ base' = base
          /\ Abort(ret.code) \/ Returns("typed")
      BY <2>14 DEF ExecReturns, IInv, GoodState
    <3> QED
      BY <3>1, AbortGood, ReturnsGood
  <2>15. CASE Unwind
    BY <2>15, UnwindGood
  <2> QED
    BY <2>1, <2>2, <2>3, <2>4, <2>5, <2>6, <2>7, <2>8, <2>9, <2>10, <2>11,
       <2>12, <2>13, <2>14, <2>15 DEF Inside
<1> QED
  BY <1>1, <1>2 DEF IInv, StepGood

LEMMA InitGood ==
  ASSUME Init
  PROVE  IInv /\ Idle
<1>1. /\ store = Rollback(Genesis)
      /\ stack = <<>> /\ ret = NoRet /\ base = Genesis /\ crash = "none"
      /\ applied = 0 /\ calls = 0
      /\ topLevel = [originator |-> 0, callSeq |-> 0, addressCount |-> 0]
  BY DEF Init, Rollback
<1>2. GoodTree(Genesis)
  BY GenesisAssumption, TreeDef DEF GoodTree
<1>3. /\ GoodStore(store, topLevel.originator)
      /\ store.tree = Genesis
      /\ Ordered(<<>>, Genesis, Genesis, topLevel.originator)
  BY <1>1, <1>2, RollbackGood, EmptyOrdered
<1> QED
  BY <1>1, <1>3 DEF IInv, GoodState, Idle

LEMMA NextGood ==
  ASSUME IInv, [Next]_vars
  PROVE  IInv'
<1>1. CASE RejectMessage
  BY <1>1 DEF RejectMessage, IInv
<1>2. CASE ApplyMessage
  BY <1>2, ApplyGood
<1>3. CASE FinishMessage
  BY <1>3, FinishGood
<1>4. CASE Inside
  BY <1>4, InsideGood
<1>5. CASE UNCHANGED vars
  BY <1>5 DEF vars, IInv
<1> QED
  BY <1>1, <1>2, <1>3, <1>4, <1>5 DEF Next, Inside, Terminated

\* IInv is an invariant: every tree that is or may again become current is well
\* formed and consistent, and the snapshots are in order (context.go, vm.go).
THEOREM Invariance == Spec => []IInv
<1> QED
  BY InitGood, NextGood, PTL DEF Spec

\* What holds of the frames also while a panic takes them away.
LEMMA IInvFrames ==
  ASSUME IInv
  PROVE  /\ stack \in Seq(Frame)
         /\ DOMAIN stack = 1..Len(stack)
         /\ Len(stack) \in Nat
         /\ \A i \in 1..Len(stack) :
              /\ stack[i] \in Frame
              /\ GoodTree(stack[i].prior)
              /\ Found(store.tree, stack[i].to)
         /\ store \in Store
         /\ GoodTree(base)
         /\ \E t : Ordered(stack, t, base, topLevel.originator)
<1>1. PICK t : /\ Ordered(stack, t, base, topLevel.originator)
              /\ DOMAIN t.actors \subseteq DOMAIN store.tree.actors
              /\ store \in Store
  <2>1. CASE Unwinding
    BY <2>1 DEF Unwinding, IInv, GoodState, Torn
  <2>2. CASE ~Unwinding
    BY <2>2 DEF Unwinding, IInv, GoodState, GoodStore
  <2> QED
    BY <2>1, <2>2
<1>2. /\ stack \in Seq(Frame)
      /\ \A i \in 1..Len(stack) :
           GoodTree(stack[i].prior) /\ Found(store.tree, stack[i].to)
      /\ store \in Store /\ GoodTree(base)
  BY <1>1 DEF Ordered, Found
<1> QED
  BY <1>1, <1>2

\* The current tree, but while a panic is on its way out.
LEMMA IInvTree ==
  ASSUME IInv, ~Unwinding
  PROVE  /\ GoodStore(store, topLevel.originator)
         /\ Ordered(stack, store.tree, base, topLevel.originator)
  BY DEF Unwinding, IInv, GoodState

\* Type correctness; in particular no balance, in the current tree or in any that
\* may be rolled back to, is ever negative (transfer, context.go:266-309).
THEOREM TypeCorrect == Spec => []TypeOK
<1>1. ASSUME IInv PROVE TypeOK
  <2>1. /\ store \in Store
        /\ GoodTree(base)
        /\ ret = NoRet \/ ret.val \in {"empty", "typed"}
    BY <1>1, IInvFrames DEF IInv, GoodState
  <2>2. store = [tree |-> store.tree, stateRoot |-> store.stateRoot]
    BY <2>1 DEF Store
  <2>3. IsTree(store.tree) /\ IsTree(store.stateRoot) /\ IsTree(base)
    BY <2>1, TreeDef DEF GoodTree, Store
  <2>4. /\ DOMAIN stack = 1..Len(stack) /\ Len(stack) \in Nat
        /\ \A i \in 1..Len(stack) : IsFrame(stack[i])
    BY <1>1, IInvFrames, FrameDef
  <2> QED
    BY <1>1, <2>1, <2>2, <2>3, <2>4 DEF TypeOK, IInv
<1> QED
  BY <1>1, Invariance, PTL

\* The init actor's address map and the actor map agree in every tree
\* (resolveTarget and CreateActor, context.go).
THEOREM InitStateStaysConsistent == Spec => []InitStateConsistent
<1>1. ASSUME IInv PROVE InitStateConsistent
  <2>1. ~Unwinding => GoodTree(store.tree) /\ GoodTree(store.stateRoot)
    BY <1>1, IInvTree DEF GoodStore
  <2> QED
    BY <1>1, <2>1, IInvFrames DEF InitStateConsistent, Trees, GoodTree
<1> QED
  BY <1>1, Invariance, PTL

\* Whatever frame aborts, the tree it rolls back to holds exactly what was done
\* before it was entered (invoke's deferred handler, context.go:116-139).
THEOREM SnapshotsStayInOrder == Spec => []SnapshotsInOrder
<1>1. ASSUME IInv PROVE SnapshotsInOrder
  <2>1. ~Unwinding => /\ Ordered(stack, store.tree, base, topLevel.originator)
                     /\ L!Grows(store.stateRoot, store.tree, topLevel.originator)
    BY <1>1, IInvTree DEF GoodStore
  <2>2. PICK t : Ordered(stack, t, base, topLevel.originator)
    BY <1>1, IInvFrames
  <2> QED
    BY <1>1, <2>1, <2>2, IInvFrames DEF SnapshotsInOrder, Ordered
<1> QED
  BY <1>1, Invariance, PTL

\* No roll back takes away the actor of a frame that is still running (the
\* "failed to find actor" panics of loadActor are unreachable, context.go:822).
THEOREM FramesKeepActors == Spec => []FramesHaveActors
<1>1. ASSUME IInv PROVE FramesHaveActors
  BY <1>1, IInvFrames DEF FramesHaveActors
<1> QED
  BY <1>1, Invariance, PTL

\* No message and no crash makes or destroys money, in the current tree or in any
\* that may be rolled back to (transfer, context.go:266-309; invoke's handler).
THEOREM FundsStayConserved == Spec => []FundsConserved
<1> DEFINE BaseFunds == TotalBalance(base) = TotalBalance(Genesis)
<1>1. Init => BaseFunds
  BY DEF Init
<1>2. ASSUME IInv, BaseFunds, [Next]_vars PROVE BaseFunds'
  <2>1. CASE RejectMessage
    BY <1>2, <2>1 DEF RejectMessage
  <2>2. CASE ApplyMessage
    BY <1>2, <2>2, ApplyGood DEF L!FundsKept
  <2>3. CASE FinishMessage
    <3>1. base' = base \/ L!Grows(base, base', topLevel.originator)
      BY <1>2, <2>3, FinishGood
    <3> QED
      BY <1>2, <3>1 DEF L!Grows, L!FundsKept
  <2>4. CASE Inside
    BY <1>2, <2>4, InsideGood
  <2>5. CASE UNCHANGED vars
    BY <1>2, <2>5 DEF vars
  <2> QED
    BY <1>2, <2>1, <2>2, <2>3, <2>4, <2>5 DEF Next, Inside, Terminated
<1>3. ASSUME IInv, BaseFunds PROVE FundsConserved
  <2>1. /\ ~Unwinding => /\ L!Grows(base, store.tree, topLevel.originator)
                        /\ L!Grows(store.stateRoot, store.tree, topLevel.originator)
        /\ \A i \in 1..Len(stack) : L!Grows(base, stack[i].prior, topLevel.originator)
    BY <1>3, IInvTree, IInvFrames DEF GoodStore, Ordered
  <2>2. /\ ~Unwinding => /\ L!FundsKept(base, store.tree)
                        /\ L!FundsKept(store.stateRoot, store.tree)
        /\ \A i \in 1..Len(stack) : L!FundsKept(base, stack[i].prior)
    BY <2>1 DEF L!Grows
  <2>3. DOMAIN stack = 1..Len(stack)
    BY <1>3, IInvFrames
  <2> QED
    BY <1>3, <2>2, <2>3 DEF FundsConserved, Trees, L!FundsKept
<1> QED
  BY <1>1, <1>2, <1>3, Invariance, PTL DEF Spec

\* Messages are atomic: ApplyMessage, with all the nested invocations, snapshots and
\* roll backs of context.go, implements Ledger (vm.go:68-149).
THEOREM MessagesAreAtomic == Spec => LedgerSpec
<1>1. ASSUME Init PROVE L!Init
  BY <1>1, InitGood DEF Init, L!Init, L!Nobody, Ok
<1>2. ASSUME IInv, [Next]_vars
      PROVE  [L!Next]_<<IF stack = <<>> /\ ret = NoRet THEN store.tree ELSE base,
                        IF Idle THEN -1 ELSE topLevel.originator, receipt>>
  <2>0. /\ (IF stack = <<>> /\ ret = NoRet THEN store.tree ELSE base) = base
        /\ (IF stack = <<>> /\ ret = NoRet THEN store.tree ELSE base)' = base'
    BY <1>2, NextGood DEF IInv, GoodState
  <2>1. CASE RejectMessage
    <3>1. Idle /\ Idle' /\ base' = base /\ receipt' = "SysErrSenderInvalid"
      BY <2>1 DEF RejectMessage, Idle
    <3> QED
      BY <2>0, <3>1 DEF L!Next, L!Reject, L!Nobody
  <2>2. CASE ApplyMessage
    BY <1>2, <2>0, <2>2, ApplyGood DEF L!Next, L!Accept, L!Nobody
  <2>3. CASE FinishMessage
    <3>1. topLevel.originator \in Nat /\ topLevel.originator # -1
      BY <1>2 DEF IInv
    <3> QED
      BY <1>2, <2>0, <2>3, <3>1, FinishGood DEF L!Next, L!Commit, L!Discard, L!Nobody, Ok
  <2>4. CASE Inside
    BY <1>2, <2>0, <2>4, InsideGood
  <2>5. CASE UNCHANGED vars
    BY <2>0, <2>5 DEF vars, Idle
  <2> QED
    BY <1>2, <2>1, <2>2, <2>3, <2>4, <2>5 DEF Next, Inside, Terminated
<1> QED
  BY <1>1, <1>2, Invariance, PTL DEF Spec, LedgerSpec, L!Spec

-----------------------------------------------------------------------------
(* What a running frame has read of its actor, the balance it caches and   *)
(* the state a StateTransaction was given, stays true as long as nothing   *)
(* is nested in the frame.  The invariant, FramesCurrent, says it of the   *)
(* innermost frame, and of all others that they have called Send and have  *)
(* no transaction open but those that another has ended in (pierced).      *)

\* A frame with another one above it.
Settled(frame) ==
  /\ frame.out # "none"
  /\ \A k \in DOMAIN frame.tx : frame.tx[k].pierced

\* The innermost frame and the tree it runs on.
Current(frame, tree) ==
  /\ frame.out = "none" => frame.balance = tree.actors[frame.to].balance
  /\ \A k \in DOMAIN frame.tx :
       ~frame.tx[k].pierced =>
         /\ ~frame.sideEffects
         /\ tree.actors[frame.to].code \in UserCodes
         /\ frame.tx[k].state = tree.actors[frame.to].head
         /\ frame.tx[k].state # EmptyObject

AllSettled(stk) == \A i \in 1..Len(stk) : Settled(stk[i])

FramesCurrent(stk, tree) ==
  /\ \A i \in 1..Len(stk) - 1 : Settled(stk[i])
  /\ stk # <<>> => Current(stk[Len(stk)], tree)

-----------------------------------------------------------------------------
(* Lemmas about stacks.                                                    *)

LEMMA AppendIsLonger ==
  ASSUME NEW stk \in Seq(Frame), NEW frame
  PROVE  /\ Append(stk, frame) # <<>>
         /\ Len(stk) \in Nat
         /\ Len(Append(stk, frame)) = Len(stk) + 1
         /\ \A i \in 1..Len(stk) : Append(stk, frame)[i] = stk[i]
         /\ Append(stk, frame)[Len(stk) + 1] = frame
<1> DEFINE S == Frame \cup {frame}
<1>1. Len(stk) \in Nat /\ stk = [i \in 1..Len(stk) |-> stk[i]]
      /\ \A i \in 1..Len(stk) : stk[i] \in Frame
  OBVIOUS
<1>2. stk \in Seq(S)  BY <1>1, SeqDef
<1>3. frame \in S  OBVIOUS
<1> HIDE DEF S
<1> QED  BY <1>1, <1>2, <1>3

\* The same of the transactions open in a frame.
LEMMA AppendsTo ==
  ASSUME NEW tx, NEW Open, tx \in Seq(Open), NEW open \in Open
  PROVE  /\ Len(tx) \in Nat
         /\ DOMAIN Append(tx, open) = 1..Len(tx) + 1
         /\ \A j \in 1..Len(tx) : Append(tx, open)[j] = tx[j]
         /\ Append(tx, open)[Len(tx) + 1] = open
OBVIOUS

\* When the innermost frame is gone.
LEMMA SettledIsCurrent ==
  ASSUME NEW stk \in Seq(Frame), AllSettled(stk), NEW tree
  PROVE  FramesCurrent(stk, tree)
<1>1. Len(stk) \in Nat /\ (stk # <<>> => Len(stk) \in 1..Len(stk))  OBVIOUS
<1> QED  BY <1>1 DEF AllSettled, FramesCurrent, Settled, Current

LEMMA BelowSettled ==
  ASSUME NEW tree, FramesCurrent(stack, tree), stack \in Seq(Frame), stack # <<>>
  PROVE  Below \in Seq(Frame) /\ AllSettled(Below)
<1>1. Below = Front(stack)  BY DEF Below, Front
<1>2. /\ Front(stack) \in Seq(Frame)
      /\ Len(Front(stack)) = Len(stack) - 1
      /\ \A i \in 1..Len(Front(stack)) : Front(stack)[i] = stack[i]
  BY FrontIsPrefix
<1> QED  BY <1>1, <1>2 DEF AllSettled, FramesCurrent

LEMMA AppendSettled ==
  ASSUME NEW stk \in Seq(Frame), AllSettled(stk), NEW frame, Settled(frame)
  PROVE  AllSettled(Append(stk, frame))
BY AppendIsLonger DEF AllSettled

LEMMA AppendCurrent ==
  ASSUME NEW stk \in Seq(Frame), AllSettled(stk), NEW frame, NEW tree,
         Current(frame, tree)
  PROVE  FramesCurrent(Append(stk, frame), tree)
BY AppendIsLonger DEF AllSettled, FramesCurrent

-----------------------------------------------------------------------------
(* invoke.                                                                 *)

\* The frame invoke enters caches the balance the store holds after the transfer.
LEMMA DispatchCurrent ==
  ASSUME NEW below \in Seq(Frame), AllSettled(below), NEW m, NEW id, NEW st, NEW prior,
         Dispatch(m, id, st, prior, st.tree.actors[id].balance, below)
  PROVE  FramesCurrent(stack', store'.tree)
<1>1. CASE stack' = below  BY <1>1, SettledIsCurrent
<1> DEFINE frame == NewFrame(id, m.method, m.value, prior, st.tree.actors[id].balance)
<1>3. CASE store' = st /\ stack' = Append(below, frame)
  <2>1. /\ frame.to = id /\ frame.balance = st.tree.actors[id].balance
        /\ frame.tx = <<>>
    BY DEF NewFrame
  <2> HIDE DEF frame
  <2>2. DOMAIN <<>> = {}  OBVIOUS
  <2>3. Current(frame, st.tree)  BY <2>1, <2>2 DEF Current
  <2> QED  BY <1>3, <2>3, AppendCurrent
<1> QED  BY <1>1, <1>3 DEF Dispatch, Fail, Repanic

LEMMA InvokeCurrent ==
  ASSUME NEW payer, NEW m, m.to \in Address, NEW st, GoodStore(st, payer), NEW from,
         NEW cached, NEW below \in Seq(Frame), AllSettled(below),
         Invoke(m, from, cached, st, below)
  PROVE  FramesCurrent(stack', store'.tree)
<1> DEFINE checked == Checkpoint(st)
           prior == checked.tree
           target == ResolveTarget(checked, m.to)
           tree == target.store.tree
           moved == Transfer(tree, from, target.id, m.value)
           next == [target.store EXCEPT !.tree = moved]
<1>1. \/ stack' = below
      \/ /\ target.code = Ok
         /\ Dispatch(m, target.id, next, prior, moved.actors[target.id].balance, below)
      \/ Dispatch(m, target.id, target.store, prior, tree.actors[target.id].balance,
                  below)
  BY DEF Invoke, Fail, Repanic, ToActor
<1>2. CASE stack' = below  BY <1>2, SettledIsCurrent
<1>4. CASE /\ target.code = Ok
           /\ Dispatch(m, target.id, next, prior, moved.actors[target.id].balance, below)
  <2>1. GoodStore(checked, payer)  BY CheckpointGood
  <2> HIDE DEF checked, prior, moved
  <2>2. GoodStore(target.store, payer)  BY <1>4, <2>1, ResolveTargetGood
  <2> HIDE DEF target
  <2>3. next.tree = moved  BY <2>2 DEF GoodStore, Store
  <2> HIDE DEF next
  <2> QED  BY <1>4, <2>3, DispatchCurrent
<1>5. CASE Dispatch(m, target.id, target.store, prior, tree.actors[target.id].balance,
                    below)
  <2> HIDE DEF target, prior
  <2> QED  BY <1>5, DispatchCurrent
<1> QED  BY <1>1, <1>2, <1>4, <1>5

LEMMA SetHeadKeeps ==
  ASSUME NEW t \in Tree, NEW id \in DOMAIN t.actors, NEW head \in Heads
  PROVE  /\ \A x \in DOMAIN t.actors :
              /\ SetHead(t, id, head).actors[x].balance = t.actors[x].balance
              /\ SetHead(t, id, head).actors[x].code = t.actors[x].code
<1> DEFINE a == [t.actors[id] EXCEPT !.head = head]
<1>1. t.actors \in [DOMAIN t.actors -> Actor] /\ DOMAIN t.actors \subseteq Nat
  BY TreeDef DEF IsTree
<1>2. t.actors[id] \in Actor /\ id \in Nat  BY <1>1
<1>3. a \in Actor /\ a.balance = t.actors[id].balance /\ a.code = t.actors[id].code
  BY <1>2 DEF Actor
<1>4. SetHead(t, id, head) = SetActor(t, id, a)  BY DEF SetHead
<1> HIDE DEF a
<1> QED  BY <1>2, <1>3, <1>4, SetActorTree

LEMMA ResolveKeepsBalance ==
  ASSUME NEW st, NEW payer, GoodStore(st, payer), NEW addr \in Address,
         NEW from \in DOMAIN st.tree.actors, ResolveTarget(st, addr).code = Ok
  PROVE  ResolveTarget(st, addr).store.tree.actors[from].balance
           = st.tree.actors[from].balance
<1> DEFINE t == st.tree
           created == CreateActor(MapAddressToNewID(t, addr), "account", t.nextID)
<1>1. GoodTree(t) /\ "account" \in Codes  BY CodesAssumption DEF GoodStore
<1>2. CASE Resolves(t, addr)  BY <1>2 DEF ResolveTarget
<1>3. CASE ~Resolves(t, addr)
  <2>1. ResolveTarget(st, addr).store.tree = SetHead(created, t.nextID, "account")
    BY <1>3 DEF ResolveTarget, CreateAccount, Ok
  <2>2. created.actors[from].balance = t.actors[from].balance
    <3>1. addr \notin DOMAIN t.addressMap  BY <1>3 DEF Resolves
    <3>2. created.actors[from] = t.actors[from]  BY <1>1, <3>1, CreateGrows
    <3> QED  BY <3>2
  <2>3. /\ created \in Tree
        /\ DOMAIN created.actors = DOMAIN t.actors \cup {t.nextID}
    <3>1. addr.protocol # "ID" /\ addr \notin DOMAIN t.addressMap
      BY <1>3 DEF Resolves
    <3> HIDE DEF t
    <3> QED  BY <1>1, <3>1, CreateGrows DEF GoodTree
  <2> HIDE DEF created
  <2> QED  BY <2>1, <2>2, <2>3, SetHeadKeeps DEF Heads
<1> QED  BY <1>2, <1>3

\* What the payer's record shows, the debit account has.
LEMMA PaymentFits ==
  ASSUME NEW payer, NEW m, m.to \in Address, NEW st, GoodStore(st, payer),
         NEW from \in DOMAIN st.tree.actors, NEW below,
         Invoke(m, from, st.tree.actors[from].balance, st, below), crash = "none"
  PROVE  crash' # "unreachable: insufficient balance on debit account"
<1> DEFINE checked == Checkpoint(st)
           target == ResolveTarget(checked, m.to)
           cached == st.tree.actors[from].balance
<1>1. GoodStore(checked, payer) /\ checked.tree = st.tree  BY CheckpointGood
<1> HIDE DEF checked
<1>2. target.code = Ok => target.store.tree.actors[from].balance = cached
  BY <1>1, ResolveKeepsBalance
<1> HIDE DEF target
<1>3. ~(/\ target.code = Ok
        /\ cached >= m.value
        /\ ~DebitSuffices(target.store.tree, from, m.value))
  BY <1>2 DEF DebitSuffices
<1> DEFINE unreachable == "unreachable: insufficient balance on debit account"
<1>4. \/ \E code, root : Fail(code, root, below)
      \/ /\ target.code = Ok
         /\ cached >= m.value
         /\ ~DebitSuffices(target.store.tree, from, m.value)
         /\ \E root : Repanic(unreachable, root, below)
      \/ \E id, s, p, b : Dispatch(m, id, s, p, b, below)
  BY DEF Invoke, target, checked
<1>5. crash' \in {crash, "index out of range",
                  "reflect: Call using a value of another type"}
  BY <1>3, <1>4 DEF Dispatch, Fail, Repanic
<1> QED  BY <1>5

-----------------------------------------------------------------------------
(* One step per action.                                                    *)

\* Once a panic is on its way out, no actor's code runs again.
Inv == IInv /\ (crash = "none" => FramesCurrent(stack, store.tree))

StepCurrent ==
  /\ crash' = "none" => FramesCurrent(stack', store'.tree)
  /\ crash' # "unreachable: insufficient balance on debit account"

\* What is known of a running frame.
LEMMA TopCurrent ==
  ASSUME Inv, stack # <<>>, crash = "none"
  PROVE  /\ Top \in Frame /\ Current(Top, store.tree)
         /\ stack \in Seq(Frame)
         /\ Below \in Seq(Frame) /\ AllSettled(Below)
         /\ store \in Store /\ store.tree \in Tree
         /\ Top.to \in DOMAIN store.tree.actors
         /\ \A frame : Len(Append(Below, frame)) = Len(stack)
<1>1. stack \in Seq(Frame)  BY IInvFrames DEF Inv
<1>2. Top \in Frame /\ Found(store.tree, Top.to) /\ GoodStore(store, topLevel.originator)
  BY TopGood DEF Inv
<1>3. Below \in Seq(Frame) /\ AllSettled(Below)  BY <1>1, BelowSettled DEF Inv
<1>4. Len(Below) = Len(stack) - 1  BY <1>1, FrontIsPrefix DEF Below, Front
<1>5. \A frame : Len(Append(Below, frame)) = Len(stack)
  BY <1>1, <1>3, <1>4, AppendIsLonger
<1> QED
  BY <1>1, <1>2, <1>3, <1>5 DEF Inv, FramesCurrent, Top, Found, GoodStore, GoodTree

\* The innermost frame ends.
LEMMA EndCurrent ==
  ASSUME Inv, stack # <<>>, crash = "none", stack' = Below
  PROVE  FramesCurrent(stack', store'.tree)
BY TopCurrent, SettledIsCurrent

LEMMA AbortCurrent ==
  ASSUME Inv, stack # <<>>, crash = "none", NEW code, Abort(code)
  PROVE  FramesCurrent(stack', store'.tree) /\ crash' = crash
BY EndCurrent DEF Abort, Fail

\* Frame and tree change together.
LEMMA SetTopCurrent ==
  ASSUME Inv, stack # <<>>, crash = "none", NEW frame, NEW t, SetTop(frame), Current(frame, t),
         store'.tree = t
  PROVE  FramesCurrent(stack', store'.tree)
BY TopCurrent, AppendCurrent DEF SetTop

LEMMA SendCurrent ==
  ASSUME Inv, Send
  PROVE  /\ FramesCurrent(stack', store'.tree)
         /\ crash' = "unreachable: insufficient balance on debit account" =>
              Top.out # "none"
<1>1. /\ stack # <<>> /\ crash = "none"
      /\ \/ Abort("SysErrorIllegalActor")
         \/ /\ MaySend(Top)
            /\ \E m \in Messages, out \in {"discard", "typed"} :
                 Invoke(m, Top.to, Top.balance, store,
                        Append(Below, [Top EXCEPT !.out = out]))
  BY DEF Send, UserCalls, Running
<1>2. CASE Abort("SysErrorIllegalActor")  BY <1>1, <1>2, AbortCurrent
<1>3. ASSUME MaySend(Top), NEW m \in Messages, NEW out \in {"discard", "typed"},
             Invoke(m, Top.to, Top.balance, store,
                    Append(Below, [Top EXCEPT !.out = out]))
      PROVE  /\ FramesCurrent(stack', store'.tree)
             /\ crash' = "unreachable: insufficient balance on debit account" =>
                  Top.out # "none"
  <2> DEFINE frame == [Top EXCEPT !.out = out]
             below == Append(Below, frame)
  <2>1. frame \in Frame /\ frame.out # "none" /\ frame.tx = Top.tx
    BY <1>1, TopCurrent DEF Frame
  <2>2. Settled(frame)
    BY <1>1, <1>3, <2>1, TopCurrent DEF Settled, Current, MaySend
  <2> HIDE DEF frame
  <2>3. below \in Seq(Frame) /\ AllSettled(below)
    BY <1>1, <2>1, <2>2, TopCurrent, AppendSettled
  <2>4. Invoke(m, Top.to, Top.balance, store, below)  BY <1>3 DEF frame
  <2> HIDE DEF below
  <2>5. GoodStore(store, topLevel.originator)  BY <1>1 DEF Inv, IInv, GoodState
  <2>6. m.to \in Address  BY MessagesAssumption
  <2>7. FramesCurrent(stack', store'.tree)
    BY <2>3, <2>4, <2>5, <2>6, InvokeCurrent
  <2>8. CASE Top.out = "none"
    <3>1. Top.balance = store.tree.actors[Top.to].balance
          /\ Top.to \in DOMAIN store.tree.actors
      BY <1>1, <2>8, TopCurrent DEF Current
    <3> QED  BY <1>1, <2>4, <2>5, <2>6, <2>7, <3>1, PaymentFits
  <2> QED  BY <2>7, <2>8
<1> QED  BY <1>1, <1>2, <1>3

LEMMA ExecCurrent ==
  ASSUME Inv, Exec
  PROVE  /\ FramesCurrent(stack', store'.tree)
         /\ crash' = "unreachable: insufficient balance on debit account" =>
              Top.out # "none"
<1> DEFINE addr == NewActorAddress
           id == store.tree.nextID
           created(code) == CreateActor(MapAddressToNewID(store.tree, addr), code, id)
           m == [to |-> IDAddress(id), value |-> Top.value,
                 method |-> MethodConstructor, params |-> "decodes"]
           frame == [Top EXCEPT !.out = "discard"]
           below == Append(Below, frame)
<1>1. stack # <<>> /\ CodeOf(Top) = "init" /\ crash = "none"
  BY DEF Exec, Running
<1>2. \/ \E code : Abort(code)
      \/ \E code \in Codes :
           Invoke(m, Top.to, Top.balance,
                  [store EXCEPT !.tree = created(code)], below)
  BY DEF Exec
<1>3. CASE \E code : Abort(code)  BY <1>1, <1>3, AbortCurrent
<1>4. ASSUME NEW code \in Codes,
             Invoke(m, Top.to, Top.balance, [store EXCEPT !.tree = created(code)], below)
      PROVE  /\ FramesCurrent(stack', store'.tree)
             /\ crash' = "unreachable: insufficient balance on debit account" =>
                  Top.out # "none"
  <2>1. addr \in Address /\ addr.protocol # "KEY"
    BY DEF NewActorAddress, ActorAddress, Address, Inv, IInv
  <2>2. /\ GoodTree(store.tree) /\ id \in Nat
        /\ GoodStore(store, topLevel.originator)
    BY <1>1, TopGood DEF GoodStore, GoodTree, Tree, Inv
  <2>3. Top.to \in DOMAIN store.tree.actors /\ Top.to \in Nat
    BY <1>1, TopCurrent DEF Frame
  <2>4. created(code).actors[Top.to].balance = store.tree.actors[Top.to].balance
    BY <2>1, <2>2, <2>3, CreateGrows
  <2> HIDE DEF addr
  <2> DEFINE u == created(code)
             st == [store EXCEPT !.tree = u]
  <2>5. GoodTree(u) /\ L!Grows(store.tree, u, topLevel.originator)
    BY <2>1, <2>2, CreateGrows
  <2>6. m.to \in Address  BY <2>2 DEF IDAddress, Address
  <2>7. Invoke(m, Top.to, Top.balance, st, below)  BY <1>4
  <2>8. u.actors[Top.to].balance = store.tree.actors[Top.to].balance  BY <2>4
  <2> HIDE DEF u, m
  <2>9. GoodStore(st, topLevel.originator) /\ st.tree = u
    BY <2>2, <2>5, LaterStoreGood
  <2> HIDE DEF st
  <2>10. frame \in Frame /\ frame.out # "none" /\ frame.tx = Top.tx
    BY <1>1, TopCurrent DEF Frame
  <2>11. Settled(frame)
    BY <1>1, <2>10, TopCurrent, CodesAssumption DEF Settled, Current, CodeOf
  <2> HIDE DEF frame
  <2>12. below \in Seq(Frame) /\ AllSettled(below)
    BY <1>1, <2>10, <2>11, TopCurrent, AppendSettled
  <2> HIDE DEF below
  <2>13. FramesCurrent(stack', store'.tree)
    BY <2>6, <2>7, <2>9, <2>12, InvokeCurrent
  <2>14. CASE Top.out = "none"
    <3>1. Top.balance = st.tree.actors[Top.to].balance
      BY <1>1, <2>8, <2>9, <2>14, TopCurrent DEF Current
    <3>2. Top.to \in DOMAIN st.tree.actors
      BY <2>3, <2>5, <2>9 DEF L!Grows, L!Extends, L!ActorsKept
    <3> QED  BY <1>1, <2>6, <2>7, <2>9, <2>13, <3>1, <3>2, PaymentFits
  <2> QED  BY <2>13, <2>14
<1> QED  BY <1>2, <1>3, <1>4

LEMMA ApplyCurrent ==
  ASSUME Inv, ApplyMessage
  PROVE  /\ FramesCurrent(stack', store'.tree)
         /\ crash' # "unreachable: insufficient balance on debit account"
<1>1. PICK from \in Senders, m \in Messages :
        /\ KnownSender(from)
        /\ LET fromID == NormalizeAddress(store.tree, from)
               bumped == [store EXCEPT !.tree = BumpCallSeqNum(store.tree, fromID)]
           IN Invoke(m, fromID, store.tree.actors[fromID].balance, Checkpoint(bumped), <<>>)
  BY DEF ApplyMessage
<1> DEFINE fromID == NormalizeAddress(store.tree, from)
           u == BumpCallSeqNum(store.tree, fromID)
           st == Checkpoint([store EXCEPT !.tree = u])
<1>2. fromID \in DOMAIN store.tree.actors  BY <1>1 DEF KnownSender, Found
<1>3. GoodTree(store.tree) /\ store \in Store /\ crash = "none"
  BY DEF ApplyMessage, Idle, Inv, IInv, GoodState, GoodStore
<1>4. Invoke(m, fromID, store.tree.actors[fromID].balance, st, <<>>)  BY <1>1
<1> HIDE DEF fromID
<1>5. /\ GoodTree(u)
      /\ u = [store.tree EXCEPT !.actors[fromID].callSeqNum = @ + 1]
      /\ DOMAIN u.actors = DOMAIN store.tree.actors
  BY <1>2, <1>3, BumpGood
<1>6. u.actors[fromID].balance = store.tree.actors[fromID].balance
  <2>1. store.tree.actors \in [DOMAIN store.tree.actors -> Actor] /\ store.tree \in Tree
    BY <1>3, TreeDef DEF GoodTree, IsTree
  <2> QED  BY <1>2, <1>5, <2>1 DEF Actor, Tree
<1> HIDE DEF u
<1>7. GoodStore(st, fromID) /\ st.tree = u
  <2>1. [store EXCEPT !.tree = u] = [tree |-> u, stateRoot |-> store.stateRoot]
    BY <1>3 DEF Store
  <2>2. \A r : Checkpoint([tree |-> u, stateRoot |-> r]) = [tree |-> u, stateRoot |-> u]
    BY DEF Checkpoint
  <2>3. st = [tree |-> u, stateRoot |-> u]  BY <2>1, <2>2
  <2> HIDE DEF st
  <2> QED  BY <1>5, <2>3, GrowsReflexive DEF GoodStore, Store, GoodTree
<1> HIDE DEF st
<1>8. m.to \in Address  BY MessagesAssumption
<1>9. <<>> \in Seq(Frame) /\ AllSettled(<<>>)  BY DEF AllSettled
<1>10. Invoke(m, fromID, st.tree.actors[fromID].balance, st, <<>>)
  BY <1>4, <1>6, <1>7
<1>11. fromID \in DOMAIN st.tree.actors  BY <1>2, <1>5, <1>7
<1> QED
  BY <1>3, <1>7, <1>8, <1>9, <1>10, <1>11, InvokeCurrent, PaymentFits

LEMMA StateCurrent ==
  ASSUME Inv, StateCreate \/ StateReadonly \/ BeginTransaction \/ EndTransaction
  PROVE  StepCurrent
<1>1. stack # <<>> /\ crash = "none"
  BY DEF StateCreate, StateReadonly, BeginTransaction, EndTransaction,
     UserCalls, Running
<1> DEFINE t == store.tree
           head == t.actors[Top.to].head
<1>2. /\ Top \in Frame /\ Current(Top, t) /\ store \in Store /\ t \in Tree
      /\ Top.to \in DOMAIN t.actors
  BY <1>1, TopCurrent
<1>3. CASE StateCreate
  <2>1. CASE head # EmptyObject
    BY <1>1, <1>3, <2>1, AbortCurrent DEF StateCreate, StepCurrent
  <2>2. CASE head = EmptyObject
    <3>1. PICK obj \in Objects :
            /\ store' = [store EXCEPT !.tree = SetHead(t, Top.to, obj)]
            /\ UNCHANGED <<stack, crash>>
      BY <1>3, <2>2 DEF StateCreate
    <3>2. store'.tree = SetHead(t, Top.to, obj)  BY <1>2, <3>1 DEF Store
    <3>3. SetHead(t, Top.to, obj).actors[Top.to].balance = t.actors[Top.to].balance
      BY <1>2, SetHeadKeeps DEF Heads
    <3>4. Current(Top, store'.tree)
      BY <1>2, <2>2, <3>2, <3>3 DEF Current
    <3> QED  BY <1>1, <3>1, <3>4 DEF Inv, FramesCurrent, Top, StepCurrent
  <2> QED  BY <2>1, <2>2
<1>4. CASE StateReadonly
  <2>1. CASE LoadStatePanics  BY <2>1 DEF LoadStatePanics, Panic, StepCurrent
  <2>2. CASE UNCHANGED <<store, stack, ret, crash>>
    BY <1>1, <2>2 DEF Inv, FramesCurrent, StepCurrent
  <2> QED  BY <1>4, <2>1, <2>2 DEF StateReadonly
<1>5. CASE BeginTransaction
  <2>1. CASE LoadStatePanics  BY <2>1 DEF LoadStatePanics, Panic, StepCurrent
  <2>2. CASE ~LoadStatePanics
    <3> DEFINE open == [state |-> head, pierced |-> FALSE]
               frame == [Top EXCEPT !.tx = Append(@, open), !.sideEffects = FALSE]
    <3>1. /\ SetTop(frame) /\ store' = store /\ crash' = crash
          /\ head # EmptyObject
          /\ CodeOf(Top) \in UserCodes
      BY <1>5, <2>2 DEF BeginTransaction, UserCalls
    <3>2. /\ frame.out = Top.out /\ frame.balance = Top.balance /\ frame.to = Top.to
          /\ frame.tx = Append(Top.tx, open) /\ frame.sideEffects = FALSE
      BY <1>2 DEF Frame
    <3>3. Top.tx \in Seq([state : Heads, pierced : BOOLEAN])  BY <1>2 DEF Frame
    <3> HIDE DEF frame
    <3>4. open.state = head  OBVIOUS
    <3>7. open \in [state : Heads, pierced : BOOLEAN]
      <4>1. head \in Heads  BY <1>2, TreeDef DEF IsTree, Actor
      <4> QED  BY <4>1
    <3> HIDE DEF open
    <3>5. ASSUME NEW k \in DOMAIN frame.tx, ~frame.tx[k].pierced
          PROVE  frame.tx[k].state = head
      <4>1. /\ Len(Top.tx) \in Nat
            /\ DOMAIN frame.tx = 1..Len(Top.tx) + 1
            /\ \A j \in 1..Len(Top.tx) : frame.tx[j] = Top.tx[j]
            /\ frame.tx[Len(Top.tx) + 1] = open
        BY <3>2, <3>3, <3>7, AppendsTo
      <4>2. CASE k \in 1..Len(Top.tx)
        BY <1>2, <3>3, <3>5, <4>1, <4>2, LenProperties DEF Current
      <4>3. CASE k = Len(Top.tx) + 1
        BY <3>4, <4>1, <4>3
      <4> QED  BY <4>1, <4>2, <4>3
    <3>6. Current(frame, t)
      BY <1>2, <3>1, <3>2, <3>5 DEF Current, CodeOf
    <3> QED  BY <1>1, <3>1, <3>6, SetTopCurrent DEF StepCurrent
  <2> QED  BY <2>1, <2>2
<1>6. CASE EndTransaction
  <2> DEFINE frame == [Top EXCEPT !.tx = Pierced(@), !.sideEffects = TRUE]
  <2>1. PICK obj \in Objects :
          /\ store' = [store EXCEPT !.tree = SetHead(t, Top.to, obj)]
          /\ SetTop(frame) /\ crash' = crash
    BY <1>6 DEF EndTransaction
  <2>2. store'.tree = SetHead(t, Top.to, obj)  BY <1>2, <2>1 DEF Store
  <2>3. SetHead(t, Top.to, obj).actors[Top.to].balance = t.actors[Top.to].balance
    BY <1>2, SetHeadKeeps DEF Heads
  <2>4. /\ frame.out = Top.out /\ frame.balance = Top.balance /\ frame.to = Top.to
        /\ frame.tx = Pierced(Top.tx)
    BY <1>2 DEF Frame
  <2>5. \A k \in DOMAIN frame.tx : frame.tx[k].pierced
    <3>1. Top.tx # <<>> /\ Top.tx \in Seq([state : Heads, pierced : BOOLEAN])
      BY <1>2, <1>6 DEF EndTransaction, Frame
    <3> HIDE DEF frame
    <3> QED  BY <2>4, <3>1, PiercedTx
  <2> HIDE DEF frame
  <2>6. Current(frame, store'.tree)  BY <1>2, <2>2, <2>3, <2>4, <2>5 DEF Current
  <2> QED  BY <1>1, <2>1, <2>6, SetTopCurrent DEF StepCurrent
<1> QED  BY <1>3, <1>4, <1>5, <1>6

LEMMA ValidateCurrent ==
  ASSUME Inv, ValidateImmediateCaller
  PROVE  StepCurrent
<1> DEFINE frame == [Top EXCEPT !.validated = TRUE]
<1>1. /\ stack # <<>> /\ crash = "none"
      /\ \/ Panic("caller has been double validated", store.tree)
         \/ Abort("ErrForbidden")
         \/ SetTop(frame) /\ UNCHANGED <<store, crash>>
  BY DEF ValidateImmediateCaller, UserCalls, Running
<1>2. CASE Panic("caller has been double validated", store.tree)
  BY <1>2 DEF Panic, StepCurrent
<1>3. CASE Abort("ErrForbidden")  BY <1>1, <1>3, AbortCurrent DEF StepCurrent
<1>4. CASE SetTop(frame) /\ UNCHANGED <<store, crash>>
  <2>1. /\ frame.out = Top.out /\ frame.balance = Top.balance /\ frame.to = Top.to
        /\ frame.tx = Top.tx /\ frame.sideEffects = Top.sideEffects
    BY <1>1, TopCurrent DEF Frame
  <2> HIDE DEF frame
  <2>2. Current(frame, store.tree)  BY <1>1, <2>1, TopCurrent DEF Current
  <2> QED  BY <1>1, <1>4, <2>2, SetTopCurrent DEF StepCurrent
<1> QED  BY <1>1, <1>2, <1>3, <1>4

LEMMA EndingCurrent ==
  ASSUME Inv, \/ SendReturns \/ DeleteActor \/ Return \/ UserAbort
              \/ AccountMethod \/ InitConstructor \/ ExecReturns
  PROVE  StepCurrent
<1>1. stack # <<>> /\ crash = "none"
  BY DEF Inv, IInv, GoodState, SendReturns, DeleteActor, Return, UserAbort, AccountMethod,
     InitConstructor, ExecReturns, UserCalls, Running
<1>2. \/ \E code : Abort(code)
      \/ \E val : Returns(val)
      \/ \E reason \in {"ActorStore.DeleteActor not implemented",
                       "address must use ID protocol",
                       "unreachable: credit account not found"} :
           \E tree : Panic(reason, tree)
      \/ UNCHANGED <<store, stack, crash>>
  BY DEF SendReturns, DeleteActor, Return, UserAbort, AccountMethod,
     InitConstructor, ExecReturns
<1>3. CASE \E code : Abort(code)  BY <1>1, <1>3, AbortCurrent DEF StepCurrent
<1>4. CASE \E val : Returns(val)
  BY <1>1, <1>4, EndCurrent DEF Returns, StepCurrent
<1>5. CASE \E reason \in {"ActorStore.DeleteActor not implemented",
                         "address must use ID protocol",
                         "unreachable: credit account not found"} :
             \E tree : Panic(reason, tree)
  BY <1>5 DEF Panic, StepCurrent
<1>6. CASE UNCHANGED <<store, stack, crash>>  BY <1>1, <1>6 DEF Inv, StepCurrent
<1> QED  BY <1>2, <1>3, <1>4, <1>5, <1>6

\* A step of Next keeps the invariant; who pays more than the debit account has,
\* has sent before.
LEMMA NextCurrent ==
  ASSUME Inv, [Next]_vars
  PROVE  /\ crash' = "none" => FramesCurrent(stack', store'.tree)
         /\ crash' # crash /\ crash' = "unreachable: insufficient balance on debit account" =>
              stack # <<>> /\ Top.out # "none"
<1>1. CASE RejectMessage  BY <1>1 DEF RejectMessage, Idle, Inv
<1>2. CASE ApplyMessage  BY <1>2, ApplyCurrent
<1>3. CASE FinishMessage
  <2>1. stack' = <<>> /\ crash' = crash
    BY <1>3 DEF FinishMessage
  <2>2. Len(<<>>) = 0  OBVIOUS
  <2> QED  BY <2>1, <2>2 DEF FramesCurrent
<1>4. CASE Send  BY <1>4, SendCurrent DEF Send, UserCalls, Running
<1>5. CASE Exec  BY <1>5, ExecCurrent DEF Exec, Running
<1>6. CASE ValidateImmediateCaller  BY <1>6, ValidateCurrent DEF StepCurrent
<1>7. CASE StateCreate \/ StateReadonly \/ BeginTransaction \/ EndTransaction
  BY <1>7, StateCurrent DEF StepCurrent
<1>8. CASE \/ SendReturns \/ DeleteActor \/ Return \/ UserAbort
           \/ AccountMethod \/ InitConstructor \/ ExecReturns
  BY <1>8, EndingCurrent DEF StepCurrent
<1>9. CASE Unwind  BY <1>9 DEF Unwind, Unwinding, Repanic
<1>10. CASE UNCHANGED vars  BY <1>10 DEF vars, Inv
<1> QED
  BY <1>1, <1>2, <1>3, <1>4, <1>5, <1>6, <1>7, <1>8, <1>9, <1>10 DEF Next, Terminated

LEMMA InitCurrent == Init => Inv
<1> SUFFICES ASSUME Init PROVE Inv  OBVIOUS
<1>1. IInv /\ stack = <<>>  BY InitGood DEF Init
<1>2. Len(<<>>) = 0  OBVIOUS
<1> QED  BY <1>1, <1>2 DEF Inv, FramesCurrent

\* The invariant of frames holds in every reachable state.
THEOREM FramesStayCurrent == Spec => []Inv
<1>1. Inv /\ [Next]_vars => Inv'
  BY NextGood, NextCurrent DEF Inv
<1> QED  BY <1>1, InitCurrent, PTL DEF Spec

-----------------------------------------------------------------------------
(* The theorems.                                                           *)

\* CurrentBalance is right until the first Send: whatever is moved, created or rolled
\* back in the meantime, it is not this actor's balance (context.go, invoke and Send).
THEOREM BalancesFresh == Spec => []BalanceFreshUntilSend
<1>1. ASSUME Inv PROVE BalanceFreshUntilSend
  <2> SUFFICES ASSUME NEW i \in DOMAIN stack, stack[i].out = "none", ~Unwinding
               PROVE  /\ i = Len(stack)
                      /\ stack[i].balance = store.tree.actors[stack[i].to].balance
    BY DEF BalanceFreshUntilSend
  <2>1. DOMAIN stack = 1..Len(stack) /\ Len(stack) \in Nat  BY <1>1, IInvFrames DEF Inv
  <2>2. stack # <<>>  BY <2>1
  <2>3. FramesCurrent(stack, store.tree)  BY <1>1, <2>2 DEF Inv, Unwinding
  <2>4. i = Len(stack)  BY <2>1, <2>3 DEF FramesCurrent, Settled
  <2> QED  BY <2>2, <2>3, <2>4 DEF FramesCurrent, Current
<1> QED  BY <1>1, FramesStayCurrent, PTL

\* The state f of a StateTransaction was given is the state it replaces, however
\* transactions nest, as long as none nested in it has ended (context.go:368-382).
THEOREM TransactionsIsolated == Spec => []TransactionIsolation
<1>1. ASSUME Inv PROVE TransactionIsolation
  <2> SUFFICES ASSUME NEW i \in DOMAIN stack, NEW k \in DOMAIN stack[i].tx,
                      ~stack[i].tx[k].pierced, ~Unwinding
               PROVE  /\ i = Len(stack)
                      /\ store.tree.actors[stack[i].to].head = stack[i].tx[k].state
    BY DEF TransactionIsolation
  <2>1. DOMAIN stack = 1..Len(stack) /\ Len(stack) \in Nat  BY <1>1, IInvFrames DEF Inv
  <2>2. stack # <<>>  BY <2>1
  <2>3. FramesCurrent(stack, store.tree)  BY <1>1, <2>2 DEF Inv, Unwinding
  <2>4. i = Len(stack)  BY <2>1, <2>3 DEF FramesCurrent, Settled
  <2> QED  BY <2>2, <2>3, <2>4 DEF FramesCurrent, Current
<1> QED  BY <1>1, FramesStayCurrent, PTL

\* transfer's panic on a debit account with too little (context.go:285) is reached by
\* no message's own payment and by no invocation's first.
THEOREM FirstPaymentsSafe == Spec => FirstPaymentSafe
<1>1. Inv /\ [Next]_vars =>
        [crash # crash' /\ crash' = "unreachable: insufficient balance on debit account" =>
           stack # <<>> /\ Top.out # "none"]_vars
  BY NextCurrent
<1> QED  BY <1>1, FramesStayCurrent, PTL DEF Spec, FirstPaymentSafe

=============================================================================
