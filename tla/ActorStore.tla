----------------------------- MODULE ActorStore -----------------------------
(***************************************************************************)
(* The actor store of src/runtime/actor.go, as operators on values.        *)
(*                                                                         *)
(* A STATE TREE is what one root CID stands for: the map from actor IDs to *)
(* actor records, and the state object of the init actor, unfolded into    *)
(* its address map and its next free ID because the VM itself reads and    *)
(* writes it.  Objects are content addressed, so a root CID is modelled by *)
(* the tree it names: to checkpoint is to remember the tree, to roll back  *)
(* is to take it again.                                                    *)
(*                                                                         *)
(* A STORE is the ActorStore struct: the tree being changed and the root   *)
(* last flushed or restored.                                               *)
(***************************************************************************)
EXTENDS Integers, Sequences, FiniteSets

-----------------------------------------------------------------------------
(* Addresses.  go-address has four protocols; SECP256K1 and BLS behave     *)
(* alike here (both name a public key), so they are one, KEY.              *)

IDAddress(id) == [protocol |-> "ID", payload |-> <<id>>]
KeyAddress(key) == [protocol |-> "KEY", payload |-> <<key>>]

\* The hash of the originator, its call sequence and a counter: equal exactly
\* when the three are equal.
ActorAddress(originator, callSeq, count) ==
  [protocol |-> "ACTOR", payload |-> <<originator, callSeq, count>>]

Address == [protocol : {"ID", "KEY", "ACTOR"}, payload : Seq(Nat)]

InitActorAddr == 1

-----------------------------------------------------------------------------
(* One actor, and the map of all of them.                                  *)

EmptyObject == "empty"

SetActor(tree, id, actor) ==
  [tree EXCEPT !.actors = [x \in DOMAIN tree.actors \cup {id} |->
                             IF x = id THEN actor ELSE tree.actors[x]]]

Found(tree, id) == id \in DOMAIN tree.actors

\* MutateActor with the one mutation the VM makes through it.
BumpCallSeqNum(tree, id) ==
  SetActor(tree, id, [tree.actors[id] EXCEPT !.callSeqNum = @ + 1])

SetHead(tree, id, head) ==
  SetActor(tree, id, [tree.actors[id] EXCEPT !.head = head])

-----------------------------------------------------------------------------
(* The init actor's state.                                                 *)

Resolves(tree, addr) == addr.protocol = "ID" \/ addr \in DOMAIN tree.addressMap

NormalizeAddress(tree, addr) ==
  IF addr.protocol = "ID" THEN addr.payload[1] ELSE tree.addressMap[addr]

\* Mutant: the ID stays free.
MapAddressToSameID(tree, addr) ==
  [tree EXCEPT !.addressMap = [a \in DOMAIN tree.addressMap \cup {addr} |->
                                 IF a = addr THEN tree.nextID
                                             ELSE tree.addressMap[a]]]

\* init_.State.MapAddressToNewID: takes the next ID, and Puts, so that an
\* address already in the map is bound again.
MapAddressToNewID(tree, addr) ==
  [tree EXCEPT !.addressMap = [a \in DOMAIN tree.addressMap \cup {addr} |->
                                 IF a = addr THEN tree.nextID
                                             ELSE tree.addressMap[a]],
               !.nextID = tree.nextID + 1]

-----------------------------------------------------------------------------
(* Checkpoint flushes the map and keeps its root; Rollback reloads a root. *)

Checkpoint(store) == [store EXCEPT !.stateRoot = store.tree]

Rollback(root) == [tree |-> root, stateRoot |-> root]

-----------------------------------------------------------------------------
(* What trees are compared by.                                             *)

\* The money in a tree, coin by coin: each is its owner's first, second, ...
Coins(tree) == UNION {{id} \X (1..tree.actors[id].balance) : id \in DOMAIN tree.actors}

TotalBalance(tree) == Cardinality(Coins(tree))

=============================================================================
