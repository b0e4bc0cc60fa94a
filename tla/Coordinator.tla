----------------------------- MODULE Coordinator -----------------------------
(***************************************************************************)
(* The sync coordinator, src/sync/coordinator.go: Run and its two          *)
(* activities, the block subscription with the validator in front of it    *)
(* (src/protocols/blocks), the goroutine it starts for each block, and the *)
(* chain store the goroutines write to (src/chain/store.go).               *)
(*                                                                         *)
(* Of the hello activity only what Run depends on is here: it may fail to  *)
(* start, it may be waiting for a peer's reply, and it ends when it sees   *)
(* that the context is done.  Module Hello has the rest.                   *)
(***************************************************************************)
EXTENDS FullBlock

CONSTANTS
  Gossip,         \* [from, decodes, block]: what peers may publish
  NoHeader,       \* the nil pointer in the place of a header
  Weights,        \* parent weights of heaviest tipsets
  MessageLimit,   \* BlockMessageLimit
  Room,           \* length of the subscription's channel
  MaxPublished,   \* bound: messages published
  MaxWaits        \* bound: greetings the hello loop waits in

ASSUME RoomAssumption == Room \in Nat

VARIABLES
  run,         \* Run: "down", "running", "returned"
  sub,         \* pubsubBlocks: "down", "subscribing", "listening", "ended"
  hello,       \* hello: "down", "subscribing", "selecting", "waiting", "ended"
  cancelled,   \* the context Run was called with is done
  failed,      \* an activity has returned an error
  queue,       \* messages the subscription has not yet returned
  tasks,       \* the goroutines: [block, at, fetched, broken]
  stored,      \* headers in the chain store
  heaviest,    \* parent weight of the heaviest tipset, or NoTipSet
  crashed,     \* a panic has ended the program
  published,   \* messages published so far (bounded)
  waits        \* greetings waited in so far (bounded)

vars == <<run, sub, hello, cancelled, failed, queue, tasks, stored, heaviest,
          crashed, published, waits>>

NoTipSet == -1
Nil == [header |-> "nil"]
Unfetched == [header |-> "none"]

Init ==
  /\ run = "down"
  /\ sub = "down"
  /\ hello = "down"
  /\ cancelled = FALSE
  /\ failed = FALSE
  /\ queue = <<>>
  /\ tasks = <<>>
  /\ stored = {}
  /\ heaviest = NoTipSet
  /\ crashed = FALSE
  /\ published = <<>>
  /\ waits = 0

\* Mutant: the group is made without a context.
CallersContextDone == cancelled

\* The context of the group: done with Run's, or when an activity has failed.
ContextDone == cancelled \/ failed

-----------------------------------------------------------------------------
(* The environment.                                                        *)

Cancel ==
  /\ ~cancelled
  /\ cancelled' = TRUE
  /\ UNCHANGED <<run, sub, hello, failed, queue, tasks, stored, heaviest, crashed,
                 published, waits>>

\* SetHeaviestTipSet, which the program around the coordinator calls.
SetHeaviest ==
  /\ heaviest' \in Weights
  /\ heaviest' # heaviest
  /\ UNCHANGED <<run, sub, hello, cancelled, failed, queue, tasks, stored, crashed,
                 published, waits>>

-----------------------------------------------------------------------------
(* The validator, which the pubsub router calls for each new message.      *)

Count(block) == Len(block.messages["Bls"]) + Len(block.messages["Secpk"])

\* Mutant: the signature is not looked for.
UnsignedSyntax(block) ==
  /\ Count(block) <= MessageLimit
  /\ block.header.weight >= 0
  /\ block.header.height >= 0

ValidSyntax(block) ==
  /\ Count(block) <= MessageLimit
  /\ block.header.signed
  /\ block.header.weight >= 0
  /\ block.header.height >= 0

\* The number of messages is checked before the header is dereferenced.
ValidatorPanics(msg) ==
  msg.decodes /\ Count(msg.block) <= MessageLimit /\ msg.block.header = NoHeader

\* A message is published and validated; what is accepted is dropped if the channel
\* of the subscription is full.  A message may still be in validation when the context
\* is done.
Publish ==
  /\ sub = "listening"
  /\ Len(published) < MaxPublished
  /\ \E msg \in Gossip :
       /\ published' = Append(published, msg)
       /\ \/ /\ ValidatorPanics(msg)
             /\ crashed' = TRUE
             /\ UNCHANGED queue
          \/ /\ ~ValidatorPanics(msg)
             /\ queue' = IF /\ msg.decodes
                            /\ msg.block.header # NoHeader
                            /\ ValidSyntax(msg.block)
                            /\ Len(queue) < Room
                         THEN Append(queue, msg)
                         ELSE queue
             /\ UNCHANGED crashed
  /\ UNCHANGED <<run, sub, hello, cancelled, failed, tasks, stored, heaviest, waits>>

-----------------------------------------------------------------------------
(* Run and its activities.                                                 *)

Start ==
  /\ run = "down"
  /\ run' = "running"
  /\ sub' = "subscribing"
  /\ hello' = "subscribing"
  /\ UNCHANGED <<cancelled, failed, queue, tasks, stored, heaviest, crashed,
                 published, waits>>

\* The pubsub service cannot be created.
CannotStart ==
  /\ run = "down"
  /\ run' = "returned"
  /\ UNCHANGED <<sub, hello, cancelled, failed, queue, tasks, stored, heaviest,
                 crashed, published, waits>>

Subscribe ==
  /\ sub = "subscribing"
  /\ sub' = "listening"
  /\ UNCHANGED <<run, hello, cancelled, failed, queue, tasks, stored, heaviest,
                 crashed, published, waits>>

\* The topic cannot be joined or subscribed to.
SubscribeFails ==
  /\ sub = "subscribing"
  /\ sub' = "ended"
  /\ failed' = TRUE
  /\ UNCHANGED <<run, hello, cancelled, queue, tasks, stored, heaviest, crashed,
                 published, waits>>

HelloSubscribes ==
  /\ hello = "subscribing"
  /\ hello' = "selecting"
  /\ UNCHANGED <<run, sub, cancelled, failed, queue, tasks, stored, heaviest,
                 crashed, published, waits>>

\* The event bus cannot be subscribed to.
HelloFails ==
  /\ hello = "subscribing"
  /\ hello' = "ended"
  /\ failed' = TRUE
  /\ UNCHANGED <<run, sub, cancelled, queue, tasks, stored, heaviest, crashed,
                 published, waits>>

\* The loop sends a greeting and waits; how long is up to the peer.  A heaviest
\* tipset that was never set is dereferenced.
HelloWaits ==
  /\ hello = "selecting"
  /\ waits < MaxWaits
  /\ waits' = waits + 1
  /\ IF heaviest = NoTipSet
     THEN crashed' = TRUE /\ UNCHANGED hello
     ELSE hello' = "waiting" /\ UNCHANGED crashed
  /\ UNCHANGED <<run, sub, cancelled, failed, queue, tasks, stored, heaviest,
                 published>>

HelloGoesOn ==
  /\ hello = "waiting"
  /\ hello' = "selecting"
  /\ UNCHANGED <<run, sub, cancelled, failed, queue, tasks, stored, heaviest,
                 crashed, published, waits>>

HelloEnds ==
  /\ hello = "selecting"
  /\ ContextDone
  /\ hello' = "ended"
  /\ failed' = TRUE
  /\ UNCHANGED <<run, sub, cancelled, queue, tasks, stored, heaviest, crashed,
                 published, waits>>

\* sub.Next returns a message or, once the context is done, an error.
NextFails ==
  /\ sub = "listening"
  /\ ContextDone
  /\ sub' = "ended"
  /\ failed' = TRUE
  /\ queue' = <<>>
  /\ UNCHANGED <<run, hello, cancelled, tasks, stored, heaviest, crashed, published,
                 waits>>

\* Mutant: the node's own messages are forwarded too.
AllForwarded(msg) == TRUE

Forwarded(msg) == msg.from # "self"

\* Mutant: the message stays in the channel.
Peeked(messages) == messages

Received(messages) == Tail(messages)

NextMessage ==
  /\ sub = "listening"
  /\ queue # <<>>
  /\ queue' = Received(queue)
  /\ tasks' = IF Forwarded(Head(queue))
              THEN Append(tasks, [block |-> Head(queue).block, at |-> "fetching",
                                  fetched |-> Unfetched, broken |-> FALSE])
              ELSE tasks
  /\ UNCHANGED <<run, sub, hello, cancelled, failed, stored, heaviest, crashed,
                 published, waits>>

\* g.Wait: both activities have returned.
Return ==
  /\ run = "running"
  /\ sub = "ended"
  /\ hello = "ended"
  /\ run' = "returned"
  /\ UNCHANGED <<sub, hello, cancelled, failed, queue, tasks, stored, heaviest,
                 crashed, published, waits>>

-----------------------------------------------------------------------------
(* The i-th goroutine.                                                     *)

\* Mutant: the fetch does not see the context.
OnlyGivenUp(gaveUp) == gaveUp

CutShort(gaveUp) == gaveUp \/ ContextDone

\* Mutant: of a failed fetch the header is added.
HeaderOfFailed(block, result) ==
  IF result = Failed THEN Full(block, Places(block)) ELSE result

\* Mutant: a full block that misses messages counts as a failure.
NilIfIncomplete(block, result) ==
  IF result = Failed \/ result # Full(block, {}) THEN Nil ELSE result

\* What is passed to AddBlock: an error is logged, and nil stays nil.
FullBlockOf(block, result) == IF result = Failed THEN Nil ELSE result

\* fetchFullBlock returns.  While it is not cut short it need not.
Fetched(i, gaveUp) ==
  /\ tasks[i].at = "fetching"
  /\ \E result \in Outcomes(tasks[i].block, CutShort(gaveUp)) :
       tasks' = [tasks EXCEPT ![i] =
                   [block |-> tasks[i].block, at |-> "adding",
                    fetched |-> FullBlockOf(tasks[i].block, result),
                    broken |-> CutShort(gaveUp)]]
  /\ UNCHANGED <<run, sub, hello, cancelled, failed, queue, stored, heaviest, crashed,
                 published, waits>>

\* AddPotentialHead up to the headers' being put: nil is dereferenced for its header.
AddBlock(i) ==
  /\ tasks[i].at = "adding"
  /\ IF tasks[i].fetched = Nil
     THEN crashed' = TRUE /\ UNCHANGED <<tasks, stored>>
     ELSE /\ stored' = stored \cup {tasks[i].fetched.header}
          /\ tasks' = [tasks EXCEPT ![i].at = "stored"]
          /\ UNCHANGED crashed
  /\ UNCHANGED <<run, sub, hello, cancelled, failed, queue, heaviest, published, waits>>

\* The headers cannot be put.
AddFails(i) ==
  /\ tasks[i].at = "adding"
  /\ tasks[i].fetched # Nil
  /\ tasks' = [tasks EXCEPT ![i].at = "ended"]
  /\ UNCHANGED <<run, sub, hello, cancelled, failed, queue, stored, heaviest, crashed,
                 published, waits>>

\* The rest of AddPotentialHead: the weights are compared, to no effect so far; a
\* heaviest tipset that was never set is dereferenced.
Compare(i) ==
  /\ tasks[i].at = "stored"
  /\ IF heaviest = NoTipSet
     THEN crashed' = TRUE /\ UNCHANGED tasks
     ELSE tasks' = [tasks EXCEPT ![i].at = "ended"] /\ UNCHANGED crashed
  /\ UNCHANGED <<run, sub, hello, cancelled, failed, queue, stored, heaviest,
                 published, waits>>

-----------------------------------------------------------------------------
Activities ==
  \/ Start \/ CannotStart
  \/ Subscribe \/ SubscribeFails
  \/ HelloSubscribes \/ HelloFails
  \/ HelloWaits \/ HelloGoesOn \/ HelloEnds
  \/ NextFails \/ NextMessage
  \/ Return

Goroutine(i) ==
  \/ \E gaveUp \in BOOLEAN : Fetched(i, gaveUp)
  \/ AddBlock(i) \/ AddFails(i) \/ Compare(i)

\* Nothing happens any more in a program that has crashed.
Next ==
  /\ ~crashed
  /\ \/ Activities
     \/ \E i \in DOMAIN tasks : Goroutine(i)
     \/ Publish \/ Cancel \/ SetHeaviest

\* Activities and goroutines that can go on do, and the exchange ends a fetch whose
\* context is done.  No peer has to answer a greeting, and no one has to publish.
Fairness ==
  /\ WF_vars(~crashed /\ (Subscribe \/ SubscribeFails))
  /\ WF_vars(~crashed /\ (HelloSubscribes \/ HelloFails))
  /\ WF_vars(~crashed /\ HelloEnds)
  /\ WF_vars(~crashed /\ NextFails)
  /\ WF_vars(~crashed /\ NextMessage)
  /\ WF_vars(~crashed /\ Return)
  /\ \A i \in 1..MaxPublished :
       /\ WF_vars(~crashed /\ i \in DOMAIN tasks /\ CutShort(FALSE) /\ Fetched(i, FALSE))
       /\ WF_vars(~crashed /\ i \in DOMAIN tasks /\ (AddBlock(i) \/ AddFails(i)))
       /\ WF_vars(~crashed /\ i \in DOMAIN tasks /\ Compare(i))

Spec == Init /\ [][Next]_vars /\ Fairness

-----------------------------------------------------------------------------
(* Safety.                                                                 *)

\* The variables have their types; there is one goroutine at most for a message.
TypeOK ==
  /\ run \in {"down", "running", "returned"}
  /\ sub \in {"down", "subscribing", "listening", "ended"}
  /\ hello \in {"down", "subscribing", "selecting", "waiting", "ended"}
  /\ cancelled \in BOOLEAN /\ failed \in BOOLEAN /\ crashed \in BOOLEAN
  /\ Len(queue) <= Room /\ Len(tasks) + Len(queue) <= Len(published)
  /\ \A i \in DOMAIN tasks : tasks[i].at \in {"fetching", "adding", "stored", "ended"}
  /\ NoHeader \notin stored
  /\ heaviest \in Weights \cup {NoTipSet}

\* What the store holds has passed the validator and came from another node: no
\* interleaving of subscription and goroutines lets anything else through.
StoredAreValid ==
  \A header \in stored :
    \E msg \in ToSet(published) :
      /\ msg.block.header = header
      /\ msg.from # "self"
      /\ header.signed /\ header.weight >= 0 /\ header.height >= 0

\* The messages of a stored header were fetched, every one of them, unless its fetch
\* was cut short; a header whose fetch failed is not stored (pubsubBlocks,
\* AddPotentialHead).
StoredWereFetched ==
  \A header \in stored :
    \E i \in DOMAIN tasks :
      /\ tasks[i].at \in {"stored", "ended"}
      /\ tasks[i].fetched.header = header
      /\ \A p \in Places(tasks[i].block) :
           \/ tasks[i].broken
           \/ tasks[i].fetched.messages[p[1]][p[2]] = tasks[i].block.messages[p[1]][p[2]]

\* The program dies only of a gossiped block without header, of one that is not
\* well formed, or before it has a heaviest tipset.
OnlyKnownPanics ==
  crashed =>
    \/ heaviest = NoTipSet
    \/ \E msg \in ToSet(published) : msg.block.header = NoHeader
    \/ \E i \in DOMAIN tasks : ~WellFormed(tasks[i].block)

-----------------------------------------------------------------------------
(* Liveness.                                                               *)

\* Run returns once its context is done or one of its activities has failed: the
\* failure of one ends the other (errgroup).  Provided that no peer keeps the hello
\* loop waiting, and that the program does not die.
RunReturns ==
  <>[](hello # "waiting") =>
    (run = "running" /\ (cancelled \/ failed) ~> run = "returned" \/ crashed)

\* No goroutine outlives the context for good.
GoroutinesEnd ==
  (run = "returned" ~> crashed \/ \A i \in DOMAIN tasks : tasks[i].at = "ended")

=============================================================================
