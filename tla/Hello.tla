-------------------------------- MODULE Hello --------------------------------
(***************************************************************************)
(* Greetings between nodes: the hello protocol (src/protocols/hello) and   *)
(* the coordinator's loop that speaks it (src/sync/coordinator.go).        *)
(*                                                                         *)
(* Each node runs one loop, a select over cancellation, peers to greet and *)
(* greetings received.  To greet is to open a stream, write the greeting   *)
(* and wait in the loop for the latency reply.  Each incoming stream has a *)
(* handler of its own that reads the greeting, gives it to the loop        *)
(* through an unbuffered channel and then writes the reply.                *)
(***************************************************************************)
EXTENDS Integers, Sequences, SequencesExt

CONSTANTS
  Nodes,         \* the nodes
  Links,         \* <<n, p>>: n learns of p, and will greet it
  Fragile,       \* the links whose streams may be reset
  Cancellable,   \* the nodes whose Run may be cancelled
  MaxMeetings    \* bound: times n learns of p

ASSUME LinksAssumption ==
  /\ IsFiniteSet(Nodes)
  /\ Links \subseteq Nodes \X Nodes
  /\ \A n \in Nodes : <<n, n>> \notin Links
  /\ Fragile \subseteq Links
  /\ Cancellable \subseteq Nodes
  /\ MaxMeetings \in Nat

VARIABLES
  loop,        \* what each node's loop is at
  cancelled,   \* its context is done
  heaviest,    \* its store has a heaviest tipset
  events,      \* the peers it has learnt of and not greeted, in order
  met,         \* how often it has learnt of each peer (bounded)
  sent         \* the streams it has opened: [to, at, open]

vars == <<loop, cancelled, heaviest, events, met, sent>>

LoopStates == {"down", "select", "sending", "returned", "crashed"}

\* Where the greeting of a stream is: written, in the hands of the handler that
\* offers it to its loop, taken by the loop, answered; or its handler gave up.
Progress == {"written", "offered", "taken", "answered", "failed"}

Init ==
  /\ loop = [n \in Nodes |-> "down"]
  /\ cancelled = [n \in Nodes |-> FALSE]
  /\ heaviest \in [Nodes -> BOOLEAN]
  /\ events = [n \in Nodes |-> <<>>]
  /\ met = [n \in Nodes |-> [p \in Nodes |-> 0]]
  /\ sent = [n \in Nodes |-> <<>>]

-----------------------------------------------------------------------------
(* The environment.                                                        *)

\* Run: the handler is set and identifications are subscribed to.
Start(n) ==
  /\ loop[n] = "down"
  /\ loop' = [loop EXCEPT ![n] = "select"]
  /\ UNCHANGED <<cancelled, heaviest, events, met, sent>>

\* SetHeaviestTipSet, which the program around the coordinator calls.
SetHeaviest(n) ==
  /\ ~heaviest[n]
  /\ heaviest' = [heaviest EXCEPT ![n] = TRUE]
  /\ UNCHANGED <<loop, cancelled, events, met, sent>>

\* A connection to p has completed its identification.
Identified(n, p) ==
  /\ <<n, p>> \in Links
  /\ loop[n] \in {"select", "sending"}
  /\ met[n][p] < MaxMeetings
  /\ met' = [met EXCEPT ![n][p] = @ + 1]
  /\ events' = [events EXCEPT ![n] = Append(@, p)]
  /\ UNCHANGED <<loop, cancelled, heaviest, sent>>

\* The connection under a stream is lost.
Reset(n, i) ==
  /\ <<n, sent[n][i].to>> \in Fragile
  /\ sent[n][i].open
  /\ sent' = [sent EXCEPT ![n][i].open = FALSE]
  /\ UNCHANGED <<loop, cancelled, heaviest, events, met>>

Cancel(n) ==
  /\ n \in Cancellable
  /\ ~cancelled[n]
  /\ cancelled' = [cancelled EXCEPT ![n] = TRUE]
  /\ UNCHANGED <<loop, heaviest, events, met, sent>>

-----------------------------------------------------------------------------
(* The loop.                                                               *)

Return(n) ==
  /\ loop[n] = "select"
  /\ cancelled[n]
  /\ loop' = [loop EXCEPT ![n] = "returned"]
  /\ UNCHANGED <<cancelled, heaviest, events, met, sent>>

\* Mutant: a peer stays in the queue when it is greeted.
KeepHead(queue) == queue

\* The queue after its head has been received from the subscription's channel.
Received(queue) == Tail(queue)

\* sayHello with a heaviest tipset: the stream is opened and the greeting written.
\* The handler of a loop that has returned is still there to accept it.
SayHello(n) ==
  /\ loop[n] = "select"
  /\ events[n] # <<>>
  /\ heaviest[n]
  /\ loop[Head(events[n])] \notin {"down", "crashed"}
  /\ events' = [events EXCEPT ![n] = Received(@)]
  /\ sent' = [sent EXCEPT ![n] =
                Append(@, [to |-> Head(events[n]), at |-> "written", open |-> TRUE])]
  /\ loop' = [loop EXCEPT ![n] = "sending"]
  /\ UNCHANGED <<cancelled, heaviest, met>>

\* sayHello fails before it waits: the store has no genesis, or there is no stream.
CannotSayHello(n) ==
  /\ loop[n] = "select"
  /\ events[n] # <<>>
  /\ events' = [events EXCEPT ![n] = Received(@)]
  /\ UNCHANGED <<loop, cancelled, heaviest, met, sent>>

\* sayHello without a heaviest tipset dereferences nil, and the program dies; with
\* it all its streams.
SayHelloPanics(n) ==
  /\ loop[n] = "select"
  /\ events[n] # <<>>
  /\ ~heaviest[n]
  /\ loop' = [loop EXCEPT ![n] = "crashed"]
  /\ sent' = [m \in Nodes |->
                [i \in DOMAIN sent[m] |->
                   [sent[m][i] EXCEPT !.open = @ /\ m # n /\ sent[m][i].to # n]]]
  /\ UNCHANGED <<cancelled, heaviest, events, met>>

\* Mutant: the greeting is dropped without a reply.
TakenWithoutReply == "failed"

AfterTaking == "taken"

\* The loop receives a greeting that a handler offers.
TakeGreeting(p) ==
  /\ loop[p] = "select"
  /\ \E n \in Nodes : \E i \in DOMAIN sent[n] :
       /\ sent[n][i].to = p
       /\ sent[n][i].at = "offered"
       /\ sent' = [sent EXCEPT ![n][i].at = AfterTaking]
  /\ UNCHANGED <<loop, cancelled, heaviest, events, met>>

Waiting(n) == Last(sent[n])

\* hello.Send returns the reply.
GetReply(n) ==
  /\ loop[n] = "sending"
  /\ Waiting(n).at = "answered"
  /\ Waiting(n).open
  /\ loop' = [loop EXCEPT ![n] = "select"]
  /\ UNCHANGED <<cancelled, heaviest, events, met, sent>>

\* Mutant: Send also gives up on a stream that is open.
AnyStreamFails(stream) == TRUE

StreamFails(stream) == ~stream.open

\* hello.Send returns an error, when its stream is reset: it sets no deadline and
\* does not look at its context while it reads.
SendFails(n) ==
  /\ loop[n] = "sending"
  /\ StreamFails(Waiting(n))
  /\ loop' = [loop EXCEPT ![n] = "select"]
  /\ UNCHANGED <<cancelled, heaviest, events, met, sent>>

-----------------------------------------------------------------------------
(* The handler of the i-th stream n has opened.                            *)

HandlerAlive(n, i) == loop[sent[n][i].to] # "crashed"

\* The greeting is read, or the stream is reset first.
ReadGreeting(n, i) ==
  /\ sent[n][i].at = "written"
  /\ HandlerAlive(n, i)
  /\ sent' = [sent EXCEPT ![n][i].at = IF sent[n][i].open THEN "offered" ELSE "failed"]
  /\ UNCHANGED <<loop, cancelled, heaviest, events, met>>

\* The reply is written.
WriteReply(n, i) ==
  /\ sent[n][i].at = "taken"
  /\ HandlerAlive(n, i)
  /\ sent' = [sent EXCEPT ![n][i].at = IF sent[n][i].open THEN "answered" ELSE "failed"]
  /\ UNCHANGED <<loop, cancelled, heaviest, events, met>>

-----------------------------------------------------------------------------
LoopStep(n) ==
  \/ Return(n)
  \/ SayHello(n) \/ CannotSayHello(n) \/ SayHelloPanics(n)
  \/ TakeGreeting(n)
  \/ GetReply(n) \/ SendFails(n)

HandlerStep(n, i) == ReadGreeting(n, i) \/ WriteReply(n, i)

Steps ==
  \/ \E n \in Nodes : LoopStep(n)
  \/ \E n \in Nodes : \E i \in DOMAIN sent[n] : HandlerStep(n, i)

Environment ==
  \/ \E n \in Nodes : Start(n) \/ SetHeaviest(n) \/ Cancel(n)
  \/ \E n, p \in Nodes : Identified(n, p)
  \/ \E n \in Nodes : \E i \in DOMAIN sent[n] : Reset(n, i)

Next == Steps \/ Environment

\* One stream for each time a node learns of a peer.
Streams == 1..MaxMeetings * Cardinality(Nodes)

\* A goroutine that can run does run.  A select chooses among its ready cases, so
\* none of them is promised for itself but cancellation, which stays ready; the
\* environment promises nothing.
Fairness ==
  /\ \A n \in Nodes : WF_vars(LoopStep(n)) /\ WF_vars(Return(n))
  /\ \A n \in Nodes : \A i \in Streams :
       WF_vars(i \in DOMAIN sent[n] /\ HandlerStep(n, i))

Spec == Init /\ [][Next]_vars /\ Fairness

-----------------------------------------------------------------------------
(* Safety.                                                                 *)

\* The variables have their types, and a node opens no more streams than it has
\* learnt of peers: each is greeted once (coordinator.go:191).
TypeOK ==
  /\ loop \in [Nodes -> LoopStates]
  /\ cancelled \in [Nodes -> BOOLEAN]
  /\ heaviest \in [Nodes -> BOOLEAN]
  /\ \A n \in Nodes :
       /\ events[n] \in Seq(Nodes)
       /\ sent[n] \in Seq([to : Nodes, at : Progress, open : BOOLEAN])
       /\ DOMAIN sent[n] \subseteq Streams
       /\ loop[n] = "sending" => sent[n] # <<>>

\* A node has at most one greeting on its way, the one its loop waits for: any
\* other is answered, or its stream is lost (sayHello runs inside the loop).
OneGreetingAtATime ==
  \A n \in Nodes : \A i \in DOMAIN sent[n] :
    \/ sent[n][i].at = "answered"
    \/ ~sent[n][i].open
    \/ i = Len(sent[n]) /\ loop[n] = "sending"

\* n belongs to loops each of which has returned or waits for one of them: at the end
\* of its waiting there is one that has returned, or a circle.
HeldBack(n) ==
  \E held \in SUBSET Nodes :
    /\ n \in held
    /\ \A p \in held :
         \/ loop[p] = "returned"
         \/ loop[p] = "sending" /\ Waiting(p).open /\ Waiting(p).to \in held

-----------------------------------------------------------------------------
(* Liveness.                                                               *)

\* Every greeting that a loop waits for is answered or fails, unless it is held back
\* for ever by a loop that has returned or a circle of greetings: nothing else keeps
\* it, not a lost connection, a crash or a busy peer (hello.Send, NewStreamHandler).
GreetingsEnd ==
  \A n \in Nodes :
    loop[n] = "sending" ~> loop[n] # "sending" \/ []HeldBack(n)

\* Run returns once its context is cancelled, with the same exception
\* (coordinator.go:188).
ReturnsUnlessHeldBack ==
  \A n \in Nodes :
    cancelled[n] /\ loop[n] # "down" ~>
      loop[n] \in {"returned", "crashed"} \/ []HeldBack(n)

\* coordinator.go:40, "blocks until the context is cancelled or an error occurs":
\* Run returns once its context is cancelled.
RunReturns ==
  \A n \in Nodes :
    cancelled[n] /\ loop[n] # "down" ~> loop[n] \in {"returned", "crashed"}

=============================================================================
