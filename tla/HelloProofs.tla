----------------------------- MODULE HelloProofs -----------------------------
(***************************************************************************)
(* Proofs about Hello, for any set of nodes and links and any number of    *)
(* meetings.                                                               *)
(*                                                                         *)
(* OneGreetingAtATime is inductive once the types of loop and sent are     *)
(* known.  Most steps leave every loop that waits waiting and only bring   *)
(* streams nearer their end (Progressing); the others are SayHello, which  *)
(* opens a stream when none is under way, and the two ends of Send.        *)
(***************************************************************************)
EXTENDS Hello, SequenceTheorems, FiniteSetTheorems, TLAPS

Stream == [to : Nodes, at : Progress, open : BOOLEAN]

\* What the proofs need of TypeOK.
Types ==
  /\ loop \in [Nodes -> LoopStates]
  /\ events \in [Nodes -> Seq(Nodes)]
  /\ sent \in [Nodes -> Seq(Stream)]
  /\ \A n \in Nodes : loop[n] = "sending" => sent[n] # <<>>

IInv == Types /\ OneGreetingAtATime

Over(stream) == stream.at = "answered" \/ ~stream.open

\* No loop stops waiting, no stream comes or goes, and none is under way again.
Progressing ==
  /\ \A n \in Nodes : (loop[n] = "sending") <=> (loop'[n] = "sending")
  /\ \A n \in Nodes : Len(sent'[n]) = Len(sent[n])
  /\ \A n \in Nodes : \A i \in 1..Len(sent[n]) : Over(sent[n][i]) => Over(sent'[n][i])

-----------------------------------------------------------------------------
\* The domain of a node's streams, and the stream it waits for.
LEMMA Positions ==
  ASSUME Types
  PROVE  \A n \in Nodes :
           /\ sent[n] \in Seq(Stream)
           /\ DOMAIN sent[n] = 1..Len(sent[n])
           /\ Len(sent[n]) \in Nat
           /\ \A i \in 1..Len(sent[n]) : sent[n][i] \in Stream
           /\ Waiting(n) = sent[n][Len(sent[n])]
           /\ loop[n] = "sending" => Len(sent[n]) \in 1..Len(sent[n])
<1> TAKE n \in Nodes
<1>1. sent[n] \in Seq(Stream)
  BY DEF Types
<1>2. loop[n] = "sending" => sent[n] # <<>>
  BY DEF Types
<1> QED
  BY <1>1, <1>2 DEF Waiting, Last

\* A stream with one field changed.
LEMMA StreamExcept ==
  ASSUME NEW s \in Stream
  PROVE  /\ [s EXCEPT !.open = FALSE] = [to |-> s.to, at |-> s.at, open |-> FALSE]
         /\ \A at : [s EXCEPT !.at = at] = [to |-> s.to, at |-> at, open |-> s.open]
         /\ s.open \in BOOLEAN
<1>1. \A b : [s EXCEPT !.open = b] = [to |-> s.to, at |-> s.at, open |-> b]
  BY DEF Stream
<1>2. \A at : [s EXCEPT !.at = at] = [to |-> s.to, at |-> at, open |-> s.open]
  BY DEF Stream
<1>3. s.open \in BOOLEAN
  BY DEF Stream
<1> QED
  BY <1>1, <1>2, <1>3

\* OneGreetingAtATime survives a step that only makes progress.
LEMMA ProgressKeeps ==
  ASSUME Types, Types', OneGreetingAtATime, Progressing
  PROVE  OneGreetingAtATime'
<1> SUFFICES ASSUME NEW n \in Nodes, NEW i \in DOMAIN sent'[n]
             PROVE  \/ sent'[n][i].at = "answered"
                    \/ ~sent'[n][i].open
                    \/ i = Len(sent'[n]) /\ loop'[n] = "sending"
  BY DEF OneGreetingAtATime
<1>1. sent'[n] \in Seq(Stream)
  BY DEF Types
<1>2. i \in 1..Len(sent[n]) /\ i \in DOMAIN sent[n]
  BY <1>1, Positions DEF Progressing
<1>3. \/ Over(sent[n][i])
      \/ i = Len(sent[n]) /\ loop[n] = "sending"
  BY <1>2 DEF OneGreetingAtATime, Over
<1> QED
  BY <1>2, <1>3 DEF Progressing, Over

\* A change of one stream that does not put it under way again is progress.
LEMMA OneStreamChanges ==
  ASSUME Types, NEW n \in Nodes, NEW i \in 1..Len(sent[n]), NEW s \in Stream,
         Over(sent[n][i]) => Over(s),
         sent' = [sent EXCEPT ![n][i] = s],
         UNCHANGED <<loop, events>>
  PROVE  Types' /\ Progressing
<1>1. sent \in [Nodes -> Seq(Stream)] /\ sent[n] \in Seq(Stream)
  BY DEF Types
<1>2. [sent[n] EXCEPT ![i] = s] \in Seq(Stream)
      /\ Len([sent[n] EXCEPT ![i] = s]) = Len(sent[n])
  BY <1>1, ExceptSeq
<1>3. sent' \in [Nodes -> Seq(Stream)]
  BY <1>1, <1>2
<1>4. \A m \in Nodes : Len(sent'[m]) = Len(sent[m])
  BY <1>1, <1>2
<1>5. \A m \in Nodes : \A j \in 1..Len(sent[m]) : Over(sent[m][j]) => Over(sent'[m][j])
  <2> SUFFICES ASSUME NEW m \in Nodes, NEW j \in 1..Len(sent[m]), Over(sent[m][j])
               PROVE  Over(sent'[m][j])
    OBVIOUS
  <2>1. CASE m = n /\ j = i
    BY <1>1, <2>1
  <2>2. CASE ~(m = n /\ j = i)
    <3>1. sent'[m][j] = sent[m][j]
      BY <1>1, <2>2
    <3> QED
      BY <3>1
  <2> QED
    BY <2>1, <2>2
<1>6. \A m \in Nodes : loop[m] = "sending" => sent'[m] # <<>>
  <2> SUFFICES ASSUME NEW m \in Nodes, loop[m] = "sending"
               PROVE  sent'[m] # <<>>
    OBVIOUS
  <2>1. Len(sent[m]) > 0
    BY Positions
  <2> QED
    BY <1>4, <2>1
<1> QED
  BY <1>3, <1>4, <1>5, <1>6 DEF Types, Progressing

\* A loop that moves between states in which it does not wait makes progress.
LEMMA LoopMoves ==
  ASSUME Types, NEW n \in Nodes, NEW to \in LoopStates,
         loop[n] # "sending", to # "sending",
         loop' = [loop EXCEPT ![n] = to],
         events' \in [Nodes -> Seq(Nodes)],
         UNCHANGED sent
  PROVE  Types' /\ Progressing
  BY DEF Types, Progressing

-----------------------------------------------------------------------------
(* The steps.                                                              *)

LEMMA InitGood == Init => IInv
  BY DEF Init, IInv, Types, OneGreetingAtATime, LoopStates

LEMMA SayHelloGood ==
  ASSUME Types, OneGreetingAtATime, NEW n \in Nodes, SayHello(n)
  PROVE  Types' /\ OneGreetingAtATime'
<1> DEFINE s == [to |-> Head(events[n]), at |-> "written", open |-> TRUE]
<1>1. events[n] \in Seq(Nodes) /\ events[n] # <<>>
  BY DEF Types, SayHello
<1>2. Head(events[n]) \in Nodes /\ Tail(events[n]) \in Seq(Nodes)
  BY <1>1
<1>3. s \in Stream
  BY <1>2 DEF Stream, Progress
<1>4. /\ sent' = [sent EXCEPT ![n] = Append(sent[n], s)]
      /\ events' = [events EXCEPT ![n] = Tail(events[n])]
      /\ loop' = [loop EXCEPT ![n] = "sending"]
      /\ loop[n] = "select"
  BY DEF SayHello, Received, Types
<1> HIDE DEF s
<1>5. Types'
  <2>1. loop' \in [Nodes -> LoopStates] /\ events' \in [Nodes -> Seq(Nodes)]
    BY <1>2, <1>4 DEF Types, LoopStates
  <2>2. Append(sent[n], s) \in Seq(Stream) /\ Append(sent[n], s) # <<>>
    <3>1. sent[n] \in Seq(Stream)
      BY DEF Types
    <3> QED
      BY <1>3, <3>1, AppendProperties
  <2>3. sent' \in [Nodes -> Seq(Stream)]
    BY <1>4, <2>2 DEF Types
  <2>4. \A m \in Nodes : loop'[m] = "sending" => sent'[m] # <<>>
    BY <1>4, <2>2 DEF Types
  <2> QED
    BY <2>1, <2>3, <2>4 DEF Types
<1>6. ASSUME NEW m \in Nodes, NEW i \in DOMAIN sent'[m]
      PROVE  \/ sent'[m][i].at = "answered"
             \/ ~sent'[m][i].open
             \/ i = Len(sent'[m]) /\ loop'[m] = "sending"
  <2>1. CASE m # n
    <3>1. sent'[m] = sent[m] /\ loop'[m] = loop[m]
      BY <1>4, <2>1 DEF Types
    <3> QED
      BY <1>6, <3>1 DEF OneGreetingAtATime
  <2>2. CASE m = n /\ i = Len(sent[n]) + 1
    <3>1. Len(sent'[n]) = Len(sent[n]) + 1 /\ loop'[n] = "sending"
      BY <1>3, <1>4 DEF Types
    <3> QED
      BY <2>2, <3>1
  <2>3. CASE m = n /\ i # Len(sent[n]) + 1
    <3>1. i \in DOMAIN sent[n] /\ sent'[n][i] = sent[n][i]
      BY <1>3, <1>4, <1>6, <2>3 DEF Types
    <3>2. \/ sent[n][i].at = "answered"
          \/ ~sent[n][i].open
          \/ i = Len(sent[n]) /\ loop[n] = "sending"
      BY <3>1 DEF OneGreetingAtATime
    <3> QED
      BY <1>4, <2>3, <3>1, <3>2
  <2> QED
    BY <2>1, <2>2, <2>3
<1> QED
  BY <1>5, <1>6 DEF OneGreetingAtATime

\* A loop stops waiting when the stream it waits for is over.
LEMMA SendEndsGood ==
  ASSUME Types, OneGreetingAtATime, NEW n \in Nodes, GetReply(n) \/ SendFails(n)
  PROVE  Types' /\ OneGreetingAtATime'
<1>1. /\ loop[n] = "sending"
      /\ loop' = [loop EXCEPT ![n] = "select"]
      /\ UNCHANGED <<events, sent>>
  BY DEF GetReply, SendFails
<1>2. Over(sent[n][Len(sent[n])])
  BY Positions DEF GetReply, SendFails, StreamFails, Over
<1>3. Types'
  BY <1>1 DEF Types, LoopStates
<1>4. ASSUME NEW m \in Nodes, NEW i \in DOMAIN sent[m]
      PROVE  \/ sent[m][i].at = "answered"
             \/ ~sent[m][i].open
             \/ i = Len(sent[m]) /\ loop'[m] = "sending"
  <2>1. CASE m = n
    BY <1>2, <1>4, <2>1 DEF OneGreetingAtATime, Over
  <2>2. CASE m # n
    <3>1. loop'[m] = loop[m]
      BY <1>1, <2>2 DEF Types
    <3> QED
      BY <1>4, <3>1 DEF OneGreetingAtATime
  <2> QED
    BY <2>1, <2>2
<1> QED
  BY <1>1, <1>3, <1>4 DEF OneGreetingAtATime

\* The program of a node dies, and its streams are lost at both ends.
LEMMA SayHelloPanicsGood ==
  ASSUME Types, OneGreetingAtATime, NEW n \in Nodes, SayHelloPanics(n)
  PROVE  Types' /\ OneGreetingAtATime' /\ Progressing
<1> DEFINE lost(m, i) == [sent[m][i] EXCEPT !.open = @ /\ m # n /\ sent[m][i].to # n]
<1>1. /\ loop[n] = "select"
      /\ loop' = [loop EXCEPT ![n] = "crashed"]
      /\ events' = events
      /\ sent' = [m \in Nodes |-> [i \in DOMAIN sent[m] |-> lost(m, i)]]
  BY DEF SayHelloPanics
<1>2. ASSUME NEW m \in Nodes, NEW i \in 1..Len(sent[m])
      PROVE  lost(m, i) \in Stream /\ (Over(sent[m][i]) => Over(lost(m, i)))
  <2>1. sent[m][i] \in Stream
    BY Positions
  <2>2. lost(m, i) = [to |-> sent[m][i].to, at |-> sent[m][i].at,
                      open |-> sent[m][i].open /\ m # n /\ sent[m][i].to # n]
    BY <2>1 DEF Stream
  <2>3. (sent[m][i].open /\ m # n /\ sent[m][i].to # n) \in BOOLEAN
    OBVIOUS
  <2> QED
    BY <2>1, <2>2, <2>3 DEF Stream, Over
<1> HIDE DEF lost
<1>3. \A m \in Nodes :
        /\ sent'[m] = [i \in 1..Len(sent[m]) |-> lost(m, i)]
        /\ sent'[m] \in Seq(Stream)
        /\ Len(sent'[m]) = Len(sent[m])
  <2> SUFFICES ASSUME NEW m \in Nodes
               PROVE  /\ sent'[m] = [i \in 1..Len(sent[m]) |-> lost(m, i)]
                      /\ sent'[m] \in Seq(Stream)
                      /\ Len(sent'[m]) = Len(sent[m])
    OBVIOUS
  <2>1. Len(sent[m]) \in Nat /\ DOMAIN sent[m] = 1..Len(sent[m])
    BY Positions
  <2>2. sent'[m] = [i \in 1..Len(sent[m]) |-> lost(m, i)]
    BY <1>1, <2>1
  <2>3. \A i \in 1..Len(sent[m]) : lost(m, i) \in Stream
    BY <1>2
  <2> QED
    BY <2>1, <2>2, <2>3
<1>4. Types'
  <2>1. sent' \in [Nodes -> Seq(Stream)]
    BY <1>1, <1>3
  <2>2. \A m \in Nodes : loop'[m] = "sending" => loop[m] = "sending"
    BY <1>1 DEF Types
  <2>3. \A m \in Nodes : loop'[m] = "sending" => sent'[m] # <<>>
    <3> SUFFICES ASSUME NEW m \in Nodes, loop'[m] = "sending"
                 PROVE  sent'[m] # <<>>
      OBVIOUS
    <3>1. Len(sent[m]) > 0
      BY <2>2, Positions
    <3>2. Len(sent'[m]) > 0
      BY <1>3, <3>1
    <3> QED
      BY <3>2
  <2> QED
    BY <1>1, <2>1, <2>3 DEF Types, LoopStates
<1>5. Progressing
  <2>1. \A m \in Nodes : (loop[m] = "sending") <=> (loop'[m] = "sending")
    BY <1>1 DEF Types
  <2> QED
    BY <1>2, <1>3, <2>1 DEF Progressing
<1> QED
  BY <1>4, <1>5, ProgressKeeps

\* A greeting moves on, or its stream is lost.
LEMMA StreamMovesGood ==
  ASSUME Types, OneGreetingAtATime, NEW n \in Nodes, NEW i \in DOMAIN sent[n],
         \/ TakeGreeting(sent[n][i].to) /\ sent' = [sent EXCEPT ![n][i].at = AfterTaking]
                                       /\ sent[n][i].at = "offered"
         \/ HandlerStep(n, i)
         \/ Reset(n, i)
  PROVE  Types' /\ OneGreetingAtATime' /\ Progressing
<1>1. i \in 1..Len(sent[n]) /\ sent[n][i] \in Stream
  BY Positions
<1>2. PICK at \in Progress, open \in BOOLEAN :
        /\ sent' = [sent EXCEPT ![n][i] = [to |-> sent[n][i].to, at |-> at, open |-> open]]
        /\ sent[n][i].at = "answered" => at = "answered"
        /\ ~sent[n][i].open => ~open
  <2>1. CASE Reset(n, i)
    <3>1. sent' = [sent EXCEPT ![n][i] = [sent[n][i] EXCEPT !.open = FALSE]]
      BY <2>1 DEF Reset
    <3>2. [sent[n][i] EXCEPT !.open = FALSE]
            = [to |-> sent[n][i].to, at |-> sent[n][i].at, open |-> FALSE]
      BY <1>1, StreamExcept
    <3> QED
      BY <1>1, <3>1, <3>2 DEF Stream
  <2>2. CASE ~Reset(n, i)
    <3>1. PICK at \in Progress :
            /\ sent' = [sent EXCEPT ![n][i].at = at]
            /\ sent[n][i].at # "answered"
      BY <2>2 DEF HandlerStep, ReadGreeting, WriteReply, AfterTaking, Progress
    <3>2. sent' = [sent EXCEPT ![n][i] = [sent[n][i] EXCEPT !.at = at]]
      BY <3>1
    <3>3. [sent[n][i] EXCEPT !.at = at]
            = [to |-> sent[n][i].to, at |-> at, open |-> sent[n][i].open]
      BY <1>1, StreamExcept
    <3>4. /\ sent' = [sent EXCEPT ![n][i] =
                        [to |-> sent[n][i].to, at |-> at, open |-> sent[n][i].open]]
          /\ sent[n][i].open \in BOOLEAN
      BY <1>1, <3>2, <3>3, StreamExcept
    <3> QED
      BY <3>1, <3>4
  <2> QED
    BY <2>1, <2>2
<1>3. /\ [to |-> sent[n][i].to, at |-> at, open |-> open] \in Stream
      /\ Over(sent[n][i]) => Over([to |-> sent[n][i].to, at |-> at, open |-> open])
  BY <1>1, <1>2 DEF Stream, Over
<1>4. UNCHANGED <<loop, events>>
  BY DEF TakeGreeting, HandlerStep, ReadGreeting, WriteReply, Reset
<1>5. Types' /\ Progressing
  BY <1>1, <1>2, <1>3, <1>4, OneStreamChanges
<1> QED
  BY <1>5, ProgressKeeps

\* Starting, returning, meeting and giving up before a stream is opened.
LEMMA QuietGood ==
  ASSUME Types, OneGreetingAtATime, NEW n \in Nodes,
         \/ Start(n) \/ SetHeaviest(n) \/ Cancel(n) \/ Return(n) \/ CannotSayHello(n)
         \/ \E p \in Nodes : Identified(n, p)
  PROVE  Types' /\ OneGreetingAtATime'
<1>1. UNCHANGED sent
  BY DEF Start, SetHeaviest, Cancel, Return, CannotSayHello, Identified
<1>2. events' \in [Nodes -> Seq(Nodes)]
  <2>1. CASE UNCHANGED events
    BY <2>1 DEF Types
  <2>2. CASE CannotSayHello(n)
    <3>1. events' = [events EXCEPT ![n] = Tail(events[n])] /\ events[n] # <<>>
      BY <2>2 DEF CannotSayHello, Received
    <3>2. Tail(events[n]) \in Seq(Nodes)
      BY <3>1 DEF Types
    <3> QED
      BY <3>1, <3>2 DEF Types
  <2>3. CASE \E p \in Nodes : Identified(n, p)
    <3>1. PICK p \in Nodes : events' = [events EXCEPT ![n] = Append(events[n], p)]
      BY <2>3 DEF Identified
    <3>2. Append(events[n], p) \in Seq(Nodes)
      BY DEF Types
    <3> QED
      BY <3>1, <3>2 DEF Types
  <2> QED
    BY <2>1, <2>2, <2>3 DEF Start, SetHeaviest, Cancel, Return
<1>3. \/ UNCHANGED loop
      \/ \E to \in LoopStates : /\ loop[n] # "sending" /\ to # "sending"
                               /\ loop' = [loop EXCEPT ![n] = to]
  BY DEF Start, SetHeaviest, Cancel, Return, CannotSayHello, Identified, LoopStates
<1>4. Types' /\ Progressing
  <2>1. CASE UNCHANGED loop
    BY <1>1, <1>2, <2>1 DEF Types, Progressing
  <2>2. CASE ~UNCHANGED loop
    BY <1>1, <1>2, <1>3, <2>2, LoopMoves
  <2> QED
    BY <2>1, <2>2
<1> QED
  BY <1>4, ProgressKeeps

LEMMA NextGood == IInv /\ [Next]_vars => IInv'
<1> SUFFICES ASSUME Types, OneGreetingAtATime, [Next]_vars
             PROVE  Types' /\ OneGreetingAtATime'
  BY DEF IInv
<1>1. ASSUME NEW n \in Nodes, LoopStep(n) PROVE Types' /\ OneGreetingAtATime'
  <2>1. CASE Return(n) \/ CannotSayHello(n)
    BY <2>1, QuietGood
  <2>2. CASE SayHello(n)
    BY <2>2, SayHelloGood
  <2>3. CASE SayHelloPanics(n)
    BY <2>3, SayHelloPanicsGood
  <2>4. CASE TakeGreeting(n)
    <3>1. PICK m \in Nodes : \E i \in DOMAIN sent[m] :
            /\ sent[m][i].to = n
            /\ sent[m][i].at = "offered"
            /\ sent' = [sent EXCEPT ![m][i].at = AfterTaking]
      BY <2>4 DEF TakeGreeting
    <3>2. PICK i \in DOMAIN sent[m] :
            /\ sent[m][i].to = n
            /\ sent[m][i].at = "offered"
            /\ sent' = [sent EXCEPT ![m][i].at = AfterTaking]
      BY <3>1
    <3> QED
      BY <2>4, <3>2, StreamMovesGood
  <2>5. CASE GetReply(n) \/ SendFails(n)
    BY <2>5, SendEndsGood
  <2> QED
    BY <1>1, <2>1, <2>2, <2>3, <2>4, <2>5 DEF LoopStep
<1>2. ASSUME NEW n \in Nodes, NEW i \in DOMAIN sent[n], HandlerStep(n, i) \/ Reset(n, i)
      PROVE  Types' /\ OneGreetingAtATime'
  BY <1>2, StreamMovesGood
<1>3. ASSUME NEW n \in Nodes,
             \/ Start(n) \/ SetHeaviest(n) \/ Cancel(n)
             \/ \E p \in Nodes : Identified(n, p)
      PROVE  Types' /\ OneGreetingAtATime'
  BY <1>3, QuietGood
<1>4. CASE UNCHANGED vars
  BY <1>4 DEF vars, Types, OneGreetingAtATime
<1> QED
  BY <1>1, <1>2, <1>3, <1>4 DEF Next, Steps, Environment

-----------------------------------------------------------------------------
\* In every run, whatever connections are lost and whichever programs die, a node
\* has at most one greeting on its way (sayHello is called inside the loop).
THEOREM AlwaysOneGreetingAtATime == Spec => []OneGreetingAtATime
<1>1. IInv => OneGreetingAtATime
  BY DEF IInv
<1> QED
  BY InitGood, NextGood, <1>1, PTL DEF Spec

-----------------------------------------------------------------------------
(* Counting streams.  A node has opened, or has still to open, at most one *)
(* stream for each time it has met a peer.                                 *)

MetTyped == met \in [Nodes -> [Nodes -> 0..MaxMeetings]]

\* The meetings of n: the first, second, ... with each peer.
Meetings(n) == {m \in Nodes \X (1..MaxMeetings) : m[2] <= met[n][m[1]]}

Greetings(n) == Len(sent[n]) + Len(events[n])

Counted ==
  /\ MetTyped
  /\ cancelled \in [Nodes -> BOOLEAN]
  /\ heaviest \in [Nodes -> BOOLEAN]
  /\ \A n \in Nodes : Greetings(n) <= Cardinality(Meetings(n))

LEMMA Arithmetic ==
  \A a, b, c, d \in Nat :
    /\ (a + 1) + (b - 1) <= a + b
    /\ a + (b + 1) = a + b + 1
    /\ a + b <= c /\ c <= d => a <= d
OBVIOUS

LEMMA NumberOfStreams ==
  /\ MaxMeetings \in Nat
  /\ Cardinality(Nodes) \in Nat
  /\ MaxMeetings * Cardinality(Nodes) \in Nat
  /\ IsFiniteSet(Nodes \X (1..MaxMeetings))
  /\ Cardinality(Nodes \X (1..MaxMeetings)) = MaxMeetings * Cardinality(Nodes)
<1>1. MaxMeetings \in Nat /\ IsFiniteSet(Nodes)
  BY LinksAssumption
<1>2. Cardinality(Nodes) \in Nat
  BY <1>1, FS_CardinalityType
<1>3. IsFiniteSet(1..MaxMeetings) /\ Cardinality(1..MaxMeetings) = MaxMeetings
  <2>1. /\ IsFiniteSet(1..MaxMeetings)
        /\ Cardinality(1..MaxMeetings)
             = IF 1 > MaxMeetings THEN 0 ELSE MaxMeetings - 1 + 1
    BY <1>1, FS_Interval
  <2> QED
    BY <1>1, <2>1
<1> DEFINE I == 1..MaxMeetings
<1> HIDE DEF I
<1>4. /\ IsFiniteSet(Nodes \X I)
      /\ Cardinality(Nodes \X I) = Cardinality(Nodes) * Cardinality(I)
  BY <1>1, <1>3, FS_Product DEF I
<1>5. \A a, b \in Nat : a * b = b * a /\ a * b \in Nat
  OBVIOUS
<1> QED
  BY <1>1, <1>2, <1>3, <1>4, <1>5 DEF I

LEMMA MeetingsFinite ==
  ASSUME NEW n
  PROVE  /\ IsFiniteSet(Meetings(n))
         /\ Cardinality(Meetings(n)) \in Nat
         /\ Cardinality(Meetings(n)) <= MaxMeetings * Cardinality(Nodes)
<1>1. Meetings(n) \in SUBSET (Nodes \X (1..MaxMeetings))
  BY DEF Meetings
<1> QED
  BY <1>1, NumberOfStreams, FS_Subset, FS_CardinalityType

\* Every step but Identified leaves no more greetings than there were.
LEMMA QueuesShrink ==
  ASSUME Types, OneGreetingAtATime, [Next]_vars,
         ~ \E n, p \in Nodes : Identified(n, p)
  PROVE  /\ UNCHANGED met
         /\ \A n \in Nodes : Greetings(n)' <= Greetings(n)
<1>1. \A n \in Nodes : /\ sent[n] \in Seq(Stream) /\ events[n] \in Seq(Nodes)
                       /\ Len(sent[n]) \in Nat /\ Len(events[n]) \in Nat
                       /\ events[n] # <<>> =>
                            /\ Len(Received(events[n])) = Len(events[n]) - 1
                            /\ Len(Received(events[n])) \in Nat
  BY DEF Types, Received
<1>2. ASSUME NEW n \in Nodes, NEW i \in DOMAIN sent[n], HandlerStep(n, i) \/ Reset(n, i)
      PROVE  /\ UNCHANGED <<met, events>>
             /\ Progressing
  BY <1>2, StreamMovesGood DEF HandlerStep, ReadGreeting, WriteReply, Reset
<1>3. ASSUME NEW n \in Nodes, TakeGreeting(n)
      PROVE  UNCHANGED <<met, events>> /\ Progressing
  <2>1. PICK m \in Nodes : \E i \in DOMAIN sent[m] :
          /\ sent[m][i].to = n
          /\ sent[m][i].at = "offered"
          /\ sent' = [sent EXCEPT ![m][i].at = AfterTaking]
    BY <1>3 DEF TakeGreeting
  <2>2. PICK i \in DOMAIN sent[m] :
          /\ sent[m][i].to = n
          /\ sent[m][i].at = "offered"
          /\ sent' = [sent EXCEPT ![m][i].at = AfterTaking]
    BY <2>1
  <2> QED
    BY <1>3, <2>2, StreamMovesGood DEF TakeGreeting
<1>4. ASSUME NEW n \in Nodes, SayHelloPanics(n)
      PROVE  UNCHANGED <<met, events>> /\ Progressing
  BY <1>4, SayHelloPanicsGood DEF SayHelloPanics
<1>5. ASSUME UNCHANGED <<met, events>>, Progressing
      PROVE  /\ UNCHANGED met
             /\ \A n \in Nodes : Greetings(n)' <= Greetings(n)
  BY <1>1, <1>5 DEF Progressing, Greetings
<1>6. ASSUME NEW n \in Nodes, SayHello(n)
      PROVE  /\ UNCHANGED met
             /\ \A m \in Nodes : Greetings(m)' <= Greetings(m)
  <2> DEFINE s == [to |-> Head(events[n]), at |-> "written", open |-> TRUE]
  <2>1. /\ UNCHANGED met
        /\ events' = [events EXCEPT ![n] = Received(events[n])]
        /\ sent' = [sent EXCEPT ![n] = Append(sent[n], s)]
        /\ events[n] # <<>>
    BY <1>6 DEF SayHello
  <2> HIDE DEF s
  <2>2. Len(Append(sent[n], s)) = Len(sent[n]) + 1
    BY <1>1
  <2>3. \A m \in Nodes :
          /\ events'[m] = IF m = n THEN Received(events[n]) ELSE events[m]
          /\ sent'[m] = IF m = n THEN Append(sent[n], s) ELSE sent[m]
    BY <2>1 DEF Types
  <2> SUFFICES ASSUME NEW m \in Nodes PROVE Greetings(m)' <= Greetings(m)
    BY <2>1
  <2>4. CASE m = n
    <3>1. Len(sent'[m]) = Len(sent[m]) + 1 /\ Len(events'[m]) = Len(events[m]) - 1
      BY <1>1, <2>1, <2>2, <2>3, <2>4
    <3>2. Len(sent[m]) \in Nat /\ Len(events[m]) \in Nat
      BY <1>1
    <3>3. Len(sent'[m]) + Len(events'[m]) <= Len(sent[m]) + Len(events[m])
      BY <3>1, <3>2, Arithmetic
    <3> QED
      BY <3>3 DEF Greetings
  <2>5. CASE m # n
    <3>1. sent'[m] = sent[m] /\ events'[m] = events[m]
      BY <2>3, <2>5
    <3> QED
      BY <1>1, <3>1 DEF Greetings
  <2> QED
    BY <2>4, <2>5
<1>7. ASSUME NEW n \in Nodes, CannotSayHello(n)
      PROVE  /\ UNCHANGED met
             /\ \A m \in Nodes : Greetings(m)' <= Greetings(m)
  <2>1. /\ UNCHANGED <<met, sent>>
        /\ events' = [events EXCEPT ![n] = Received(events[n])]
        /\ events[n] # <<>>
    BY <1>7 DEF CannotSayHello
  <2>2. \A m \in Nodes : events'[m] = IF m = n THEN Received(events[n]) ELSE events[m]
    BY <2>1 DEF Types
  <2> QED
    BY <1>1, <2>1, <2>2 DEF Greetings
<1>8. ASSUME UNCHANGED <<met, events, sent>>
      PROVE  /\ UNCHANGED met
             /\ \A n \in Nodes : Greetings(n)' <= Greetings(n)
  BY <1>1, <1>8 DEF Greetings
<1>9. ASSUME NEW n \in Nodes,
             \/ Start(n) \/ SetHeaviest(n) \/ Cancel(n) \/ Return(n)
             \/ GetReply(n) \/ SendFails(n)
      PROVE  UNCHANGED <<met, events, sent>>
  BY <1>9 DEF Start, SetHeaviest, Cancel, Return, GetReply, SendFails
<1>10. CASE UNCHANGED vars
  BY <1>8, <1>10 DEF vars
<1> HIDE DEF Greetings
<1> QED
  BY <1>2, <1>3, <1>4, <1>5, <1>6, <1>7, <1>8, <1>9, <1>10
     DEF Next, Steps, Environment, LoopStep

\* Learning of a peer adds one meeting and one greeting to come.
LEMMA MeetingAdds ==
  ASSUME Types, MetTyped, NEW n \in Nodes, NEW p \in Nodes, Identified(n, p)
  PROVE  /\ MetTyped'
         /\ \A m \in Nodes \ {n} : /\ Meetings(m)' = Meetings(m)
                                   /\ Greetings(m)' = Greetings(m)
         /\ Greetings(n)' = Greetings(n) + 1
         /\ Cardinality(Meetings(n)') = Cardinality(Meetings(n)) + 1
<1> DEFINE k == met[n][p] + 1
<1>1. /\ met' = [met EXCEPT ![n] = [met[n] EXCEPT ![p] = k]]
      /\ met[n][p] < MaxMeetings
      /\ events' = [events EXCEPT ![n] = Append(events[n], p)]
      /\ sent' = sent
  BY DEF Identified, MetTyped
<1>2. met[n][p] \in Nat /\ MaxMeetings \in Nat
  BY NumberOfStreams DEF MetTyped
<1>3. k \in 1..MaxMeetings
  BY <1>1, <1>2
<1>4. \A m, q \in Nodes : met'[m][q] = IF m = n /\ q = p THEN k ELSE met[m][q]
  BY <1>1 DEF MetTyped
<1>5. MetTyped'
  BY <1>1, <1>3 DEF MetTyped
<1>6. Meetings(n)' = Meetings(n) \cup {<<p, k>>}
  <2> SUFFICES ASSUME NEW q \in Nodes, NEW j \in 1..MaxMeetings
               PROVE  j <= met'[n][q] <=> j <= met[n][q] \/ <<q, j>> = <<p, k>>
    BY <1>3 DEF Meetings
  <2> QED
    BY <1>2, <1>4
<1>7. <<p, k>> \notin Meetings(n)
  BY <1>2 DEF Meetings
<1>8. \A m \in Nodes \ {n} : Meetings(m)' = Meetings(m)
  BY <1>4 DEF Meetings
<1> HIDE DEF k
<1>9. Cardinality(Meetings(n)') = Cardinality(Meetings(n)) + 1
  BY <1>6, <1>7, MeetingsFinite, FS_AddElement
<1>10. /\ \A m \in Nodes \ {n} : Greetings(m)' = Greetings(m)
       /\ Greetings(n)' = Greetings(n) + 1
  <2>1. events[n] \in Seq(Nodes) /\ sent[n] \in Seq(Stream)
    BY DEF Types
  <2>2. Len(Append(events[n], p)) = Len(events[n]) + 1
        /\ Len(events[n]) \in Nat /\ Len(sent[n]) \in Nat
    BY <2>1
  <2>3. events'[n] = Append(events[n], p) /\ \A m \in Nodes \ {n} : events'[m] = events[m]
    BY <1>1 DEF Types
  <2>4. /\ sent' = sent
        /\ Len(events'[n]) = Len(events[n]) + 1
        /\ \A m \in Nodes \ {n} : events'[m] = events[m]
    BY <1>1, <2>2, <2>3
  <2>5. Greetings(n)' = Len(sent[n]) + (Len(events[n]) + 1)
    BY <2>4 DEF Greetings
  <2>6. Greetings(n) = Len(sent[n]) + Len(events[n])
    BY DEF Greetings
  <2>7. \A m \in Nodes \ {n} : Greetings(m)' = Greetings(m)
    BY <2>4 DEF Greetings
  <2>8. Len(sent[n]) + (Len(events[n]) + 1) = Len(sent[n]) + Len(events[n]) + 1
    BY <2>2, Arithmetic
  <2> QED
    BY <2>5, <2>6, <2>7, <2>8
<1> QED
  BY <1>5, <1>8, <1>9, <1>10

LEMMA InitCounted == Init => Counted
<1> SUFFICES ASSUME Init PROVE Counted
  OBVIOUS
<1>1. /\ met = [n \in Nodes |-> [p \in Nodes |-> 0]]
      /\ cancelled = [n \in Nodes |-> FALSE]
      /\ heaviest \in [Nodes -> BOOLEAN]
      /\ \A n \in Nodes : sent[n] = <<>> /\ events[n] = <<>>
  BY DEF Init
<1>2. MetTyped
  BY <1>1, NumberOfStreams DEF MetTyped
<1>3. \A n \in Nodes : Greetings(n) = 0
  <2>1. \A n \in Nodes : Greetings(n) = Len(<<>>) + Len(<<>>)
    BY <1>1 DEF Greetings
  <2> QED
    BY <2>1
<1>4. \A n \in Nodes : Cardinality(Meetings(n)) >= 0
  BY MeetingsFinite
<1> QED
  BY <1>1, <1>2, <1>3, <1>4 DEF Counted

LEMMA CountedStays == IInv /\ Counted /\ [Next]_vars => Counted'
<1> SUFFICES ASSUME Types, OneGreetingAtATime, Counted, [Next]_vars PROVE Counted'
  BY DEF IInv
<1>1. Types'
  BY NextGood DEF IInv
<1>2. \A n \in Nodes : /\ Greetings(n) \in Nat
                       /\ Greetings(n)' \in Nat
                       /\ Cardinality(Meetings(n)) \in Nat
  <2>1. \A n \in Nodes : Greetings(n) \in Nat
    BY DEF Types, Greetings
  <2>2. \A n \in Nodes : Greetings(n)' \in Nat
    BY <1>1 DEF Types, Greetings
  <2> QED
    BY <2>1, <2>2, MeetingsFinite
<1>3. cancelled' \in [Nodes -> BOOLEAN] /\ heaviest' \in [Nodes -> BOOLEAN]
  BY DEF Counted, Next, Steps, Environment, LoopStep, HandlerStep, Start, SetHeaviest,
         Cancel, Identified, Reset, Return, SayHello, CannotSayHello, SayHelloPanics,
         TakeGreeting, GetReply, SendFails, ReadGreeting, WriteReply, vars
<1>4. MetTyped' /\ \A n \in Nodes : Greetings(n)' <= Cardinality(Meetings(n)')
  <2>1. CASE \E n, p \in Nodes : Identified(n, p)
    <3>1. PICK n \in Nodes, p \in Nodes : Identified(n, p)
      BY <2>1
    <3>2. /\ MetTyped'
          /\ \A m \in Nodes \ {n} : /\ Meetings(m)' = Meetings(m)
                                    /\ Greetings(m)' = Greetings(m)
          /\ Greetings(n)' = Greetings(n) + 1
          /\ Cardinality(Meetings(n)') = Cardinality(Meetings(n)) + 1
      BY <3>1, MeetingAdds DEF Counted
    <3> QED
      BY <1>2, <3>2 DEF Counted
  <2>2. CASE ~ \E n, p \in Nodes : Identified(n, p)
    <3>1. /\ UNCHANGED met
          /\ \A n \in Nodes : Greetings(n)' <= Greetings(n)
      BY <2>2, QueuesShrink
    <3>2. \A n \in Nodes : Meetings(n)' = Meetings(n)
      BY <3>1 DEF Meetings
    <3> QED
      BY <1>2, <3>1, <3>2 DEF Counted, MetTyped
  <2> QED
    BY <2>1, <2>2
<1> QED
  BY <1>3, <1>4 DEF Counted

\* Type correctness; in particular, however peers come and go, a node greets each
\* peer at most as often as it has learnt of it (coordinator.go:191).
THEOREM TypeCorrect == Spec => []TypeOK
<1>1. ASSUME IInv, Counted PROVE TypeOK
  <2>1. ASSUME NEW n \in Nodes
        PROVE  /\ events[n] \in Seq(Nodes)
               /\ sent[n] \in Seq(Stream)
               /\ DOMAIN sent[n] \subseteq Streams
               /\ loop[n] = "sending" => sent[n] # <<>>
    <3>1. /\ events[n] \in Seq(Nodes) /\ sent[n] \in Seq(Stream)
          /\ loop[n] = "sending" => sent[n] # <<>>
      BY <1>1 DEF IInv, Types
    <3>2. Len(sent[n]) <= MaxMeetings * Cardinality(Nodes)
      <4>1. Len(sent[n]) \in Nat /\ Len(events[n]) \in Nat
        BY <3>1
      <4>2. Len(sent[n]) + Len(events[n]) <= Cardinality(Meetings(n))
        BY <1>1 DEF Counted, Greetings
      <4> DEFINE most == MaxMeetings * Cardinality(Nodes)
                 have == Cardinality(Meetings(n))
      <4>3. most \in Nat /\ have \in Nat /\ have <= most
        BY MeetingsFinite, NumberOfStreams
      <4> HIDE DEF most, have
      <4>4. Len(sent[n]) + Len(events[n]) <= have
        BY <4>2 DEF have
      <4>5. Len(sent[n]) <= most
        BY <4>1, <4>3, <4>4, Arithmetic
      <4> QED
        BY <4>5 DEF most
    <3>3. DOMAIN sent[n] = 1..Len(sent[n]) /\ Len(sent[n]) \in Nat
      BY <3>1
    <3> QED
      BY <3>1, <3>2, <3>3, NumberOfStreams DEF Streams
  <2> QED
    BY <1>1, <2>1 DEF TypeOK, IInv, Types, Counted, Stream
<1> QED
  BY InitGood, InitCounted, NextGood, CountedStays, <1>1, PTL DEF Spec

-----------------------------------------------------------------------------
(* What a loop waits for.  A greeting that neither moves nor can move is   *)
(* held back: the part of GreetingsEnd that is safety.                     *)

Gone == {"down", "crashed"}

\* A stream that is open has a handler behind it, which has not given up.
Reached ==
  \A n \in Nodes : \A i \in DOMAIN sent[n] :
    sent[n][i].open => sent[n][i].at # "failed" /\ loop[sent[n][i].to] \notin Gone

\* The loop can return, take the head of its queue or a greeting, or Send can end.
LoopCanStep(p) ==
  \/ /\ loop[p] = "select"
     /\ \/ cancelled[p]
        \/ events[p] # <<>>
        \/ \E n \in Nodes : \E i \in DOMAIN sent[n] :
             sent[n][i].to = p /\ sent[n][i].at = "offered"
  \/ loop[p] = "sending" /\ Over(Waiting(p))

\* The handler of the stream it waits for can read the greeting or write the reply.
GreetingCanMove(p) ==
  /\ loop[p] = "sending"
  /\ Waiting(p).at \in {"written", "taken"}
  /\ loop[Waiting(p).to] # "crashed"

WaitsWithin(S) == \A p \in S : loop[p] = "sending" => Waiting(p).to \in S

\* A loop that waits is held back by a circle or a returned loop, or something can be
\* done by the loops it waits for, whichever set holds those, or by their handlers.
HeldBackOrMoves ==
  \A S \in SUBSET Nodes : WaitsWithin(S) =>
    \A n \in S : loop[n] = "sending" =>
      HeldBack(n) \/ \E p \in S : LoopCanStep(p) \/ GreetingCanMove(p)

\* A step in which no program dies, and streams are opened to living ones.
LEMMA StaysReached ==
  ASSUME Types, Types', Reached,
         \A m \in Nodes : loop'[m] \in Gone => loop[m] \in Gone,
         \A n \in Nodes : \A i \in DOMAIN sent'[n] :
           LET s == sent'[n][i]
           IN  s.open =>
                 /\ s.at # "failed"
                 /\ \/ i \in DOMAIN sent[n] /\ sent[n][i].open /\ s.to = sent[n][i].to
                    \/ loop[s.to] \notin Gone
  PROVE  Reached'
<1> SUFFICES ASSUME NEW n \in Nodes, NEW i \in DOMAIN sent'[n], sent'[n][i].open
             PROVE  sent'[n][i].at # "failed" /\ loop'[sent'[n][i].to] \notin Gone
  BY DEF Reached
<1>1. sent'[n][i].to \in Nodes
  <2>1. sent'[n] \in Seq(Stream)
    BY DEF Types
  <2>2. sent'[n][i] \in Stream
    BY <2>1
  <2> QED  BY <2>2 DEF Stream
<1>2. loop[sent'[n][i].to] \notin Gone
  BY DEF Reached
<1> QED  BY <1>1, <1>2

LEMMA SayHelloReaches ==
  ASSUME Types, Types', Reached, NEW n \in Nodes, SayHello(n)
  PROVE  Reached'
<1> DEFINE s == [to |-> Head(events[n]), at |-> "written", open |-> TRUE]
<1>1. /\ sent' = [sent EXCEPT ![n] = Append(sent[n], s)]
      /\ loop' = [loop EXCEPT ![n] = "sending"]
      /\ loop[s.to] \notin Gone
      /\ s.at # "failed" /\ s.open
  BY DEF SayHello, Gone
<1> HIDE DEF s
<1>2. ASSUME NEW m \in Nodes, NEW i \in DOMAIN sent'[m], sent'[m][i].open
      PROVE  \/ i \in DOMAIN sent[m] /\ sent'[m][i] = sent[m][i]
             \/ sent'[m][i] = s
  <2>1. CASE m # n
    BY <1>1, <2>1 DEF Types
  <2>2. CASE m = n
    <3>1. sent[n] \in Seq(Stream) /\ sent'[n] = Append(sent[n], s)
      BY <1>1 DEF Types
    <3> QED  BY <1>2, <2>2, <3>1
  <2> QED  BY <2>1, <2>2
<1>3. \A m \in Nodes : loop'[m] \in Gone => loop[m] \in Gone
  BY <1>1 DEF Types, Gone
<1>4. ASSUME NEW m \in Nodes, NEW i \in DOMAIN sent'[m], sent'[m][i].open
      PROVE  /\ sent'[m][i].at # "failed"
             /\ \/ /\ i \in DOMAIN sent[m] /\ sent[m][i].open
                   /\ sent'[m][i].to = sent[m][i].to
                \/ loop[sent'[m][i].to] \notin Gone
  BY <1>1, <1>2, <1>4 DEF Reached
<1> QED  BY <1>3, <1>4, StaysReached

LEMMA SayHelloPanicsReaches ==
  ASSUME Types, Types', Reached, NEW n \in Nodes, SayHelloPanics(n)
  PROVE  Reached'
<1> DEFINE lost(m, i) == [sent[m][i] EXCEPT !.open = @ /\ m # n /\ sent[m][i].to # n]
<1>1. /\ loop' = [loop EXCEPT ![n] = "crashed"]
      /\ sent' = [m \in Nodes |-> [i \in DOMAIN sent[m] |-> lost(m, i)]]
  BY DEF SayHelloPanics
<1> SUFFICES ASSUME NEW m \in Nodes, NEW i \in DOMAIN sent'[m], sent'[m][i].open
             PROVE  sent'[m][i].at # "failed" /\ loop'[sent'[m][i].to] \notin Gone
  BY DEF Reached
<1>2. i \in 1..Len(sent[m]) /\ i \in DOMAIN sent[m] /\ sent'[m][i] = lost(m, i)
  BY <1>1, Positions
<1>3. sent[m][i] \in Stream
  BY <1>2, Positions
<1>4. /\ lost(m, i).to = sent[m][i].to /\ lost(m, i).at = sent[m][i].at
      /\ lost(m, i).open => sent[m][i].open /\ sent[m][i].to # n
  BY <1>3 DEF Stream
<1> HIDE DEF lost
<1>5. /\ sent[m][i].at # "failed" /\ loop[sent[m][i].to] \notin Gone
      /\ sent[m][i].to # n /\ sent[m][i].to \in Nodes
  BY <1>2, <1>3, <1>4 DEF Reached, Stream
<1>6. loop'[sent[m][i].to] = loop[sent[m][i].to]
  BY <1>1, <1>5 DEF Types
<1> QED  BY <1>2, <1>4, <1>5, <1>6

\* A stream that is taken, read from, written to or lost: it fails only when lost.
LEMMA StreamMovesReaches ==
  ASSUME Types, Types', Reached, NEW n \in Nodes, NEW i \in DOMAIN sent[n],
         UNCHANGED loop,
         \/ \E at \in Progress \ {"failed"} : sent' = [sent EXCEPT ![n][i].at = at]
         \/ HandlerStep(n, i)
         \/ Reset(n, i)
  PROVE  Reached'
<1>1. i \in 1..Len(sent[n]) /\ sent[n][i] \in Stream
  BY Positions
<1>2. PICK s \in Stream :
        /\ sent' = [sent EXCEPT ![n][i] = s]
        /\ s.open => sent[n][i].open /\ s.to = sent[n][i].to /\ s.at # "failed"
  <2>1. CASE Reset(n, i)
    <3> DEFINE s == [sent[n][i] EXCEPT !.open = FALSE]
    <3>1. sent' = [sent EXCEPT ![n][i] = s]
      BY <2>1 DEF Reset
    <3>2. s \in Stream /\ ~s.open
      BY <1>1 DEF Stream
    <3> HIDE DEF s
    <3> QED  BY <3>1, <3>2
  <2>2. CASE ~Reset(n, i)
    <3>1. PICK at \in Progress :
            /\ sent' = [sent EXCEPT ![n][i].at = at]
            /\ sent[n][i].open => at # "failed"
      BY <2>2 DEF HandlerStep, ReadGreeting, WriteReply, Progress
    <3> DEFINE s == [sent[n][i] EXCEPT !.at = at]
    <3>2. sent' = [sent EXCEPT ![n][i] = s]
      BY <3>1
    <3>3. /\ s \in Stream /\ s.to = sent[n][i].to /\ s.at = at
          /\ s.open = sent[n][i].open
      BY <1>1, <3>1 DEF Stream
    <3> HIDE DEF s
    <3> QED  BY <3>1, <3>2, <3>3
  <2> QED  BY <2>1, <2>2
<1>3. ASSUME NEW m \in Nodes, NEW j \in DOMAIN sent'[m], sent'[m][j].open
      PROVE  /\ j \in DOMAIN sent[m] /\ sent[m][j].open
             /\ sent'[m][j].to = sent[m][j].to /\ sent'[m][j].at # "failed"
  <2>1. CASE m = n /\ j = i
    BY <1>1, <1>2, <1>3, <2>1 DEF Types
  <2>2. CASE ~(m = n /\ j = i)
    <3>1. j \in DOMAIN sent[m] /\ sent'[m][j] = sent[m][j]
      BY <1>1, <1>2, <1>3, <2>2 DEF Types
    <3> QED  BY <1>3, <3>1 DEF Reached
  <2> QED  BY <2>1, <2>2
<1> QED  BY <1>3, StaysReached

LEMMA ReachedStays == IInv /\ Reached /\ [Next]_vars => Reached'
<1> SUFFICES ASSUME Types, OneGreetingAtATime, Reached, [Next]_vars PROVE Reached'
  BY DEF IInv
<1>1. Types'
  BY NextGood DEF IInv
<1>2. CASE \E n \in Nodes : SayHello(n)
  BY <1>1, <1>2, SayHelloReaches
<1>3. CASE \E n \in Nodes : SayHelloPanics(n)
  BY <1>1, <1>3, SayHelloPanicsReaches
<1>4. CASE \E n \in Nodes : TakeGreeting(n)
  <2>1. PICK n \in Nodes : \E i \in DOMAIN sent[n] :
          sent' = [sent EXCEPT ![n][i].at = AfterTaking]
    BY <1>4 DEF TakeGreeting
  <2>2. PICK i \in DOMAIN sent[n] : sent' = [sent EXCEPT ![n][i].at = "taken"]
    BY <2>1 DEF AfterTaking
  <2> QED  BY <1>1, <1>4, <2>2, StreamMovesReaches DEF TakeGreeting, Progress
<1>5. CASE \E n \in Nodes : \E i \in DOMAIN sent[n] : HandlerStep(n, i) \/ Reset(n, i)
  BY <1>1, <1>5, StreamMovesReaches DEF HandlerStep, ReadGreeting, WriteReply, Reset
<1>6. ASSUME UNCHANGED sent, \A m \in Nodes : loop'[m] \in Gone => loop[m] \in Gone
      PROVE  Reached'
  BY <1>1, <1>6, StaysReached DEF Reached
<1>7. ASSUME NEW n \in Nodes,
             \/ Start(n) \/ SetHeaviest(n) \/ Cancel(n) \/ Return(n) \/ CannotSayHello(n)
             \/ GetReply(n) \/ SendFails(n) \/ \E p \in Nodes : Identified(n, p)
      PROVE  UNCHANGED sent /\ \A m \in Nodes : loop'[m] \in Gone => loop[m] \in Gone
  BY <1>7 DEF Start, SetHeaviest, Cancel, Return, CannotSayHello, GetReply, SendFails,
              Identified, Types, Gone
<1>8. CASE UNCHANGED vars
  BY <1>6, <1>8 DEF vars
<1> QED
  BY <1>2, <1>3, <1>4, <1>5, <1>6, <1>7, <1>8 DEF Next, Steps, Environment, LoopStep

\* Nothing but a circle of greetings or a returned loop ever keeps a greeting from
\* moving on: not a lost connection, a program that died, a peer that is busy
\* (hello.Send, NewStreamHandler, coordinator.go:188).
THEOREM NothingElseHoldsBack == Spec => []HeldBackOrMoves
<1>1. Init => Reached
  BY DEF Init, Reached
<1>2. ASSUME Types, Reached PROVE HeldBackOrMoves
  <2> SUFFICES ASSUME NEW S \in SUBSET Nodes, WaitsWithin(S),
                      NEW n \in S, loop[n] = "sending",
                      \A p \in S : ~LoopCanStep(p) /\ ~GreetingCanMove(p)
               PROVE  HeldBack(n)
    BY DEF HeldBackOrMoves
  <2> DEFINE held == {p \in S : loop[p] \in {"returned", "sending"}}
  <2>1. ASSUME NEW p \in S, loop[p] = "sending"
        PROVE  Waiting(p).open /\ Waiting(p).to \in held
    <3>1. /\ Len(sent[p]) \in DOMAIN sent[p] /\ Waiting(p) = sent[p][Len(sent[p])]
          /\ Waiting(p) \in Stream
      BY <1>2, <2>1, Positions
    <3>2. Waiting(p).open /\ Waiting(p).at # "answered"
      BY <2>1 DEF LoopCanStep, Over
    <3>3. Waiting(p).at # "failed" /\ loop[Waiting(p).to] \notin Gone
      BY <1>2, <3>1, <3>2 DEF Reached
    <3>4. Waiting(p).at = "offered"
      BY <2>1, <3>1, <3>2, <3>3 DEF GreetingCanMove, Stream, Progress, Gone
    <3>5. Waiting(p).to \in S /\ Waiting(p).to \in Nodes
      BY <2>1 DEF WaitsWithin
    <3>6. loop[Waiting(p).to] # "select"
      BY <3>1, <3>4, <3>5 DEF LoopCanStep
    <3>7. loop[Waiting(p).to] \in LoopStates
      BY <1>2, <3>5 DEF Types
    <3> QED  BY <3>2, <3>3, <3>5, <3>6, <3>7 DEF LoopStates, Gone
  <2>2. held \in SUBSET Nodes /\ n \in held
    OBVIOUS
  <2> QED  BY <2>1, <2>2 DEF HeldBack
<1>3. IInv => Types
  BY DEF IInv
<1> QED
  BY InitGood, NextGood, ReachedStays, <1>1, <1>2, <1>3, PTL DEF Spec

=============================================================================
