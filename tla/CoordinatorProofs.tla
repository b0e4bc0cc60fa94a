-------------------------- MODULE CoordinatorProofs --------------------------
(***************************************************************************)
(* What the store of the coordinator holds, and what the program can die   *)
(* of, whatever is gossiped, in however many messages and goroutines.      *)
(***************************************************************************)
EXTENDS Coordinator, SequenceTheorems, TLAPS

-----------------------------------------------------------------------------
(* The inductive invariant.                                                *)

Blocks == {msg.block : msg \in Gossip}

FullBlocks == UNION {{Full(b, lost) : lost \in SUBSET Places(b)} : b \in Blocks}

Task == [block : Blocks, at : {"fetching", "adding", "stored", "ended"},
         fetched : FullBlocks \cup {Nil, Unfetched}, broken : BOOLEAN]

\* What the validator has let through of the messages heard.
Accepted(msg, heard) ==
  msg \in ToSet(heard) /\ msg.block.header # NoHeader /\ ValidSyntax(msg.block)

\* A goroutine works on the block of an accepted message of another node.  What it has
\* fetched is nil, of a block that is not well formed, or that block without messages
\* that are missing because the fetch was cut short.
TaskGood(task, heard) ==
  /\ \E msg \in Gossip : Accepted(msg, heard) /\ msg.from # "self" /\ task.block = msg.block
  /\ task.at # "fetching" =>
       \/ task.fetched = Nil /\ ~WellFormed(task.block)
       \/ \E lost \in SUBSET Places(task.block) :
            /\ lost # {} => task.broken
            /\ task.fetched = Full(task.block, lost)

\* A stored header is that of a goroutine that has put it.
StoredBy(header, task) ==
  task.at \in {"stored", "ended"} /\ task.fetched # Nil /\ task.fetched.header = header

Lists ==
  /\ queue \in Seq(Gossip) /\ published \in Seq(Gossip) /\ tasks \in Seq(Task)
  /\ Len(queue) <= Room /\ Len(tasks) + Len(queue) <= Len(published)

Flow ==
  /\ \A i \in DOMAIN queue : Accepted(queue[i], published)
  /\ \A i \in DOMAIN tasks : TaskGood(tasks[i], published)
  /\ \A header \in stored : \E i \in DOMAIN tasks : StoredBy(header, tasks[i])

Phases ==
  /\ run \in {"down", "running", "returned"}
  /\ sub \in {"down", "subscribing", "listening", "ended"}
  /\ hello \in {"down", "subscribing", "selecting", "waiting", "ended"}
  /\ cancelled \in BOOLEAN /\ failed \in BOOLEAN /\ crashed \in BOOLEAN
  /\ heaviest \in Weights \cup {NoTipSet}

IInv == Phases /\ Lists /\ Flow /\ OnlyKnownPanics

-----------------------------------------------------------------------------
(* Lemmas.                                                                 *)

\* A full block is neither of the values that stand for none.
LEMMA FullIsSome ==
  ASSUME NEW b, NEW lost
  PROVE  Full(b, lost) # Nil /\ Full(b, lost) # Failed /\ Nil # Failed
<1>1. DOMAIN Full(b, lost) = {"header", "messages"}  BY DEF Full
<1>2. DOMAIN Nil = {"header"} /\ DOMAIN Failed = {"header"}  BY DEF Nil, Failed
<1>3. Nil.header = "nil" /\ Failed.header = "error"  BY DEF Nil, Failed
<1> QED  BY <1>1, <1>2, <1>3

\* What a fetch may give to AddBlock.
LEMMA Fetchable ==
  ASSUME NEW b \in Blocks, NEW broken, NEW result \in Outcomes(b, broken)
  PROVE  /\ \/ FullBlockOf(b, result) = Nil /\ ~WellFormed(b)
            \/ \E lost \in SUBSET Places(b) :
                 /\ lost # {} => broken
                 /\ FullBlockOf(b, result) = Full(b, lost)
         /\ FullBlockOf(b, result) \in FullBlocks \cup {Nil}
<1>1. \/ result = Failed /\ ~WellFormed(b)
      \/ \E lost \in SUBSET Places(b) : (lost # {} => broken) /\ result = Full(b, lost)
  BY DEF Outcomes
<1>2. CASE result = Failed /\ ~WellFormed(b)  BY <1>2 DEF FullBlockOf
<1>3. ASSUME NEW lost \in SUBSET Places(b), lost # {} => broken, result = Full(b, lost)
      PROVE  /\ FullBlockOf(b, result) = Full(b, lost)
             /\ FullBlockOf(b, result) \in FullBlocks
  <2>1. FullBlockOf(b, result) = Full(b, lost)  BY <1>3, FullIsSome DEF FullBlockOf
  <2> QED  BY <2>1 DEF FullBlocks
<1> QED  BY <1>1, <1>2, <1>3

\* A list with one element replaced.
LEMMA Replaced ==
  ASSUME NEW S, NEW s \in Seq(S), NEW i \in DOMAIN s, NEW x \in S
  PROVE  LET t == [s EXCEPT ![i] = x]
         IN /\ t \in Seq(S) /\ Len(t) = Len(s) /\ DOMAIN t = DOMAIN s
            /\ t[i] = x /\ \A j \in DOMAIN s : j # i => t[j] = s[j]
  OBVIOUS

\* A list with one element more.
LEMMA Appended ==
  ASSUME NEW S, NEW s \in Seq(S), NEW x \in S
  PROVE  LET t == Append(s, x)
         IN /\ t \in Seq(S) /\ Len(t) = Len(s) + 1
            /\ DOMAIN t = DOMAIN s \cup {Len(s) + 1} /\ Len(s) + 1 \notin DOMAIN s
            /\ t[Len(s) + 1] = x /\ \A j \in DOMAIN s : t[j] = s[j]
            /\ ToSet(t) = ToSet(s) \cup {x}
<1>1. /\ Append(s, x) \in Seq(S) /\ Len(Append(s, x)) = Len(s) + 1
      /\ DOMAIN s = 1..Len(s) /\ DOMAIN Append(s, x) = 1..Len(s) + 1 /\ Len(s) \in Nat
      /\ \A j \in 1..Len(s) : Append(s, x)[j] = s[j]
      /\ Append(s, x)[Len(s) + 1] = x
  BY AppendProperties
<1>2. DOMAIN Append(s, x) = DOMAIN s \cup {Len(s) + 1} /\ Len(s) + 1 \notin DOMAIN s
  BY <1>1
<1>3. ToSet(Append(s, x)) = ToSet(s) \cup {x}  BY <1>1, <1>2 DEF ToSet
<1> QED  BY <1>1, <1>2, <1>3

-----------------------------------------------------------------------------
(* The steps that touch queue, goroutines or store.                        *)

LEMMA PublishInv == IInv /\ ~crashed /\ Publish => IInv'
<1> SUFFICES ASSUME IInv, ~crashed, Publish PROVE IInv'  OBVIOUS
<1>1. PICK msg \in Gossip :
        /\ published' = Append(published, msg)
        /\ \/ ValidatorPanics(msg) /\ crashed' = TRUE /\ UNCHANGED queue
           \/ /\ ~ValidatorPanics(msg)
              /\ queue' = IF /\ msg.decodes
                             /\ msg.block.header # NoHeader
                             /\ ValidSyntax(msg.block)
                             /\ Len(queue) < Room
                          THEN Append(queue, msg)
                          ELSE queue
              /\ UNCHANGED crashed
  BY DEF Publish
<1>2. UNCHANGED <<run, sub, hello, cancelled, failed, tasks, stored, heaviest, waits>>
  BY DEF Publish
<1>3. /\ published' \in Seq(Gossip) /\ Len(published') = Len(published) + 1
      /\ ToSet(published') = ToSet(published) \cup {msg}
  BY <1>1, Appended DEF IInv, Lists
<1>4. \A m : Accepted(m, published) => Accepted(m, published')  BY <1>3 DEF Accepted
<1>5. \A task : TaskGood(task, published) => TaskGood(task, published')
  BY <1>4 DEF TaskGood
<1>6. \/ queue' = queue
      \/ /\ queue' = Append(queue, msg) /\ Len(queue) < Room
         /\ Accepted(msg, published')
  BY <1>1, <1>3 DEF Accepted
<1>7. Lists'
  <2>1. CASE queue' = queue
    BY <1>2, <1>3, <2>1, RoomAssumption DEF IInv, Lists
  <2>2. CASE queue' = Append(queue, msg) /\ Len(queue) < Room
    <3>1. queue' \in Seq(Gossip) /\ Len(queue') = Len(queue) + 1
      BY <2>2, Appended DEF IInv, Lists
    <3> QED  BY <1>2, <1>3, <2>2, <3>1, RoomAssumption DEF IInv, Lists
  <2> QED  BY <1>6, <2>1, <2>2
<1>8. \A i \in DOMAIN queue' : Accepted(queue'[i], published')
  <2>1. CASE queue' = queue  BY <1>4, <2>1 DEF IInv, Flow
  <2>2. CASE queue' = Append(queue, msg) /\ Accepted(msg, published')
    <3>1. /\ DOMAIN queue' = DOMAIN queue \cup {Len(queue) + 1}
          /\ queue'[Len(queue) + 1] = msg /\ \A j \in DOMAIN queue : queue'[j] = queue[j]
      BY <2>2, Appended DEF IInv, Lists
    <3> QED  BY <1>4, <2>2, <3>1 DEF IInv, Flow
  <2> QED  BY <1>6, <2>1, <2>2
<1>9. Flow'  BY <1>2, <1>5, <1>8 DEF IInv, Flow
<1>10. OnlyKnownPanics'
  <2>1. CASE ValidatorPanics(msg)
    BY <1>3, <2>1 DEF ValidatorPanics, OnlyKnownPanics
  <2>2. CASE ~ValidatorPanics(msg)  BY <1>1, <2>2 DEF OnlyKnownPanics
  <2> QED  BY <2>1, <2>2
<1>11. Phases'  BY <1>1, <1>2 DEF IInv, Phases
<1> QED  BY <1>7, <1>9, <1>10, <1>11 DEF IInv

LEMMA NextMessageInv == IInv /\ ~crashed /\ NextMessage => IInv'
<1> SUFFICES ASSUME IInv, ~crashed, NextMessage PROVE IInv'  OBVIOUS
<1> DEFINE msg == Head(queue)
           task == [block |-> msg.block, at |-> "fetching", fetched |-> Unfetched,
                    broken |-> FALSE]
<1>1. /\ queue # <<>> /\ queue' = Tail(queue)
      /\ UNCHANGED <<run, sub, hello, cancelled, failed, stored, heaviest, crashed,
                     published, waits>>
  BY DEF NextMessage, Received
<1>2. tasks' = IF msg.from # "self" THEN Append(tasks, task) ELSE tasks
  BY DEF NextMessage, Forwarded
<1>3. queue \in Seq(Gossip) /\ tasks \in Seq(Task)  BY DEF IInv, Lists
<1>4. /\ msg \in Gossip /\ msg = queue[1] /\ 1 \in DOMAIN queue
      /\ queue' \in Seq(Gossip) /\ Len(queue') = Len(queue) - 1 /\ Len(queue) \in Nat
      /\ \A j \in DOMAIN queue' : j + 1 \in DOMAIN queue /\ queue'[j] = queue[j + 1]
  BY <1>1, <1>3, HeadTailProperties, LenProperties
<1>5. task \in Task  BY <1>4 DEF Task, Blocks
<1>6. msg.from # "self" => TaskGood(task, published)
  BY <1>4 DEF TaskGood, IInv, Flow
<1> HIDE DEF msg, task
<1>7. \/ tasks' = tasks
      \/ tasks' = Append(tasks, task) /\ TaskGood(task, published)
  BY <1>2, <1>6
<1>8. /\ \A i \in DOMAIN tasks' : TaskGood(tasks'[i], published)
      /\ \A i \in DOMAIN tasks : i \in DOMAIN tasks' /\ tasks'[i] = tasks[i]
      /\ tasks' \in Seq(Task) /\ Len(tasks') <= Len(tasks) + 1 /\ Len(tasks') \in Nat
  <2>1. CASE tasks' = tasks  BY <1>3, <2>1, LenProperties DEF IInv, Flow
  <2>2. CASE tasks' = Append(tasks, task) /\ TaskGood(task, published)
    BY <1>3, <1>5, <2>2, Appended DEF IInv, Flow
  <2> QED  BY <1>7, <2>1, <2>2
<1>9. Lists'
  <2>1. Len(queue') <= Room  BY <1>4, RoomAssumption DEF IInv, Lists
  <2>2. Len(tasks) \in Nat /\ Len(published) \in Nat  BY LenProperties DEF IInv, Lists
  <2>3. Len(tasks') + Len(queue') <= Len(published')
    BY <1>1, <1>4, <1>8, <2>2 DEF IInv, Lists
  <2> QED  BY <1>1, <1>4, <1>8, <2>1, <2>3 DEF IInv, Lists
<1>10. \A i \in DOMAIN queue' : Accepted(queue'[i], published')
  BY <1>1, <1>4 DEF IInv, Flow
<1>11. Flow'  BY <1>1, <1>8, <1>10 DEF IInv, Flow
<1>12. OnlyKnownPanics'  BY <1>1 DEF OnlyKnownPanics
<1>13. Phases'  BY <1>1 DEF IInv, Phases
<1> QED  BY <1>9, <1>11, <1>12, <1>13 DEF IInv

\* A goroutine's record is replaced and nothing else of the invariant changes, except
\* that its header is stored.
LEMMA TaskInv ==
  ASSUME IInv, ~crashed, NEW i \in DOMAIN tasks, NEW task \in Task,
         tasks' = [tasks EXCEPT ![i] = task], TaskGood(task, published),
         \A header : StoredBy(header, tasks[i]) => StoredBy(header, task),
         \/ stored' = stored
         \/ stored' = stored \cup {task.fetched.header} /\ StoredBy(task.fetched.header, task),
         UNCHANGED <<run, sub, hello, cancelled, failed, queue, heaviest, crashed,
                     published, waits>>
  PROVE  IInv'
<1>1. /\ tasks' \in Seq(Task) /\ Len(tasks') = Len(tasks) /\ DOMAIN tasks' = DOMAIN tasks
      /\ tasks'[i] = task /\ \A j \in DOMAIN tasks : j # i => tasks'[j] = tasks[j]
  BY Replaced DEF IInv, Lists
<1>2. Lists'  BY <1>1 DEF IInv, Lists
<1>3. \A j \in DOMAIN tasks' : TaskGood(tasks'[j], published)
  BY <1>1 DEF IInv, Flow
<1>4. \A header \in stored' : \E j \in DOMAIN tasks' : StoredBy(header, tasks'[j])
  <2> SUFFICES ASSUME NEW header \in stored'
               PROVE  \E j \in DOMAIN tasks' : StoredBy(header, tasks'[j])
    OBVIOUS
  <2>1. CASE header \in stored
    <3>1. PICK j \in DOMAIN tasks : StoredBy(header, tasks[j])  BY <2>1 DEF IInv, Flow
    <3>2. StoredBy(header, tasks'[j])  BY <1>1, <3>1
    <3> QED  BY <1>1, <3>2
  <2>2. CASE header = task.fetched.header /\ StoredBy(task.fetched.header, task)
    BY <1>1, <2>2
  <2> QED  BY <2>1, <2>2
<1>5. Flow'  BY <1>3, <1>4 DEF IInv, Flow
<1>6. OnlyKnownPanics'  BY DEF OnlyKnownPanics
<1>7. Phases'  BY DEF IInv, Phases
<1> QED  BY <1>2, <1>5, <1>6, <1>7 DEF IInv

\* A step of the i-th goroutine after its fetch: the record but for the field at.
LEMMA MovedTo ==
  ASSUME NEW t \in Task, NEW at \in {"adding", "stored", "ended"}, t.at # "fetching",
         TaskGood(t, published)
  PROVE  LET u == [t EXCEPT !.at = at]
         IN /\ u \in Task /\ TaskGood(u, published)
            /\ u.at = at /\ u.fetched = t.fetched
<1> DEFINE u == [t EXCEPT !.at = at]
<1>1. u \in Task /\ u.at = at /\ u.fetched = t.fetched /\ u.block = t.block
      /\ u.broken = t.broken
  BY DEF Task
<1> HIDE DEF u
<1>2. TaskGood(u, published)  BY <1>1 DEF TaskGood
<1> QED  BY <1>1, <1>2 DEF u

\* A fetch that was cut short or not.
LEMMA FetchedTask ==
  ASSUME IInv, ~crashed, NEW i \in DOMAIN tasks, NEW cut \in BOOLEAN,
         tasks[i].at = "fetching",
         NEW result \in Outcomes(tasks[i].block, cut),
         tasks' = [tasks EXCEPT ![i] =
                     [block |-> tasks[i].block, at |-> "adding",
                      fetched |-> FullBlockOf(tasks[i].block, result), broken |-> cut]],
         UNCHANGED <<run, sub, hello, cancelled, failed, queue, stored, heaviest,
                     crashed, published, waits>>
  PROVE  IInv'
<1> DEFINE b == tasks[i].block
           fetched == FullBlockOf(b, result)
           task == [block |-> b, at |-> "adding", fetched |-> fetched, broken |-> cut]
<1>1. tasks[i] \in Task /\ TaskGood(tasks[i], published)  BY DEF IInv, Lists, Flow
<1>2. b \in Blocks  BY <1>1 DEF Task
<1>3. /\ \/ fetched = Nil /\ ~WellFormed(b)
         \/ \E lost \in SUBSET Places(b) :
              (lost # {} => cut) /\ fetched = Full(b, lost)
      /\ fetched \in FullBlocks \cup {Nil}
  BY <1>2, Fetchable
<1> HIDE DEF fetched
<1>4. task \in Task  BY <1>2, <1>3 DEF Task
<1>5. TaskGood(task, published)  BY <1>1, <1>3 DEF TaskGood
<1>6. tasks' = [tasks EXCEPT ![i] = task]  BY DEF fetched
<1> HIDE DEF task, b
<1>7. \A header : StoredBy(header, tasks[i]) => StoredBy(header, task)
  BY DEF StoredBy
<1> QED  BY <1>4, <1>5, <1>6, <1>7, TaskInv

LEMMA FetchedInv ==
  ASSUME IInv, ~crashed, NEW i \in DOMAIN tasks, NEW gaveUp, Fetched(i, gaveUp)
  PROVE  IInv'
<1>1. CutShort(gaveUp) \in BOOLEAN  BY DEF CutShort
<1> QED  BY <1>1, FetchedTask DEF Fetched

\* A panic.
LEMMA CrashInv ==
  ASSUME IInv, crashed' = TRUE, OnlyKnownPanics',
         UNCHANGED <<run, sub, hello, cancelled, failed, queue, tasks, stored, heaviest,
                     published>>
  PROVE  IInv'
<1>1. Lists' /\ Phases'  BY DEF IInv, Lists, Phases
<1>2. Flow'  BY DEF IInv, Flow
<1> QED  BY <1>1, <1>2 DEF IInv

LEMMA AddBlockInv ==
  ASSUME IInv, ~crashed, NEW i \in DOMAIN tasks, AddBlock(i)
  PROVE  IInv'
<1>1. tasks[i] \in Task /\ TaskGood(tasks[i], published) /\ tasks[i].at = "adding"
  BY DEF IInv, Lists, Flow, AddBlock
<1>2. CASE tasks[i].fetched = Nil
  <2>1. crashed' = TRUE
        /\ UNCHANGED <<run, sub, hello, cancelled, failed, queue, tasks, stored,
                       heaviest, published>>
    BY <1>2 DEF AddBlock
  <2>2. ~WellFormed(tasks[i].block)  BY <1>1, <1>2, FullIsSome DEF TaskGood
  <2>3. OnlyKnownPanics'  BY <2>1, <2>2 DEF OnlyKnownPanics
  <2> QED  BY <2>1, <2>3, CrashInv
<1>3. CASE tasks[i].fetched # Nil
  <2> DEFINE task == [tasks[i] EXCEPT !.at = "stored"]
  <2>1. /\ stored' = stored \cup {tasks[i].fetched.header}
        /\ tasks' = [tasks EXCEPT ![i] = task]
        /\ UNCHANGED <<run, sub, hello, cancelled, failed, queue, heaviest, crashed,
                       published, waits>>
    BY <1>3 DEF AddBlock
  <2>2. /\ task \in Task /\ TaskGood(task, published)
        /\ task.at = "stored" /\ task.fetched = tasks[i].fetched
    BY <1>1, MovedTo
  <2> HIDE DEF task
  <2>3. \A header : StoredBy(header, tasks[i]) => StoredBy(header, task)
    BY <1>1 DEF StoredBy
  <2>4. StoredBy(task.fetched.header, task)  BY <1>3, <2>2 DEF StoredBy
  <2> QED  BY <2>1, <2>2, <2>3, <2>4, TaskInv
<1> QED  BY <1>2, <1>3

LEMMA AddFailsInv ==
  ASSUME IInv, ~crashed, NEW i \in DOMAIN tasks, AddFails(i)
  PROVE  IInv'
<1> DEFINE task == [tasks[i] EXCEPT !.at = "ended"]
<1>1. /\ tasks' = [tasks EXCEPT ![i] = task] /\ stored' = stored
      /\ UNCHANGED <<run, sub, hello, cancelled, failed, queue, heaviest, crashed,
                     published, waits>>
      /\ tasks[i].at = "adding"
  BY DEF AddFails
<1>2. tasks[i] \in Task /\ TaskGood(tasks[i], published)
  BY DEF IInv, Lists, Flow
<1>3. task \in Task /\ TaskGood(task, published)  BY <1>1, <1>2, MovedTo
<1> HIDE DEF task
<1>4. \A header : StoredBy(header, tasks[i]) => StoredBy(header, task)
  BY <1>1 DEF StoredBy
<1> QED  BY <1>1, <1>3, <1>4, TaskInv

LEMMA CompareInv ==
  ASSUME IInv, ~crashed, NEW i \in DOMAIN tasks, Compare(i)
  PROVE  IInv'
<1>1. /\ tasks[i].at = "stored" /\ stored' = stored
      /\ UNCHANGED <<run, sub, hello, cancelled, failed, queue, heaviest, published,
                     waits>>
  BY DEF Compare
<1>2. CASE heaviest = NoTipSet
  <2>1. crashed' = TRUE /\ UNCHANGED tasks  BY <1>2 DEF Compare
  <2>2. OnlyKnownPanics'  BY <1>1, <1>2 DEF OnlyKnownPanics, NoTipSet
  <2> QED  BY <1>1, <2>1, <2>2, CrashInv
<1>3. CASE heaviest # NoTipSet
  <2> DEFINE task == [tasks[i] EXCEPT !.at = "ended"]
  <2>1. tasks' = [tasks EXCEPT ![i] = task] /\ UNCHANGED crashed
    BY <1>3 DEF Compare
  <2>2. tasks[i] \in Task /\ TaskGood(tasks[i], published)
    BY DEF IInv, Lists, Flow
  <2>3. /\ task \in Task /\ TaskGood(task, published)
        /\ task.at = "ended" /\ task.fetched = tasks[i].fetched
    BY <1>1, <2>2, MovedTo
  <2> HIDE DEF task
  <2>4. \A header : StoredBy(header, tasks[i]) => StoredBy(header, task)
    BY <2>3 DEF StoredBy
  <2> QED  BY <1>1, <2>1, <2>3, <2>4, TaskInv
<1> QED  BY <1>2, <1>3

\* The subscription ends; what is in its channel is lost.
LEMMA NextFailsInv == IInv /\ ~crashed /\ NextFails => IInv'
<1> SUFFICES ASSUME IInv, ~crashed, NextFails PROVE IInv'  OBVIOUS
<1>1. /\ sub' = "ended" /\ failed' = TRUE /\ queue' = <<>>
      /\ UNCHANGED <<run, hello, cancelled, tasks, stored, heaviest, crashed, published,
                     waits>>
  BY DEF NextFails
<1>2. queue' \in Seq(Gossip) /\ Len(queue') = 0 /\ DOMAIN queue' = {}  BY <1>1
<1>3. Lists'
  <2>1. Len(tasks) \in Nat /\ Len(queue) \in Nat /\ Len(published) \in Nat
    BY LenProperties DEF IInv, Lists
  <2> QED  BY <1>1, <1>2, <2>1, RoomAssumption DEF IInv, Lists
<1>4. Flow'  BY <1>1, <1>2 DEF IInv, Flow
<1>5. OnlyKnownPanics' /\ Phases'  BY <1>1 DEF OnlyKnownPanics, IInv, Phases
<1> QED  BY <1>3, <1>4, <1>5 DEF IInv

LEMMA HelloWaitsInv == IInv /\ ~crashed /\ HelloWaits => IInv'
<1> SUFFICES ASSUME IInv, ~crashed, HelloWaits PROVE IInv'  OBVIOUS
<1>1. UNCHANGED <<run, sub, cancelled, failed, queue, tasks, stored, heaviest, published>>
  BY DEF HelloWaits
<1>2. CASE heaviest = NoTipSet
  <2>1. crashed' = TRUE /\ hello' = hello  BY <1>2 DEF HelloWaits
  <2>2. OnlyKnownPanics'  BY <1>1, <1>2 DEF OnlyKnownPanics, NoTipSet
  <2> QED  BY <1>1, <2>1, <2>2, CrashInv
<1>3. CASE heaviest # NoTipSet
  <2>1. crashed' = crashed /\ hello' = "waiting"  BY <1>3 DEF HelloWaits
  <2>2. Lists' /\ Flow'  BY <1>1 DEF IInv, Lists, Flow
  <2>3. OnlyKnownPanics' /\ Phases'  BY <1>1, <2>1 DEF OnlyKnownPanics, IInv, Phases
  <2> QED  BY <2>2, <2>3 DEF IInv
<1> QED  BY <1>2, <1>3

\* Steps that leave messages, goroutines and store alone, in a program that goes on.
LEMMA OthersInv ==
  ASSUME IInv, ~crashed, UNCHANGED <<queue, tasks, stored, crashed, published>>, Phases'
  PROVE  IInv'
<1>1. Lists' /\ Flow'  BY DEF IInv, Lists, Flow
<1>2. OnlyKnownPanics'  BY DEF OnlyKnownPanics
<1> QED  BY <1>1, <1>2 DEF IInv

LEMMA StepInv == IInv /\ [Next]_vars => IInv'
<1> SUFFICES ASSUME IInv, [Next]_vars PROVE IInv'  OBVIOUS
<1>1. CASE UNCHANGED vars
  BY <1>1 DEF vars, IInv, Lists, Flow, Phases, OnlyKnownPanics
<1>2. CASE Next
  <2>1. ~crashed  BY <1>2 DEF Next
  <2>2. CASE NextFails \/ NextMessage \/ HelloWaits
    BY <2>1, <2>2, NextFailsInv, NextMessageInv, HelloWaitsInv
  <2>3. CASE Start \/ CannotStart \/ Return
    <3>1. UNCHANGED <<queue, tasks, stored, crashed, published>>
      BY <2>3 DEF Start, CannotStart, Return
    <3>2. Phases'  BY <2>3 DEF Start, CannotStart, Return, IInv, Phases
    <3> QED  BY <2>1, <3>1, <3>2, OthersInv
  <2>4. CASE Subscribe \/ SubscribeFails \/ HelloSubscribes \/ HelloFails
    <3>1. UNCHANGED <<queue, tasks, stored, crashed, published>>
      BY <2>4 DEF Subscribe, SubscribeFails, HelloSubscribes, HelloFails
    <3>2. Phases'
      BY <2>4 DEF Subscribe, SubscribeFails, HelloSubscribes, HelloFails, IInv, Phases
    <3> QED  BY <2>1, <3>1, <3>2, OthersInv
  <2>5. CASE HelloGoesOn \/ HelloEnds \/ Cancel \/ SetHeaviest
    <3>1. UNCHANGED <<queue, tasks, stored, crashed, published>>
      BY <2>5 DEF HelloGoesOn, HelloEnds, Cancel, SetHeaviest
    <3>2. Phases'
      <4>1. CASE HelloGoesOn \/ HelloEnds
        BY <4>1 DEF HelloGoesOn, HelloEnds, IInv, Phases
      <4>2. CASE Cancel \/ SetHeaviest
        BY <4>2 DEF Cancel, SetHeaviest, IInv, Phases
      <4> QED  BY <2>5, <4>1, <4>2
    <3> QED  BY <2>1, <3>1, <3>2, OthersInv
  <2>6. CASE Publish  BY <2>1, <2>6, PublishInv
  <2>7. ASSUME NEW i \in DOMAIN tasks, Goroutine(i) PROVE IInv'
    BY <2>1, <2>7, FetchedInv, AddBlockInv, AddFailsInv, CompareInv DEF Goroutine
  <2> QED  BY <1>2, <2>2, <2>3, <2>4, <2>5, <2>6, <2>7 DEF Next, Activities
<1> QED  BY <1>1, <1>2

LEMMA InitInv == Init => IInv
<1> SUFFICES ASSUME Init PROVE IInv  OBVIOUS
<1>1. Lists /\ Flow
  BY RoomAssumption DEF Init, Lists, Flow
<1> QED  BY <1>1 DEF Init, IInv, Phases, OnlyKnownPanics

LEMMA Invariance == Spec => []IInv
<1> QED  BY InitInv, StepInv, PTL DEF Spec

-----------------------------------------------------------------------------
(* What follows.                                                           *)

\* Every stored header is that of an accepted message of another node.
LEMMA StoredIsAccepted ==
  ASSUME IInv, NEW header \in stored
  PROVE  \E msg \in Gossip : \E i \in DOMAIN tasks :
           /\ Accepted(msg, published) /\ msg.from # "self" /\ msg.block.header = header
           /\ StoredBy(header, tasks[i]) /\ tasks[i].block = msg.block
           /\ \E lost \in SUBSET Places(msg.block) :
                /\ lost # {} => tasks[i].broken
                /\ tasks[i].fetched = Full(msg.block, lost)
<1>1. PICK i \in DOMAIN tasks : StoredBy(header, tasks[i])  BY DEF IInv, Flow
<1>2. TaskGood(tasks[i], published)  BY DEF IInv, Flow
<1>3. PICK msg \in Gossip :
        Accepted(msg, published) /\ msg.from # "self" /\ tasks[i].block = msg.block
  BY <1>2 DEF TaskGood
<1>4. PICK lost \in SUBSET Places(msg.block) :
        /\ lost # {} => tasks[i].broken
        /\ tasks[i].fetched = Full(msg.block, lost)
  BY <1>1, <1>2, <1>3 DEF TaskGood, StoredBy
<1>5. msg.block.header = header  BY <1>1, <1>4 DEF StoredBy, Full
<1> QED  BY <1>1, <1>3, <1>4, <1>5

\* The variables keep their types, and there is one goroutine at most for a message.
THEOREM TypeCorrect == Spec => []TypeOK
<1>1. IInv => TypeOK
  <2> SUFFICES ASSUME IInv PROVE TypeOK  OBVIOUS
  <2>1. NoHeader \notin stored  BY StoredIsAccepted DEF Accepted
  <2>2. \A i \in DOMAIN tasks : tasks[i].at \in {"fetching", "adding", "stored", "ended"}
    <3>1. \A i \in DOMAIN tasks : tasks[i] \in Task  BY DEF IInv, Lists
    <3> QED  BY <3>1 DEF Task
  <2> QED  BY <2>1, <2>2 DEF IInv, Lists, Phases, TypeOK
<1> QED  BY <1>1, Invariance, PTL

\* Whatever the subscription and its goroutines interleave, the store holds nothing
\* that the validator has not let through, and nothing of the node's own (pubsubBlocks,
\* AddPotentialHead).
THEOREM OnlyValidStored == Spec => []StoredAreValid
<1>1. IInv => StoredAreValid
  BY StoredIsAccepted DEF StoredAreValid, Accepted, ValidSyntax
<1> QED  BY <1>1, Invariance, PTL

\* A header is stored with every message of its block fetched, unless the fetch was cut
\* short (fetchFullBlock, AddPotentialHead).
THEOREM OnlyFetchedStored == Spec => []StoredWereFetched
<1>1. IInv => StoredWereFetched
  <2> SUFFICES ASSUME IInv, NEW header \in stored
               PROVE  \E i \in DOMAIN tasks :
                        /\ tasks[i].at \in {"stored", "ended"}
                        /\ tasks[i].fetched.header = header
                        /\ \A p \in Places(tasks[i].block) :
                             \/ tasks[i].broken
                             \/ tasks[i].fetched.messages[p[1]][p[2]]
                                  = tasks[i].block.messages[p[1]][p[2]]
    BY DEF StoredWereFetched
  <2>1. PICK msg \in Gossip : \E i \in DOMAIN tasks :
           /\ Accepted(msg, published) /\ msg.from # "self" /\ msg.block.header = header
           /\ StoredBy(header, tasks[i]) /\ tasks[i].block = msg.block
           /\ \E lost \in SUBSET Places(msg.block) :
                /\ lost # {} => tasks[i].broken
                /\ tasks[i].fetched = Full(msg.block, lost)
    BY StoredIsAccepted
  <2>2. PICK i \in DOMAIN tasks :
           /\ StoredBy(header, tasks[i]) /\ tasks[i].block = msg.block
           /\ \E lost \in SUBSET Places(msg.block) :
                /\ lost # {} => tasks[i].broken
                /\ tasks[i].fetched = Full(msg.block, lost)
    BY <2>1
  <2> DEFINE b == tasks[i].block
  <2>3. ASSUME NEW p \in Places(b), ~tasks[i].broken
        PROVE  tasks[i].fetched.messages[p[1]][p[2]] = b.messages[p[1]][p[2]]
    <3>1. tasks[i].fetched = Full(b, {})  BY <2>2, <2>3
    <3>2. p[1] \in Kinds /\ p[2] \in DOMAIN b.messages[p[1]]  BY DEF Places
    <3> QED  BY <3>1, <3>2 DEF Full
  <2> QED  BY <2>2, <2>3 DEF StoredBy
<1> QED  BY <1>1, Invariance, PTL

\* The program dies of nothing but a gossiped block without header, one that is not
\* well formed, or a heaviest tipset that was never set.
THEOREM KnownPanics == Spec => []OnlyKnownPanics
<1> QED  BY Invariance, PTL DEF IInv

=============================================================================
