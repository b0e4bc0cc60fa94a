-------------------------- MODULE FetchBlocksProofs --------------------------
(***************************************************************************)
(* FetchBlocks keeps its types and implements FetchRequest, whatever the   *)
(* blocks, their number of messages and the order of arrivals.             *)
(***************************************************************************)
EXTENDS FetchBlocks, SequenceTheorems, TLAPS

-----------------------------------------------------------------------------
(* The inductive invariant.                                                *)

\* What is there of the messages of a kind: each one at the place of its cid.
Partial(kind) ==
  LET cids == block.messages[kind] IN
  /\ Indexable(cids)
  /\ DOMAIN got[kind] = DOMAIN cids
  /\ got[kind] = [i \in DOMAIN cids |-> got[kind][i]]
  /\ \A i \in DOMAIN cids :
       got[kind][i] # Missing => got[kind][i] = cids[i] /\ DecodesAs[cids[i]] = kind

\* What came through the channel has found its place.
Placed(kind) ==
  \A i \in DOMAIN block.messages[kind] :
    block.messages[kind][i] \in sent => got[kind][i] # Missing

\* A kind that has been fetched misses messages only if the fetch was cut short.
Complete(kind) ==
  /\ Partial(kind)
  /\ \A i \in DOMAIN block.messages[kind] : got[kind][i] = Missing => broken

FetchInv ==
  /\ got = [kind \in Kinds |-> got[kind]]
  /\ fetching # "done" => outcome = Pending
  /\ open => fetching # "done" /\ Partial(fetching) /\ Placed(fetching)
  /\ fetching = "Secpk" => Complete("Bls")

IInv == TypeOK /\ FetchInv

-----------------------------------------------------------------------------
(* Lemmas.                                                                 *)

\* In a list without repetitions the index of a cid is its place.
LEMMA IndexIsPlace ==
  ASSUME NEW cids \in Seq(Cids), IsInjective(cids), NEW i \in DOMAIN cids
  PROVE  Index(cids, cids[i]) = i
<1> DEFINE P(k) == cids[k] = cids[i] /\ \A j \in k + 1..Len(cids) : cids[j] # cids[i]
<1>1. DOMAIN cids = 1..Len(cids) /\ Len(cids) \in Nat  OBVIOUS
<1>2. P(i)  BY <1>1 DEF IsInjective
<1>3. \A k \in DOMAIN cids : P(k) => k = i  BY DEF IsInjective
<1> QED  BY <1>2, <1>3 DEF Index

\* The cids of a kind of messages are a list of cids.
LEMMA WantedIsList ==
  ASSUME IInv, fetching # "done"
  PROVE  fetching \in Kinds /\ Wanted \in Seq(Cids)
BY BlocksAssumption DEF IInv, TypeOK, Wanted

-----------------------------------------------------------------------------
(* Initially and after every step.                                         *)

LEMMA InitInv == Init => IInv
<1> SUFFICES ASSUME Init PROVE IInv  OBVIOUS
<1>1. TypeOK
  <2>1. arrivals \in 0..MaxArrivals  BY BlocksAssumption DEF Init
  <2>2. \A kind \in Kinds : got[kind] = <<>>  BY DEF Init
  <2>3. fetching \in Kinds  BY DEF Init, Kinds
  <2> QED  BY <2>1, <2>2, <2>3 DEF Init, TypeOK
<1>2. got = [kind \in Kinds |-> got[kind]]  BY DEF Init
<1> QED  BY <1>1, <1>2 DEF Init, IInv, FetchInv

LEMMA AskInv == IInv /\ Ask => IInv'
<1> SUFFICES ASSUME IInv, Ask PROVE IInv'  OBVIOUS
<1>1. fetching \in Kinds /\ Wanted \in Seq(Cids)  BY WantedIsList DEF Ask
<1> DEFINE empty == [i \in DOMAIN Wanted |-> Missing]
<1>2. /\ got' = [kind \in Kinds |-> IF kind = fetching THEN empty ELSE got[kind]]
      /\ UNCHANGED <<block, fetching, broken, outcome, arrivals>>
      /\ open' = TRUE /\ sent' = {} /\ fetching # "done" /\ Indexable(Wanted)
  BY DEF Ask, IInv, FetchInv
<1>3. TypeOK'  BY <1>1, <1>2 DEF IInv, TypeOK, Wanted
<1>4. (got = [kind \in Kinds |-> got[kind]])'  BY <1>2
<1>5. Partial(fetching)' /\ Placed(fetching)'
  BY <1>1, <1>2 DEF Partial, Placed, Wanted
<1>6. (fetching = "Secpk" => Complete("Bls"))'
  BY <1>2 DEF IInv, FetchInv, Complete, Partial, Kinds
<1> QED  BY <1>2, <1>3, <1>4, <1>5, <1>6 DEF IInv, FetchInv

LEMMA IndexFailsInv == IInv /\ IndexFails => IInv'
<1> SUFFICES ASSUME IInv, IndexFails PROVE IInv'  OBVIOUS
<1>1. /\ fetching' = "done" /\ open' = FALSE
      /\ UNCHANGED <<block, sent, got, broken, arrivals>>
  BY DEF IndexFails, Finish
<1> QED  BY <1>1 DEF IInv, TypeOK, FetchInv

LEMMA IgnoreBlockInv == IInv /\ IgnoreBlock => IInv'
<1> SUFFICES ASSUME IInv, NEW c \in Cids, Arrives(c), ~New(c),
                    UNCHANGED <<fetching, open, got, outcome>>
             PROVE  IInv'
  BY DEF IgnoreBlock
<1>1. fetching \in Kinds /\ Wanted \in Seq(Cids)
  BY WantedIsList DEF Arrives, IInv, FetchInv
<1>2. open /\ UNCHANGED <<block, broken>> /\ sent' = sent \cup {c}
      /\ arrivals < MaxArrivals /\ arrivals' = arrivals + 1
  BY DEF Arrives
<1>3. TypeOK'  BY <1>2, BlocksAssumption DEF IInv, TypeOK
<1>4. Placed(fetching)'
  <2> SUFFICES ASSUME NEW i \in DOMAIN Wanted, Wanted[i] = c
               PROVE  got[fetching][i] # Missing
    BY <1>2 DEF Placed, Wanted, IInv, FetchInv
  <2>1. IsInjective(Wanted)  BY <1>2 DEF IInv, FetchInv, Partial, Indexable, Wanted
  <2>2. Index(Wanted, c) = i  BY <1>1, <2>1, IndexIsPlace
  <2>3. c \in ToSet(Wanted)  BY DEF ToSet
  <2> QED  BY <2>2, <2>3 DEF New
<1>5. Partial(fetching)' /\ (fetching = "Secpk" => Complete("Bls"))'
  BY <1>2 DEF IInv, FetchInv, Partial, Complete
<1> QED  BY <1>2, <1>3, <1>4, <1>5 DEF IInv, FetchInv

LEMMA TakeBlockInv == IInv /\ TakeBlock => IInv'
<1> SUFFICES ASSUME IInv, NEW c \in Cids, Arrives(c), New(c), DecodesAs[c] = fetching,
                    got' = [got EXCEPT ![fetching] = Place(@, Wanted, c)],
                    UNCHANGED <<fetching, open, outcome>>
             PROVE  IInv'
  BY DEF TakeBlock
<1>1. fetching \in Kinds /\ Wanted \in Seq(Cids) /\ fetching # "done"
  BY WantedIsList DEF Arrives, IInv, FetchInv
<1>2. open /\ UNCHANGED <<block, broken>> /\ sent' = sent \cup {c}
      /\ arrivals < MaxArrivals /\ arrivals' = arrivals + 1
  BY DEF Arrives
<1>3. Partial(fetching) /\ Placed(fetching) /\ Indexable(Wanted)
  BY <1>2 DEF IInv, FetchInv, Partial, Wanted
<1>4. PICK n \in DOMAIN Wanted : Wanted[n] = c  BY DEF New, ToSet
<1>5. Index(Wanted, c) = n  BY <1>1, <1>3, <1>4, IndexIsPlace DEF Indexable
<1> DEFINE now == [i \in DOMAIN Wanted |-> IF i = n THEN c ELSE got[fetching][i]]
<1>6. got' = [kind \in Kinds |-> IF kind = fetching THEN now ELSE got[kind]]
  <2>1. Place(got[fetching], Wanted, c) = now
    BY <1>3, <1>5 DEF Place, Partial, Wanted
  <2>2. got = [kind \in Kinds |-> got[kind]]  BY DEF IInv, FetchInv
  <2> QED  BY <2>1, <2>2, <1>1
<1>7. TypeOK'  BY <1>1, <1>2, <1>6, BlocksAssumption DEF IInv, TypeOK, Wanted
<1>8. Partial(fetching)'
  <2>1. got'[fetching'] = now /\ block'.messages[fetching'] = Wanted
    BY <1>1, <1>2, <1>6 DEF Wanted
  <2>2. \A i \in DOMAIN Wanted :
          now[i] # Missing => now[i] = Wanted[i] /\ DecodesAs[Wanted[i]] = fetching
    BY <1>3, <1>4 DEF Partial, Wanted
  <2>3. DOMAIN now = DOMAIN Wanted /\ now = [i \in DOMAIN Wanted |-> now[i]]
    OBVIOUS
  <2> HIDE DEF now
  <2> QED  BY <2>1, <2>2, <2>3, <1>3 DEF Partial
<1>9. Placed(fetching)'
  <2> SUFFICES ASSUME NEW i \in DOMAIN Wanted, Wanted[i] \in sent \cup {c}
               PROVE  now[i] # Missing
    BY <1>1, <1>2, <1>6 DEF Placed, Wanted
  <2>1. CASE i = n  BY <2>1, BlocksAssumption
  <2>2. CASE i # n
    <3>1. Wanted[i] # c  BY <1>3, <1>4, <2>2 DEF Indexable, IsInjective
    <3> QED  BY <3>1, <2>2, <1>3 DEF Placed, Wanted
  <2> QED  BY <2>1, <2>2
<1>10. (fetching = "Secpk" => Complete("Bls"))'
  BY <1>2, <1>6 DEF IInv, FetchInv, Complete, Partial, Kinds
<1>11. (got = [kind \in Kinds |-> got[kind]])'  BY <1>6
<1> QED  BY <1>1, <1>2, <1>7, <1>8, <1>9, <1>10, <1>11 DEF IInv, FetchInv

LEMMA DecodeFailsInv == IInv /\ DecodeFails => IInv'
<1> SUFFICES ASSUME IInv, NEW c \in Cids, Arrives(c), Finish(Failed), UNCHANGED got
             PROVE  IInv'
  BY DEF DecodeFails
<1>1. /\ fetching' = "done" /\ open' = FALSE /\ UNCHANGED <<block, broken, got>>
      /\ sent' = sent \cup {c} /\ arrivals < MaxArrivals /\ arrivals' = arrivals + 1
  BY DEF Finish, Arrives
<1>2. TypeOK'
  <2>1. arrivals' \in 0..MaxArrivals  BY <1>1, BlocksAssumption DEF IInv, TypeOK
  <2>2. \A kind \in Kinds :
          got'[kind] = <<>> \/ DOMAIN got'[kind] = DOMAIN block'.messages[kind]
    BY <1>1 DEF IInv, TypeOK
  <2>3. open' \in BOOLEAN /\ broken' \in BOOLEAN  BY <1>1 DEF IInv, TypeOK
  <2>4. block' \in Blocks /\ fetching' \in Kinds \cup {"done"} /\ sent' \subseteq Cids
    BY <1>1 DEF IInv, TypeOK
  <2> QED  BY <2>1, <2>2, <2>3, <2>4 DEF TypeOK
<1>3. FetchInv'  BY <1>1 DEF IInv, FetchInv
<1> QED  BY <1>2, <1>3 DEF IInv

\* When the channel is closed the messages are there, or the fetch was cut short.
LEMMA ClosedIsComplete ==
  ASSUME IInv, open, Closes(Wanted, sent, broken)
  PROVE  fetching # "done" /\ Complete(fetching)
BY DEF IInv, FetchInv, Complete, Placed, Closes, Wanted, ToSet

LEMMA ChannelClosesInv == IInv /\ ChannelCloses => IInv'
<1> SUFFICES ASSUME IInv, ChannelCloses PROVE IInv'  OBVIOUS
<1>1. Complete(fetching)  BY ClosedIsComplete DEF ChannelCloses
<1>2. open' = FALSE /\ UNCHANGED <<block, sent, got, broken, arrivals>>
  BY DEF ChannelCloses, Finish
<1>3. CASE fetching = "Bls"
  <2>1. fetching' = "Secpk" /\ UNCHANGED outcome  BY <1>3 DEF ChannelCloses
  <2>2. Complete("Bls")'  BY <1>1, <1>2, <1>3 DEF Complete, Partial
  <2> QED  BY <1>2, <1>3, <2>1, <2>2 DEF IInv, TypeOK, FetchInv, Kinds
<1>4. CASE fetching # "Bls"
  <2>1. fetching' = "done"  BY <1>4 DEF ChannelCloses, Finish
  <2> QED  BY <1>2, <2>1 DEF IInv, TypeOK, FetchInv
<1> QED  BY <1>3, <1>4

LEMMA BreakInv == IInv /\ Break => IInv'
<1> SUFFICES ASSUME IInv, Break PROVE IInv'  OBVIOUS
<1>1. broken' = TRUE /\ UNCHANGED <<block, fetching, open, sent, got, outcome, arrivals>>
  BY DEF Break
<1> QED  BY <1>1 DEF IInv, TypeOK, FetchInv, Partial, Placed, Complete

LEMMA StepInv == IInv /\ [Next]_vars => IInv'
<1>1. IInv /\ UNCHANGED vars => IInv'
  <2> SUFFICES ASSUME IInv, UNCHANGED vars PROVE IInv'  OBVIOUS
  <2>1. TypeOK'  BY DEF vars, IInv, TypeOK
  <2>2. open => Partial(fetching)' /\ Placed(fetching)'
    BY DEF vars, IInv, FetchInv, Partial, Placed
  <2>3. fetching = "Secpk" => Complete("Bls")'
    BY DEF vars, IInv, FetchInv, Partial, Complete
  <2> QED  BY <2>1, <2>2, <2>3 DEF vars, IInv, FetchInv
<1> QED
  BY <1>1, AskInv, IndexFailsInv, IgnoreBlockInv, TakeBlockInv, DecodeFailsInv,
     ChannelClosesInv, BreakInv DEF Next, Terminated

\* Every reachable state satisfies the invariant.
LEMMA Invariance == Spec => []IInv
BY InitInv, StepInv, PTL DEF Spec

\* FetchBlocks keeps its types: there are always as many messages as cids
\* (fetchMessages, fetchSignedMessages).
THEOREM TypeCorrect == Spec => []TypeOK
<1>1. IInv => TypeOK  BY DEF IInv
<1> QED  BY <1>1, Invariance, PTL

-----------------------------------------------------------------------------
(* The refinement.                                                         *)

LEMMA InitRefined == Init => F!Init
BY DEF Init, F!Init, Pending, F!Pending

\* The messages fetched are those of the full block, but for those missing.
LEMMA FetchedIsFull ==
  ASSUME IInv, Complete("Bls"), Complete("Secpk")
  PROVE  [header |-> block.header, messages |-> got] \in Outcomes(block, broken)
<1> DEFINE lost == {p \in Places(block) : got[p[1]][p[2]] = Missing}
<1>1. \A kind \in Kinds : Complete(kind)  BY DEF Kinds
<1>2. \A kind \in Kinds : \A i \in DOMAIN block.messages[kind] :
        /\ <<kind, i>> \in Places(block)
        /\ <<kind, i>> \in lost <=> got[kind][i] = Missing
  BY DEF Places
<1>3. \A p \in Places(block) : p[1] \in Kinds /\ p[2] \in DOMAIN block.messages[p[1]]
  BY DEF Places
<1>4. \A kind \in Kinds :
        got[kind] = [i \in DOMAIN block.messages[kind] |->
                       IF <<kind, i>> \in lost THEN Missing ELSE block.messages[kind][i]]
  <2> TAKE kind \in Kinds
  <2>1. Partial(kind)  BY <1>1 DEF Complete
  <2>2. \A i \in DOMAIN block.messages[kind] :
          got[kind][i] = IF <<kind, i>> \in lost THEN Missing ELSE block.messages[kind][i]
    BY <1>2, <2>1 DEF Partial
  <2> HIDE DEF lost
  <2> QED  BY <2>1, <2>2 DEF Partial
<1>5. Full(block, lost) = [header |-> block.header, messages |-> got]
  BY <1>4 DEF Full, IInv, FetchInv
<1>6. lost \in SUBSET Places(block) /\ (lost # {} => broken)
  BY <1>1, <1>3 DEF Complete
<1>7. \A kind \in Kinds : ToSet(block.messages[kind]) \subseteq MessageCids
                          /\ IsInjective(block.messages[kind])
  BY <1>1 DEF Complete, Partial, Indexable
<1>8. \A p \in Places(block) \ lost : DecodesAs[block.messages[p[1]][p[2]]] = p[1]
  <2> TAKE p \in Places(block) \ lost
  <2>1. p[1] \in Kinds /\ p[2] \in DOMAIN block.messages[p[1]]  BY <1>3
  <2>2. Partial(p[1])  BY <1>1, <2>1 DEF Complete
  <2> QED  BY <2>1, <2>2 DEF Partial
<1> HIDE DEF lost
<1> QED  BY <1>5, <1>6, <1>7, <1>8 DEF Outcomes

\* FetchRequest has definitions of its own of what a fetch may return.
LEMMA SameOutcomes == F!Outcomes(block, broken) = Outcomes(block, broken)
<1>1. F!WellFormed(block) = WellFormed(block)
  BY DEF F!WellFormed, WellFormed, F!Kinds, Kinds, F!ToSet, ToSet, F!IsInjective, IsInjective
<1>2. F!Places(block) = Places(block)  BY DEF F!Places, Places, F!Kinds, Kinds
<1>3. \A lost : F!Full(block, lost) = Full(block, lost)
  BY DEF F!Full, Full, F!Kinds, Kinds, F!Missing, Missing
<1> QED
  BY <1>1, <1>2, <1>3 DEF F!Outcomes, Outcomes, F!Failed, Failed, F!Kinds, Kinds,
     F!ToSet, ToSet, F!IsInjective, IsInjective

LEMMA StepRefined == IInv /\ [Next]_vars => [F!Next]_<<block, broken, outcome>>
<1> SUFFICES ASSUME IInv, [Next]_vars PROVE [F!Next]_<<block, broken, outcome>>
  OBVIOUS
<1> USE DEF F!Next, F!Finish, F!Pending, Pending
<1>1. CASE Ask  BY <1>1 DEF Ask
<1>2. CASE IndexFails
  <2>1. fetching \in Kinds /\ ~WellFormed(block)
    BY <1>2, WantedIsList DEF IndexFails, WellFormed, Wanted, Indexable
  <2>2. Failed \in Outcomes(block, broken)  BY <2>1 DEF Outcomes
  <2> QED  BY <1>2, <2>2, SameOutcomes DEF IndexFails, Finish, IInv, FetchInv
<1>3. CASE IgnoreBlock  BY <1>3 DEF IgnoreBlock, Arrives
<1>4. CASE TakeBlock  BY <1>4 DEF TakeBlock, Arrives
<1>5. CASE DecodeFails
  <2>1. PICK c \in Cids : Arrives(c) /\ New(c) /\ DecodesAs[c] # fetching
    BY <1>5 DEF DecodeFails
  <2>2. fetching \in Kinds /\ fetching # "done"
    BY <2>1, WantedIsList DEF Arrives, IInv, FetchInv
  <2>3. ~WellFormed(block)  BY <2>1, <2>2 DEF WellFormed, New, Wanted
  <2>4. Failed \in Outcomes(block, broken)  BY <2>3 DEF Outcomes
  <2> QED  BY <1>5, <2>1, <2>2, <2>4, SameOutcomes DEF DecodeFails, Finish, Arrives, IInv, FetchInv
<1>6. CASE ChannelCloses
  <2>1. fetching # "done" /\ Complete(fetching)
    BY <1>6, ClosedIsComplete DEF ChannelCloses
  <2>2. CASE fetching = "Bls"  BY <1>6, <2>2 DEF ChannelCloses
  <2>3. CASE fetching # "Bls"
    <3>1. fetching = "Secpk"  BY <2>1, <2>3 DEF IInv, TypeOK, Kinds
    <3>2. Complete("Bls") /\ Complete("Secpk")  BY <2>1, <3>1 DEF IInv, FetchInv
    <3>3. [header |-> block.header, messages |-> got] \in Outcomes(block, broken)
      BY <3>2, FetchedIsFull
    <3> QED  BY <1>6, <2>1, <2>3, <3>3, SameOutcomes DEF ChannelCloses, Finish, IInv, FetchInv
  <2> QED  BY <2>2, <2>3
<1>7. CASE Break  BY <1>7 DEF Break, F!Break
<1>8. CASE Terminated \/ UNCHANGED vars  BY <1>8 DEF Terminated, vars
<1> QED  BY <1>1, <1>2, <1>3, <1>4, <1>5, <1>6, <1>7, <1>8 DEF Next

\* Whatever order, number and relevance the arriving blocks have: fetchFullBlock
\* returns each message at the place of its cid, and none missing unless it was cut
\* short; it fails only for blocks that are not well formed.
THEOREM Refinement == Spec => FetchSpec
<1>1. Init => F!Init  BY InitRefined
<1>2. IInv /\ [Next]_vars => [F!Next]_<<block, broken, outcome>>  BY StepRefined
<1> QED  BY <1>1, <1>2, Invariance, PTL DEF Spec, FetchSpec, F!Spec

=============================================================================
