----------------------------- MODULE CodecProofs -----------------------------
(***************************************************************************)
(* What the codecs promise, for values of every size and every token an    *)
(* encoder may write.  The writer, the reader and the copier each walk a   *)
(* tree in the same order, and a run is such a walk: what is still to do   *)
(* before each of its tokens.                                              *)
(***************************************************************************)
EXTENDS Codec, SequenceTheorems, TLAPS

-----------------------------------------------------------------------------
(* Schemas.                                                                *)

AtomKinds ==
  {"uint", "int", "bytes", "text", "cid", "big", "address", "signature",
   "signaturePointer"}

Closed(S) ==
  \A s \in S : /\ s.kind \in AtomKinds \cup Structs \cup {"list"}
               /\ s.kind = "list" => s.of \in S
               /\ s.kind \in Structs => s.fields \in Seq(S)

\* One level of lists and structs more.
More(S) == S \cup {ListOf(s) : s \in S} \cup [kind : Structs, fields : Seq(S)]

LEMMA MoreIsClosed ==
  ASSUME NEW S, Closed(S)
  PROVE  Closed(More(S)) /\ S \subseteq More(S)
<1>1. S \subseteq More(S) /\ Seq(S) \subseteq Seq(More(S))
  BY DEF More
<1>2. ASSUME NEW s \in More(S)
      PROVE  /\ s.kind \in AtomKinds \cup Structs \cup {"list"}
             /\ s.kind = "list" => s.of \in More(S)
             /\ s.kind \in Structs => s.fields \in Seq(More(S))
  <2>1. CASE s \in S
    BY <2>1, <1>1 DEF Closed
  <2>2. CASE \E e \in S : s = ListOf(e)
    BY <2>2, <1>1 DEF ListOf, Structs
  <2>3. CASE s \in [kind : Structs, fields : Seq(S)]
    BY <2>3, <1>1 DEF Structs
  <2> QED  BY <2>1, <2>2, <2>3 DEF More
<1> QED  BY <1>1, <1>2 DEF Closed

Level0 == {Atom(kind) : kind \in AtomKinds}
Level1 == More(Level0)
Level2 == More(Level1)
Level3 == More(Level2)
Level4 == More(Level3)
Level5 == More(Level4)
Level6 == More(Level5)
Level7 == More(Level6)

LEMMA LevelsAreClosed ==
  /\ Closed(Level7)
  /\ Level0 \subseteq Level1 /\ Level1 \subseteq Level2 /\ Level2 \subseteq Level3
  /\ Level3 \subseteq Level4 /\ Level4 \subseteq Level5 /\ Level5 \subseteq Level6
  /\ Level6 \subseteq Level7
<1>1. Closed(Level0)
  <2> SUFFICES ASSUME NEW kind \in AtomKinds
               PROVE  /\ Atom(kind).kind \in AtomKinds
                      /\ Atom(kind).kind \notin Structs \cup {"list"}
    BY DEF Closed, Level0
  <2> QED  BY DEF Atom, AtomKinds, Structs
<1>2. Closed(Level1) /\ Level0 \subseteq Level1
  BY <1>1, MoreIsClosed DEF Level1
<1>3. Closed(Level2) /\ Level1 \subseteq Level2
  BY <1>2, MoreIsClosed DEF Level2
<1>4. Closed(Level3) /\ Level2 \subseteq Level3
  BY <1>3, MoreIsClosed DEF Level3
<1>5. Closed(Level4) /\ Level3 \subseteq Level4
  BY <1>4, MoreIsClosed DEF Level4
<1>6. Closed(Level5) /\ Level4 \subseteq Level5
  BY <1>5, MoreIsClosed DEF Level5
<1>7. Closed(Level6) /\ Level5 \subseteq Level6
  BY <1>6, MoreIsClosed DEF Level6
<1>8. Closed(Level7) /\ Level6 \subseteq Level7
  BY <1>7, MoreIsClosed DEF Level7
<1> QED  BY <1>2, <1>3, <1>4, <1>5, <1>6, <1>7, <1>8

LEMMA AtomsInLevel0 ==
  /\ Uint64 \in Level0 /\ Int64 \in Level0 /\ Bytes \in Level0 /\ Text \in Level0
  /\ Cid \in Level0 /\ Big \in Level0 /\ Address \in Level0 /\ Signature \in Level0
  /\ SignaturePointer \in Level0
  BY DEF Level0, Atom, AtomKinds, Uint64, Int64, Bytes, Text, Cid, Big, Address,
         Signature, SignaturePointer

\* How a schema gets to the next level.
LEMMA InMore ==
  ASSUME NEW S
  PROVE  /\ \A s \in S : s \in More(S) /\ ListOf(s) \in More(S)
         /\ \A fields \in Seq(S) :
              /\ StructOf(fields) \in More(S)
              /\ StructOf(fields).fields \in Seq(S)
              /\ PointerTo(StructOf(fields)) \in More(S)
              /\ ElementOf(StructOf(fields)) \in More(S)
<1>1. \A s \in S : s \in More(S) /\ ListOf(s) \in More(S)
  BY DEF More
<1>2. ASSUME NEW fields \in Seq(S)
      PROVE  /\ StructOf(fields) \in More(S)
             /\ StructOf(fields).fields \in Seq(S)
             /\ PointerTo(StructOf(fields)) \in More(S)
             /\ ElementOf(StructOf(fields)) \in More(S)
  BY DEF More, StructOf, PointerTo, ElementOf, Structs
<1> QED  BY <1>1, <1>2

LEMMA StructsInLevel1 ==
  ASSUME NEW s \in {PoStProof, Ticket, ElectionProof, BeaconEntry, Message, Actor,
                    LatencyMessage}
  PROVE  s \in Level1 /\ PointerTo(s) \in Level1 /\ ElementOf(s) \in Level1
<1>1. ASSUME NEW fields \in Seq(Level0), s = StructOf(fields)
      PROVE  s \in Level1 /\ PointerTo(s) \in Level1 /\ ElementOf(s) \in Level1
  BY <1>1, InMore DEF Level1
<1>2. CASE s = PoStProof
  <2>1. <<Int64, Bytes>> \in Seq(Level0)
    BY AtomsInLevel0
  <2> QED  BY <1>1, <1>2, <2>1 DEF PoStProof
<1>3. CASE s = Ticket
  <2>1. <<Bytes>> \in Seq(Level0)
    BY AtomsInLevel0
  <2> QED  BY <1>1, <1>3, <2>1 DEF Ticket
<1>4. CASE s = ElectionProof
  <2>1. <<Int64, Bytes>> \in Seq(Level0)
    BY AtomsInLevel0
  <2> QED  BY <1>1, <1>4, <2>1 DEF ElectionProof
<1>5. CASE s = BeaconEntry
  <2>1. <<Uint64, Bytes>> \in Seq(Level0)
    BY AtomsInLevel0
  <2> QED  BY <1>1, <1>5, <2>1 DEF BeaconEntry
<1>6. CASE s = Message
  <2>1. <<Uint64, Address, Address, Uint64, Big, Int64, Big, Big, Uint64, Bytes>>
           \in Seq(Level0)
    BY AtomsInLevel0
  <2> QED  BY <1>1, <1>6, <2>1 DEF Message
<1>7. CASE s = Actor
  <2>1. <<Cid, Cid, Uint64, Big>> \in Seq(Level0)
    BY AtomsInLevel0
  <2> QED  BY <1>1, <1>7, <2>1 DEF Actor
<1>8. CASE s = LatencyMessage
  <2>1. <<Int64, Int64>> \in Seq(Level0)
    BY AtomsInLevel0
  <2> QED  BY <1>1, <1>8, <2>1 DEF LatencyMessage
<1> QED  BY <1>2, <1>3, <1>4, <1>5, <1>6, <1>7, <1>8

LEMMA TypesInLevel7 ==
  ASSUME NEW t \in DOMAIN Types
  PROVE  Types[t] \in Level7
<1> DEFINE In(s, S) == s \in S /\ PointerTo(s) \in S /\ ElementOf(s) \in S
<1>1. /\ \A s \in Level0 : s \in Level1 /\ ListOf(s) \in Level1
      /\ \A s \in Level1 : s \in Level2 /\ ListOf(s) \in Level2
      /\ \A s \in Level2 : s \in Level3 /\ ListOf(s) \in Level3
      /\ \A s \in Level3 : s \in Level4 /\ ListOf(s) \in Level4
      /\ \A s \in Level4 : s \in Level5 /\ ListOf(s) \in Level5
      /\ \A s \in Level5 : s \in Level6 /\ ListOf(s) \in Level6
      /\ \A s \in Level6 : s \in Level7 /\ ListOf(s) \in Level7
  BY InMore DEF Level1, Level2, Level3, Level4, Level5, Level6, Level7
<1>2. /\ \A fields \in Seq(Level1) : In(StructOf(fields), Level2)
      /\ \A fields \in Seq(Level2) : In(StructOf(fields), Level3)
      /\ \A fields \in Seq(Level3) : In(StructOf(fields), Level4)
      /\ \A fields \in Seq(Level4) : In(StructOf(fields), Level5)
      /\ \A fields \in Seq(Level6) : In(StructOf(fields), Level7)
  BY InMore DEF Level2, Level3, Level4, Level5, Level7
<1> HIDE DEF In
<1>3. In(SignedMessage, Level2)
  <2>1. <<Message, Signature>> \in Seq(Level1)
    BY <1>1, AtomsInLevel0, StructsInLevel1
  <2> QED  BY <1>2, <2>1 DEF SignedMessage
<1>4. In(SyncMessage, Level2)
  <2>1. <<ListOf(Cid), Uint64, Uint64>> \in Seq(Level1)
    BY <1>1, AtomsInLevel0
  <2> QED  BY <1>2, <2>1 DEF SyncMessage
<1>5. In(HelloMessage, Level2)
  <2>1. <<ListOf(Cid), Int64, Big, Cid>> \in Seq(Level1)
    BY <1>1, AtomsInLevel0
  <2> QED  BY <1>2, <2>1 DEF HelloMessage
<1>6. In(BlockHeader, Level3)
  <2>1. /\ Address \in Level2 /\ Big \in Level2 /\ Int64 \in Level2 /\ Cid \in Level2
        /\ Uint64 \in Level2 /\ SignaturePointer \in Level2
    BY <1>1, AtomsInLevel0
  <2>2. /\ PointerTo(Ticket) \in Level2 /\ PointerTo(ElectionProof) \in Level2
        /\ ListOf(BeaconEntry) \in Level2 /\ ListOf(PoStProof) \in Level2
        /\ ListOf(Cid) \in Level2
    BY <1>1, AtomsInLevel0, StructsInLevel1
  <2>3. <<Address, PointerTo(Ticket), PointerTo(ElectionProof),
          ListOf(BeaconEntry), ListOf(PoStProof), ListOf(Cid), Big, Int64, Cid, Cid,
          Cid, SignaturePointer, Uint64, SignaturePointer, Uint64, Big>> \in Seq(Level2)
    BY <2>1, <2>2
  <2> QED  BY <1>2, <2>3 DEF BlockHeader
<1>7. In(BlockMessage, Level4)
  <2>1. ListOf(Cid) \in Level3 /\ PointerTo(BlockHeader) \in Level3
    BY <1>1, <1>6, AtomsInLevel0 DEF In
  <2>2. <<PointerTo(BlockHeader), ListOf(Cid), ListOf(Cid)>> \in Seq(Level3)
    BY <2>1
  <2> QED  BY <1>2, <2>2 DEF BlockMessage
<1>8. In(CompactedMessages, Level4)
  <2>1. Includes \in Level3
    BY <1>1, AtomsInLevel0 DEF Includes
  <2>2. ListOf(ElementOf(Message)) \in Level3
    BY <1>1, StructsInLevel1
  <2>3. ListOf(ElementOf(SignedMessage)) \in Level3
    BY <1>1, <1>3 DEF In
  <2>4. <<ListOf(ElementOf(Message)), Includes,
          ListOf(ElementOf(SignedMessage)), Includes>> \in Seq(Level3)
    BY <2>1, <2>2, <2>3
  <2> QED  BY <1>2, <2>4 DEF CompactedMessages
<1>9. In(BSTipSet, Level5)
  <2>1. ListOf(ElementOf(BlockHeader)) \in Level4 /\ PointerTo(CompactedMessages) \in Level4
    BY <1>1, <1>6, <1>8 DEF In
  <2>2. <<ListOf(ElementOf(BlockHeader)), PointerTo(CompactedMessages)>> \in Seq(Level4)
    BY <2>1
  <2> QED  BY <1>2, <2>2 DEF BSTipSet
<1>10. In(ChainMessage, Level7)
  <2>1. ListOf(ElementOf(BSTipSet)) \in Level6
    BY <1>1, <1>9 DEF In
  <2>2. Uint64 \in Level6 /\ Text \in Level6
    BY <1>1, AtomsInLevel0
  <2>3. <<Uint64, Text, ListOf(ElementOf(BSTipSet))>> \in Seq(Level6)
    BY <2>1, <2>2
  <2> QED  BY <1>2, <2>3 DEF ChainMessage
<1>11. \A s : \/ s \in Level1 \/ s \in Level2 \/ s \in Level3 \/ s \in Level4
                \/ s \in Level5 \/ s \in Level7
             => s \in Level7
  BY LevelsAreClosed
<1>12. /\ SignedMessage \in Level7 /\ SyncMessage \in Level7 /\ HelloMessage \in Level7
       /\ BlockHeader \in Level7 /\ BlockMessage \in Level7
       /\ CompactedMessages \in Level7 /\ BSTipSet \in Level7 /\ ChainMessage \in Level7
  BY <1>3, <1>4, <1>5, <1>6, <1>7, <1>8, <1>9, <1>10, <1>11 DEF In
<1>13. /\ Ticket \in Level7 /\ ElectionProof \in Level7 /\ BeaconEntry \in Level7
       /\ Message \in Level7 /\ Actor \in Level7 /\ LatencyMessage \in Level7
  BY <1>11, StructsInLevel1
<1> QED  BY <1>12, <1>13 DEF Types

\* The schemas of all that is written.
Schemas == CHOOSE S : Closed(S) /\ \A t \in DOMAIN Types : Types[t] \in S

LEMMA SchemasClosed ==
  /\ \A t \in DOMAIN Types : Types[t] \in Schemas
  /\ \A s \in Schemas :
       /\ s.kind \in AtomKinds \cup Structs \cup {"list"}
       /\ s.kind = "list" => s.of \in Schemas
       /\ s.kind \in Structs => s.fields \in Seq(Schemas)
<1>1. \E S : Closed(S) /\ \A t \in DOMAIN Types : Types[t] \in S
  BY TypesInLevel7, LevelsAreClosed
<1>2. Closed(Schemas) /\ (\A t \in DOMAIN Types : Types[t] \in Schemas)
  BY <1>1 DEF Schemas
<1> QED  BY <1>2 DEF Closed

-----------------------------------------------------------------------------
(* Tokens.                                                                 *)

\* What a reader may meet: numbers have 64 bits.
Tokens == {t \in [major : Majors, number : Nat] :
             t.major = "uint" => t.number < 2 * Half}

IsNode(n) ==
  n = Node(n.schema, n.data) /\ n.schema \in Schemas /\ n.data \in DataOf(n.schema)

NilElement(n) == n.schema.kind = "element" /\ n.data = 0

LEMMA KindOfSchema ==
  ASSUME NEW s \in Schemas
  PROVE  /\ s.kind \in {"struct", "pointer", "element", "list", "uint", "int", "bytes",
                        "text", "cid", "big", "address", "signature",
                        "signaturePointer"}
         /\ s.kind \in {"struct", "pointer", "element"} => Len(s.fields) \in Nat
<1>1. s.kind \in {"struct", "pointer", "element", "list", "uint", "int", "bytes",
                 "text", "cid", "big", "address", "signature", "signaturePointer"}
  BY SchemasClosed DEF AtomKinds, Structs
<1>2. s.kind \in {"struct", "pointer", "element"} => Len(s.fields) \in Nat
  BY SchemasClosed DEF Structs
<1> QED  BY <1>1, <1>2

LEMMA TokenTyped ==
  ASSUME NEW n, IsNode(n)
  PROVE  TokenOf(n) \in Tokens
<1> USE BoundsAssumption
<1>1. n.schema \in Schemas /\ n.data \in DataOf(n.schema)
  BY DEF IsNode
<1>2. CASE n.schema.kind \in {"struct", "pointer", "element"}
  BY <1>1, <1>2, KindOfSchema DEF DataOf, TokenOf, Structs, Token, Null, Tokens, Majors
<1>3. CASE n.schema.kind = "int"
  BY <1>1, <1>3 DEF DataOf, TokenOf, Structs, Token, IntToken, Tokens, Majors
<1>4. CASE n.schema.kind = "uint"
  BY <1>1, <1>4 DEF DataOf, TokenOf, Structs, Token, Tokens, Majors
<1>5. CASE n.schema.kind = "signaturePointer"
  BY <1>1, <1>5 DEF DataOf, TokenOf, Structs, Token, Null, Tokens, Nil, Majors
<1>6. CASE n.schema.kind \in {"list", "bytes", "text", "cid", "big", "address", "signature"}
  BY <1>1, <1>6 DEF DataOf, TokenOf, Structs, Token, Tokens, Majors
<1> QED  BY <1>1, <1>2, <1>3, <1>4, <1>5, <1>6, KindOfSchema

\* The reader accepts what the writer writes of a node, and reads the same data.  Only
\* a nil element is written and not accepted.
LEMMA WrittenIsAccepted ==
  ASSUME NEW n, IsNode(n), Writable(n)
  PROVE  /\ NilElement(n) => ~Accepts(n.schema, TokenOf(n))
         /\ ~NilElement(n) => /\ Accepts(n.schema, TokenOf(n))
                              /\ Node(n.schema, DataIn(n.schema, TokenOf(n))) = n
<1> USE BoundsAssumption
<1>1. /\ n.schema \in Schemas /\ n.data \in DataOf(n.schema)
      /\ n = Node(n.schema, n.data)
  BY DEF IsNode
<1>2. CASE n.schema.kind = "element" /\ n.data = 0
  BY <1>2 DEF NilElement, Accepts, TokenOf, Structs, Token, Null
<1>3. SUFFICES ASSUME ~NilElement(n)
               PROVE  /\ Accepts(n.schema, TokenOf(n))
                      /\ DataIn(n.schema, TokenOf(n)) = n.data
  BY <1>1, <1>2 DEF NilElement
<1>4. CASE n.schema.kind \in {"struct", "element"}
  <2>1. n.data = 1
    BY <1>1, <1>3, <1>4 DEF DataOf, NilElement
  <2>2. TokenOf(n) = Token("array", Len(n.schema.fields))
    BY <1>4, <2>1 DEF TokenOf, Structs
  <2> QED  BY <1>4, <2>1, <2>2 DEF Accepts, DataIn, Structs, Token
<1>5. CASE n.schema.kind = "pointer"
  <2>1. n.data \in {0, 1}
    BY <1>1, <1>5 DEF DataOf
  <2>2. TokenOf(n) = IF n.data = 0 THEN Null ELSE Token("array", Len(n.schema.fields))
    BY <1>5 DEF TokenOf, Structs
  <2> QED  BY <1>5, <2>1, <2>2 DEF Accepts, DataIn, Structs, Token, Null, IsNull
<1>6. CASE n.schema.kind = "int"
  <2>1. n.data \in (-Half)..(Half - 1)
    BY <1>1, <1>6 DEF DataOf
  <2>2. TokenOf(n) = IntToken(n.data)
    BY <1>6 DEF TokenOf, Structs
  <2> QED  BY <1>6, <2>1, <2>2 DEF Accepts, DataIn, Structs, Token, IntToken, FitsInt, AsInt64
<1>7. CASE n.schema.kind = "signaturePointer"
  <2>1. n.data \in Nat \cup {-1}
    BY <1>1, <1>7 DEF DataOf, Nil
  <2>2. TokenOf(n) = IF n.data = -1 THEN Null ELSE Token("bytes", n.data)
    BY <1>7 DEF TokenOf, Structs, Nil
  <2>3. n.data # 0
    BY <1>7 DEF Writable
  <2> QED  BY <1>7, <2>1, <2>2, <2>3 DEF Accepts, DataIn, Structs, Token, Null, IsNull, Nil
<1>8. CASE n.schema.kind = "uint"
  BY <1>1, <1>8 DEF DataOf, TokenOf, Accepts, DataIn, Structs, Token
<1>9. CASE n.schema.kind \in {"list", "bytes", "text", "cid", "big", "address", "signature"}
  BY <1>1, <1>9 DEF DataOf, TokenOf, Accepts, DataIn, Structs, Token, Writable, BytesFit
<1> QED  BY <1>1, <1>4, <1>5, <1>6, <1>7, <1>8, <1>9, KindOfSchema

\* Whatever token a reader accepts: it is the one the writer writes of what is read.
LEMMA AcceptedIsWritten ==
  ASSUME NEW s \in Schemas, NEW t \in Tokens, Accepts(s, t)
  PROVE  LET n == Node(s, DataIn(s, t))
         IN  IsNode(n) /\ Writable(n) /\ TokenOf(n) = t
<1> DEFINE d == DataIn(s, t)
           n == Node(s, d)
<1> USE BoundsAssumption
<1>1. /\ t = Token(t.major, t.number) /\ t.number \in Nat
      /\ t.major = "uint" => t.number < 2 * Half
  BY DEF Tokens, Token
<1>2. n.schema = s /\ n.data = d
  BY DEF Node
<1>3. SUFFICES d \in DataOf(s) /\ Writable(n) /\ TokenOf(n) = t
  BY <1>2 DEF IsNode
<1> HIDE DEF n
<1>4. CASE s.kind \in {"struct", "element"}
  <2>1. t = Token("array", Len(s.fields)) /\ d = 1
    BY <1>1, <1>4 DEF Accepts, DataIn, Structs
  <2> QED  BY <1>2, <1>4, <2>1 DEF DataOf, Writable, TokenOf, Structs
<1>5. CASE s.kind = "pointer"
  <2>1. \/ t = Token("array", Len(s.fields)) /\ d = 1
        \/ t = Null /\ d = 0
    BY <1>1, <1>5 DEF Accepts, DataIn, Structs, IsNull, Null, Token
  <2> QED  BY <1>2, <1>5, <2>1 DEF DataOf, Writable, TokenOf, Structs
<1>6. CASE s.kind = "int"
  <2>1. t.number < Half /\ t.major \in {"uint", "negative"}
    BY <1>1, <1>6 DEF Accepts, Structs, FitsInt
  <2>2. d = IF t.major = "negative" THEN -1 - t.number ELSE t.number
    BY <1>1, <1>6, <2>1 DEF DataIn, Structs, AsInt64
  <2>3. TokenOf(n) = IntToken(d)
    BY <1>2, <1>6 DEF TokenOf, Structs
  <2>4. d \in DataOf(s)
    BY <1>1, <1>6, <2>1, <2>2 DEF DataOf
  <2>5. IntToken(d) = Token(t.major, t.number)
    <3>1. CASE t.major = "negative"
      <4>1. d < 0 /\ -d - 1 = t.number
        BY <1>1, <2>2, <3>1
      <4> QED  BY <1>1, <2>2, <3>1, <4>1 DEF IntToken
    <3>2. CASE t.major = "uint"
      BY <1>1, <2>2, <3>2 DEF IntToken
    <3> QED  BY <2>1, <3>1, <3>2
  <2> QED  BY <1>1, <1>2, <1>6, <2>3, <2>4, <2>5 DEF Writable
<1>7. CASE s.kind = "signaturePointer"
  <2>1. \/ t = Token("bytes", t.number) /\ t.number # 0 /\ d = t.number
        \/ t = Null /\ d = -1
    BY <1>1, <1>7 DEF Accepts, DataIn, Structs, IsNull, Null, Token, Nil
  <2> QED  BY <1>1, <1>2, <1>7, <2>1 DEF DataOf, Writable, TokenOf, Structs, Nil
<1>8. CASE s.kind = "uint"
  BY <1>1, <1>2, <1>8 DEF DataOf, Writable, TokenOf, Accepts, DataIn, Structs
<1>9. CASE s.kind \in {"list", "bytes", "text", "cid", "big", "address", "signature"}
  BY <1>1, <1>2, <1>9 DEF DataOf, Writable, TokenOf, Accepts, DataIn, Structs, BytesFit
<1> QED  BY <1>4, <1>5, <1>6, <1>7, <1>8, <1>9, KindOfSchema

LEMMA EndIsRefused ==
  ASSUME NEW s \in Schemas
  PROVE  ~Accepts(s, End)
  BY KindOfSchema DEF Accepts, End, Token, Structs, IsNull, Null

-----------------------------------------------------------------------------
(* Paths and fields.                                                       *)

\* q is p or leads to a part of what is at p.
Below(p, q) == Len(p) <= Len(q) /\ \A i \in 1..Len(p) : p[i] = q[i]

LEMMA PartsAreBelow ==
  ASSUME NEW p \in Seq(Nat), NEW i \in Nat
  PROVE  /\ Append(p, i) \in Seq(Nat)
         /\ Below(p, p)
         /\ ~Below(Append(p, i), p)
         /\ \A j \in Nat : Below(Append(p, i), Append(p, j)) => i = j
         /\ \A q \in Seq(Nat) : Below(Append(p, i), q) => Below(p, q)
         /\ \A q \in Seq(Nat) : Below(q, Append(p, i)) => Below(q, p) \/ Below(p, q)
<1>1. /\ Append(p, i) \in Seq(Nat) /\ Len(Append(p, i)) = Len(p) + 1 /\ Len(p) \in Nat
      /\ \A k \in 1..Len(p) : Append(p, i)[k] = p[k]
      /\ Append(p, i)[Len(p) + 1] = i
  OBVIOUS
<1>2. Below(p, p) /\ ~Below(Append(p, i), p)
  BY <1>1 DEF Below
<1>3. ASSUME NEW j \in Nat, Below(Append(p, i), Append(p, j))
      PROVE  i = j
  <2>1. Append(p, j)[Len(p) + 1] = j
    OBVIOUS
  <2> QED  BY <1>1, <1>3, <2>1 DEF Below
<1>4. ASSUME NEW q \in Seq(Nat), Below(Append(p, i), q)
      PROVE  Below(p, q)
  <2>1. Len(p) + 1 <= Len(q) /\ Len(q) \in Nat
    BY <1>1, <1>4 DEF Below
  <2>2. ASSUME NEW k \in 1..Len(p)
        PROVE  p[k] = q[k]
    <3>1. k \in 1..Len(Append(p, i)) /\ Append(p, i)[k] = p[k]
      BY <1>1
    <3>2. Append(p, i)[k] = q[k]
      BY <1>4, <3>1 DEF Below
    <3> QED  BY <3>1, <3>2
  <2> QED  BY <1>1, <2>1, <2>2 DEF Below
<1>5. ASSUME NEW q \in Seq(Nat), Below(q, Append(p, i))
      PROVE  Below(q, p) \/ Below(p, q)
  <2>1. Len(q) \in Nat /\ Len(q) <= Len(p) + 1
    BY <1>1, <1>5 DEF Below
  <2>2. CASE Len(q) <= Len(p)
    BY <1>1, <1>5, <2>1, <2>2 DEF Below
  <2>3. CASE Len(q) = Len(p) + 1
    <3>1. \A k \in 1..Len(p) : q[k] = Append(p, i)[k]
      <4>1. \A k \in 1..Len(q) : q[k] = Append(p, i)[k]
        BY <1>5 DEF Below
      <4> QED  BY <1>1, <2>3, <4>1
    <3>2. \A k \in 1..Len(p) : p[k] = q[k]
      BY <1>1, <3>1
    <3> QED  BY <1>1, <2>3, <3>2 DEF Below
  <2> QED  BY <1>1, <2>1, <2>2, <2>3
<1> QED  BY <1>1, <1>2, <1>3, <1>4, <1>5

Fields == [path : Seq(Nat), schema : Schemas]

LEMMA PartsTyped ==
  ASSUME NEW n, n.schema \in Schemas, n.data \in DataOf(n.schema)
  PROVE  /\ Arity(n) \in Nat
         /\ \A i \in 1..Arity(n) : PartSchema(n.schema, i) \in Schemas
<1>1. CASE n.schema.kind \in {"struct", "pointer", "element"}
  <2>1. n.schema.fields \in Seq(Schemas)
    BY <1>1, SchemasClosed DEF Structs
  <2> QED  BY <1>1, <2>1 DEF Arity, PartSchema, Structs
<1>2. CASE n.schema.kind = "list"
  BY <1>2, SchemasClosed DEF Arity, PartSchema, DataOf
<1>3. CASE n.schema.kind \notin {"struct", "pointer", "element", "list"}
  BY <1>3 DEF Arity, Structs
<1> QED  BY <1>1, <1>2, <1>3

LEMMA PartsAreFields ==
  ASSUME NEW path \in Seq(Nat), NEW n, n.schema \in Schemas, n.data \in DataOf(n.schema)
  PROVE  /\ Parts(path, n) \in Seq(Fields) /\ Len(Parts(path, n)) = Arity(n)
         /\ \A i \in 1..Arity(n) :
              Parts(path, n)[i] = Field(Append(path, i), PartSchema(n.schema, i))
<1>1. \A i \in 1..Arity(n) : Field(Append(path, i), PartSchema(n.schema, i)) \in Fields
  <2>1. ASSUME NEW i \in 1..Arity(n)
        PROVE  Field(Append(path, i), PartSchema(n.schema, i)) \in Fields
    <3>1. Append(path, i) \in Seq(Nat)
      BY PartsTyped
    <3> QED  BY <3>1, PartsTyped DEF Field, Fields
  <2> QED  BY <2>1
<1> QED  BY <1>1, PartsTyped DEF Parts

LEMMA ConcatParts ==
  ASSUME NEW S, NEW a \in Seq(S), NEW b \in Seq(S)
  PROVE  /\ a \o b \in Seq(S) /\ Len(a \o b) = Len(a) + Len(b)
         /\ \A k \in 1..Len(a) : (a \o b)[k] = a[k]
         /\ \A m \in 1..Len(b) : (a \o b)[Len(a) + m] = b[m]
<1>1. ASSUME NEW m \in 1..Len(b)
      PROVE  (a \o b)[Len(a) + m] = b[m]
  OBVIOUS
<1> QED  BY <1>1

\* c is a and then b but for its head.
Joined(a, b, c) ==
  /\ Len(c) = Len(a) + Len(b) - 1
  /\ \A k \in 1..Len(a) : c[k] = a[k]
  /\ \A k \in 2..Len(b) : c[Len(a) + k - 1] = b[k]
  /\ \A k \in DOMAIN c :
       \/ k \in 1..Len(a) /\ c[k] = a[k]
       \/ \E m \in 2..Len(b) : k = Len(a) + m - 1 /\ c[k] = b[m]

LEMMA AfterHead ==
  ASSUME NEW S, NEW a \in Seq(S), NEW b \in Seq(S), b # <<>>,
         NEW c, c = a \o Tail(b)
  PROVE  c \in Seq(S) /\ Joined(a, b, c)
<1>1. PICK t : t = Tail(b)
  OBVIOUS
<1>2. /\ t \in Seq(S) /\ Len(t) = Len(b) - 1 /\ Len(b) \in Nat \ {0} /\ Len(a) \in Nat
      /\ \A m \in 1..Len(t) : t[m] = b[m + 1]
  BY <1>1
<1>3. /\ c \in Seq(S) /\ Len(c) = Len(a) + Len(t)
      /\ \A k \in 1..Len(a) : c[k] = a[k]
      /\ \A m \in 1..Len(t) : c[Len(a) + m] = t[m]
  <2>1. c = a \o t
    BY <1>1
  <2> QED  BY <1>2, <2>1, ConcatParts
<1>4. ASSUME NEW k \in 2..Len(b)
      PROVE  c[Len(a) + k - 1] = b[k]
  <2>1. k - 1 \in 1..Len(t) /\ Len(a) + (k - 1) = Len(a) + k - 1 /\ (k - 1) + 1 = k
    BY <1>2
  <2> QED  BY <1>2, <1>3, <2>1
<1>5. ASSUME NEW k \in DOMAIN c
      PROVE  \/ k \in 1..Len(a) /\ c[k] = a[k]
             \/ \E m \in 2..Len(b) : k = Len(a) + m - 1 /\ c[k] = b[m]
  <2> k \in 1..(Len(a) + Len(t))
    BY <1>2, <1>3
  <2>1. CASE k <= Len(a)
    BY <1>2, <1>3, <2>1
  <2>2. CASE k > Len(a)
    <3>1. k - Len(a) + 1 \in 2..Len(b) /\ k = Len(a) + (k - Len(a) + 1) - 1
      BY <1>2, <1>3, <2>2
    <3>2. c[Len(a) + (k - Len(a) + 1) - 1] = b[k - Len(a) + 1]
      BY <1>4, <3>1
    <3> QED  BY <3>1, <3>2
  <2> QED  BY <1>2, <1>3, <2>1, <2>2
<1>6. /\ c \in Seq(S) /\ Len(c) = Len(a) + Len(b) - 1
      /\ \A k \in 1..Len(a) : c[k] = a[k]
  BY <1>2, <1>3
<1> QED  BY <1>4, <1>5, <1>6 DEF Joined

\* What is to do after the first field, n what is at it.
After(fields, n) == Parts(Head(fields).path, n) \o Tail(fields)

\* Facts that the steps of all three walks use.
LEMMA AfterTyped ==
  ASSUME NEW fields \in Seq(Fields), fields # <<>>,
         NEW n, n.schema \in Schemas, n.data \in DataOf(n.schema)
  PROVE  /\ Head(fields) = fields[1] /\ 1 \in DOMAIN fields
         /\ fields[1] \in Fields /\ fields[1].path \in Seq(Nat)
         /\ After(fields, n) \in Seq(Fields)
         /\ \A i \in 1..Arity(n) : \E k \in DOMAIN After(fields, n) :
              After(fields, n)[k] =
                Field(Append(fields[1].path, i), PartSchema(n.schema, i))
         /\ \A m \in DOMAIN fields : m # 1 =>
              \E k \in DOMAIN After(fields, n) : After(fields, n)[k] = fields[m]
         /\ \A k \in DOMAIN After(fields, n) :
              \/ /\ k \in 1..Arity(n)
                 /\ After(fields, n)[k] =
                      Field(Append(fields[1].path, k), PartSchema(n.schema, k))
              \/ \E m \in DOMAIN fields :
                   m # 1 /\ k = Arity(n) + m - 1 /\ After(fields, n)[k] = fields[m]
<1> DEFINE p == fields[1].path
<1>1. /\ Head(fields) = fields[1] /\ 1 \in DOMAIN fields /\ fields[1] \in Fields
      /\ p \in Seq(Nat) /\ Len(fields) \in Nat \ {0} /\ DOMAIN fields = 1..Len(fields)
  <2>1. /\ Head(fields) = fields[1] /\ 1 \in DOMAIN fields /\ fields[1] \in Fields
        /\ Len(fields) \in Nat \ {0} /\ DOMAIN fields = 1..Len(fields)
    OBVIOUS
  <2>2. \A f \in Fields : f.path \in Seq(Nat)
    BY DEF Fields
  <2> QED  BY <2>1, <2>2
<1>2. PICK a : a = Parts(p, n)
  OBVIOUS
<1>3. PICK c : c = After(fields, n)
  OBVIOUS
<1>4. c = a \o Tail(fields)
  BY <1>1, <1>2, <1>3 DEF After
<1>5. /\ a \in Seq(Fields) /\ Len(a) = Arity(n) /\ Arity(n) \in Nat
      /\ \A i \in 1..Arity(n) : a[i] = Field(Append(p, i), PartSchema(n.schema, i))
  BY <1>1, <1>2, PartsAreFields, PartsTyped
<1>6. c \in Seq(Fields) /\ Joined(a, fields, c)
  BY <1>4, <1>5, AfterHead
<1>7. c \in Seq(Fields) /\ DOMAIN c = 1..(Arity(n) + Len(fields) - 1)
  BY <1>5, <1>6 DEF Joined
<1>8. ASSUME NEW i \in 1..Arity(n)
      PROVE  i \in DOMAIN c /\ c[i] = Field(Append(p, i), PartSchema(n.schema, i))
  BY <1>1, <1>5, <1>6, <1>7 DEF Joined
<1>9. ASSUME NEW m \in DOMAIN fields, m # 1
      PROVE  Arity(n) + m - 1 \in DOMAIN c /\ c[Arity(n) + m - 1] = fields[m]
  <2>1. m \in 2..Len(fields) /\ Arity(n) + m - 1 \in DOMAIN c
    BY <1>1, <1>5, <1>7, <1>9
  <2>2. c[Len(a) + m - 1] = fields[m]
    BY <1>6, <2>1 DEF Joined
  <2> QED  BY <1>5, <2>1, <2>2
<1>10. ASSUME NEW k \in DOMAIN c
      PROVE  \/ k \in 1..Arity(n) /\ c[k] = Field(Append(p, k), PartSchema(n.schema, k))
             \/ \E m \in DOMAIN fields : m # 1 /\ k = Arity(n) + m - 1 /\ c[k] = fields[m]
  <2>1. CASE k \in 1..Len(a) /\ c[k] = a[k]
    BY <1>5, <2>1
  <2>2. CASE \E m \in 2..Len(fields) : k = Len(a) + m - 1 /\ c[k] = fields[m]
    <3>1. PICK m \in 2..Len(fields) : k = Len(a) + m - 1 /\ c[k] = fields[m]
      BY <2>2
    <3>2. m \in DOMAIN fields /\ m # 1 /\ k = Arity(n) + m - 1
      BY <1>1, <1>5, <3>1
    <3> QED  BY <3>1, <3>2
  <2> QED  BY <1>6, <2>1, <2>2 DEF Joined
<1> QED  BY <1>1, <1>3, <1>7, <1>8, <1>9, <1>10

-----------------------------------------------------------------------------
(* Runs.                                                                   *)

\* A field of v is done: what is written of it, and what is to do afterwards.
StepOf(v, before, token, after) ==
  /\ before # <<>>
  /\ Head(before).path \in DOMAIN v
  /\ LET n == v[Head(before).path]
     IN  Writable(n) /\ token = TokenOf(n) /\ after = After(before, n)

\* What was to do before each of the tokens of v, and after the last of them.
IsRun(root, v, tokens, run) ==
  /\ run \in Seq(Seq(Fields)) /\ Len(run) = Len(tokens) + 1 /\ run[1] = <<root>>
  /\ \A j \in 1..Len(tokens) : StepOf(v, run[j], tokens[j], run[j + 1])

LEMMA RunStarts ==
  ASSUME NEW root \in Fields, NEW v
  PROVE  IsRun(root, v, <<>>, <<<<root>>>>)
  BY DEF IsRun

\* A run that has come to the fields.
RunTo(root, v, tokens, run, fields) ==
  /\ tokens \in Seq(Tokens) /\ IsRun(root, v, tokens, run)
  /\ fields = run[Len(tokens) + 1]

LEMMA RunGoesOn ==
  ASSUME NEW root, NEW v, NEW tokens, NEW run, NEW before,
         RunTo(root, v, tokens, run, before),
         NEW token \in Tokens, NEW after \in Seq(Fields), StepOf(v, before, token, after)
  PROVE  /\ RunTo(root, v, Append(tokens, token), Append(run, after), after)
         /\ \A j \in 1..Len(run) : Append(run, after)[j] = run[j]
<1> USE DEF RunTo
<1>1. /\ tokens \in Seq(Tokens) /\ before = run[Len(tokens) + 1]
      /\ run \in Seq(Seq(Fields)) /\ Len(run) = Len(tokens) + 1 /\ Len(tokens) \in Nat
      /\ run[1] = <<root>>
      /\ \A j \in 1..Len(tokens) : StepOf(v, run[j], tokens[j], run[j + 1])
  BY DEF IsRun
<1>2. /\ Append(run, after) \in Seq(Seq(Fields))
      /\ Len(Append(run, after)) = Len(tokens) + 2
      /\ \A j \in 1..(Len(tokens) + 1) : Append(run, after)[j] = run[j]
      /\ Append(run, after)[Len(tokens) + 2] = after
  BY <1>1
<1>3. /\ Append(tokens, token) \in Seq(Tokens)
      /\ Len(Append(tokens, token)) = Len(tokens) + 1
      /\ \A j \in 1..Len(tokens) : Append(tokens, token)[j] = tokens[j]
      /\ Append(tokens, token)[Len(tokens) + 1] = token
  BY <1>1
<1>4. ASSUME NEW j \in 1..(Len(tokens) + 1)
      PROVE  StepOf(v, Append(run, after)[j], Append(tokens, token)[j],
                    Append(run, after)[j + 1])
  <2>1. CASE j \in 1..Len(tokens)
    <3>1. /\ Append(run, after)[j] = run[j] /\ Append(run, after)[j + 1] = run[j + 1]
          /\ Append(tokens, token)[j] = tokens[j]
      BY <1>1, <1>2, <1>3, <2>1
    <3> QED  BY <1>1, <2>1, <3>1
  <2>2. CASE j = Len(tokens) + 1
    <3>1. /\ Append(run, after)[j] = before
          /\ Append(run, after)[j + 1] = after
          /\ Append(tokens, token)[j] = token
      BY <1>1, <1>2, <1>3, <2>2
    <3> QED  BY <3>1
  <2> QED  BY <1>1, <2>1, <2>2
<1>5. IsRun(root, v, Append(tokens, token), Append(run, after))
  <2>1. /\ Append(run, after)[1] = <<root>>
        /\ Len(Append(run, after)) = Len(Append(tokens, token)) + 1
    BY <1>1, <1>2, <1>3
  <2>2. 1..Len(Append(tokens, token)) = 1..(Len(tokens) + 1)
    BY <1>3
  <2> QED  BY <1>2, <1>4, <2>1, <2>2 DEF IsRun
<1> QED  BY <1>1, <1>2, <1>3, <1>5

LEMMA RunPrefix ==
  ASSUME NEW S, NEW root, NEW v, NEW tokens \in Seq(S), NEW run,
         IsRun(root, v, tokens, run), NEW k \in 0..Len(tokens)
  PROVE  /\ IsRun(root, v, SubSeq(tokens, 1, k), SubSeq(run, 1, k + 1))
         /\ Len(SubSeq(tokens, 1, k)) = k
         /\ \A j \in 1..(k + 1) : SubSeq(run, 1, k + 1)[j] = run[j]
<1>1. /\ run \in Seq(Seq(Fields)) /\ Len(run) = Len(tokens) + 1 /\ Len(tokens) \in Nat
      /\ run[1] = <<root>>
      /\ \A j \in 1..Len(tokens) : StepOf(v, run[j], tokens[j], run[j + 1])
  BY DEF IsRun
<1>2. /\ SubSeq(run, 1, k + 1) \in Seq(Seq(Fields)) /\ Len(SubSeq(run, 1, k + 1)) = k + 1
      /\ \A j \in 1..(k + 1) : SubSeq(run, 1, k + 1)[j] = run[j]
  BY <1>1
<1>3. /\ Len(SubSeq(tokens, 1, k)) = k
      /\ \A j \in 1..k : SubSeq(tokens, 1, k)[j] = tokens[j]
  BY <1>1
<1>4. ASSUME NEW j \in 1..k
      PROVE  StepOf(v, SubSeq(run, 1, k + 1)[j], SubSeq(tokens, 1, k)[j],
                    SubSeq(run, 1, k + 1)[j + 1])
  <2>1. j \in 1..Len(tokens) /\ j \in 1..(k + 1) /\ j + 1 \in 1..(k + 1)
    BY <1>1
  <2> QED  BY <1>1, <1>2, <1>3, <2>1
<1>5. SubSeq(run, 1, k + 1)[1] = <<root>>
  BY <1>1, <1>2
<1>6. IsRun(root, v, SubSeq(tokens, 1, k), SubSeq(run, 1, k + 1))
  BY <1>2, <1>3, <1>4, <1>5 DEF IsRun
<1> QED  BY <1>2, <1>3, <1>6

LEMMA RunOfMore ==
  ASSUME NEW root, NEW v, NEW tokens, NEW run, IsRun(root, v, tokens, run),
         NEW w, \A p \in DOMAIN v : p \in DOMAIN w /\ w[p] = v[p]
  PROVE  IsRun(root, w, tokens, run)
  BY DEF IsRun, StepOf

-----------------------------------------------------------------------------
(* Walks through a tree that is there.                                     *)

IsValue(t, v) ==
  /\ t \in DOMAIN Types
  /\ \A p \in DOMAIN v : p \in Seq(Nat)
  /\ IsTree(Types[t], v)

\* What is to do is in v, with its schema.
Fits(v, fields) ==
  \A k \in DOMAIN fields :
    fields[k].path \in DOMAIN v /\ v[fields[k].path].schema = fields[k].schema

LEMMA FitsOn ==
  ASSUME NEW t, NEW v, IsValue(t, v),
         NEW fields \in Seq(Fields), fields # <<>>, Fits(v, fields)
  PROVE  LET n == v[fields[1].path]
         IN  /\ fields[1].path \in DOMAIN v /\ n.schema = fields[1].schema
             /\ IsNode(n)
             /\ After(fields, n) \in Seq(Fields) /\ Fits(v, After(fields, n))
<1> DEFINE p == fields[1].path
           n == v[p]
<1>1. /\ fields[1] \in Fields /\ 1 \in DOMAIN fields
      /\ p \in Seq(Nat) /\ fields[1].schema \in Schemas
  <2>1. fields[1] \in Fields /\ 1 \in DOMAIN fields
    OBVIOUS
  <2>2. \A f \in Fields : f.path \in Seq(Nat) /\ f.schema \in Schemas
    BY DEF Fields
  <2> QED  BY <2>1, <2>2
<1>2. p \in DOMAIN v /\ n.schema = fields[1].schema
  BY <1>1 DEF Fits
<1>3. IsNode(n) /\ n.schema \in Schemas /\ n.data \in DataOf(n.schema)
  <2>1. n = Node(n.schema, n.data) /\ n.data \in DataOf(n.schema)
    BY <1>2 DEF IsValue, IsTree
  <2> QED  BY <1>1, <1>2, <2>1 DEF IsNode
<1>4. PICK c : c = After(fields, n)
  OBVIOUS
<1>5. /\ c \in Seq(Fields)
      /\ \A k \in DOMAIN c :
           \/ k \in 1..Arity(n) /\ c[k] = Field(Append(p, k), PartSchema(n.schema, k))
           \/ \E m \in DOMAIN fields : c[k] = fields[m]
  BY <1>3, <1>4, AfterTyped
<1>6. ASSUME NEW k \in DOMAIN c
      PROVE  c[k].path \in DOMAIN v /\ v[c[k].path].schema = c[k].schema
  <2>1. CASE k \in 1..Arity(n) /\ c[k] = Field(Append(p, k), PartSchema(n.schema, k))
    <3>1. Append(p, k) \in DOMAIN v /\ v[Append(p, k)].schema = PartSchema(n.schema, k)
      BY <1>2, <2>1 DEF IsValue, IsTree
    <3> QED  BY <2>1, <3>1 DEF Field
  <2>2. CASE \E m \in DOMAIN fields : c[k] = fields[m]
    BY <2>2 DEF Fits
  <2> QED  BY <1>5, <2>1, <2>2
<1> QED  BY <1>2, <1>3, <1>4, <1>5, <1>6 DEF Fits

\* Every node of v has been visited, or is to be.
Covers(v, visited, fields) ==
  \A q \in DOMAIN v :
    q \in visited \/ \E k \in DOMAIN fields : Below(fields[k].path, q)

LEMMA CoversOn ==
  ASSUME NEW t, NEW v, IsValue(t, v), NEW visited,
         NEW fields \in Seq(Fields), fields # <<>>, Fits(v, fields),
         Covers(v, visited, fields)
  PROVE  Covers(v, visited \cup {fields[1].path}, After(fields, v[fields[1].path]))
<1> DEFINE p == fields[1].path
           n == v[p]
<1>1. p \in DOMAIN v /\ p \in Seq(Nat) /\ IsNode(n)
  BY FitsOn DEF IsValue
<1>2. PICK c : c = After(fields, n)
  OBVIOUS
<1>3. /\ \A i \in 1..Arity(n) : \E k \in DOMAIN c :
           c[k] = Field(Append(p, i), PartSchema(n.schema, i))
      /\ \A m \in DOMAIN fields : m # 1 => \E k \in DOMAIN c : c[k] = fields[m]
  BY <1>1, <1>2, AfterTyped DEF IsNode
<1>4. ASSUME NEW q \in DOMAIN v, q \notin visited, q # p
      PROVE  \E k \in DOMAIN c : Below(c[k].path, q)
  <2>1. PICK m \in DOMAIN fields : Below(fields[m].path, q)
    BY <1>4 DEF Covers
  <2>2. CASE m # 1
    BY <1>3, <2>1, <2>2
  <2>3. CASE m = 1
    <3>1. q \in Seq(Nat) /\ Len(p) \in Nat /\ Len(q) \in Nat /\ Len(p) <= Len(q)
          /\ \A i \in 1..Len(p) : p[i] = q[i]
      BY <1>1, <2>1, <2>3 DEF IsValue, Below
    <3>2. Len(p) # Len(q)
      BY <1>1, <1>4, <3>1, SeqEqual
    <3>3. SubSeq(q, 1, Len(p)) = p
      BY <1>1, <3>1
    <3>4. Len(p) + 1 \in 1..Len(q) /\ (Len(p) + 1) - 1 = Len(p)
      BY <3>1, <3>2
    <3>5. q[Len(p) + 1] \in 1..Arity(n)
      <4>1. \A j \in 1..Len(q) : q[j] \in 1..Arity(v[SubSeq(q, 1, j - 1)])
        BY DEF IsValue, IsTree
      <4> QED  BY <3>3, <3>4, <4>1
    <3>6. PICK k \in DOMAIN c : c[k] = Field(Append(p, q[Len(p) + 1]),
                                             PartSchema(n.schema, q[Len(p) + 1]))
      BY <1>3, <3>5
    <3>7. Below(Append(p, q[Len(p) + 1]), q)
      <4>1. PICK i : i = q[Len(p) + 1]
        OBVIOUS
      <4>2. /\ Len(Append(p, i)) = Len(p) + 1 /\ Append(p, i)[Len(p) + 1] = i
            /\ \A j \in 1..Len(p) : Append(p, i)[j] = p[j]
        BY <1>1
      <4>3. \A j \in 1..(Len(p) + 1) : Append(p, i)[j] = q[j]
        BY <3>1, <4>1, <4>2
      <4> QED  BY <3>4, <4>1, <4>2, <4>3 DEF Below
    <3>8. c[k].path = Append(p, q[Len(p) + 1])
      BY <3>6 DEF Field
    <3> QED  BY <3>7, <3>8
  <2> QED  BY <2>2, <2>3
<1> QED  BY <1>2, <1>4 DEF Covers

-----------------------------------------------------------------------------
(* Walks that build the tree.                                              *)

\* No field to do is part of another, nor has anything at or below it been done.
Apart(done, fields) ==
  /\ \A j, k \in DOMAIN fields : Below(fields[j].path, fields[k].path) => j = k
  /\ \A k \in DOMAIN fields : \A q \in done : ~Below(fields[k].path, q)

LEMMA ApartOn ==
  ASSUME NEW done, done \subseteq Seq(Nat),
         NEW fields \in Seq(Fields), fields # <<>>, Apart(done, fields),
         NEW n, n.schema \in Schemas, n.data \in DataOf(n.schema)
  PROVE  /\ fields[1].path \notin done
         /\ Apart(done \cup {fields[1].path}, After(fields, n))
<1> DEFINE p == fields[1].path
<1>1. /\ 1 \in DOMAIN fields /\ p \in Seq(Nat)
      /\ \A m \in DOMAIN fields : fields[m].path \in Seq(Nat)
  <2>1. 1 \in DOMAIN fields /\ \A m \in DOMAIN fields : fields[m] \in Fields
    OBVIOUS
  <2>2. \A f \in Fields : f.path \in Seq(Nat)
    BY DEF Fields
  <2> QED  BY <2>1, <2>2
<1>2. Arity(n) \in Nat
  BY PartsTyped
<1>3. PICK c : c = After(fields, n)
  OBVIOUS
<1>4. \A k \in DOMAIN c :
        \/ k \in 1..Arity(n) /\ c[k].path = Append(p, k)
        \/ \E m \in DOMAIN fields :
             m # 1 /\ k = Arity(n) + m - 1 /\ c[k].path = fields[m].path
  <2>1. \A k \in DOMAIN c :
          \/ k \in 1..Arity(n) /\ c[k] = Field(Append(p, k), PartSchema(n.schema, k))
          \/ \E m \in DOMAIN fields : m # 1 /\ k = Arity(n) + m - 1 /\ c[k] = fields[m]
    BY <1>3, AfterTyped
  <2> QED  BY <2>1 DEF Field
<1>5. /\ \A j, k \in DOMAIN fields : Below(fields[j].path, fields[k].path) => j = k
      /\ \A k \in DOMAIN fields : \A q \in done : ~Below(fields[k].path, q)
  BY DEF Apart
<1>6. /\ Below(p, p)
      /\ \A i \in Nat :
           /\ ~Below(Append(p, i), p)
           /\ \A j \in Nat : Below(Append(p, i), Append(p, j)) => i = j
           /\ \A q \in Seq(Nat) : Below(Append(p, i), q) => Below(p, q)
           /\ \A q \in Seq(Nat) : Below(q, Append(p, i)) => Below(q, p) \/ Below(p, q)
  BY <1>1, PartsAreBelow
<1>7. p \notin done
  BY <1>1, <1>5, <1>6
<1>8. ASSUME NEW j \in DOMAIN c, NEW k \in DOMAIN c, Below(c[j].path, c[k].path)
      PROVE  j = k
  <2>1. CASE j \in 1..Arity(n) /\ c[j].path = Append(p, j)
    <3>1. CASE k \in 1..Arity(n) /\ c[k].path = Append(p, k)
      BY <1>2, <1>6, <1>8, <2>1, <3>1
    <3>2. CASE \E m \in DOMAIN fields : m # 1 /\ c[k].path = fields[m].path
      BY <1>1, <1>2, <1>5, <1>6, <1>8, <2>1, <3>2
    <3> QED  BY <1>4, <3>1, <3>2
  <2>2. CASE \E m \in DOMAIN fields :
               m # 1 /\ j = Arity(n) + m - 1 /\ c[j].path = fields[m].path
    <3>1. PICK m \in DOMAIN fields :
            m # 1 /\ j = Arity(n) + m - 1 /\ c[j].path = fields[m].path
      BY <2>2
    <3>2. CASE k \in 1..Arity(n) /\ c[k].path = Append(p, k)
      <4>1. Below(fields[m].path, p) \/ Below(p, fields[m].path)
        BY <1>1, <1>2, <1>6, <1>8, <3>1, <3>2
      <4> QED  BY <1>1, <1>5, <3>1, <4>1
    <3>3. CASE \E l \in DOMAIN fields : k = Arity(n) + l - 1 /\ c[k].path = fields[l].path
      BY <1>5, <1>8, <3>1, <3>3
    <3> QED  BY <1>4, <3>2, <3>3
  <2> QED  BY <1>4, <2>1, <2>2
<1>9. ASSUME NEW k \in DOMAIN c, NEW q \in done \cup {p}, Below(c[k].path, q)
      PROVE  FALSE
  <2>1. CASE k \in 1..Arity(n) /\ c[k].path = Append(p, k)
    <3>1. q # p /\ q \in done /\ q \in Seq(Nat)
      BY <1>2, <1>6, <1>9, <2>1
    <3> QED  BY <1>1, <1>2, <1>5, <1>6, <1>9, <2>1, <3>1
  <2>2. CASE \E m \in DOMAIN fields : m # 1 /\ c[k].path = fields[m].path
    BY <1>1, <1>5, <1>9, <2>2
  <2> QED  BY <1>4, <2>1, <2>2
<1> QED  BY <1>3, <1>7, <1>8, <1>9 DEF Apart

\* p is there, or to be read, with the schema.
Comes(v, fields, p, schema) ==
  \/ p \in DOMAIN v /\ v[p].schema = schema
  \/ \E k \in DOMAIN fields : fields[k] = Field(p, schema)

\* What is above p is there, and has p as a part.
Hangs(v, p) ==
  \A m \in 1..Len(p) :
    /\ SubSeq(p, 1, m - 1) \in DOMAIN v
    /\ p[m] \in 1..Arity(v[SubSeq(p, 1, m - 1)])

\* A tree of the schema, but for the fields to come.
Grows(schema, v, fields) ==
  /\ DOMAIN v \subseteq Seq(Nat) /\ v = [p \in DOMAIN v |-> v[p]]
  /\ \A p \in DOMAIN v : IsNode(v[p]) /\ Hangs(v, p)
  /\ \A k \in DOMAIN fields : Hangs(v, fields[k].path)
  /\ Comes(v, fields, <<>>, schema)
  /\ \A p \in DOMAIN v : \A i \in 1..Arity(v[p]) :
       Comes(v, fields, Append(p, i), PartSchema(v[p].schema, i))

\* w is v and the node n at p.
Extends(w, v, p, n) ==
  /\ DOMAIN w = DOMAIN v \cup {p} /\ w[p] = n
  /\ \A q \in DOMAIN v : q \in DOMAIN w /\ w[q] = v[q]
  /\ w = [q \in DOMAIN w |-> w[q]]

LEMMA WithMore ==
  ASSUME NEW v, NEW p, NEW n, p \notin DOMAIN v
  PROVE  Extends(With(v, p, n), v, p, n)
  BY DEF With, Extends

LEMMA Grown ==
  ASSUME NEW schema, NEW v, Grows(schema, v, <<>>)
  PROVE  IsTree(schema, v)
<1>1. /\ v = [p \in DOMAIN v |-> v[p]]
      /\ \A p \in DOMAIN v : IsNode(v[p]) /\ Hangs(v, p)
      /\ Comes(v, <<>>, <<>>, schema)
      /\ \A p \in DOMAIN v : \A i \in 1..Arity(v[p]) :
           Comes(v, <<>>, Append(p, i), PartSchema(v[p].schema, i))
  BY DEF Grows
<1>2. \A p, s : Comes(v, <<>>, p, s) => p \in DOMAIN v /\ v[p].schema = s
  BY DEF Comes
<1>3. v = [p \in DOMAIN v |-> Node(v[p].schema, v[p].data)]
  BY <1>1 DEF IsNode
<1>4. <<>> \in DOMAIN v /\ v[<<>>].schema = schema
  BY <1>1, <1>2
<1>5. ASSUME NEW p \in DOMAIN v
      PROVE  /\ v[p].data \in DataOf(v[p].schema)
             /\ \A i \in 1..Arity(v[p]) :
                  /\ Append(p, i) \in DOMAIN v
                  /\ v[Append(p, i)].schema = PartSchema(v[p].schema, i)
             /\ \A m \in 1..Len(p) :
                  /\ SubSeq(p, 1, m - 1) \in DOMAIN v
                  /\ p[m] \in 1..Arity(v[SubSeq(p, 1, m - 1)])
  BY <1>1, <1>2 DEF IsNode, Hangs
<1> QED  BY <1>3, <1>4, <1>5 DEF IsTree

LEMMA GrowsOn ==
  ASSUME NEW schema, NEW v, NEW fields \in Seq(Fields), fields # <<>>,
         Grows(schema, v, fields), fields[1].path \notin DOMAIN v,
         NEW n, IsNode(n), n.schema = fields[1].schema
  PROVE  Grows(schema, With(v, fields[1].path, n), After(fields, n))
<1> DEFINE p == fields[1].path
<1>1. /\ 1 \in DOMAIN fields /\ fields[1] = Field(p, n.schema) /\ p \in Seq(Nat)
      /\ n.schema \in Schemas /\ n.data \in DataOf(n.schema)
  <2>1. 1 \in DOMAIN fields /\ fields[1] \in Fields
    OBVIOUS
  <2>2. fields[1] = Field(p, n.schema) /\ p \in Seq(Nat)
    BY <2>1 DEF Fields, Field
  <2> QED  BY <2>1, <2>2 DEF IsNode
<1>2. PICK c : c = After(fields, n)
  OBVIOUS
<1>3. PICK w : w = With(v, p, n)
  OBVIOUS
<1>4. /\ \A i \in 1..Arity(n) : \E k \in DOMAIN c :
           c[k] = Field(Append(p, i), PartSchema(n.schema, i))
      /\ \A m \in DOMAIN fields : m # 1 => \E k \in DOMAIN c : c[k] = fields[m]
      /\ \A k \in DOMAIN c :
           \/ k \in 1..Arity(n) /\ c[k] = Field(Append(p, k), PartSchema(n.schema, k))
           \/ \E m \in DOMAIN fields : c[k] = fields[m]
  BY <1>1, <1>2, AfterTyped
<1>5. /\ DOMAIN w = DOMAIN v \cup {p} /\ w[p] = n
      /\ \A q \in DOMAIN v : q \in DOMAIN w /\ w[q] = v[q]
      /\ w = [q \in DOMAIN w |-> w[q]]
  <2>1. Extends(w, v, p, n)
    BY <1>3, WithMore
  <2> QED  BY <2>1 DEF Extends
<1>6. /\ DOMAIN v \subseteq Seq(Nat)
      /\ \A q \in DOMAIN v : IsNode(v[q]) /\ Hangs(v, q)
      /\ \A k \in DOMAIN fields : Hangs(v, fields[k].path)
      /\ Comes(v, fields, <<>>, schema)
      /\ \A q \in DOMAIN v : \A i \in 1..Arity(v[q]) :
           Comes(v, fields, Append(q, i), PartSchema(v[q].schema, i))
  BY DEF Grows
<1>7. \A q : Hangs(v, q) => Hangs(w, q)
  BY <1>5 DEF Hangs
<1>8. \A q, s : Comes(v, fields, q, s) => Comes(w, c, q, s)
  <2> SUFFICES ASSUME NEW q, NEW s, Comes(v, fields, q, s)
               PROVE  Comes(w, c, q, s)
    OBVIOUS
  <2>1. CASE q \in DOMAIN v /\ v[q].schema = s
    BY <1>5, <2>1 DEF Comes
  <2>2. CASE \E k \in DOMAIN fields : fields[k] = Field(q, s)
    <3>1. PICK k \in DOMAIN fields : fields[k] = Field(q, s)
      BY <2>2
    <3>2. CASE k = 1
      <4>1. q = p /\ s = n.schema
        BY <1>1, <3>1, <3>2 DEF Field
      <4> QED  BY <1>5, <4>1 DEF Comes
    <3>3. CASE k # 1
      BY <1>4, <3>1, <3>3 DEF Comes
    <3> QED  BY <3>2, <3>3
  <2> QED  BY <2>1, <2>2 DEF Comes
<1>9. Hangs(v, p)
  BY <1>1, <1>6
<1>10. ASSUME NEW i \in 1..Arity(n)
       PROVE  Hangs(w, Append(p, i)) /\ Comes(w, c, Append(p, i), PartSchema(n.schema, i))
  <2>1. Len(p) \in Nat /\ Len(Append(p, i)) = Len(p) + 1
    BY <1>1
  <2>2. ASSUME NEW m \in 1..(Len(p) + 1)
        PROVE  /\ SubSeq(Append(p, i), 1, m - 1) \in DOMAIN w
               /\ Append(p, i)[m] \in 1..Arity(w[SubSeq(Append(p, i), 1, m - 1)])
    <3>1. CASE m \in 1..Len(p)
      <4>1. /\ SubSeq(Append(p, i), 1, m - 1) = SubSeq(p, 1, m - 1)
            /\ Append(p, i)[m] = p[m]
        BY <1>1, <2>1, <3>1
      <4> QED  BY <1>7, <1>9, <3>1, <4>1 DEF Hangs
    <3>2. CASE m = Len(p) + 1
      <4>1. SubSeq(Append(p, i), 1, m - 1) = p /\ Append(p, i)[m] = i
        BY <1>1, <2>1, <3>2
      <4> QED  BY <1>5, <4>1
    <3> QED  BY <2>1, <3>1, <3>2
  <2>3. Hangs(w, Append(p, i))
    BY <2>1, <2>2 DEF Hangs
  <2> QED  BY <1>4, <2>3 DEF Comes
<1>11. ASSUME NEW q \in DOMAIN w
       PROVE  /\ IsNode(w[q]) /\ Hangs(w, q)
              /\ \A i \in 1..Arity(w[q]) :
                   Comes(w, c, Append(q, i), PartSchema(w[q].schema, i))
  <2>1. CASE q \in DOMAIN v
    BY <1>5, <1>6, <1>7, <1>8, <2>1
  <2>2. CASE q = p
    BY <1>5, <1>7, <1>9, <1>10, <2>2
  <2> QED  BY <1>5, <2>1, <2>2
<1>12. ASSUME NEW k \in DOMAIN c
       PROVE  Hangs(w, c[k].path)
  <2>1. CASE k \in 1..Arity(n) /\ c[k] = Field(Append(p, k), PartSchema(n.schema, k))
    <3>1. c[k].path = Append(p, k)
      BY <2>1 DEF Field
    <3> QED  BY <1>10, <2>1, <3>1
  <2>2. CASE \E m \in DOMAIN fields : c[k] = fields[m]
    BY <1>6, <1>7, <2>2
  <2> QED  BY <1>4, <2>1, <2>2
<1>13. DOMAIN w \subseteq Seq(Nat) /\ Comes(w, c, <<>>, schema)
  BY <1>1, <1>5, <1>6, <1>8
<1> QED  BY <1>2, <1>3, <1>5, <1>11, <1>12, <1>13 DEF Grows

-----------------------------------------------------------------------------
(* The invariant.                                                          *)

TypeInv ==
  /\ at \in {"begin", "writing", "reading", "refused", "copying", "copied"}
  /\ whole \in BOOLEAN /\ own \in BOOLEAN /\ strays \in 0..MaxStrays
  /\ wire \in Seq(Tokens) /\ taken \in 0..Len(wire)
  /\ todo \in Seq(Fields) /\ copy \in Seq(Tokens)
  /\ at # "begin" => IsValue(sent[1], sent[2])

\* Nothing is read before all is written.
NotYetRead ==
  /\ at = "begin" => wire = <<>>
  /\ at \in {"begin", "writing"} =>
       ~whole /\ taken = 0 /\ got = <<>> /\ copy = <<>> /\ strays = 0

NotYetCopied == at = "reading" => copy = <<>>

\* The writer walks the value sent.
WrittenRun(run) ==
  /\ IsRun(Root, sent[2], wire, run)
  /\ \A j \in 1..(Len(wire) + 1) : Fits(sent[2], run[j])

WriterWalks == at = "writing" => \E run : WrittenRun(run) /\ todo = run[Len(wire) + 1]

\* The reader of the writer's tokens follows it, and reads what was written.
ReaderFollows ==
  (own /\ at = "reading") =>
    /\ \E run : /\ WrittenRun(run) /\ todo = run[taken + 1]
                /\ whole <=> run[Len(wire) + 1] = <<>>
    /\ \A p \in DOMAIN got :
         p \in DOMAIN sent[2] /\ got[p] = sent[2][p] /\ ~NilElement(got[p])
    /\ Covers(sent[2], DOMAIN got, todo)

RefusesNil == (own /\ whole /\ at = "refused") => HasNilElement(sent[2])

ReadsAll ==
  (own /\ at \in {"copying", "copied"}) =>
    whole /\ taken = Len(wire) /\ got = sent[2] /\ ~HasNilElement(sent[2])

\* The reader of any tokens builds a tree: a walk through it gives the tokens again.
ReaderBuilds ==
  at = "reading" =>
    /\ Apart(DOMAIN got, todo) /\ Grows(Root.schema, got, todo)
    /\ \E run : IsRun(Root, got, SubSeq(wire, 1, taken), run) /\ todo = run[taken + 1]

\* The copier takes it.
CopierFollows ==
  /\ at \in {"copying", "copied"} => IsTree(Root.schema, got)
  /\ at = "copying" =>
       /\ Len(copy) <= taken /\ copy = SubSeq(wire, 1, Len(copy))
       /\ \E run : /\ IsRun(Root, got, SubSeq(wire, 1, taken), run)
                   /\ run[taken + 1] = <<>> /\ todo = run[Len(copy) + 1]
  /\ at = "copied" => copy = SubSeq(wire, 1, taken)

IInv ==
  /\ TypeInv /\ NotYetRead /\ NotYetCopied /\ WriterWalks /\ ReaderFollows
  /\ RefusesNil /\ ReadsAll /\ ReaderBuilds /\ CopierFollows

-----------------------------------------------------------------------------
(* Every action keeps it.                                                  *)

LEMMA RootIsField ==
  ASSUME NEW t \in DOMAIN Types
  PROVE  /\ Field(<<>>, Types[t]) \in Fields
         /\ <<Field(<<>>, Types[t])>> \in Seq(Fields)
         /\ Field(<<>>, Types[t]).path = <<>>
         /\ Field(<<>>, Types[t]).schema = Types[t]
<1>1. Types[t] \in Schemas /\ <<>> \in Seq(Nat)
  BY SchemasClosed
<1> QED  BY <1>1 DEF Field, Fields

LEMMA RootFits ==
  ASSUME NEW t, NEW v, IsValue(t, v)
  PROVE  Fits(v, <<Field(<<>>, Types[t])>>)
<1>1. <<>> \in DOMAIN v /\ v[<<>>].schema = Types[t]
  BY DEF IsValue, IsTree
<1> QED  BY <1>1 DEF Fits, Field

\* A run that has something to do has not come to its end.
LEMMA RunEnds ==
  ASSUME NEW S, NEW root, NEW v, NEW tokens \in Seq(S), NEW run,
         IsRun(root, v, tokens, run), NEW k \in 0..Len(tokens)
  PROVE  /\ run[k + 1] \in Seq(Fields)
         /\ k < Len(tokens) => /\ run[k + 1] # <<>>
                               /\ StepOf(v, run[k + 1], tokens[k + 1], run[k + 2])
<1>1. /\ run \in Seq(Seq(Fields)) /\ Len(run) = Len(tokens) + 1 /\ Len(tokens) \in Nat
      /\ \A j \in 1..Len(tokens) : StepOf(v, run[j], tokens[j], run[j + 1])
  BY DEF IsRun
<1>2. run[k + 1] \in Seq(Fields)
  BY <1>1
<1>3. ASSUME k < Len(tokens)
      PROVE  StepOf(v, run[k + 1], tokens[k + 1], run[k + 2])
  <2>1. k + 1 \in 1..Len(tokens) /\ (k + 1) + 1 = k + 2
    BY <1>1, <1>3
  <2> QED  BY <1>1, <2>1
<1> QED  BY <1>2, <1>3 DEF StepOf

\* The steps of the copier are those of the reader.
LEMMA CopierSteps ==
  ASSUME wire \in Seq(Tokens), taken \in 0..Len(wire),
         NEW run, IsRun(Root, got, SubSeq(wire, 1, taken), run),
         NEW k \in Nat, k < taken
  PROVE  StepOf(got, run[k + 1], wire[k + 1], run[k + 2])
<1>1. /\ SubSeq(wire, 1, taken) \in Seq(Tokens) /\ Len(SubSeq(wire, 1, taken)) = taken
      /\ SubSeq(wire, 1, taken)[k + 1] = wire[k + 1] /\ k \in 0..taken
  OBVIOUS
<1> QED  BY <1>1, RunEnds

LEMMA BeginKeeps == IInv /\ Begin => IInv'
<1> SUFFICES ASSUME IInv, Begin
             PROVE  IInv'
  OBVIOUS
<1>1. IsValue(sent'[1], sent'[2])
  <2>1. sent' \in Values \cup Foreign
    BY DEF Begin
  <2> QED  BY <2>1, ValuesAssumption DEF IsValue
<1>2. /\ at' = "writing" /\ todo' = <<Root'>> /\ own' \in BOOLEAN
      /\ UNCHANGED <<whole, wire, taken, got, copy, strays>>
      /\ wire = <<>> /\ ~whole /\ taken = 0 /\ got = <<>> /\ copy = <<>> /\ strays = 0
  BY DEF Begin, IInv, NotYetRead
<1>3. Root' = Field(<<>>, Types[sent'[1]])
  BY DEF Root
<1>4. todo' \in Seq(Fields) /\ Root' \in Fields
  BY <1>1, <1>2, <1>3, RootIsField DEF IsValue
<1>5. TypeInv'
  BY <1>1, <1>2, <1>4 DEF IInv, TypeInv
<1>6. WriterWalks'
  <2>1. IsRun(Root', sent'[2], <<>>, <<todo'>>)
    BY <1>2, <1>4, RunStarts
  <2>2. Fits(sent'[2], todo')
    BY <1>1, <1>2, <1>3, RootFits
  <2>3. IsRun(Root', sent'[2], wire', <<todo'>>) /\ Len(wire') = 0
    BY <1>2, <2>1
  <2>4. \A j \in 1..(Len(wire') + 1) : Fits(sent'[2], <<todo'>>[j])
    BY <2>2, <2>3
  <2>5. todo' = <<todo'>>[Len(wire') + 1]
    BY <2>3
  <2> QED  BY <2>3, <2>4, <2>5 DEF WriterWalks, WrittenRun
<1> QED
  BY <1>2, <1>5, <1>6
     DEF IInv, NotYetRead, NotYetCopied, ReaderFollows, RefusesNil, ReadsAll,
         ReaderBuilds, CopierFollows

LEMMA MarshalCBORKeeps == IInv /\ MarshalCBOR => IInv'
<1> SUFFICES ASSUME IInv, MarshalCBOR
             PROVE  IInv'
  OBVIOUS
<1> DEFINE n == sent[2][todo[1].path]
<1>1. /\ at = "writing" /\ at' = "writing" /\ todo # <<>>
      /\ UNCHANGED <<sent, own, whole, taken, got, copy, strays>>
  BY DEF MarshalCBOR
<1>2. /\ todo \in Seq(Fields) /\ wire \in Seq(Tokens) /\ IsValue(sent[1], sent[2])
      /\ Head(todo) = todo[1]
  BY <1>1 DEF IInv, TypeInv
<1>3. Writable(n) /\ wire' = Append(wire, TokenOf(n)) /\ todo' = After(todo, n)
  BY <1>2 DEF MarshalCBOR, GoOn, After
<1>4. PICK run : WrittenRun(run) /\ todo = run[Len(wire) + 1]
  BY <1>1 DEF IInv, WriterWalks
<1>5. /\ IsRun(Root, sent[2], wire, run)
      /\ \A j \in 1..(Len(wire) + 1) : Fits(sent[2], run[j])
      /\ Len(wire) \in Nat /\ Len(run) = Len(wire) + 1
  BY <1>2, <1>4 DEF WrittenRun, IsRun
<1>6. Fits(sent[2], todo)
  BY <1>4, <1>5
<1>7. /\ todo[1].path \in DOMAIN sent[2] /\ IsNode(n)
      /\ After(todo, n) \in Seq(Fields) /\ Fits(sent[2], After(todo, n))
  BY <1>1, <1>2, <1>6, FitsOn
<1>8. /\ wire' \in Seq(Tokens) /\ todo' \in Seq(Fields) /\ Len(wire') = Len(wire) + 1
  BY <1>2, <1>3, <1>7, TokenTyped
<1>9. TypeInv'
  BY <1>1, <1>8 DEF IInv, TypeInv, NotYetRead
<1>10. StepOf(sent[2], todo, TokenOf(n), todo') /\ TokenOf(n) \in Tokens
  BY <1>1, <1>2, <1>3, <1>7, TokenTyped DEF StepOf
<1>11. /\ IsRun(Root, sent[2], wire', Append(run, todo'))
       /\ Append(run, todo')[Len(wire') + 1] = todo'
       /\ \A j \in 1..Len(run) : Append(run, todo')[j] = run[j]
  <2>1. RunTo(Root, sent[2], wire, run, todo)
    BY <1>2, <1>4, <1>5 DEF RunTo
  <2>2. /\ RunTo(Root, sent[2], Append(wire, TokenOf(n)), Append(run, todo'), todo')
        /\ \A j \in 1..Len(run) : Append(run, todo')[j] = run[j]
    BY <1>8, <1>10, <2>1, RunGoesOn
  <2> QED  BY <1>3, <2>2 DEF RunTo
<1>12. Root' = Root
  BY <1>1 DEF Root
<1>13. \A j \in 1..(Len(wire') + 1) : Fits(sent[2], Append(run, todo')[j])
  BY <1>3, <1>5, <1>7, <1>8, <1>11
<1>14. WriterWalks'
  BY <1>1, <1>11, <1>12, <1>13 DEF WriterWalks, WrittenRun
<1> QED
  BY <1>1, <1>9, <1>14
     DEF IInv, NotYetRead, NotYetCopied, ReaderFollows, RefusesNil, ReadsAll,
         ReaderBuilds, CopierFollows

LEMMA EndsWritingKeeps == IInv /\ EndsWriting => IInv'
<1> SUFFICES ASSUME IInv, EndsWriting
             PROVE  IInv'
  OBVIOUS
<1>1. /\ at = "writing" /\ at' = "reading" /\ whole' = (todo = <<>>) /\ todo' = <<Root>>
      /\ UNCHANGED <<sent, own, wire, taken, got, copy, strays>>
      /\ taken = 0 /\ got = <<>>
  BY DEF EndsWriting, IInv, NotYetRead
<1>2. /\ wire \in Seq(Tokens) /\ IsValue(sent[1], sent[2]) /\ sent[1] \in DOMAIN Types
  BY <1>1 DEF IInv, TypeInv, IsValue
<1>3. Root = Field(<<>>, Types[sent[1]]) /\ Root' = Root
  BY <1>1 DEF Root
<1>4. Root \in Fields /\ <<Root>> \in Seq(Fields) /\ Root.path = <<>>
  BY <1>2, <1>3, RootIsField
<1>5. TypeInv'
  BY <1>1, <1>4 DEF IInv, TypeInv
<1>6. ReaderFollows'
  <2>1. PICK run : WrittenRun(run) /\ todo = run[Len(wire) + 1]
    BY <1>1 DEF IInv, WriterWalks
  <2>2. WrittenRun(run)'
    BY <1>1, <1>3, <2>1 DEF WrittenRun
  <2>3. run[taken + 1] = <<Root>>
    BY <1>1, <2>1 DEF WrittenRun, IsRun
  <2>4. todo' = run[taken' + 1] /\ (whole' <=> run[Len(wire') + 1] = <<>>)
    BY <1>1, <2>1, <2>3
  <2>5. Covers(sent[2], {}, <<Root>>)
    <3>1. \A q \in DOMAIN sent[2] : Below(<<>>, q)
      BY <1>2 DEF IsValue, Below
    <3> QED  BY <1>4, <3>1 DEF Covers
  <2>6. DOMAIN got' = {}
    BY <1>1
  <2> QED  BY <1>1, <2>2, <2>4, <2>5, <2>6 DEF ReaderFollows
<1>7. ReaderBuilds'
  <2>1. DOMAIN got' = {} /\ got' = <<>>
    BY <1>1
  <2>2. Apart({}, <<Root>>)
    BY DEF Apart
  <2>3. Grows(Root.schema, <<>>, <<Root>>)
    <3>1. /\ DOMAIN <<>> = {}
          /\ <<>> = [p \in DOMAIN <<>> |-> <<>>[p]]
      OBVIOUS
    <3>2. Hangs(<<>>, Root.path)
      BY <1>4 DEF Hangs
    <3>3. Comes(<<>>, <<Root>>, <<>>, Root.schema)
      BY <1>3 DEF Comes, Field
    <3> QED  BY <3>1, <3>2, <3>3 DEF Grows
  <2>4. IsRun(Root, <<>>, <<>>, <<<<Root>>>>)
    BY <1>4, RunStarts
  <2>5. SubSeq(wire', 1, taken') = <<>>
    BY <1>1
  <2>6. /\ IsRun(Root', got', SubSeq(wire', 1, taken'), <<<<Root>>>>)
        /\ todo' = <<<<Root>>>>[taken' + 1]
    <3>1. taken' = 0 /\ todo' = <<Root>>
      BY <1>1
    <3>2. todo' = <<<<Root>>>>[taken' + 1]
      BY <3>1
    <3> QED  BY <1>3, <2>1, <2>4, <2>5, <3>2
  <2>7. \E run : /\ IsRun(Root', got', SubSeq(wire', 1, taken'), run)
                 /\ todo' = run[taken' + 1]
    BY <2>6
  <2>8. Apart(DOMAIN got', todo') /\ Grows(Root'.schema, got', todo')
    BY <1>1, <1>3, <2>1, <2>2, <2>3
  <2> QED  BY <2>7, <2>8 DEF ReaderBuilds
<1> QED
  BY <1>1, <1>5, <1>6, <1>7
     DEF IInv, NotYetRead, NotYetCopied, WriterWalks, RefusesNil, ReadsAll,
         CopierFollows

LEMMA CutKeeps == IInv /\ Cut => IInv'
<1> SUFFICES ASSUME IInv, Cut
             PROVE  IInv'
  OBVIOUS
<1>1. /\ at = "reading" /\ taken < Len(wire) /\ wire' = SubSeq(wire, 1, taken)
      /\ whole' = FALSE
      /\ UNCHANGED <<at, sent, own, todo, taken, got, copy, strays>>
  BY DEF Cut
<1>2. wire \in Seq(Tokens) /\ taken \in 0..Len(wire) /\ taken \in Nat
  BY DEF IInv, TypeInv
<1>3. Root' = Root
  BY <1>1 DEF Root
<1>4. /\ wire' \in Seq(Tokens) /\ Len(wire') = taken
      /\ SubSeq(wire', 1, taken') = SubSeq(wire, 1, taken)
  BY <1>1, <1>2
<1>5. TypeInv'
  <2>1. taken' \in 0..Len(wire')
    <3>1. taken' = taken
      BY <1>1
    <3> QED  BY <1>2, <1>4, <3>1
  <2> QED  BY <1>1, <1>4, <2>1 DEF IInv, TypeInv
<1>6. ReaderFollows'
  <2> SUFFICES ASSUME own
               PROVE  ReaderFollows'
    BY <1>1 DEF ReaderFollows
  <2>1. PICK run : WrittenRun(run) /\ todo = run[taken + 1]
    BY <1>1 DEF IInv, ReaderFollows
  <2>2. PICK cut : cut = SubSeq(run, 1, taken + 1)
    OBVIOUS
  <2>3. IsRun(Root, sent[2], wire, run) /\ \A j \in 1..(Len(wire) + 1) : Fits(sent[2], run[j])
    BY <2>1 DEF WrittenRun
  <2>4. /\ IsRun(Root, sent[2], wire', cut)
        /\ \A j \in 1..(taken + 1) : cut[j] = run[j]
    BY <1>1, <1>2, <2>2, <2>3, RunPrefix
  <2>5. \A j \in 1..(Len(wire') + 1) : Fits(sent[2], cut[j])
    BY <1>1, <1>2, <1>4, <2>3, <2>4
  <2>6. run[taken + 1] # <<>>
    BY <1>1, <1>2, <2>3, RunEnds
  <2>7. todo = cut[taken + 1] /\ cut[Len(wire') + 1] # <<>>
    BY <1>2, <1>4, <2>1, <2>4, <2>6
  <2>8. WrittenRun(cut)'
    BY <1>1, <1>3, <2>4, <2>5 DEF WrittenRun
  <2>9. /\ \A p \in DOMAIN got :
             p \in DOMAIN sent[2] /\ got[p] = sent[2][p] /\ ~NilElement(got[p])
        /\ Covers(sent[2], DOMAIN got, todo)
    BY <1>1 DEF IInv, ReaderFollows
  <2> QED  BY <1>1, <2>7, <2>8, <2>9 DEF ReaderFollows
<1>7. ReaderBuilds'
  BY <1>1, <1>3, <1>4 DEF IInv, ReaderBuilds
<1> QED
  BY <1>1, <1>5, <1>6, <1>7
     DEF IInv, NotYetRead, NotYetCopied, WriterWalks, RefusesNil, ReadsAll,
         CopierFollows

LEMMA StrayKeeps == IInv /\ Stray => IInv'
<1> SUFFICES ASSUME IInv, Stray
             PROVE  IInv'
  OBVIOUS
<1>1. /\ at = "reading" /\ ~own /\ strays < MaxStrays /\ strays' = strays + 1
      /\ UNCHANGED <<at, sent, own, todo, whole, taken, got, copy>>
  BY DEF Stray
<1>2. /\ wire \in Seq(Tokens) /\ taken \in 0..Len(wire) /\ Len(wire) \in Nat
      /\ strays \in 0..MaxStrays /\ MaxStrays \in Nat
  BY BoundsAssumption DEF IInv, TypeInv
<1>3. PICK t \in Strays :
        wire' = IF taken < Len(wire) THEN [wire EXCEPT ![taken + 1] = t]
                ELSE Append(wire, t)
  BY DEF Stray
<1>4. t \in Tokens
  BY StraysAssumption, BoundsAssumption DEF Tokens
<1>5. /\ wire' \in Seq(Tokens) /\ taken \in 0..Len(wire')
      /\ \A j \in 1..taken : wire'[j] = wire[j]
  <2>1. CASE taken < Len(wire)
    <3>1. wire' = [wire EXCEPT ![taken + 1] = t]
      BY <1>3, <2>1
    <3> QED  BY <1>2, <1>4, <2>1, <3>1
  <2>2. CASE ~(taken < Len(wire))
    <3>1. wire' = Append(wire, t)
      BY <1>3, <2>2
    <3> QED  BY <1>2, <1>4, <3>1
  <2> QED  BY <2>1, <2>2
<1>6. SubSeq(wire', 1, taken) = SubSeq(wire, 1, taken)
  <2>1. /\ SubSeq(wire, 1, taken) \in Seq(Tokens)
        /\ SubSeq(wire', 1, taken) \in Seq(Tokens)
        /\ Len(SubSeq(wire, 1, taken)) = taken /\ Len(SubSeq(wire', 1, taken)) = taken
        /\ \A j \in 1..taken : SubSeq(wire, 1, taken)[j] = SubSeq(wire', 1, taken)[j]
    BY <1>2, <1>5
  <2> QED  BY <2>1, SeqEqual
<1>7. Root' = Root
  BY <1>1 DEF Root
<1>8. TypeInv'
  BY <1>1, <1>2, <1>5 DEF IInv, TypeInv
<1>9. ReaderBuilds'
  BY <1>1, <1>6, <1>7 DEF IInv, ReaderBuilds
<1> QED
  BY <1>1, <1>8, <1>9
     DEF IInv, NotYetRead, NotYetCopied, WriterWalks, ReaderFollows, RefusesNil,
         ReadsAll, CopierFollows

\* Only a token is accepted, and it is the one that is written of what is read.
LEMMA AcceptedNext ==
  ASSUME IInv, UnmarshalCBOR
  PROVE  LET n == Node(todo[1].schema, DataIn(todo[1].schema, wire[taken + 1]))
         IN  /\ at = "reading" /\ todo # <<>> /\ todo \in Seq(Fields) /\ Head(todo) = todo[1]
             /\ todo[1].schema \in Schemas
             /\ taken \in 0..Len(wire) /\ taken < Len(wire) /\ wire \in Seq(Tokens)
             /\ IsNode(n) /\ Writable(n) /\ TokenOf(n) = wire[taken + 1]
             /\ n.schema = todo[1].schema
             /\ got' = With(got, todo[1].path, n) /\ todo' = After(todo, n)
<1> DEFINE s == todo[1].schema
<1>1. /\ at = "reading" /\ todo # <<>> /\ Accepts(Head(todo).schema, NextToken)
  BY DEF UnmarshalCBOR
<1>2. /\ todo \in Seq(Fields) /\ wire \in Seq(Tokens) /\ taken \in 0..Len(wire)
      /\ Len(wire) \in Nat
  BY DEF IInv, TypeInv
<1>3. Head(todo) = todo[1] /\ todo[1] \in Fields
  BY <1>1, <1>2
<1>4. s \in Schemas
  BY <1>3 DEF Fields
<1>5. taken < Len(wire) /\ NextToken = wire[taken + 1]
  BY <1>1, <1>3, <1>4, EndIsRefused DEF NextToken
<1>6. wire[taken + 1] \in Tokens
  BY <1>2, <1>5
<1>7. Accepts(s, wire[taken + 1])
  BY <1>1, <1>3, <1>5
<1>8. LET n == Node(s, DataIn(s, wire[taken + 1]))
      IN  IsNode(n) /\ Writable(n) /\ TokenOf(n) = wire[taken + 1]
  BY <1>4, <1>6, <1>7, AcceptedIsWritten
<1>9. LET n == Node(s, DataIn(s, wire[taken + 1]))
      IN  got' = With(got, todo[1].path, n) /\ todo' = After(todo, n)
  BY <1>3, <1>5 DEF UnmarshalCBOR, GoOn, After
<1>10. Node(s, DataIn(s, wire[taken + 1])).schema = s
  BY DEF Node
<1> QED  BY <1>1, <1>2, <1>3, <1>4, <1>5, <1>8, <1>9, <1>10

LEMMA UnmarshalCBORKeeps == IInv /\ UnmarshalCBOR => IInv'
<1> SUFFICES ASSUME IInv, UnmarshalCBOR
             PROVE  IInv'
  OBVIOUS
<1> DEFINE p == todo[1].path
<1>1. PICK n : n = Node(todo[1].schema, DataIn(todo[1].schema, wire[taken + 1]))
  OBVIOUS
<1>2. /\ at = "reading" /\ todo # <<>> /\ todo \in Seq(Fields) /\ Head(todo) = todo[1]
      /\ todo[1].schema \in Schemas
      /\ taken \in 0..Len(wire) /\ taken < Len(wire) /\ wire \in Seq(Tokens)
      /\ IsNode(n) /\ Writable(n) /\ TokenOf(n) = wire[taken + 1]
      /\ n.schema = todo[1].schema
      /\ got' = With(got, p, n) /\ todo' = After(todo, n)
  BY <1>1, AcceptedNext
<1>3. /\ at' = "reading" /\ taken' = taken + 1
      /\ UNCHANGED <<sent, own, whole, wire, copy, strays>>
  BY <1>2 DEF UnmarshalCBOR
<1>4. Root' = Root
  BY <1>3 DEF Root
<1>5. /\ Apart(DOMAIN got, todo) /\ Grows(Root.schema, got, todo)
      /\ DOMAIN got \subseteq Seq(Nat)
  BY <1>2 DEF IInv, ReaderBuilds, Grows
<1>6. n.schema \in Schemas /\ n.data \in DataOf(n.schema)
  BY <1>2 DEF IsNode
<1>7. p \notin DOMAIN got /\ Apart(DOMAIN got \cup {p}, After(todo, n))
  BY <1>2, <1>5, <1>6, ApartOn
<1>8. /\ DOMAIN got' = DOMAIN got \cup {p} /\ got'[p] = n
      /\ \A q \in DOMAIN got : q \in DOMAIN got' /\ got'[q] = got[q]
  <2>1. Extends(With(got, p, n), got, p, n)
    BY <1>7, WithMore
  <2>2. got' = With(got, p, n)
    BY <1>2
  <2> QED  BY <2>1, <2>2 DEF Extends
<1>9. Grows(Root.schema, got', todo')
  BY <1>2, <1>5, <1>7, GrowsOn
<1>10. todo' \in Seq(Fields)
  BY <1>2, <1>6, AfterTyped
<1>11. taken' \in 0..Len(wire')
  <2>1. wire' = wire
    BY <1>3
  <2> QED  BY <1>2, <1>3, <2>1
<1>12. TypeInv'
  BY <1>2, <1>3, <1>10, <1>11 DEF IInv, TypeInv
<1>13. ReaderBuilds'
  <2>1. PICK run : /\ IsRun(Root, got, SubSeq(wire, 1, taken), run)
                   /\ todo = run[taken + 1]
    BY <1>2 DEF IInv, ReaderBuilds
  <2>2. IsRun(Root, got', SubSeq(wire, 1, taken), run)
    BY <1>8, <2>1, RunOfMore
  <2>3. /\ SubSeq(wire, 1, taken) \in Seq(Tokens) /\ Len(SubSeq(wire, 1, taken)) = taken
        /\ SubSeq(wire, 1, taken + 1) = Append(SubSeq(wire, 1, taken), wire[taken + 1])
    BY <1>2
  <2>4. StepOf(got', todo, wire[taken + 1], todo') /\ wire[taken + 1] \in Tokens
    BY <1>2, <1>8 DEF StepOf
  <2>5. /\ IsRun(Root, got', SubSeq(wire, 1, taken + 1), Append(run, todo'))
        /\ Append(run, todo')[taken + 2] = todo'
    <3>1. RunTo(Root, got', SubSeq(wire, 1, taken), run, todo)
      BY <2>1, <2>2, <2>3 DEF RunTo
    <3>2. RunTo(Root, got', Append(SubSeq(wire, 1, taken), wire[taken + 1]),
                Append(run, todo'), todo')
      BY ONLY <1>10, <2>4, <3>1, RunGoesOn
    <3>3. Len(SubSeq(wire, 1, taken + 1)) + 1 = taken + 2
      BY <1>2
    <3> QED  BY <2>3, <3>2, <3>3 DEF RunTo
  <2>6. SubSeq(wire', 1, taken') = SubSeq(wire, 1, taken + 1)
    <3>1. wire' = wire /\ taken' = taken + 1
      BY <1>3
    <3> QED  BY <3>1
  <2>7. todo' = Append(run, todo')[taken' + 1]
    <3>1. taken' + 1 = taken + 2
      BY <1>2, <1>3
    <3> QED  BY <2>5, <3>1
  <2>8. \E r : IsRun(Root', got', SubSeq(wire', 1, taken'), r) /\ todo' = r[taken' + 1]
    BY <1>4, <2>5, <2>6, <2>7
  <2>9. Apart(DOMAIN got', todo') /\ Grows(Root'.schema, got', todo')
    BY <1>2, <1>4, <1>7, <1>8, <1>9
  <2> QED  BY <2>8, <2>9 DEF ReaderBuilds
<1>14. ReaderFollows'
  <2> SUFFICES ASSUME own
               PROVE  ReaderFollows'
    BY <1>3 DEF ReaderFollows
  <2> DEFINE m == sent[2][p]
  <2>1. PICK run : /\ WrittenRun(run) /\ todo = run[taken + 1]
                   /\ whole <=> run[Len(wire) + 1] = <<>>
    BY <1>2 DEF IInv, ReaderFollows
  <2>2. /\ IsRun(Root, sent[2], wire, run)
        /\ \A j \in 1..(Len(wire) + 1) : Fits(sent[2], run[j])
    BY <2>1 DEF WrittenRun
  <2>3. /\ \A q \in DOMAIN got :
             q \in DOMAIN sent[2] /\ got[q] = sent[2][q] /\ ~NilElement(got[q])
        /\ Covers(sent[2], DOMAIN got, todo)
    BY <1>2 DEF IInv, ReaderFollows
  <2>4. IsValue(sent[1], sent[2])
    BY <1>2 DEF IInv, TypeInv
  <2>5. Fits(sent[2], todo)
    <3>1. taken + 1 \in 1..(Len(wire) + 1)
      BY <1>2
    <3> QED  BY <2>1, <2>2, <3>1
  <2>6. p \in DOMAIN sent[2] /\ IsNode(m) /\ m.schema = n.schema
    BY <1>2, <2>4, <2>5, FitsOn
  <2>7. StepOf(sent[2], todo, wire[taken + 1], run[taken + 2])
    BY <1>2, <2>1, <2>2, RunEnds
  <2>8. Writable(m) /\ wire[taken + 1] = TokenOf(m) /\ run[taken + 2] = After(todo, m)
    BY <1>2, <2>7 DEF StepOf
  <2>9. ~NilElement(m) /\ n = m
    <3>1. Accepts(m.schema, TokenOf(m)) /\ n = Node(m.schema, DataIn(m.schema, TokenOf(m)))
      <4>1. Accepts(todo[1].schema, wire[taken + 1])
        BY <1>2 DEF UnmarshalCBOR, NextToken
      <4> QED  BY <1>1, <1>2, <2>6, <2>8, <4>1
    <3> QED  BY <2>6, <2>8, <3>1, WrittenIsAccepted
  <2>10. todo' = run[taken' + 1]
    <3>1. taken' + 1 = taken + 2
      BY <1>2, <1>3
    <3> QED  BY <1>2, <2>8, <2>9, <3>1
  <2>11. WrittenRun(run)' /\ (whole' <=> run[Len(wire') + 1] = <<>>)
    BY <1>3, <1>4, <2>1, <2>2 DEF WrittenRun
  <2>12. \A q \in DOMAIN got' :
           q \in DOMAIN sent'[2] /\ got'[q] = sent'[2][q] /\ ~NilElement(got'[q])
    BY <1>3, <1>8, <2>3, <2>6, <2>9
  <2>13. Covers(sent[2], DOMAIN got \cup {p}, After(todo, m))
    BY <1>2, <2>3, <2>4, <2>5, CoversOn
  <2>14. Covers(sent'[2], DOMAIN got', todo')
    BY <1>2, <1>3, <1>8, <2>9, <2>13
  <2> QED  BY <2>10, <2>11, <2>12, <2>14 DEF ReaderFollows
<1>15. NotYetCopied'
  BY <1>2, <1>3 DEF IInv, NotYetCopied
<1> QED
  BY <1>3, <1>12, <1>13, <1>14, <1>15
     DEF IInv, NotYetRead, WriterWalks, RefusesNil, ReadsAll, CopierFollows

LEMMA RefuseKeeps == IInv /\ Refuse => IInv'
<1> SUFFICES ASSUME IInv, Refuse
             PROVE  IInv'
  OBVIOUS
<1>1. /\ at = "reading" /\ at' = "refused" /\ todo # <<>>
      /\ ~Accepts(Head(todo).schema, NextToken)
      /\ UNCHANGED <<sent, own, todo, whole, wire, taken, got, copy, strays>>
  BY DEF Refuse
<1>2. /\ todo \in Seq(Fields) /\ wire \in Seq(Tokens) /\ taken \in 0..Len(wire)
      /\ Len(wire) \in Nat /\ IsValue(sent[1], sent[2]) /\ Head(todo) = todo[1]
  BY <1>1 DEF IInv, TypeInv
<1>3. TypeInv'
  BY <1>1 DEF IInv, TypeInv
<1>4. ASSUME own, whole
      PROVE  HasNilElement(sent[2])
  <2> DEFINE p == todo[1].path
             m == sent[2][p]
  <2>1. PICK run : /\ WrittenRun(run) /\ todo = run[taken + 1]
                   /\ run[Len(wire) + 1] = <<>>
    BY <1>1, <1>4 DEF IInv, ReaderFollows
  <2>2. /\ IsRun(Root, sent[2], wire, run)
        /\ \A j \in 1..(Len(wire) + 1) : Fits(sent[2], run[j])
    BY <2>1 DEF WrittenRun
  <2>3. taken < Len(wire)
    BY <1>1, <1>2, <2>1
  <2>4. Fits(sent[2], todo)
    <3>1. taken + 1 \in 1..(Len(wire) + 1)
      BY <1>2
    <3> QED  BY <2>1, <2>2, <3>1
  <2>5. p \in DOMAIN sent[2] /\ IsNode(m) /\ m.schema = todo[1].schema
    BY <1>1, <1>2, <2>4, FitsOn
  <2>6. StepOf(sent[2], todo, wire[taken + 1], run[taken + 2])
    BY <1>2, <2>1, <2>2, <2>3, RunEnds
  <2>7. Writable(m) /\ wire[taken + 1] = TokenOf(m)
    BY <1>2, <2>6 DEF StepOf
  <2>8. ~Accepts(m.schema, TokenOf(m))
    BY <1>1, <1>2, <2>3, <2>5, <2>7 DEF NextToken
  <2>9. NilElement(m)
    BY <2>5, <2>7, <2>8, WrittenIsAccepted
  <2> QED  BY <2>5, <2>9 DEF HasNilElement, NilElement
<1>5. RefusesNil'
  BY <1>1, <1>4 DEF RefusesNil
<1> QED
  BY <1>1, <1>3, <1>5
     DEF IInv, NotYetRead, NotYetCopied, WriterWalks, ReaderFollows, ReadsAll,
         ReaderBuilds, CopierFollows

LEMMA EndsReadingKeeps == IInv /\ EndsReading => IInv'
<1> SUFFICES ASSUME IInv, EndsReading
             PROVE  IInv'
  OBVIOUS
<1>1. /\ at = "reading" /\ at' = "copying" /\ todo = <<>> /\ todo' = <<Root>>
      /\ UNCHANGED <<sent, own, whole, wire, taken, got, copy, strays>>
  BY DEF EndsReading
<1>2. /\ wire \in Seq(Tokens) /\ taken \in 0..Len(wire) /\ Len(wire) \in Nat
      /\ IsValue(sent[1], sent[2]) /\ sent[1] \in DOMAIN Types
  BY <1>1 DEF IInv, TypeInv, IsValue
<1>3. Root = Field(<<>>, Types[sent[1]]) /\ Root' = Root
  BY <1>1 DEF Root
<1>4. Root \in Fields /\ <<Root>> \in Seq(Fields)
  BY <1>2, <1>3, RootIsField
<1>5. Grows(Root.schema, got, <<>>)
  BY <1>1 DEF IInv, ReaderBuilds
<1>6. TypeInv'
  BY <1>1, <1>4 DEF IInv, TypeInv
<1>7. ReadsAll'
  <2> SUFFICES ASSUME own
               PROVE  ReadsAll'
    BY <1>1 DEF ReadsAll
  <2>1. PICK run : /\ WrittenRun(run) /\ todo = run[taken + 1]
                   /\ whole <=> run[Len(wire) + 1] = <<>>
    BY <1>1 DEF IInv, ReaderFollows
  <2>2. taken = Len(wire)
    <3>1. IsRun(Root, sent[2], wire, run)
      BY <2>1 DEF WrittenRun
    <3>2. taken < Len(wire) => todo # <<>>
      BY <1>2, <2>1, <3>1, RunEnds
    <3> QED  BY <1>1, <1>2, <3>2
  <2>3. whole
    BY <1>1, <2>1, <2>2
  <2>4. /\ \A p \in DOMAIN got :
             p \in DOMAIN sent[2] /\ got[p] = sent[2][p] /\ ~NilElement(got[p])
        /\ Covers(sent[2], DOMAIN got, <<>>)
    BY <1>1 DEF IInv, ReaderFollows
  <2>5. DOMAIN got = DOMAIN sent[2]
    BY <2>4 DEF Covers
  <2>6. got = sent[2]
    <3>1. got = [p \in DOMAIN got |-> got[p]]
      BY <1>5 DEF Grows
    <3>2. sent[2] = [p \in DOMAIN sent[2] |-> Node(sent[2][p].schema, sent[2][p].data)]
      BY <1>2 DEF IsValue, IsTree
    <3>3. \A p \in DOMAIN sent[2] :
            got[p] = Node(sent[2][p].schema, sent[2][p].data)
      BY <2>4, <2>5, <3>2
    <3> QED  BY <2>5, <3>1, <3>2, <3>3
  <2>7. ~HasNilElement(sent[2])
    BY <2>4, <2>5 DEF HasNilElement, NilElement
  <2> QED  BY <1>1, <2>2, <2>3, <2>6, <2>7 DEF ReadsAll
<1>8. CopierFollows'
  <2>1. IsTree(Root.schema, got)
    BY <1>5, Grown
  <2>2. copy = <<>>
    BY <1>1 DEF IInv, NotYetCopied
  <2>3. PICK run : /\ IsRun(Root, got, SubSeq(wire, 1, taken), run)
                   /\ run[taken + 1] = <<>>
    BY <1>1 DEF IInv, ReaderBuilds
  <2>4. run[1] = <<Root>>
    BY <2>3 DEF IsRun
  <2>5. /\ Len(copy') = 0 /\ copy' = <<>> /\ taken' = taken
        /\ wire' = wire /\ got' = got /\ todo' = <<Root>>
    BY <1>1, <2>2
  <2>6. Len(copy') <= taken' /\ copy' = SubSeq(wire', 1, Len(copy'))
    BY <1>2, <2>5
  <2>7. \E r : /\ IsRun(Root', got', SubSeq(wire', 1, taken'), r)
               /\ r[taken' + 1] = <<>> /\ todo' = r[Len(copy') + 1]
    <3>1. todo' = run[Len(copy') + 1]
      BY <2>4, <2>5
    <3> QED  BY <1>3, <2>3, <2>5, <3>1
  <2> QED  BY <1>1, <1>3, <2>1, <2>5, <2>6, <2>7 DEF CopierFollows
<1> QED
  BY <1>1, <1>6, <1>7, <1>8
     DEF IInv, NotYetRead, NotYetCopied, WriterWalks, ReaderFollows, RefusesNil,
         ReaderBuilds

LEMMA MarshalAgainKeeps == IInv /\ MarshalAgain => IInv'
<1> SUFFICES ASSUME IInv, MarshalAgain
             PROVE  IInv'
  OBVIOUS
<1> DEFINE n == got[todo[1].path]
<1>1. /\ at = "copying" /\ at' = "copying" /\ todo # <<>>
      /\ UNCHANGED <<sent, own, whole, wire, taken, got, strays>>
  BY DEF MarshalAgain
<1>2. /\ wire \in Seq(Tokens) /\ taken \in 0..Len(wire) /\ Len(wire) \in Nat
      /\ todo \in Seq(Fields) /\ copy \in Seq(Tokens) /\ Len(copy) \in Nat
      /\ Head(todo) = todo[1]
  BY <1>1 DEF IInv, TypeInv
<1>3. copy' = Append(copy, TokenOf(n)) /\ todo' = After(todo, n)
  BY <1>2 DEF MarshalAgain, GoOn, After
<1>4. /\ IsTree(Root.schema, got) /\ Len(copy) <= taken
      /\ copy = SubSeq(wire, 1, Len(copy))
  BY <1>1 DEF IInv, CopierFollows
<1>5. PICK run : /\ IsRun(Root, got, SubSeq(wire, 1, taken), run)
                 /\ run[taken + 1] = <<>> /\ todo = run[Len(copy) + 1]
  BY <1>1 DEF IInv, CopierFollows
<1>6. Len(copy) < taken
  BY <1>1, <1>2, <1>4, <1>5
<1>7. StepOf(got, todo, wire[Len(copy) + 1], run[Len(copy) + 2])
  BY <1>2, <1>5, <1>6, CopierSteps
<1>8. TokenOf(n) = wire[Len(copy) + 1] /\ todo' = run[Len(copy) + 2]
  BY <1>2, <1>3, <1>7 DEF StepOf
<1>9. copy' = SubSeq(wire, 1, Len(copy) + 1) /\ copy' \in Seq(Tokens)
  <2>1. SubSeq(wire, 1, Len(copy) + 1)
          = Append(SubSeq(wire, 1, Len(copy)), wire[Len(copy) + 1])
    BY <1>2, <1>6
  <2>2. SubSeq(wire, 1, Len(copy) + 1) \in Seq(Tokens)
    BY <1>2, <1>6
  <2> QED  BY <1>3, <1>4, <1>8, <2>1, <2>2
<1>10. Len(copy') = Len(copy) + 1
  BY <1>2, <1>3
<1>11. run[Len(copy) + 2] \in Seq(Fields)
  <2>1. run \in Seq(Seq(Fields)) /\ Len(run) = Len(SubSeq(wire, 1, taken)) + 1
    BY <1>5 DEF IsRun
  <2>2. Len(run) = taken + 1
    BY <1>2, <2>1
  <2> QED  BY <1>2, <1>6, <2>1, <2>2
<1>12. TypeInv'
  BY <1>1, <1>8, <1>9, <1>11 DEF IInv, TypeInv
<1>13. Root' = Root
  BY <1>1 DEF Root
<1>14. CopierFollows'
  <2>1. wire' = wire /\ taken' = taken /\ got' = got
    BY <1>1
  <2>2. Len(copy') <= taken'
    BY <1>2, <1>6, <1>10, <2>1
  <2>3. copy' = SubSeq(wire', 1, Len(copy'))
    BY <1>9, <1>10, <2>1
  <2>4. todo' = run[Len(copy') + 1]
    BY <1>2, <1>8, <1>10
  <2> QED  BY <1>1, <1>4, <1>5, <1>13, <2>1, <2>2, <2>3, <2>4 DEF CopierFollows
<1> QED
  BY <1>1, <1>12, <1>14
     DEF IInv, NotYetRead, NotYetCopied, WriterWalks, ReaderFollows, RefusesNil,
         ReadsAll,
         ReaderBuilds

LEMMA EndsCopyingKeeps == IInv /\ EndsCopying => IInv'
<1> SUFFICES ASSUME IInv, EndsCopying
             PROVE  IInv'
  OBVIOUS
<1>1. /\ at = "copying" /\ at' = IF todo = <<>> THEN "copied" ELSE "stuck"
      /\ todo # <<>> => ~Writable(got[Head(todo).path])
      /\ UNCHANGED <<sent, own, todo, whole, wire, taken, got, copy, strays>>
  BY DEF EndsCopying
<1>2. /\ wire \in Seq(Tokens) /\ taken \in 0..Len(wire) /\ Len(wire) \in Nat
      /\ copy \in Seq(Tokens) /\ Len(copy) \in Nat
  BY <1>1 DEF IInv, TypeInv
<1>3. /\ IsTree(Root.schema, got) /\ Len(copy) <= taken
      /\ copy = SubSeq(wire, 1, Len(copy))
  BY <1>1 DEF IInv, CopierFollows
<1>4. PICK run : /\ IsRun(Root, got, SubSeq(wire, 1, taken), run)
                 /\ run[taken + 1] = <<>> /\ todo = run[Len(copy) + 1]
  BY <1>1 DEF IInv, CopierFollows
<1>5. ~(Len(copy) < taken)
  <2> SUFFICES ASSUME Len(copy) < taken
               PROVE  FALSE
    OBVIOUS
  <2>1. StepOf(got, todo, wire[Len(copy) + 1], run[Len(copy) + 2])
    BY <1>2, <1>4, CopierSteps
  <2> QED  BY <1>1, <2>1 DEF StepOf
<1>6. Len(copy) = taken
  <2>1. Len(copy) \in Nat /\ taken \in 0..Len(wire) /\ Len(wire) \in Nat
    BY <1>2
  <2>2. Len(copy) <= taken
    BY <1>3
  <2> QED  BY <1>5, <2>1, <2>2
<1>7. todo = <<>> /\ at' = "copied" /\ copy = SubSeq(wire, 1, taken)
  BY <1>1, <1>3, <1>4, <1>6
<1>8. TypeInv'
  BY <1>1, <1>7 DEF IInv, TypeInv
<1>9. Root' = Root
  BY <1>1 DEF Root
<1>10. CopierFollows'
  BY <1>1, <1>3, <1>7, <1>9 DEF CopierFollows
<1> QED
  BY <1>1, <1>7, <1>8, <1>10
     DEF IInv, NotYetRead, NotYetCopied, WriterWalks, ReaderFollows, RefusesNil,
         ReadsAll,
         ReaderBuilds

LEMMA StutteringKeeps == IInv /\ UNCHANGED vars => IInv'
<1> SUFFICES ASSUME IInv, UNCHANGED vars
             PROVE  IInv'
  OBVIOUS
<1>1. UNCHANGED <<at, sent, own, todo, whole, wire, taken, got, copy, strays>>
  BY DEF vars
<1>2. Root' = Root
  BY <1>1 DEF Root
<1> QED
  BY <1>1, <1>2
     DEF IInv, TypeInv, NotYetRead, NotYetCopied, WriterWalks, WrittenRun,
         ReaderFollows,
         RefusesNil, ReadsAll, ReaderBuilds, CopierFollows

LEMMA InitHolds == Init => IInv
<1> SUFFICES ASSUME Init
             PROVE  IInv
  OBVIOUS
<1>1. /\ at = "begin" /\ own = TRUE /\ whole = FALSE /\ taken = 0 /\ strays = 0
      /\ todo = <<>> /\ wire = <<>> /\ got = <<>> /\ copy = <<>>
  BY DEF Init
<1>2. 0 \in 0..MaxStrays /\ <<>> \in Seq(Tokens) /\ <<>> \in Seq(Fields)
      /\ taken \in 0..Len(wire)
  BY <1>1, BoundsAssumption
<1> QED
  BY <1>1, <1>2
     DEF IInv, TypeInv, NotYetRead, NotYetCopied, WriterWalks, ReaderFollows,
         RefusesNil,
         ReadsAll, ReaderBuilds, CopierFollows

LEMMA Invariant == Spec => []IInv
<1>1. IInv /\ [Next]_vars => IInv'
  BY BeginKeeps, MarshalCBORKeeps, EndsWritingKeeps, CutKeeps, StrayKeeps,
     UnmarshalCBORKeeps, RefuseKeeps, EndsReadingKeeps, MarshalAgainKeeps,
     EndsCopyingKeeps, StutteringKeeps
     DEF Next
<1> QED  BY <1>1, InitHolds, PTL DEF Spec

-----------------------------------------------------------------------------
(* What the invariant says to a user of the codecs.                        *)

\* Whatever tokens an encoder writes, what UnmarshalCBOR returns without an error has
\* all the parts its type wants, each within the limits that MarshalCBOR checks.
THEOREM TypeCorrect == Spec => []TypeOK
<1>1. IInv => TypeOK
  <2> SUFFICES ASSUME IInv
               PROVE  TypeOK
    OBVIOUS
  <2>1. /\ at \in {"begin", "writing", "reading", "refused", "copying", "copied"}
        /\ whole \in BOOLEAN /\ own \in BOOLEAN /\ strays \in 0..MaxStrays
    BY DEF IInv, TypeInv
  <2>2. taken \in Nat
    BY DEF IInv, TypeInv
  <2>3. at = "begin" \/ sent[1] \in DOMAIN Types
    BY DEF IInv, TypeInv, IsValue
  <2>4. HasBeenRead => IsTree(Types[sent[1]], got)
    <3>1. Root.schema = Types[sent[1]]
      BY DEF Root, Field
    <3> QED  BY <2>1, <3>1 DEF IInv, CopierFollows, HasBeenRead
  <2> QED  BY <2>1, <2>2, <2>3, <2>4 DEF TypeOK
<1> QED  BY <1>1, Invariant, PTL

\* UnmarshalCBOR reads what MarshalCBOR wrote, to the last token, and returns the value
\* that was written; it refuses the one thing written it cannot read, a list with a nil
\* element (chainexchange/cbor_gen.go).
THEOREM RoundTrips == Spec => []RoundTrip
<1>1. IInv => RoundTrip
  BY DEF IInv, TypeInv, RefusesNil, ReadsAll, RoundTrip, HasBeenRead
<1> QED  BY <1>1, Invariant, PTL

\* No message of MarshalCBOR that was cut short, wherever, is read without an error.
THEOREM PartsAreRefused == Spec => []PartIsRefused
<1>1. IInv => PartIsRefused
  BY DEF IInv, TypeInv, ReadsAll, PartIsRefused, HasBeenRead
<1> QED  BY <1>1, Invariant, PTL

\* What UnmarshalCBOR has read, MarshalCBOR can write, and it writes the tokens that
\* were read, whoever wrote them: so far as the types of other packages have one layout
\* each, the cid of a block header does not depend on the encoder it came from.
THEOREM ReadsCanonically == Spec => []ReadIsCanonical
<1>1. IInv => ReadIsCanonical
  BY DEF IInv, TypeInv, CopierFollows, ReadIsCanonical
<1> QED  BY <1>1, Invariant, PTL

=============================================================================
