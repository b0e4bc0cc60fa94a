-------------------------------- MODULE Codec --------------------------------
(***************************************************************************)
(* The generated CBOR codecs.  A Go type is a schema and the bytes of a    *)
(* value are a sequence of tokens, a major type with its number each.  A   *)
(* value is a tree: a function from paths, <<>> that of the value itself,  *)
(* to nodes, each with its schema and its data.  Data is a number: that of *)
(* an integer, the length of a list, string or byte string, what stands    *)
(* for a cid, a big number, an address or a signature.  A struct has 1, a  *)
(* nil pointer to one 0.  Every node is one token, written and read in the *)
(* order of the fields.  The contents of a byte string, and those of a     *)
(* type of another package, are the number of its token: how such a type   *)
(* is laid out in bytes is outside, and taken to be one way only.  One     *)
(* message is written, carried, read, and written again.                   *)
(***************************************************************************)
EXTENDS Integers, Sequences

CONSTANTS
  MaxLength,        \* of lists and strings (cbor-gen)
  ByteArrayMaxLen,  \* of byte strings (cbor-gen)
  Half,             \* 2^63: the least uint64 that is no int64
  Values,           \* the values written: pairs <<type name, tree>>
  Foreign,          \* those written by another encoder
  Strays,           \* the tokens it writes instead of ours
  MaxStrays         \* how many of them it writes in one message

VARIABLES
  at,      \* "begin", "writing", "reading", "refused", "copying", "copied", "stuck"
  sent,    \* the pair <<type name, tree>> written
  own,     \* the encoder is this one
  todo,    \* the fields still to be written, read or copied, in order
  whole,   \* the wire holds all of what was to be written
  wire,    \* the tokens on their way
  taken,   \* how many of them have been read
  got,     \* the tree read so far
  copy,    \* the tokens of its copy
  strays   \* tokens written by another encoder (bounded)

vars == <<at, sent, own, todo, whole, wire, taken, got, copy, strays>>

-----------------------------------------------------------------------------
(* Schemas.  Pointers are to structs and to signatures, which are atoms; a *)
(* nil one is written as null.                                             *)

Atom(kind) == [kind |-> kind]
ListOf(s) == [kind |-> "list", of |-> s]
StructOf(fields) == [kind |-> "struct", fields |-> fields]
PointerTo(struct) == [kind |-> "pointer", fields |-> struct.fields]
\* A pointer that is an element of a list.
ElementOf(struct) == [kind |-> "element", fields |-> struct.fields]

Uint64 == Atom("uint")
Int64 == Atom("int")
Bytes == Atom("bytes")
Text == Atom("text")
Cid == Atom("cid")
Big == Atom("big")
Address == Atom("address")
Signature == Atom("signature")
SignaturePointer == Atom("signaturePointer")

PoStProof == StructOf(<<Int64, Bytes>>)

Ticket == StructOf(<<Bytes>>)
ElectionProof == StructOf(<<Int64, Bytes>>)
BeaconEntry == StructOf(<<Uint64, Bytes>>)

BlockHeader ==
  StructOf(<<Address, PointerTo(Ticket), PointerTo(ElectionProof),
             ListOf(BeaconEntry), ListOf(PoStProof), ListOf(Cid), Big, Int64, Cid, Cid,
             Cid, SignaturePointer, Uint64, SignaturePointer, Uint64, Big>>)

Message ==
  StructOf(<<Uint64, Address, Address, Uint64, Big, Int64, Big, Big, Uint64, Bytes>>)
SignedMessage == StructOf(<<Message, Signature>>)

Actor == StructOf(<<Cid, Cid, Uint64, Big>>)

BlockMessage == StructOf(<<PointerTo(BlockHeader), ListOf(Cid), ListOf(Cid)>>)

Includes == ListOf(ListOf(Uint64))
CompactedMessages ==
  StructOf(<<ListOf(ElementOf(Message)), Includes,
             ListOf(ElementOf(SignedMessage)), Includes>>)
BSTipSet ==
  StructOf(<<ListOf(ElementOf(BlockHeader)), PointerTo(CompactedMessages)>>)
SyncMessage == StructOf(<<ListOf(Cid), Uint64, Uint64>>)
ChainMessage == StructOf(<<Uint64, Text, ListOf(ElementOf(BSTipSet))>>)

HelloMessage == StructOf(<<ListOf(Cid), Int64, Big, Cid>>)
LatencyMessage == StructOf(<<Int64, Int64>>)

Types ==
  [Ticket |-> Ticket, ElectionProof |-> ElectionProof, BeaconEntry |-> BeaconEntry,
   BlockHeader |-> BlockHeader, Message |-> Message, SignedMessage |-> SignedMessage,
   Actor |-> Actor, BlockMessage |-> BlockMessage,
   CompactedMessages |-> CompactedMessages, BSTipSet |-> BSTipSet,
   SyncMessage |-> SyncMessage, ChainMessage |-> ChainMessage,
   HelloMessage |-> HelloMessage, LatencyMessage |-> LatencyMessage]

-----------------------------------------------------------------------------
(* Values.                                                                 *)

Node(schema, data) == [schema |-> schema, data |-> data]

Structs == {"struct", "pointer", "element"}

\* A nil pointer to a signature.
Nil == -1

\* The data that nodes of a schema have in Go.
DataOf(schema) ==
  CASE schema.kind = "struct" -> {1}
    [] schema.kind \in {"pointer", "element"} -> {0, 1}
    [] schema.kind = "uint" -> 0..(2 * Half - 1)
    [] schema.kind = "int" -> (-Half)..(Half - 1)
    [] schema.kind = "signaturePointer" -> Nat \cup {Nil}
    [] OTHER -> Nat

Arity(node) ==
  CASE node.schema.kind = "list" -> node.data
    [] node.schema.kind \in Structs ->
         IF node.data = 0 THEN 0 ELSE Len(node.schema.fields)
    [] OTHER -> 0

PartSchema(schema, i) == IF schema.kind = "list" THEN schema.of ELSE schema.fields[i]

Field(path, schema) == [path |-> path, schema |-> schema]

\* The fields of a struct, the elements of a list.
Parts(path, node) ==
  [i \in 1..Arity(node) |-> Field(Append(path, i), PartSchema(node.schema, i))]

\* A value of a type: every node has the parts its schema and data say, and is
\* itself a part of the one above it.
IsTree(schema, v) ==
  /\ <<>> \in DOMAIN v /\ v[<<>>].schema = schema
  /\ v = [p \in DOMAIN v |-> Node(v[p].schema, v[p].data)]
  /\ \A p \in DOMAIN v :
       /\ v[p].data \in DataOf(v[p].schema)
       /\ \A i \in 1..Arity(v[p]) :
            LET part == Append(p, i)
            IN  part \in DOMAIN v /\ v[part].schema = PartSchema(v[p].schema, i)
       /\ \A n \in 1..Len(p) :
            LET above == SubSeq(p, 1, n - 1)
            IN  above \in DOMAIN v /\ p[n] \in 1..Arity(v[above])

\* The major types, the tag of a cid among them.
Majors == {"uint", "negative", "bytes", "text", "array", "cid", "null"}

ASSUME BoundsAssumption ==
  /\ MaxLength \in Nat /\ ByteArrayMaxLen \in Nat /\ MaxStrays \in Nat
  /\ Half \in Nat \ {0}

ASSUME ValuesAssumption ==
  \A pair \in Values \cup Foreign :
    /\ pair[1] \in DOMAIN Types
    /\ \A p \in DOMAIN pair[2] : p \in Seq(Nat)
    /\ IsTree(Types[pair[1]], pair[2])

\* The number of a token has 64 bits.
ASSUME StraysAssumption == Strays \subseteq [major : Majors, number : 0..(2 * Half - 1)]

-----------------------------------------------------------------------------
(* Tokens.                                                                 *)

Token(major, number) == [major |-> major, number |-> number]
Null == Token("null", 0)
\* What reading past the end returns.
End == Token("end", 0)

\* Mutant: the code of a negative number is not shifted by one.
IntTokenUnshifted(n) == IF n >= 0 THEN Token("uint", n) ELSE Token("negative", -n)

IntToken(n) == IF n >= 0 THEN Token("uint", n) ELSE Token("negative", -n - 1)

TokenOf(node) ==
  LET kind == node.schema.kind
  IN CASE kind \in Structs ->
            IF node.data = 0 THEN Null ELSE Token("array", Len(node.schema.fields))
       [] kind = "list" -> Token("array", node.data)
       [] kind = "int" -> IntToken(node.data)
       [] kind = "signaturePointer" ->
            IF node.data = Nil THEN Null ELSE Token("bytes", node.data)
       [] kind \in {"bytes", "address", "signature", "big"} -> Token("bytes", node.data)
       [] OTHER -> Token(kind, node.data)

\* The writer returns no error for the node.
Writable(node) ==
  LET kind == node.schema.kind
  IN  /\ kind \in {"list", "text"} => node.data <= MaxLength
      /\ kind = "bytes" => node.data <= ByteArrayMaxLen
      /\ kind \in {"cid", "address", "signature", "signaturePointer"} => node.data # 0

\* Mutant: a number of 64 bits that is negative as an int64 is converted.
FitsUint(n) == n < 2 * Half

\* It is refused.
FitsInt(n) == n < Half

AsInt64(n) == IF n < Half THEN n ELSE n - 2 * Half

\* Mutant: byte strings of any length are read.
AnyBytes(n) == n >= 0

BytesFit(n) == n <= ByteArrayMaxLen

\* Mutant: the error of reading past the end is dropped.
IsNullOrEnd(t) == t \in {Null, End}

IsNull(t) == t = Null

\* The reader of a schema goes on after the token.  That of an element does not look
\* for null.
Accepts(schema, t) ==
  LET kind == schema.kind
  IN CASE kind \in Structs ->
            \/ t.major = "array" /\ t.number = Len(schema.fields)
            \/ kind = "pointer" /\ IsNull(t)
       [] kind = "list" -> t.major = "array" /\ t.number <= MaxLength
       [] kind = "int" -> t.major \in {"uint", "negative"} /\ FitsInt(t.number)
       [] kind = "bytes" -> t.major = "bytes" /\ BytesFit(t.number)
       [] kind = "text" -> t.major = "text" /\ t.number <= MaxLength
       [] kind = "cid" -> t.major = "cid" /\ t.number # 0
       [] kind \in {"address", "signature"} -> t.major = "bytes" /\ t.number # 0
       [] kind = "signaturePointer" ->
            IsNull(t) \/ (t.major = "bytes" /\ t.number # 0)
       [] kind = "big" -> t.major = "bytes"
       [] OTHER -> t.major = "uint"

\* What it reads.  The bytes of a big integer are taken to have no leading zeros.
DataIn(schema, t) ==
  CASE schema.kind \in Structs -> IF t.major = "array" THEN 1 ELSE 0
    [] schema.kind = "int" ->
         IF t.major = "negative" THEN -1 - AsInt64(t.number) ELSE AsInt64(t.number)
    [] schema.kind = "signaturePointer" -> IF t.major = "bytes" THEN t.number ELSE Nil
    [] OTHER -> t.number

-----------------------------------------------------------------------------
Root == Field(<<>>, Types[sent[1]])

Init ==
  /\ at = "begin" /\ own = TRUE /\ whole = FALSE /\ taken = 0 /\ strays = 0
  /\ sent = <<>> /\ todo = <<>> /\ wire = <<>> /\ got = <<>> /\ copy = <<>>

\* The first field is done, its parts come next.
GoOn(node) == todo' = Parts(Head(todo).path, node) \o Tail(todo)

Begin ==
  /\ at = "begin"
  /\ \/ sent' \in Values /\ own' = TRUE
     \/ sent' \in Foreign /\ own' = FALSE
  /\ todo' = <<Root'>>
  /\ at' = "writing"
  /\ UNCHANGED <<whole, wire, taken, got, copy, strays>>

MarshalCBOR ==
  /\ at = "writing" /\ todo # <<>>
  /\ LET node == sent[2][Head(todo).path]
     IN  /\ Writable(node)
         /\ wire' = Append(wire, TokenOf(node))
         /\ GoOn(node)
  /\ UNCHANGED <<at, sent, own, whole, taken, got, copy, strays>>

\* An error, or the end: what was written before it stays written.
EndsWriting ==
  /\ at = "writing"
  /\ todo # <<>> => ~Writable(sent[2][Head(todo).path])
  /\ whole' = (todo = <<>>)
  /\ todo' = <<Root>>
  /\ at' = "reading"
  /\ UNCHANGED <<sent, own, wire, taken, got, copy, strays>>

\* The connection is lost with part of the message on its way.
Cut ==
  /\ at = "reading" /\ taken < Len(wire)
  /\ wire' = SubSeq(wire, 1, taken)
  /\ whole' = FALSE
  /\ UNCHANGED <<at, sent, own, todo, taken, got, copy, strays>>

\* Another encoder has written the next token differently, or added one.
Stray ==
  /\ at = "reading" /\ ~own /\ strays < MaxStrays
  /\ \E t \in Strays :
       wire' = IF taken < Len(wire) THEN [wire EXCEPT ![taken + 1] = t]
               ELSE Append(wire, t)
  /\ strays' = strays + 1
  /\ UNCHANGED <<at, sent, own, todo, whole, taken, got, copy>>

NextToken == IF taken < Len(wire) THEN wire[taken + 1] ELSE End

With(v, path, node) == [p \in DOMAIN v \cup {path} |-> IF p = path THEN node ELSE v[p]]

UnmarshalCBOR ==
  /\ at = "reading" /\ todo # <<>>
  /\ LET next == Head(todo)
         node == Node(next.schema, DataIn(next.schema, NextToken))
     IN  /\ Accepts(next.schema, NextToken)
         /\ got' = With(got, next.path, node)
         /\ GoOn(node)
  /\ taken' = taken + 1
  /\ UNCHANGED <<at, sent, own, whole, wire, copy, strays>>

Refuse ==
  /\ at = "reading" /\ todo # <<>>
  /\ ~Accepts(Head(todo).schema, NextToken)
  /\ at' = "refused"
  /\ UNCHANGED <<sent, own, todo, whole, wire, taken, got, copy, strays>>

\* The value is read; it will be written again.
EndsReading ==
  /\ at = "reading" /\ todo = <<>>
  /\ at' = "copying"
  /\ todo' = <<Root>>
  /\ UNCHANGED <<sent, own, whole, wire, taken, got, copy, strays>>

MarshalAgain ==
  /\ at = "copying" /\ todo # <<>>
  /\ LET node == got[Head(todo).path]
     IN  /\ Writable(node)
         /\ copy' = Append(copy, TokenOf(node))
         /\ GoOn(node)
  /\ UNCHANGED <<at, sent, own, whole, wire, taken, got, strays>>

EndsCopying ==
  /\ at = "copying"
  /\ todo # <<>> => ~Writable(got[Head(todo).path])
  /\ at' = IF todo = <<>> THEN "copied" ELSE "stuck"
  /\ UNCHANGED <<sent, own, todo, whole, wire, taken, got, copy, strays>>

Next ==
  \/ Begin \/ MarshalCBOR \/ EndsWriting
  \/ Cut \/ Stray
  \/ UnmarshalCBOR \/ Refuse \/ EndsReading
  \/ MarshalAgain \/ EndsCopying

Spec == Init /\ [][Next]_vars

-----------------------------------------------------------------------------
HasBeenRead == at \in {"copying", "copied", "stuck"}

\* The variables have their types, and what a reader accepts, whatever the tokens, is
\* a value of its type that can be written again: no list, string or number in it is
\* beyond the limits of the writer, no part is missing.
TypeOK ==
  /\ at \in {"begin", "writing", "reading", "refused", "copying", "copied"}
  /\ whole \in BOOLEAN /\ own \in BOOLEAN /\ taken \in Nat
  /\ strays \in 0..MaxStrays
  /\ at = "begin" \/ sent[1] \in DOMAIN Types
  /\ HasBeenRead => IsTree(Types[sent[1]], got)

\* A list with a nil element is written, that element as null.
HasNilElement(v) ==
  \E p \in DOMAIN v : v[p].schema.kind = "element" /\ v[p].data = 0

\* What was written whole is read as the same value, and nothing is left over.  The
\* one exception: a list with a nil element is refused by the reader, which wants an
\* element there (chainexchange/cbor_gen.go:39 and 91).
RoundTrip ==
  (whole /\ own) =>
     IF HasNilElement(sent[2])
     THEN ~HasBeenRead
     ELSE at # "refused" /\ (HasBeenRead => got = sent[2] /\ taken = Len(wire))

\* A message cut short, by the connection or by a writer that failed half way, is
\* never taken for a shorter message.
PartIsRefused == (HasBeenRead /\ own) => whole

\* Whatever the sender's encoder, a value read has one encoding: writing it again
\* gives the tokens read, so a block header keeps the cid it was found under
\* (chain.go, BlockHeader.Cid), unless it was followed by tokens nobody read.  This
\* takes a big integer to have one layout; one with leading zeros would be read too, and
\* be written without them.
ReadIsCanonical ==
  /\ at # "stuck"
  /\ at = "copied" => copy = SubSeq(wire, 1, taken)

=============================================================================
