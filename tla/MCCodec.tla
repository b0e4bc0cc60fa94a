------------------------------- MODULE MCCodec -------------------------------
(***************************************************************************)
(* Every type, with values that differ from a plain one in one place, for  *)
(* TLC.                                                                    *)
(***************************************************************************)
EXTENDS Codec, TLC

DataSamples(kind) ==
  CASE kind = "uint" -> {0, 2 * Half - 1}
    [] kind = "int" -> {-Half, -1, 0, Half - 1}
    [] kind = "bytes" -> {0, ByteArrayMaxLen, ByteArrayMaxLen + 1}
    [] kind = "text" -> {0, MaxLength, MaxLength + 1}
    [] kind = "list" -> 0..(MaxLength + 1)
    [] kind = "struct" -> {1}
    [] kind \in {"pointer", "element"} -> {0, 1}
    [] kind = "signaturePointer" -> {Nil, 0, 1, 2}
    [] OTHER -> {0, 1, 2}

PlainData(kind) ==
  IF kind \in {"uint", "int", "bytes", "text", "big"} THEN 0 ELSE 1

\* A node with its parts, each of them a tree.
TreeOf(node, parts) ==
  LET below == UNION {{<<i>> \o q : q \in DOMAIN parts[i]} : i \in 1..Arity(node)}
  IN  (<<>> :> node) @@ [p \in below |-> parts[p[1]][Tail(p)]]

RECURSIVE Plain(_, _)
Plain(s, data) ==
  LET node == Node(s, data)
      Part(i) == LET part == PartSchema(s, i) IN Plain(part, PlainData(part.kind))
      n == Arity(node)
      \* SubSeq so that TLC evaluates each part once.
      parts == SubSeq([i \in 1..n |-> Part(i)], 1, n)
  IN  TreeOf(node, parts)

PlainValue(s) == Plain(s, PlainData(s.kind))

RECURSIVE Samples(_)
Samples(s) ==
  LET node == Node(s, PlainData(s.kind))
      n == Arity(node)
      parts == SubSeq([i \in 1..n |-> PlainValue(PartSchema(s, i))], 1, n)
  IN  {Plain(s, data) : data \in DataSamples(s.kind)}
        \cup UNION {{TreeOf(node, [parts EXCEPT ![i] = x]) :
                       x \in Samples(PartSchema(s, i))} : i \in 1..n}

MCValues == UNION {{<<t, v>> : v \in Samples(Types[t])} : t \in DOMAIN Types}

LargeTypes == {"ChainMessage", "BSTipSet", "CompactedMessages", "BlockMessage"}

\* Plain values of the largest types, all of the others.
MCForeign ==
  {<<t, PlainValue(Types[t])>> : t \in LargeTypes}
    \cup UNION {{<<t, v>> : v \in Samples(Types[t])} : t \in DOMAIN Types \ LargeTypes}

MCStrays ==
  {Null, Token("uint", 0), Token("uint", Half), Token("negative", 0),
   Token("negative", Half), Token("bytes", 0), Token("bytes", ByteArrayMaxLen + 1),
   Token("cid", 2), Token("text", MaxLength + 1), Token("array", 0), Token("array", 1),
   Token("array", MaxLength + 1)}

=============================================================================
