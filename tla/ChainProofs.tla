----------------------------- MODULE ChainProofs -----------------------------
(***************************************************************************)
(* Theorems about the two modules that build tipsets.  Of the store: what  *)
(* was put is kept, for nothing ever leaves the block store, and a cid is  *)
(* only told to a caller together with its block.  What was loaded can be  *)
(* loaded again for the same reason.                                       *)
(* Of the exchange: the checks the client makes of an answer are enough    *)
(* for what it returns, whatever peers answer, and the program dies of     *)
(* nothing else than the two known cases.                                  *)
(***************************************************************************)
EXTENDS ChainStore, ChainExchange, TipSetProofs

-----------------------------------------------------------------------------
(* The store: what was put is kept.                                        *)

\* The inductive invariant.  The second part is PutsAreKept without blocks: the cid of
\* a stored header is its own.
StoredIsThere ==
  /\ stored \subseteq blocks
  /\ \A c \in stored : Contents[c].kind = "header" => Contents[c].header.cid = c

-----------------------------------------------------------------------------
\* PutCbor, of something encoded whose cid is therefore its own.
LEMMA PutCborKeeps ==
  ASSUME StoredIsThere, PutCbor
  PROVE  StoredIsThere'
<1>1. PICK c \in DOMAIN Contents, put \in BOOLEAN :
        /\ Contents[c].kind = "header" => Contents[c].header.cid = c
        /\ blocks' = IF put THEN blocks \cup {c} ELSE blocks
        /\ stored' = IF put THEN stored \cup {c} ELSE stored
  BY DEF PutCbor, TellStored
<1>2. CASE put   BY <1>1, <1>2 DEF StoredIsThere
<1>3. CASE ~put  BY <1>1, <1>3 DEF StoredIsThere
<1> QED  BY <1>2, <1>3

\* PutManyBlockHeaders tells of all headers or of none.
LEMMA PutManyKeeps ==
  ASSUME StoredIsThere, PutManyBlockHeaders
  PROVE  StoredIsThere'
<1>1. PICK headers \in HeaderLists :
        LET cids == ToSet(Cids(headers)) IN
        IF Encodes(headers)
        THEN \/ blocks' = blocks \cup cids /\ stored' = stored \cup cids
             \/ /\ \E some \in SUBSET cids : blocks' = blocks \cup some
                /\ UNCHANGED stored
        ELSE UNCHANGED <<blocks, stored>>
  BY DEF PutManyBlockHeaders
<1> DEFINE cids == ToSet(Cids(headers))
<1>2. CASE Encodes(headers) /\ blocks' = blocks \cup cids /\ stored' = stored \cup cids
  <2>1. ASSUME NEW c \in cids PROVE Contents[c].kind = "header" => Contents[c].header.cid = c
    <3>1. PICK i \in DOMAIN headers : c = headers[i].cid
      BY <2>1 DEF ToSet, Cids
    <3>2. headers[i] \notin Unencodable  BY <1>2 DEF Encodes
    <3>3. Contents[c] = [kind |-> "header", header |-> headers[i]]
      BY <3>1, <3>2, ContentsAssumption
    <3> QED  BY <3>1, <3>3
  <2> QED  BY <1>2, <2>1 DEF StoredIsThere
<1>3. CASE /\ \E some \in SUBSET cids : blocks' = blocks \cup some
           /\ UNCHANGED stored
  BY <1>3 DEF StoredIsThere
<1>4. CASE UNCHANGED <<blocks, stored>>  BY <1>4 DEF StoredIsThere
<1> QED  BY <1>1, <1>2, <1>3, <1>4

\* The steps of an import add to the block store or leave it alone, the failed import
\* among them.
LEMMA ImportKeeps ==
  ASSUME StoredIsThere, ImportBlock \/ ImportFails \/ FinishImport
  PROVE  StoredIsThere'
<1>1. blocks \subseteq blocks' /\ stored' = stored
  BY DEF ImportBlock, ImportFails, AfterFailedImport, FinishImport
<1> QED  BY <1>1 DEF StoredIsThere

\* What a caller was told is stored is there from then on, through failed puts and
\* imports, panics and restarts, and a header is read back as it was: for every set of
\* contents in which a cid decides what its block holds.
THEOREM PutsStay == StoreSpec => []PutsAreKept
<1>1. StoreInit => StoredIsThere  BY DEF StoreInit, StoredIsThere
<1>2. StoredIsThere /\ [StoreNext]_storeVars => StoredIsThere'
  <2> SUFFICES ASSUME StoredIsThere, [StoreNext]_storeVars PROVE StoredIsThere'  OBVIOUS
  <2>1. CASE PutCbor  BY <2>1, PutCborKeeps
  <2>2. CASE PutManyBlockHeaders  BY <2>2, PutManyKeeps
  <2>3. CASE ImportBlock \/ ImportFails \/ FinishImport  BY <2>3, ImportKeeps
  <2>4. CASE UNCHANGED <<blocks, stored>>  BY <2>4 DEF StoredIsThere
  <2>5. Load \/ GetMessage \/ BeginImport \/ SetGenesis \/ SetHeaviestTipSet \/ NewStore
          \/ Restart \/ UNCHANGED storeVars => UNCHANGED <<blocks, stored>>
    BY DEF Load, GetMessage, BeginImport, SetGenesis, SetHeaviestTipSet, NewStore,
           Restart, storeVars
  <2> QED  BY <2>1, <2>2, <2>3, <2>4, <2>5 DEF StoreNext
<1>3. StoredIsThere => PutsAreKept  BY DEF StoredIsThere, PutsAreKept, HeaderFound
<1> QED  BY <1>1, <1>2, <1>3, PTL DEF StoreSpec

-----------------------------------------------------------------------------
(* Loading.                                                                *)

\* The cids were asked for and their headers are there: load is what came of them.
Loaded(load, there) ==
  /\ load.asked \in Seq(Nat)
  /\ \A i \in DOMAIN load.asked :
       /\ load.asked[i] \in there \cap DOMAIN Contents
       /\ Contents[load.asked[i]].kind = "header"
  /\ FormTipSet(HeadersOf(load.asked))
  /\ load.tipset = NewTipSet(HeadersOf(load.asked))

\* The inductive invariant.
Consistent ==
  /\ blocks \subseteq DOMAIN Contents
  /\ genesis \in DOMAIN Contents \cup {NoCid}
  /\ importing = None \/ /\ importing.car \in Cars
                            /\ importing.left \subseteq importing.car.cids
  /\ \A load \in loaded : Loaded(load, blocks)
  /\ heaviest = None \/ IsTipSet(heaviest)
  /\ crashed \in BOOLEAN

LEMMA HeadersTyped ==
  ASSUME NEW cids \in Seq(Nat),
         \A i \in DOMAIN cids : /\ cids[i] \in DOMAIN Contents
                                /\ Contents[cids[i]].kind = "header"
  PROVE  /\ HeadersOf(cids) \in Seq(BlockHeader)
         /\ DOMAIN HeadersOf(cids) = DOMAIN cids
         /\ Len(HeadersOf(cids)) = Len(cids)
<1>1. /\ Len(cids) \in Nat /\ DOMAIN cids = 1..Len(cids)
      /\ HeadersOf(cids) = [i \in 1..Len(cids) |-> Contents[cids[i]].header]
  BY DEF HeadersOf
<1>2. \A i \in 1..Len(cids) : Contents[cids[i]].header \in BlockHeader
  BY <1>1, ContentsAssumption
<1> QED
  BY <1>1, <1>2

LEMMA LoadedTyped ==
  ASSUME NEW load, NEW there, Loaded(load, there)
  PROVE  LET headers == HeadersOf(load.asked) IN
         /\ headers \in Seq(BlockHeader) /\ FormTipSet(headers)
         /\ DOMAIN headers = DOMAIN load.asked /\ Len(headers) = Len(load.asked)
  BY HeadersTyped DEF Loaded

LEMMA LoadedIsTipSet ==
  ASSUME NEW load, NEW there, Loaded(load, there)
  PROVE  IsTipSet(load.tipset)
<1> DEFINE headers == HeadersOf(load.asked)
<1>1. headers \in Seq(BlockHeader) /\ FormTipSet(headers) /\ load.tipset = NewTipSet(headers)
  BY LoadedTyped DEF Loaded
<1> DEFINE ts == NewTipSet(headers)
<1> HIDE DEF headers
<1>2. /\ Len(headers) > 0
      /\ ts.cids = [i \in DOMAIN ts.blocks |-> ts.blocks[i].cid]
      /\ \A i \in DOMAIN ts.blocks : ts.blocks[i].height = ts.height
  BY <1>1, NewTipSetForms
<1>3. ts.blocks \in Seq(BlockHeader) /\ Len(ts.blocks) = Len(headers)
  BY <1>1, KeptAreGiven
<1> HIDE DEF ts
<1>4. Len(ts.cids) = Len(ts.blocks)
  <2>1. /\ ts.cids = [i \in 1..Len(ts.blocks) |-> ts.blocks[i].cid]
        /\ Len(ts.blocks) \in Nat
        /\ \A i \in 1..Len(ts.blocks) : ts.blocks[i].cid \in Int
    BY <1>2, <1>3, BlocksTyped
  <2>2. ts.cids \in Seq(Int)
    BY <2>1
  <2> QED
    BY <2>1, <2>2
<1>5. \A i \in DOMAIN ts.blocks : ts.cids[i] = ts.blocks[i].cid
  BY <1>2
<1>6. ts.blocks # <<>>
  BY <1>2, <1>3
<1> QED
  BY <1>1, <1>2, <1>4, <1>5, <1>6 DEF IsTipSet, ts

\* Nothing leaves the block store.
LEMMA LoadedStays ==
  ASSUME NEW load, NEW there, Loaded(load, there), NEW later, there \subseteq later
  PROVE  Loaded(load, later)
  BY DEF Loaded

LEMMA LoadKeeps ==
  ASSUME Consistent, NEW cids \in Seq(Nat), LoadTipSet(cids), blocks' = blocks
  PROVE  /\ \A load \in loaded' : Loaded(load, blocks')
         /\ crashed' \in BOOLEAN
<1>1. CASE CanLoad(cids)
  <2> DEFINE load == [asked |-> cids, tipset |-> NewTipSet(HeadersOf(cids))]
  <2>1. loaded' = loaded \cup {load} /\ crashed' = crashed
    BY <1>1 DEF LoadTipSet
  <2>2. \A i \in DOMAIN cids : /\ cids[i] \in blocks \cap DOMAIN Contents
                               /\ Contents[cids[i]].kind = "header"
    BY <1>1 DEF CanLoad, AllFound, HeaderFound, Consistent
  <2>3. Loaded(load, blocks)
    BY <1>1, <2>2 DEF Loaded, CanLoad
  <2> HIDE DEF load
  <2> QED
    BY <2>1, <2>3 DEF Consistent
<1>2. CASE ~CanLoad(cids)
  <2>1. loaded' = loaded /\ crashed' \in BOOLEAN
    BY <1>2 DEF LoadTipSet
  <2> QED
    BY <2>1 DEF Consistent
<1> QED
  BY <1>1, <1>2

LEMMA ConsistentStep ==
  ASSUME Consistent, [StoreNext]_storeVars
  PROVE  Consistent'
<1> USE DEF Consistent
<1>1. CASE PutCbor
  <2>1. PICK c \in DOMAIN Contents, put \in BOOLEAN :
          blocks' = IF put THEN blocks \cup {c} ELSE blocks
    BY <1>1 DEF PutCbor
  <2>2. blocks \subseteq blocks' /\ blocks' \subseteq DOMAIN Contents
    BY <2>1
  <2> QED
    BY <1>1, <2>2, LoadedStays DEF PutCbor
<1>2. CASE PutManyBlockHeaders
  <2>1. blocks \subseteq blocks' /\ blocks' \subseteq DOMAIN Contents
    <3>1. PICK headers \in HeaderLists :
            LET cids == ToSet(Cids(headers)) IN
            IF Encodes(headers)
            THEN \/ blocks' = blocks \cup cids
                 \/ \E some \in SUBSET cids : blocks' = blocks \cup some
            ELSE UNCHANGED blocks
      BY <1>2 DEF PutManyBlockHeaders
    <3>2. Encodes(headers) => ToSet(Cids(headers)) \subseteq DOMAIN Contents
      <4> SUFFICES ASSUME Encodes(headers), NEW i \in DOMAIN headers
                   PROVE  headers[i].cid \in DOMAIN Contents
        BY DEF ToSet, Cids
      <4> QED
        BY ContentsAssumption DEF Encodes
    <3> QED
      BY <3>1, <3>2
  <2> QED
    BY <1>2, <2>1, LoadedStays DEF PutManyBlockHeaders
<1>3. CASE Load
  <2>1. PICK cids \in CidLists : LoadTipSet(cids)
    BY <1>3 DEF Load
  <2>2. cids \in Seq(Nat) /\ blocks' = blocks
    BY <1>3, ContentsAssumption DEF Load
  <2> QED
    BY <1>3, <2>1, <2>2, LoadKeeps DEF Load
<1>4. CASE GetMessage
  BY <1>4 DEF GetMessage
<1>5. CASE BeginImport
  BY <1>5 DEF BeginImport
<1>6. CASE ImportBlock
  <2>1. PICK c \in importing.left :
          /\ blocks' = blocks \cup {c}
          /\ importing' = [importing EXCEPT !.left = @ \ {c}]
    BY <1>6 DEF ImportBlock
  <2>2. importing.car \in Cars /\ importing.left \subseteq importing.car.cids
    BY <1>6 DEF ImportBlock
  <2>3. blocks \subseteq blocks' /\ blocks' \subseteq DOMAIN Contents
    BY <2>1, <2>2, ContentsAssumption
  <2>4. importing'.car = importing.car /\ importing'.left \subseteq importing.left
    BY <2>1
  <2> QED
    BY <1>6, <2>2, <2>3, <2>4, LoadedStays DEF ImportBlock
<1>7. CASE ImportFails
  BY <1>7 DEF ImportFails, AfterFailedImport
<1>8. CASE FinishImport
  <2>1. importing.car.roots \in Seq(Nat) /\ blocks' = blocks
    BY <1>8, ContentsAssumption DEF FinishImport
  <2> QED
    BY <1>8, <2>1, LoadKeeps DEF FinishImport
<1>9. CASE SetGenesis
  BY <1>9 DEF SetGenesis
<1>10. CASE SetHeaviestTipSet
  BY <1>10, LoadedIsTipSet DEF SetHeaviestTipSet
<1>11. CASE NewStore \/ Restart
  BY <1>11 DEF NewStore, Restart
<1>12. CASE UNCHANGED storeVars
  BY <1>12 DEF storeVars
<1> QED
  BY <1>1, <1>2, <1>3, <1>4, <1>5, <1>6, <1>7, <1>8, <1>9, <1>10, <1>11, <1>12 DEF StoreNext

LEMMA AlwaysConsistent == StoreSpec => []Consistent
<1>1. StoreInit => Consistent
  BY DEF StoreInit, Consistent
<1> QED
  BY <1>1, ConsistentStep, PTL DEF StoreSpec

\* Whatever is put, imported and loaded, through crashes and restarts, the block store
\* holds known blocks and what was loaded and the heaviest tipset are tipsets.
THEOREM StoreTypeCorrect == StoreSpec => []StoreTypeOK
<1>1. Consistent => StoreTypeOK
  BY LoadedIsTipSet DEF Consistent, StoreTypeOK
<1> QED
  BY <1>1, AlwaysConsistent, PTL

\* A loaded tipset is of the blocks asked for and of as many, for every list of cids;
\* only what follows a header in its block may make its cid another.
THEOREM LoadsWhatIsAsked == StoreSpec => []LoadedAsAsked
<1>1. Consistent => LoadedAsAsked
  <2> SUFFICES ASSUME Consistent, NEW load \in loaded
               PROVE  /\ Len(load.tipset.cids) = Len(load.asked)
                      /\ \A c \in ToSet(load.tipset.cids) :
                           \/ c \in ToSet(load.asked)
                           \/ \E a \in ToSet(load.asked) :
                                a # c /\ Contents[a].header.cid = c
    BY DEF LoadedAsAsked
  <2> DEFINE ts == load.tipset
             headers == HeadersOf(load.asked)
  <2>1. Loaded(load, blocks)
    BY DEF Consistent
  <2>2. /\ headers \in Seq(BlockHeader) /\ FormTipSet(headers)
        /\ DOMAIN headers = DOMAIN load.asked /\ Len(headers) = Len(load.asked)
        /\ ts = NewTipSet(headers)
    BY <2>1, LoadedTyped DEF Loaded
  <2>3. IsTipSet(ts)
    BY <2>1, LoadedIsTipSet
  <2>4. \A i \in DOMAIN headers : headers[i] = Contents[load.asked[i]].header
    BY <2>2 DEF HeadersOf
  <2> HIDE DEF ts, headers
  <2>5. /\ Len(ts.blocks) = Len(headers) /\ DOMAIN ts.blocks = DOMAIN headers
        /\ ts.cids = [i \in DOMAIN ts.blocks |-> ts.blocks[i].cid]
        /\ \A k \in DOMAIN headers : \E i \in DOMAIN headers : ts.blocks[k] = headers[i]
    BY <2>2, KeptAreGiven, NewTipSetForms
  <2>6. Len(ts.cids) = Len(load.asked)
    BY <2>2, <2>3, <2>5 DEF IsTipSet
  <2>7. ASSUME NEW c \in ToSet(ts.cids)
        PROVE  \E a \in ToSet(load.asked) : Contents[a].header.cid = c
    <3>1. PICK k \in DOMAIN headers : c = ts.blocks[k].cid
      BY <2>5 DEF ToSet
    <3>2. PICK i \in DOMAIN headers : ts.blocks[k] = headers[i]
      BY <2>5
    <3>3. load.asked[i] \in ToSet(load.asked)
      BY <2>2 DEF ToSet
    <3> QED
      BY <2>4, <3>1, <3>2, <3>3
  <2> QED
    BY <2>6, <2>7 DEF ts
<1> QED
  BY <1>1, AlwaysConsistent, PTL

\* Every tipset ever loaded loads again, through loads, failed imports, crashes and
\* restarts since: as it was by the cids asked for, and by its own cids where these were
\* asked for, one of one or two blocks as it was.  For all contents that are content
\* addressed.
THEOREM LoadsTheSame == StoreSpec => []LoadsAgain
<1>1. Consistent => LoadsAgain
  <2> SUFFICES ASSUME Consistent, NEW load \in loaded
               PROVE  /\ CanLoad(load.asked)
                      /\ NewTipSet(HeadersOf(load.asked)) = load.tipset
                      /\ ToSet(load.tipset.cids) \subseteq ToSet(load.asked) =>
                           /\ CanLoad(load.tipset.cids)
                           /\ Len(load.tipset.cids) <= 2 =>
                                NewTipSet(HeadersOf(load.tipset.cids)) = load.tipset
    BY DEF LoadsAgain
  <2>1. Loaded(load, blocks)
    BY DEF Consistent
  <2>0. CanLoad(load.asked) /\ NewTipSet(HeadersOf(load.asked)) = load.tipset
    BY <2>1 DEF Loaded, CanLoad, AllFound, HeaderFound
  <2> SUFFICES ASSUME ToSet(load.tipset.cids) \subseteq ToSet(load.asked)
               PROVE  /\ CanLoad(load.tipset.cids)
                      /\ Len(load.tipset.cids) <= 2 =>
                           NewTipSet(HeadersOf(load.tipset.cids)) = load.tipset
    BY <2>0
  <2> DEFINE ts == load.tipset
             headers == HeadersOf(load.asked)
  <2>2. /\ headers \in Seq(BlockHeader) /\ FormTipSet(headers)
        /\ DOMAIN headers = DOMAIN load.asked
        /\ ts = NewTipSet(headers)
        /\ \A i \in DOMAIN headers : headers[i] = Contents[load.asked[i]].header
    BY <2>1, LoadedTyped DEF Loaded, HeadersOf
  <2>3. IsTipSet(ts)
    BY <2>1, LoadedIsTipSet
  <2>4. \A a \in ToSet(load.asked) :
          a \in blocks \cap DOMAIN Contents /\ Contents[a].kind = "header"
    BY <2>1 DEF Loaded, ToSet
  <2>5. AllFound(ts.cids)
    BY <2>4 DEF AllFound, HeaderFound, ToSet
  <2> HIDE DEF headers
  <2>6. /\ ts.blocks \in Seq(BlockHeader) /\ DOMAIN ts.blocks = DOMAIN headers
        /\ Len(ts.blocks) = Len(headers)
        /\ \A k \in DOMAIN headers : \E i \in DOMAIN headers : ts.blocks[k] = headers[i]
        /\ ts.cids = [i \in DOMAIN ts.blocks |-> ts.blocks[i].cid]
    BY <2>2, KeptAreGiven, NewTipSetForms
  <2>7. ASSUME NEW k \in DOMAIN ts.blocks
        PROVE  Contents[ts.cids[k]].header = ts.blocks[k]
    <3>1. PICK i \in DOMAIN headers : ts.blocks[k] = headers[i]
      BY <2>6
    <3> DEFINE a == load.asked[i]
    <3>2. a \in DOMAIN Contents /\ Contents[a].kind = "header"
      BY <2>2, <2>4 DEF ToSet
    <3>3. ts.cids[k] = ts.blocks[k].cid /\ ts.cids[k] \in ToSet(ts.cids)
      BY <2>6 DEF ToSet
    <3>4. ts.cids[k] \in DOMAIN Contents
      BY <2>4, <3>3
    <3>5. ts.blocks[k] = Contents[a].header /\ ts.cids[k] = Contents[a].header.cid
      BY <2>2, <3>1, <3>3
    <3> HIDE DEF a
    <3>6. Contents[ts.cids[k]] = Contents[a]
      BY <3>2, <3>4, <3>5, ContentsAssumption
    <3> QED
      BY <3>5, <3>6
  <2>8. HeadersOf(ts.cids) = ts.blocks
    <3>1. HeadersOf(ts.cids) = [k \in DOMAIN ts.blocks |-> Contents[ts.cids[k]].header]
      BY <2>6 DEF HeadersOf
    <3>2. HeadersOf(ts.cids) = [k \in DOMAIN ts.blocks |-> ts.blocks[k]]
      BY <2>7, <3>1
    <3> QED
      BY <2>6, <3>2
  <2>9. Len(ts.cids) = Len(headers)
    BY <2>3, <2>6 DEF IsTipSet
  <2>10. Len(headers) <= 2 => NewTipSet(ts.blocks) = ts
    BY <2>2, NewTipSetOfFew
  <2>11. FormTipSet(ts.blocks)
    <3>1. ts.blocks # <<>>
      BY <2>3 DEF IsTipSet
    <3>2. ~TicketPanics(ts.blocks)
      BY <2>2, <2>6 DEF FormTipSet, TicketPanics
    <3>3. Alike(ts.blocks)
      <4>1. Alike(headers)
        BY <2>2 DEF FormTipSet
      <4>2. SUFFICES ASSUME NEW k \in DOMAIN ts.blocks, NEW l \in DOMAIN ts.blocks
                     PROVE  /\ ts.blocks[k].height = ts.blocks[l].height
                            /\ ts.blocks[k].parents = ts.blocks[l].parents
        BY DEF Alike
      <4>3. PICK i \in DOMAIN headers : ts.blocks[k] = headers[i]
        BY <2>6
      <4>4. PICK j \in DOMAIN headers : ts.blocks[l] = headers[j]
        BY <2>6
      <4> QED
        BY <4>1, <4>3, <4>4 DEF Alike
    <3> QED
      BY <3>1, <3>2, <3>3 DEF FormTipSet
  <2> QED
    BY <2>5, <2>8, <2>9, <2>10, <2>11 DEF CanLoad
<1> QED
  BY <1>1, AlwaysConsistent, PTL

-----------------------------------------------------------------------------
(* The exchange.                                                           *)

-----------------------------------------------------------------------------
(* Types.                                                                  *)

\* The inductive invariant but for what is held.
Typed ==
  /\ phase \in {"idle", "loop", "sending"}
  /\ phase # "idle" => outcome = Nothing
  /\ cancelled \in BOOLEAN
  /\ answer \in Answers \cup {NoAnswer}
  /\ outcome.kind \in {"none", "result", "panic", "failed for all peers",
                       "context cancelled"}
  /\ made \in 0..MaxCalls

LEMMA Kinded ==
  /\ Nothing.kind = "none" /\ Panic.kind = "panic"
  /\ Failure("failed for all peers").kind = "failed for all peers"
  /\ Failure("context cancelled").kind = "context cancelled"
  BY DEF Nothing, Panic, Failure

LEMMA ResultKind ==
  ASSUME NEW tipsets, NEW messages, NEW full
  PROVE  Result(tipsets, messages, full).kind = "result"
  BY DEF Result

LEMMA MaxCallsNat == MaxCalls \in Nat
  BY LengthAssumption

LEMMA EndTyped ==
  ASSUME Typed, NEW ending, EndCall(ending), answer' \in Answers \cup {NoAnswer},
         ending.kind \in {"result", "panic", "failed for all peers",
                          "context cancelled"}
  PROVE  Typed'
  BY DEF Typed, EndCall

LEMMA TypedStep ==
  ASSUME Typed, [Next]_vars
  PROVE  Typed'
<1>1. ASSUME NEW c, BeginCall(c) PROVE Typed'
  <2>1. made + 1 \in 0..MaxCalls
    <3>1. made \in 0..MaxCalls /\ made < MaxCalls
      BY <1>1 DEF BeginCall, Typed
    <3> QED
      BY <3>1, MaxCallsNat
  <2> QED
    BY <1>1, <2>1, Kinded DEF BeginCall, Typed
<1>2. CASE Cancel
  BY <1>2 DEF Cancel, Typed
<1>3. CASE GiveUp
  BY <1>3, Kinded, EndTyped DEF GiveUp, Typed
<1>4. CASE NoticeCancelled
  BY <1>4, Kinded, EndTyped DEF NoticeCancelled, Typed
<1>5. CASE AskPeer
  BY <1>5 DEF AskPeer, Typed
<1>6. CASE SendFails \/ RejectAnswer
  BY <1>6 DEF SendFails, RejectAnswer, Typed
<1>7. CASE DieOfAnswer
  BY <1>7, Kinded, EndTyped DEF DieOfAnswer
<1>8. CASE ReturnBlocks
  <2>1. PICK a \in Answers :
          answer' = a /\ EndCall(Result(TipSetsOf(a.chain), <<>>, <<>>))
    BY <1>8 DEF ReturnBlocks
  <2> QED
    BY <2>1, Kinded, ResultKind, EndTyped
<1>9. CASE ReturnFullTipSet
  <2>1. PICK a \in Answers :
          /\ answer' = a
          /\ \/ EndCall(Panic)
             \/ EndCall(Result(<<>>, <<>>, FullTipSet(TipSetsOf(a.chain)[1], a.chain[1].messages)))
    BY <1>9 DEF ReturnFullTipSet
  <2> QED
    BY <2>1, Kinded, ResultKind, EndTyped
<1>10. CASE ReturnMessages
  <2>1. PICK a \in Answers :
          /\ answer' = a
          /\ EndCall(Result(<<>>, [i \in DOMAIN a.chain |-> a.chain[i].messages], <<>>))
    BY <1>10 DEF ReturnMessages
  <2> QED
    BY <2>1, Kinded, ResultKind, EndTyped
<1>11. CASE Terminated \/ UNCHANGED vars
  BY <1>11 DEF Terminated, vars, Typed
<1>12. CASE GetMessagesOfNone
  <2>1. made + 1 \in 0..MaxCalls
    <3>1. made \in 0..MaxCalls /\ made < MaxCalls
      BY <1>12 DEF GetMessagesOfNone, Typed
    <3> QED
      BY <3>1, MaxCallsNat
  <2> QED
    BY <1>12, <2>1, Kinded DEF GetMessagesOfNone, Typed
<1> QED
  BY <1>1, <1>2, <1>3, <1>4, <1>5, <1>6, <1>7, <1>8, <1>9, <1>10, <1>11, <1>12
  DEF Next, SendEnds, GetBlocks, GetFullTipSet, GetChainMessages

LEMMA AlwaysTyped == Spec => []Typed
<1>1. Init => Typed
  <2>1. 0 \in 0..MaxCalls
    BY MaxCallsNat
  <2> QED
    BY <2>1, Kinded DEF Init, Typed
<1> QED
  BY <1>1, TypedStep, PTL DEF Spec

-----------------------------------------------------------------------------
(* Tipsets built of a valid answer.                                        *)

LEMMA ChainTyped ==
  ASSUME NEW a \in Answers
  PROVE  /\ Len(a.chain) \in Nat /\ DOMAIN a.chain = 1..Len(a.chain)
         /\ a.chain = <<>> <=> Len(a.chain) = 0
<1>1. a.chain \in Seq(ToSet(a.chain))
  BY AnswersAssumption
<1> QED
  BY <1>1

LEMMA TipSetsTyped ==
  ASSUME NEW a \in Answers, \A i \in DOMAIN a.chain : FormTipSet(a.chain[i].blocks)
  PROVE  /\ TipSetsOf(a.chain) \in Seq(TipSets)
         /\ Len(TipSetsOf(a.chain)) = Len(a.chain)
         /\ DOMAIN TipSetsOf(a.chain) = DOMAIN a.chain
         /\ \A i \in DOMAIN a.chain :
              /\ TipSetsOf(a.chain)[i] = NewTipSet(a.chain[i].blocks)
              /\ a.chain[i].blocks \in Seq(BlockHeader)
              /\ TipSetsOf(a.chain)[i] \in TipSets
              /\ Len(TipSetsOf(a.chain)[i].cids) = Len(a.chain[i].blocks)
<1>1. Len(a.chain) \in Nat /\ DOMAIN a.chain = 1..Len(a.chain)
  BY ChainTyped
<1>2. \A i \in DOMAIN a.chain : a.chain[i].blocks \in Seq(BlockHeader)
  BY AnswersAssumption
<1>3. \A i \in DOMAIN a.chain : /\ NewTipSet(a.chain[i].blocks) \in TipSets
                                /\ Len(NewTipSet(a.chain[i].blocks).cids)
                                     = Len(a.chain[i].blocks)
  BY <1>2, NewTipSetTyped
<1>4. TipSetsOf(a.chain) = [i \in 1..Len(a.chain) |-> NewTipSet(a.chain[i].blocks)]
  BY <1>1 DEF TipSetsOf
<1> QED
  BY <1>1, <1>2, <1>3, <1>4

LEMMA SameToSet ==
  ASSUME NEW s
  PROVE  R!ToSet(s) = ToSet(s)
  BY DEF ToSet, R!ToSet

\* What the checks of an answer establish of the tipsets made of it: a segment of the
\* chain that ends at the head asked for.  The provers see R's operators apart from
\* those of this module.
LEMMA SegmentOfAnswer ==
  ASSUME NEW c, c.head \in Heads, WantsHeaders(c),
         NEW a \in Answers, AnswerValid(c, a)
  PROVE  /\ R!IsSegment(c.head, TipSetsOf(a.chain))
         /\ \A i \in DOMAIN a.chain : FormTipSet(a.chain[i].blocks)
<1> DEFINE tipsets == TipSetsOf(a.chain)
<1>1. /\ \A i \in DOMAIN a.chain : FormTipSet(a.chain[i].blocks)
      /\ HeadMatches(tipsets, c.head) /\ Connected(tipsets) /\ a.chain # <<>>
  BY DEF AnswerValid, HeadersFit, LengthFits
<1>2. /\ tipsets \in Seq(TipSets) /\ Len(tipsets) = Len(a.chain)
      /\ DOMAIN tipsets = DOMAIN a.chain
      /\ \A i \in DOMAIN tipsets :
           /\ tipsets[i] = NewTipSet(a.chain[i].blocks)
           /\ a.chain[i].blocks \in Seq(BlockHeader)
           /\ tipsets[i] \in TipSets
  BY <1>1, TipSetsTyped
<1>3. Len(tipsets) \in Nat \ {0} /\ DOMAIN tipsets = 1..Len(tipsets)
  BY <1>1, <1>2, ChainTyped
<1> HIDE DEF tipsets
<1>4. ASSUME NEW i \in DOMAIN tipsets
      PROVE  /\ tipsets[i].blocks \in Seq(BlockHeader) /\ tipsets[i].blocks # <<>>
             /\ tipsets[i].cids \in Seq(Nat) /\ tipsets[i].height \in Int
             /\ tipsets[i].cids
                  = [j \in DOMAIN tipsets[i].blocks |-> tipsets[i].blocks[j].cid]
             /\ \A j \in DOMAIN tipsets[i].blocks :
                  /\ tipsets[i].blocks[j].height = tipsets[i].height
                  /\ tipsets[i].blocks[j].parents = tipsets[i].blocks[1].parents
  <2> DEFINE blks == a.chain[i].blocks
  <2>1. blks \in Seq(BlockHeader) /\ FormTipSet(blks) /\ tipsets[i] = NewTipSet(blks)
    BY <1>1, <1>2
  <2> HIDE DEF blks
  <2>2. NewTipSet(blks).blocks \in Seq(BlockHeader) /\ Len(NewTipSet(blks).blocks) > 0
    BY <2>1, NewTipSetForms, KeptAreGiven
  <2>3. tipsets[i].blocks # <<>>
    BY <2>1, <2>2
  <2>4. NewTipSet(blks) \in TipSets
    BY <2>1, NewTipSetTyped
  <2>5. NewTipSet(blks).cids \in Seq(Nat) /\ NewTipSet(blks).height \in Int
    BY <2>4 DEF TipSets
  <2> DEFINE ts == NewTipSet(blks)
  <2>6. /\ ts.cids = [j \in DOMAIN ts.blocks |-> ts.blocks[j].cid]
        /\ \A j \in DOMAIN ts.blocks : /\ ts.blocks[j].height = ts.height
                                       /\ ts.blocks[j].parents = ts.blocks[1].parents
    BY <2>1, NewTipSetForms
  <2>7. tipsets[i] = ts
    BY <2>1
  <2> HIDE DEF ts
  <2> QED
    BY <2>2, <2>3, <2>5, <2>6, <2>7 DEF ts
<1>5. \A i \in DOMAIN tipsets : R!IsTipSet(tipsets[i])
  BY <1>4 DEF R!IsTipSet
<1>6. \A i \in DOMAIN tipsets : R!CidSet(tipsets[i]) = ToSet(tipsets[i].cids)
  <2> SUFFICES ASSUME NEW i \in DOMAIN tipsets
               PROVE  R!CidSet(tipsets[i]) = ToSet(tipsets[i].cids)
    OBVIOUS
  <2> DEFINE bs == tipsets[i].blocks
             cs == tipsets[i].cids
  <2>1. cs = [j \in DOMAIN bs |-> bs[j].cid]
    BY <1>4
  <2>2. R!CidSet(tipsets[i]) = {bs[j].cid : j \in DOMAIN bs}
    BY DEF R!CidSet
  <2> HIDE DEF bs, cs
  <2>3. {bs[j].cid : j \in DOMAIN bs} = ToSet(cs)
    BY <2>1 DEF ToSet
  <2> QED
    BY <2>2, <2>3 DEF cs
<1>7. 1 \in DOMAIN tipsets
  BY <1>3
<1>8. R!CidSet(tipsets[1]) = ToSet(c.head)
  <2>1. CidArrsEqual(tipsets[1].cids, c.head)
    BY <1>1 DEF HeadMatches
  <2>2. c.head \in Seq(Nat) /\ IsInjective(c.head) /\ tipsets[1].cids \in Seq(Nat)
    BY <1>4, <1>7, HeadsAssumption
  <2>3. ToSet(tipsets[1].cids) = ToSet(c.head)
    BY <2>1, <2>2, SameCids
  <2> QED
    BY <1>6, <1>7, <2>3
<1>9. ASSUME NEW i \in 1..Len(tipsets) - 1
      PROVE  /\ \A j \in DOMAIN tipsets[i].blocks :
                  R!CidSet(tipsets[i + 1]) \subseteq ToSet(tipsets[i].blocks[j].parents)
             /\ tipsets[i].height > tipsets[i + 1].height
  <2>1. i \in DOMAIN tipsets /\ i + 1 \in DOMAIN tipsets
    BY <1>3
  <2>2. IsChildOf(tipsets[i], tipsets[i + 1])
    BY <1>1 DEF Connected
  <2>3. ToSet(tipsets[i + 1].cids) \subseteq ToSet(tipsets[i].blocks[1].parents)
    BY <2>2 DEF IsChildOf, CidArrsEqual
  <2>4. tipsets[i].height > tipsets[i + 1].height
    BY <2>2 DEF IsChildOf
  <2> QED
    BY <1>4, <1>6, <2>1, <2>3, <2>4
<1>10. tipsets # <<>>
  BY <1>3
<1> QED
  <2>1. R!IsSegment(c.head, tipsets)
    BY <1>5, <1>8, <1>9, <1>10, SameToSet DEF R!IsSegment
  <2> QED
    BY <1>1, <2>1 DEF tipsets

\* A full tipset has the blocks of the tipset it is made of.
LEMMA FullTipSetOfAnswer ==
  ASSUME NEW c, c.head \in Heads, WantsHeaders(c),
         NEW a \in Answers, AnswerValid(c, a)
  PROVE  LET full == FullTipSet(TipSetsOf(a.chain)[1], a.chain[1].messages) IN
         /\ Len(full) = Len(c.head)
         /\ {full[i].header.cid : i \in DOMAIN full} = ToSet(c.head)
<1> DEFINE tipsets == TipSetsOf(a.chain)
           ts == tipsets[1]
           full == FullTipSet(ts, a.chain[1].messages)
<1>1. R!IsSegment(c.head, tipsets) /\ \A i \in DOMAIN a.chain : FormTipSet(a.chain[i].blocks)
  BY SegmentOfAnswer
<1>2. a.chain # <<>> /\ CidArrsEqual(ts.cids, c.head)
  BY DEF AnswerValid, LengthFits, HeadersFit, HeadMatches
<1>3. 1 \in DOMAIN a.chain
  BY <1>2, ChainTyped
<1>4. /\ ts = NewTipSet(a.chain[1].blocks) /\ a.chain[1].blocks \in Seq(BlockHeader)
      /\ Len(ts.cids) = Len(a.chain[1].blocks)
  BY <1>1, <1>3, TipSetsTyped
<1>5. ts.blocks \in Seq(BlockHeader) /\ Len(ts.blocks) = Len(a.chain[1].blocks)
  BY <1>4, KeptAreGiven
<1>6. {ts.blocks[i].cid : i \in DOMAIN ts.blocks} = ToSet(c.head)
  BY <1>1, SameToSet DEF R!IsSegment, R!CidSet
<1>7. Len(c.head) = Len(ts.blocks)
  BY <1>2, <1>4, <1>5 DEF CidArrsEqual
<1> DEFINE own(i) == [kind \in Kinds |->
                        [j \in DOMAIN a.chain[1].messages[kind].includes[i] |->
                           a.chain[1].messages[kind].list[
                             a.chain[1].messages[kind].includes[i][j] + 1]]]
<1>8. full = [i \in DOMAIN ts.blocks |-> [header |-> ts.blocks[i], messages |-> own(i)]]
  BY DEF FullTipSet
<1> HIDE DEF own
<1>9. DOMAIN full = DOMAIN ts.blocks /\ \A i \in DOMAIN full : full[i].header = ts.blocks[i]
  BY <1>8
<1> HIDE DEF full, ts
<1>10. Len(full) = Len(ts.blocks)
  <2>1. Len(ts.blocks) \in Nat /\ DOMAIN ts.blocks = 1..Len(ts.blocks)
    BY <1>5, BlocksTyped
  <2>2. full = [i \in 1..Len(ts.blocks) |-> full[i]]
    BY <1>8, <2>1 DEF full
  <2>3. full \in Seq({full[i] : i \in 1..Len(ts.blocks)})
    BY <2>1, <2>2
  <2> QED
    BY <1>9, <2>1, <2>3
<1>11. {full[i].header.cid : i \in DOMAIN full} = {ts.blocks[i].cid : i \in DOMAIN ts.blocks}
  BY <1>9
<1> QED
  BY <1>6, <1>7, <1>10, <1>11 DEF full, ts

\* Message lists fit the caller's tipsets, of which there are enough.
LEMMA MessagesOfAnswer ==
  ASSUME NEW c, c.api = "GetChainMessages",
         c.tipsets \in Seq(TipSets), c.length = Len(c.tipsets),
         NEW a \in Answers, AnswerValid(c, a)
  PROVE  LET messages == [i \in DOMAIN a.chain |-> a.chain[i].messages] IN
         /\ Len(messages) \in 1..Len(c.tipsets)
         /\ \A i \in DOMAIN messages : R!FitsTipSet(messages[i], c.tipsets[i])
<1> DEFINE messages == [i \in DOMAIN a.chain |-> a.chain[i].messages]
<1>1. /\ Len(a.chain) \in Nat /\ DOMAIN a.chain = 1..Len(a.chain) /\ Len(a.chain) # 0
      /\ Len(a.chain) <= Len(c.tipsets)
  BY ChainTyped DEF AnswerValid, LengthFits
<1>2. Len(c.tipsets) \in Nat /\ DOMAIN c.tipsets = 1..Len(c.tipsets)
  OBVIOUS
<1>3. Len(messages) = Len(a.chain)
  <2>1. messages = [i \in 1..Len(a.chain) |-> a.chain[i].messages]
    BY <1>1
  <2>2. messages \in Seq({a.chain[i].messages : i \in DOMAIN a.chain})
    BY <1>1, <2>1
  <2> QED
    BY <1>1, <2>1, <2>2
<1>4. BlocksFor(c, a.chain) = [i \in DOMAIN c.tipsets |-> c.tipsets[i].blocks]
  BY DEF BlocksFor, WantsHeaders
<1>5. ASSUME NEW i \in DOMAIN a.chain PROVE R!FitsTipSet(messages[i], c.tipsets[i])
  <2>1. IndicesFit(a.chain[i].messages, BlocksFor(c, a.chain)[i])
    BY DEF AnswerValid, MessagesFit, WantsMessages
  <2>2. BlocksFor(c, a.chain)[i] = c.tipsets[i].blocks
    BY <1>1, <1>2, <1>4
  <2> QED
    BY <2>1, <2>2 DEF IndicesFit, Kinds, R!FitsTipSet
<1>6. Len(messages) \in 1..Len(c.tipsets) /\ DOMAIN messages = DOMAIN a.chain
  BY <1>1, <1>2, <1>3
<1> HIDE DEF messages
<1> QED
  BY <1>5, <1>6 DEF messages

-----------------------------------------------------------------------------
(* Calls.                                                                  *)

IsCall(c) ==
  \/ /\ c.api \in {"GetBlocks", "GetFullTipSet"}
     /\ c.head \in Heads /\ c.length \in Nat
  \/ /\ c.api = "GetChainMessages"
     /\ c.tipsets \in Seq(TipSets) /\ c.length = Len(c.tipsets)

\* A call is being served unless the client is idle; the caller holds tipsets.
CallsFit ==
  /\ call = NoCall \/ IsCall(call)
  /\ phase # "idle" => IsCall(call)
  /\ held \in Seq(TipSets)
  /\ \A i \in DOMAIN held : Len(held[i].cids) = Len(held[i].blocks)

LEMMA CallsAreNot ==
  ASSUME NEW c, IsCall(c)
  PROVE  c # NoCall
  BY DEF IsCall, NoCall

LEMMA LengthNat ==
  ASSUME NEW c, IsCall(c)
  PROVE  c.length \in Nat
  BY DEF IsCall

LEMMA CountsAreNat ==
  ASSUME NEW count \in Counts
  PROVE  AsUint64(count) \in Nat
  BY LengthAssumption DEF AsUint64

\* The calls of the client's three methods.
LEMMA BegunIsCall ==
  ASSUME CallsFit, GetBlocks \/ GetFullTipSet \/ GetChainMessages
  PROVE  /\ IsCall(call') /\ phase = "idle" /\ outcome # Panic
         /\ phase' = "loop" /\ outcome' = Nothing /\ held' = held
<1>1. CASE GetBlocks
  <2>1. PICK head \in Heads, count \in Counts :
          BeginCall([api |-> "GetBlocks", head |-> head, length |-> AsUint64(count),
                     tipsets |-> <<>>])
    BY <1>1 DEF GetBlocks
  <2>2. AsUint64(count) \in Nat
    BY CountsAreNat
  <2> QED
    BY <2>1, <2>2 DEF BeginCall, IsCall
<1>2. CASE GetFullTipSet
  BY <1>2 DEF GetFullTipSet, BeginCall, IsCall
<1>3. CASE GetChainMessages
  BY <1>3 DEF GetChainMessages, BeginCall, IsCall, CallsFit
<1> QED
  BY <1>1, <1>2, <1>3

LEMMA CallsFitStep ==
  ASSUME CallsFit, Typed, [Next]_vars
  PROVE  CallsFit'
<1>1. CASE GetBlocks \/ GetFullTipSet \/ GetChainMessages
  BY <1>1, BegunIsCall DEF CallsFit
<1>2. CASE Cancel
  BY <1>2 DEF Cancel, CallsFit
<1>3. CASE GiveUp \/ NoticeCancelled \/ DieOfAnswer
  BY <1>3 DEF GiveUp, NoticeCancelled, DieOfAnswer, EndCall, CallsFit
<1>4. CASE AskPeer
  BY <1>4 DEF AskPeer, CallsFit
<1>5. CASE SendFails \/ RejectAnswer
  BY <1>5 DEF SendFails, RejectAnswer, CallsFit
<1>6. CASE ReturnBlocks
  <2>1. PICK a \in Answers :
          /\ AnswerValid(call, a) /\ call.api = "GetBlocks"
          /\ held' = TipSetsOf(a.chain) /\ phase' = "idle" /\ call' = call
    BY <1>6 DEF ReturnBlocks, EndCall
  <2>2. \A i \in DOMAIN a.chain : FormTipSet(a.chain[i].blocks)
    BY <2>1 DEF AnswerValid, WantsHeaders, HeadersFit
  <2>3. held' \in Seq(TipSets) /\ DOMAIN held' = DOMAIN a.chain
    BY <2>1, <2>2, TipSetsTyped
  <2>4. ASSUME NEW i \in DOMAIN a.chain
        PROVE  Len(held'[i].cids) = Len(held'[i].blocks)
    <3>1. /\ held'[i] = NewTipSet(a.chain[i].blocks)
          /\ a.chain[i].blocks \in Seq(BlockHeader)
          /\ Len(held'[i].cids) = Len(a.chain[i].blocks)
      BY <2>1, <2>2, TipSetsTyped
    <3> QED
      BY <3>1, KeptAreGiven
  <2> QED
    BY <2>1, <2>3, <2>4 DEF CallsFit
<1>7. CASE ReturnFullTipSet \/ ReturnMessages
  BY <1>7 DEF ReturnFullTipSet, ReturnMessages, EndCall, CallsFit
<1>8. CASE Terminated \/ UNCHANGED vars
  BY <1>8 DEF Terminated, vars, CallsFit
<1>9. CASE GetMessagesOfNone
  <2>1. <<>> \in Seq(TipSets) /\ Len(<<>>) = 0
    OBVIOUS
  <2>2. IsCall(call')
    BY <1>9, <2>1 DEF GetMessagesOfNone, IsCall
  <2> QED
    BY <1>9, <2>2 DEF GetMessagesOfNone, CallsFit
<1> QED
  BY <1>1, <1>2, <1>3, <1>4, <1>5, <1>6, <1>7, <1>8, <1>9 DEF Next, SendEnds

LEMMA AlwaysFit == Spec => [](Typed /\ CallsFit)
<1>1. Init => CallsFit
  BY DEF Init, CallsFit
<1>2. CallsFit /\ Typed /\ [Next]_vars => CallsFit'
  BY CallsFitStep
<1> QED
  BY <1>1, <1>2, AlwaysTyped, PTL DEF Spec

\* The client is in one of its phases, a call's length is no negative number, and what
\* a caller holds has as many cids as blocks, for all answers peers may send.
THEOREM TypeCorrect == Spec => []TypeOK
<1>1. Typed /\ CallsFit => TypeOK
  BY LengthNat DEF Typed, CallsFit, TypeOK
<1> QED
  BY <1>1, AlwaysFit, PTL

-----------------------------------------------------------------------------
(* The order of blocks in answers.                                         *)

\* Whatever blocks an answer holds, in whatever order: the tipset is the same.
THEOREM OrderDoesNotMatter == Spec => []OrderIndependent
<1>1. Typed => OrderIndependent
  <2> SUFFICES ASSUME Typed, answer # NoAnswer, NEW i \in DOMAIN answer.chain,
                      FormTipSet(answer.chain[i].blocks),
                      NEW p \in Permutings(answer.chain[i].blocks)
               PROVE  LET blks == answer.chain[i].blocks
                          permuted == [j \in DOMAIN blks |-> blks[p[j]]]
                      IN FormTipSet(permuted) /\ NewTipSet(permuted) = NewTipSet(blks)
    BY DEF OrderIndependent
  <2> DEFINE blks == answer.chain[i].blocks
  <2>1. blks \in Seq(BlockHeader) /\ CidsDecide(blks)
    BY AnswersAssumption DEF Typed
  <2>2. p \in [DOMAIN blks -> DOMAIN blks] /\ IsInjective(p)
    BY DEF Permutings
  <2> HIDE DEF blks
  <2>3. FormTipSet(Permuted(blks, p)) /\ NewTipSet(Permuted(blks, p)) = NewTipSet(blks)
    BY <2>1, <2>2, NewTipSetPermuted DEF blks
  <2> QED
    BY <2>3 DEF Permuted, blks
<1> QED
  BY <1>1, AlwaysTyped, PTL

-----------------------------------------------------------------------------
(* Panics.                                                                 *)

LEMMA PanicOfHeaders ==
  ASSUME NEW c, NEW a \in Answers, AnswerPanics(c, a)
  PROVE  ~AnswerValid(c, a) /\ HeadersPanic(a.chain)
<1>1. WantsHeaders(c) /\ HeadersPanic(a.chain)
  BY DEF AnswerPanics
<1>2. PICK i \in DOMAIN a.chain : TicketPanics(a.chain[i].blocks)
  BY <1>1 DEF HeadersPanic
<1>3. ~FormTipSet(a.chain[i].blocks)
  BY <1>2 DEF FormTipSet
<1> QED
  BY <1>1, <1>2, <1>3 DEF AnswerValid, HeadersFit

LEMMA ElementTyped ==
  ASSUME NEW S, NEW s \in Seq(S), NEW j \in DOMAIN s
  PROVE  s[j] \in S
  OBVIOUS

\* toFullTipSets goes out of bounds only by an index that passed as a negative int.
LEMMA PanicOfIndex ==
  ASSUME NEW c, c.api = "GetFullTipSet", NEW a \in Answers, AnswerValid(c, a),
         FullTipSetPanics(TipSetsOf(a.chain)[1], a.chain[1].messages)
  PROVE  \E kind \in Kinds :
           \E indices \in ToSet(a.chain[1].messages[kind].includes) :
             \E mi \in ToSet(indices) : mi > MaxInt
<1> DEFINE blks == a.chain[1].blocks
           messages == a.chain[1].messages
           ts == NewTipSet(blks)
<1>1. /\ \A i \in DOMAIN a.chain : FormTipSet(a.chain[i].blocks)
      /\ MessagesFit(c, a.chain) /\ WantsHeaders(c) /\ a.chain # <<>>
  BY DEF AnswerValid, WantsHeaders, WantsMessages, HeadersFit, LengthFits
<1>2. 1 \in DOMAIN a.chain
  BY <1>1, ChainTyped
<1>3. /\ TipSetsOf(a.chain)[1] = ts /\ blks \in Seq(BlockHeader)
  BY <1>1, <1>2, TipSetsTyped
<1>4. messages # NoMessages /\ IndicesFit(messages, blks)
  <2>1. BlocksFor(c, a.chain) = [i \in DOMAIN a.chain |-> a.chain[i].blocks]
    BY <1>1 DEF BlocksFor
  <2>2. BlocksFor(c, a.chain)[1] = blks
    BY <1>2, <2>1
  <2> QED
    BY <1>1, <1>2, <2>2 DEF MessagesFit
<1>5. \A kind \in Kinds : /\ messages[kind].includes \in Seq(Seq(0..2 * MaxInt + 1))
                          /\ Len(messages[kind].list) \in Nat
  BY <1>2, <1>4, AnswersAssumption
<1>6. DOMAIN ts.blocks = 1..Len(blks) /\ Len(blks) \in Nat
  BY <1>3, KeptAreGiven, BlocksTyped
<1> HIDE DEF blks, messages, ts
<1>7. PICK kind \in Kinds, i \in DOMAIN ts.blocks :
        \/ i > Len(messages[kind].includes)
        \/ \E j \in DOMAIN messages[kind].includes[i] :
             messages[kind].includes[i][j] >= Len(messages[kind].list)
  BY <1>3 DEF FullTipSetPanics, messages
<1> DEFINE includes == messages[kind].includes
           size == Len(messages[kind].list)
<1>8. /\ includes \in Seq(Seq(0..2 * MaxInt + 1)) /\ size \in Nat
      /\ Len(includes) = Len(blks)
      /\ \A k \in DOMAIN includes : \A j \in DOMAIN includes[k] :
           AsInt(includes[k][j]) < size
  BY <1>4, <1>5 DEF IndicesFit
<1> HIDE DEF includes, size
<1>9. i \in DOMAIN includes /\ ~(i > Len(includes))
  BY <1>6, <1>8
<1>10. PICK j \in DOMAIN includes[i] : includes[i][j] >= size
  BY <1>7, <1>9 DEF includes, size
<1> DEFINE mi == includes[i][j]
<1>11. mi \in Int
  <2>1. includes[i] \in Seq(0..2 * MaxInt + 1)
    BY <1>8, <1>9
  <2>2. mi \in 0..2 * MaxInt + 1
    BY <1>10, <2>1, ElementTyped
  <2>3. MaxInt \in Nat
    BY LengthAssumption
  <2> QED
    BY <2>2, <2>3
<1>12. AsInt(mi) < size
  BY <1>8, <1>9, <1>10
<1> HIDE DEF mi
<1>13. mi >= size
  BY <1>10 DEF mi
<1>14. mi > MaxInt
  BY <1>8, <1>11, <1>12, <1>13, LengthAssumption DEF AsInt
<1>15. includes[i] \in ToSet(includes) /\ mi \in ToSet(includes[i])
  BY <1>9, <1>10 DEF ToSet, mi
<1> QED
  BY <1>14, <1>15 DEF includes, messages

\* The program dies of the two known defects, of nothing else in an answer, and of no
\* other call than one for the messages of no tipsets.
THEOREM DiesOnlyOfTheKnown == Spec => []OnlyKnownPanics
<1>1. Init => OnlyKnownPanics
  BY DEF Init, OnlyKnownPanics, Nothing, Panic
<1>2. ASSUME Typed, OnlyKnownPanics, [Next]_vars
      PROVE  OnlyKnownPanics'
  <2>1. Nothing # Panic /\ Failure("failed for all peers") # Panic
          /\ Failure("context cancelled") # Panic
    BY DEF Nothing, Panic, Failure
  <2>2. \A tipsets, messages, full : Result(tipsets, messages, full) # Panic
    <3> TAKE tipsets, messages, full
    <3> QED
      BY Kinded, ResultKind
  <2>3. CASE outcome' # Panic
    BY <2>3 DEF OnlyKnownPanics
  <2>4. CASE outcome' = Panic
    <3>1. CASE DieOfAnswer
      <4>1. answer' \in Answers /\ AnswerPanics(call, answer') /\ call' = call
        BY <3>1 DEF DieOfAnswer, EndCall
      <4> QED
        BY <4>1, PanicOfHeaders DEF OnlyKnownPanics
    <3>2. CASE ReturnFullTipSet
      <4>1. PICK a \in Answers :
              /\ call.api = "GetFullTipSet" /\ AnswerValid(call, a) /\ answer' = a
              /\ EndCall(IF FullTipSetPanics(TipSetsOf(a.chain)[1], a.chain[1].messages)
                         THEN Panic
                         ELSE Result(<<>>, <<>>, FullTipSet(TipSetsOf(a.chain)[1],
                                                            a.chain[1].messages)))
        BY <3>2 DEF ReturnFullTipSet
      <4>2. FullTipSetPanics(TipSetsOf(a.chain)[1], a.chain[1].messages) /\ call' = call
        BY <2>2, <2>4, <4>1 DEF EndCall
      <4> QED
        BY <4>1, <4>2, PanicOfIndex DEF OnlyKnownPanics
    <3>3. CASE Terminated \/ UNCHANGED vars
      BY <1>2, <3>3 DEF Terminated, vars, OnlyKnownPanics
    <3>4. ~(GetBlocks \/ GetFullTipSet \/ GetChainMessages)
      BY <2>1, <2>4 DEF GetBlocks, GetFullTipSet, GetChainMessages, BeginCall
    <3>5. ~(Cancel \/ AskPeer \/ SendFails \/ RejectAnswer)
      BY <1>2, <2>1, <2>4 DEF Cancel, AskPeer, SendFails, RejectAnswer, Typed
    <3>6. ~(GiveUp \/ NoticeCancelled)
      BY <2>1, <2>4 DEF GiveUp, NoticeCancelled, EndCall
    <3>7. ~(ReturnBlocks \/ ReturnMessages)
      BY <2>2, <2>4 DEF ReturnBlocks, ReturnMessages, EndCall
    <3>8. CASE GetMessagesOfNone
      BY <3>8 DEF GetMessagesOfNone, OnlyKnownPanics
    <3> QED
      BY <1>2, <3>1, <3>2, <3>3, <3>4, <3>5, <3>6, <3>7, <3>8 DEF Next, SendEnds
  <2> QED
    BY <2>3, <2>4
<1> QED
  BY <1>1, <1>2, AlwaysTyped, PTL DEF Spec

-----------------------------------------------------------------------------
(* The refinement.                                                         *)

pendingBar == IF phase = "idle" THEN NoCall ELSE call

LEMMA SameNames ==
  /\ R!NoCall = NoCall /\ R!Nothing = Nothing /\ R!Panic = Panic
  /\ Failure("failed for all peers") \in R!Failures
  /\ Failure("context cancelled") \in R!Failures
  BY DEF R!NoCall, NoCall, R!Nothing, Nothing, R!Panic, Panic, R!Failures, Failure

LEMMA EndsInFailure ==
  ASSUME Typed, CallsFit, phase # "idle", phase' = "idle",
         outcome' \in R!Failures \cup {R!Panic}
  PROVE  R!Fail
  BY SameNames, CallsAreNot DEF R!Fail, CallsFit

LEMMA EndsInResult ==
  ASSUME Typed, CallsFit, phase # "idle", phase' = "idle",
         outcome'.kind = "result", R!FulfilsCall(call, outcome')
  PROVE  R!Fulfil
  BY SameNames, CallsAreNot DEF R!Fulfil, CallsFit

\* A call that succeeds is fulfilled, by GetBlocks ...
LEMMA BlocksFulfil ==
  ASSUME Typed, CallsFit, ReturnBlocks
  PROVE  R!Fulfil
<1>1. PICK a \in Answers :
        /\ AnswerValid(call, a) /\ call.api = "GetBlocks"
        /\ outcome' = Result(TipSetsOf(a.chain), <<>>, <<>>)
        /\ phase' = "idle" /\ phase = "sending"
  BY DEF ReturnBlocks, EndCall
<1>2. call.head \in Heads /\ WantsHeaders(call) /\ call.length \in Nat
  BY <1>1 DEF CallsFit, IsCall, WantsHeaders
<1>3. /\ R!IsSegment(call.head, TipSetsOf(a.chain))
      /\ \A i \in DOMAIN a.chain : FormTipSet(a.chain[i].blocks)
  BY <1>1, <1>2, SegmentOfAnswer
<1>4. Len(TipSetsOf(a.chain)) = Len(a.chain)
  BY <1>3, TipSetsTyped
<1>5. Len(a.chain) <= call.length
  BY <1>1 DEF AnswerValid, LengthFits
<1>6. outcome'.kind = "result" /\ outcome'.tipsets = TipSetsOf(a.chain)
  BY <1>1 DEF Result
<1>7. R!FulfilsCall(call, outcome')
  BY <1>1, <1>3, <1>4, <1>5, <1>6 DEF R!FulfilsCall
<1> QED
  BY <1>1, <1>6, <1>7, EndsInResult

\* ... by GetFullTipSet, if the program does not die of an index ...
LEMMA FullTipSetFulfils ==
  ASSUME Typed, CallsFit, ReturnFullTipSet
  PROVE  R!Fulfil \/ R!Fail
<1>1. PICK a \in Answers :
        /\ AnswerValid(call, a) /\ call.api = "GetFullTipSet"
        /\ \/ outcome' = Panic
           \/ outcome' = Result(<<>>, <<>>, FullTipSet(TipSetsOf(a.chain)[1],
                                                       a.chain[1].messages))
        /\ phase' = "idle" /\ phase = "sending"
  BY DEF ReturnFullTipSet, EndCall
<1>2. CASE outcome' = Panic
  BY <1>1, <1>2, SameNames, EndsInFailure
<1>3. CASE outcome' = Result(<<>>, <<>>, FullTipSet(TipSetsOf(a.chain)[1],
                                                    a.chain[1].messages))
  <2> DEFINE full == FullTipSet(TipSetsOf(a.chain)[1], a.chain[1].messages)
  <2>1. call.head \in Heads /\ WantsHeaders(call)
    BY <1>1 DEF CallsFit, IsCall, WantsHeaders
  <2>2. Len(full) = Len(call.head) /\ {full[i].header.cid : i \in DOMAIN full} = ToSet(call.head)
    BY <1>1, <2>1, FullTipSetOfAnswer
  <2> HIDE DEF full
  <2>3. outcome'.kind = "result" /\ outcome'.full = full
    BY <1>3 DEF Result, full
  <2>4. R!FulfilsCall(call, outcome')
    BY <1>1, <2>2, <2>3, SameToSet DEF R!FulfilsCall
  <2> QED
    BY <1>1, <2>3, <2>4, EndsInResult
<1> QED
  BY <1>1, <1>2, <1>3

\* ... and by GetChainMessages.
LEMMA MessagesFulfil ==
  ASSUME Typed, CallsFit, ReturnMessages
  PROVE  R!Fulfil
<1>1. PICK a \in Answers :
        /\ AnswerValid(call, a) /\ call.api = "GetChainMessages"
        /\ outcome' = Result(<<>>, [i \in DOMAIN a.chain |-> a.chain[i].messages], <<>>)
        /\ phase' = "idle" /\ phase = "sending"
  BY DEF ReturnMessages, EndCall
<1> DEFINE messages == [i \in DOMAIN a.chain |-> a.chain[i].messages]
<1>2. call.tipsets \in Seq(TipSets) /\ call.length = Len(call.tipsets)
  BY <1>1 DEF CallsFit, IsCall
<1>3. /\ Len(messages) \in 1..Len(call.tipsets)
      /\ \A i \in DOMAIN messages : R!FitsTipSet(messages[i], call.tipsets[i])
  BY <1>1, <1>2, MessagesOfAnswer
<1> HIDE DEF messages
<1>4. outcome'.kind = "result" /\ outcome'.messages = messages
  BY <1>1 DEF Result, messages
<1>5. R!FulfilsCall(call, outcome')
  BY <1>1, <1>3, <1>4 DEF R!FulfilsCall
<1> QED
  BY <1>1, <1>4, <1>5, EndsInResult

\* Every step is one of ChainRequest's or leaves the call and its outcome alone.
LEMMA StepsAsPromised ==
  ASSUME Typed, CallsFit, [Next]_vars
  PROVE  [R!Next]_<<pendingBar, outcome>>
<1>1. CASE GetBlocks \/ GetFullTipSet \/ GetChainMessages
  <2>1. R!Begin
    BY <1>1, BegunIsCall, CallsAreNot, SameNames DEF R!Begin
  <2> QED
    BY <2>1 DEF R!Next
<1>2. CASE GiveUp \/ NoticeCancelled
  <2>1. phase # "idle" /\ phase' = "idle" /\ outcome' \in R!Failures
    BY <1>2, SameNames DEF GiveUp, NoticeCancelled, EndCall
  <2> QED
    BY <2>1, EndsInFailure DEF R!Next
<1>3. CASE DieOfAnswer
  <2>1. phase # "idle" /\ phase' = "idle" /\ outcome' = R!Panic
    BY <1>3, SameNames DEF DieOfAnswer, EndCall
  <2> QED
    BY <2>1, EndsInFailure DEF R!Next
<1>4. CASE ReturnBlocks \/ ReturnFullTipSet \/ ReturnMessages
  BY <1>4, BlocksFulfil, FullTipSetFulfils, MessagesFulfil DEF R!Next
<1>5. CASE Cancel \/ AskPeer \/ SendFails \/ RejectAnswer \/ Terminated \/ UNCHANGED vars
  <2>1. /\ (phase' = "idle") <=> (phase = "idle")
        /\ call' = call /\ outcome' = outcome
    BY <1>5 DEF Cancel, AskPeer, SendFails, RejectAnswer, Terminated, vars
  <2> QED
    BY <2>1 DEF pendingBar
<1>6. CASE GetMessagesOfNone
  <2>1. R!DieAtOnce
    BY <1>6, SameNames DEF GetMessagesOfNone, R!DieAtOnce
  <2> QED
    BY <2>1 DEF R!Next
<1> QED
  BY <1>1, <1>2, <1>3, <1>4, <1>5, <1>6 DEF Next, SendEnds

\* Whatever peers answer, a call that succeeds returns a segment of the chain ending at
\* the head asked for, the blocks of the tipset asked for, or as many lists of messages
\* as there are blocks: ChainExchange implements ChainRequest, for all answers.
THEOREM KeepsRequests == Spec => RequestSpec
<1>1. Init => R!Init
  BY SameNames DEF Init, R!Init
<1>2. Typed /\ CallsFit /\ [Next]_vars => [R!Next]_<<pendingBar, outcome>>
  BY StepsAsPromised
<1> QED
  BY <1>1, <1>2, AlwaysFit, PTL DEF Spec, RequestSpec, R!Spec, pendingBar

=============================================================================
