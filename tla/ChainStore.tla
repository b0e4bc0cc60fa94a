------------------------------ MODULE ChainStore ------------------------------
(***************************************************************************)
(* The store of src/chain/store.go over a block store and a metastore that *)
(* outlive the program.  Blocks are content addressed: the cid decides what *)
(* a block holds, so the block store is the set of the cids it has.  The   *)
(* names of the specification say whose it is: ChainProofs extends this    *)
(* module together with ChainExchange.                                     *)
(***************************************************************************)
EXTENDS TipSet, FiniteSets

CONSTANTS
  Contents,       \* cid -> [kind, header] of the block with that cid
  Unencodable,    \* headers with a field that cannot be written
  HeaderLists,    \* the arguments of PutManyBlockHeaders
  CidLists,       \* the arguments of LoadTipSet
  Cars,           \* [roots, cids] of the archives imported
  NoCid,          \* cid.Undef
  None,           \* a result there is none of, a nil tipset
  MaxStoreCalls   \* bound: calls made

\* A header's cid is that of the block that holds it and nothing more.
ASSUME ContentsAssumption ==
  /\ \A c \in DOMAIN Contents :
       /\ Contents[c].kind \in {"header", "message", "signed", "garbage"}
       /\ Contents[c].kind = "header" =>
            /\ Contents[c].header \in BlockHeader
            /\ LET own == Contents[c].header.cid
               IN own \in DOMAIN Contents => Contents[own] = Contents[c]
  /\ \A headers \in HeaderLists : \A i \in DOMAIN headers :
       headers[i] \notin Unencodable =>
         /\ headers[i].cid \in DOMAIN Contents
         /\ Contents[headers[i].cid] = [kind |-> "header", header |-> headers[i]]
  /\ \A cids \in CidLists : cids \in Seq(Nat)
  /\ \A car \in Cars : car.cids \subseteq DOMAIN Contents /\ car.roots \in Seq(Nat)
  /\ MaxStoreCalls \in Nat

VARIABLES
  blocks,     \* the blocks in the block store
  genesis,    \* the cid in the metastore, or NoCid
  heaviest,   \* the heaviest tipset, in memory
  importing,  \* [car, left] of the import in progress, left what is to come
  loaded,     \* [asked, tipset] of every LoadTipSet and Import that has succeeded (history)
  stored,     \* the cids callers were told are stored
  crashed,
  calls

storeVars == <<blocks, genesis, heaviest, importing, loaded, stored, crashed, calls>>

StoreInit ==
  /\ blocks = {}
  /\ genesis = NoCid
  /\ heaviest = None
  /\ importing = None
  /\ loaded = {}
  /\ stored = {}
  /\ crashed = FALSE
  /\ calls = 0

Call ==
  /\ ~crashed
  /\ calls < MaxStoreCalls
  /\ calls' = calls + 1

-----------------------------------------------------------------------------
(* Writing.                                                                *)

\* Mutant: the error of the block store is dropped.
ToldStored(c, put) == stored \cup {c}

TellStored(c, put) == IF put THEN stored \cup {c} ELSE stored

\* PutBlockHeader, PutMessage and PutSignedMessage encode what they are given; the
\* block store may fail.
PutCbor ==
  /\ Call
  /\ \E c \in DOMAIN Contents, put \in BOOLEAN :
       /\ Contents[c].kind # "garbage"
       /\ Contents[c].kind = "header" => Contents[c].header.cid = c
       /\ blocks' = IF put THEN blocks \cup {c} ELSE blocks
       /\ stored' = TellStored(c, put)
  /\ UNCHANGED <<genesis, heaviest, importing, loaded, crashed>>

Encodes(headers) == \A i \in DOMAIN headers : headers[i] \notin Unencodable

\* All headers are encoded before any is stored.  The block store may fail with some
\* of them stored.
PutManyBlockHeaders ==
  /\ Call
  /\ \E headers \in HeaderLists :
       LET cids == ToSet(Cids(headers)) IN
       IF Encodes(headers)
       THEN \/ blocks' = blocks \cup cids /\ stored' = stored \cup cids
            \/ /\ \E some \in SUBSET cids : blocks' = blocks \cup some
               /\ UNCHANGED stored
       ELSE UNCHANGED <<blocks, stored>>
  /\ UNCHANGED <<genesis, heaviest, importing, loaded, crashed>>

-----------------------------------------------------------------------------
(* Reading.                                                                *)

\* GetBlockHeader finds the block and decodes it, whatever follows the header in it.
HeaderFound(c) == c \in blocks /\ Contents[c].kind = "header"

AllFound(cids) == \A i \in DOMAIN cids : HeaderFound(cids[i])

\* The headers LoadTipSet reads, in order.
HeadersOf(cids) == [i \in DOMAIN cids |-> Contents[cids[i]].header]

CanLoad(cids) == AllFound(cids) /\ FormTipSet(HeadersOf(cids))

\* LoadTipSet: the tipset of the headers, an error, or a nil ticket dereferenced.
LoadTipSet(cids) ==
  LET headers == HeadersOf(cids) IN
  IF CanLoad(cids)
  THEN /\ loaded' = loaded \cup {[asked |-> cids, tipset |-> NewTipSet(headers)]}
       /\ UNCHANGED crashed
  ELSE /\ UNCHANGED loaded
       /\ crashed' = (AllFound(cids) /\ TicketPanics(headers))

Load ==
  /\ Call
  /\ \E cids \in CidLists : LoadTipSet(cids)
  /\ UNCHANGED <<blocks, genesis, heaviest, importing, stored>>

\* GetMessage and GetSignedMessage unmarshal into a nil pointer when there is a block
\* of any kind, and return an error otherwise.
GetMessage ==
  /\ Call
  /\ \E c \in DOMAIN Contents : crashed' = (c \in blocks)
  /\ UNCHANGED <<blocks, genesis, heaviest, importing, loaded, stored>>

-----------------------------------------------------------------------------
(* Import, with other calls between the blocks of the archive.             *)

BeginImport ==
  /\ Call
  /\ importing = None
  /\ \E car \in Cars : importing' = [car |-> car, left |-> car.cids]
  /\ UNCHANGED <<blocks, genesis, heaviest, loaded, stored, crashed>>

ImportBlock ==
  /\ ~crashed
  /\ importing # None
  /\ \E c \in importing.left :
       /\ blocks' = blocks \cup {c}
       /\ importing' = [importing EXCEPT !.left = @ \ {c}]
  /\ UNCHANGED <<genesis, heaviest, loaded, stored, crashed, calls>>

\* Mutant: what was imported is removed.
WithoutImported == blocks \ (importing.car.cids \ importing.left)

AfterFailedImport == blocks

\* The archive ends too early or the block store fails: what is there stays there.
ImportFails ==
  /\ ~crashed
  /\ importing # None
  /\ importing.left # {}
  /\ importing' = None
  /\ blocks' = AfterFailedImport
  /\ UNCHANGED <<genesis, heaviest, loaded, stored, crashed, calls>>

FinishImport ==
  /\ ~crashed
  /\ importing # None
  /\ importing.left = {}
  /\ LoadTipSet(importing.car.roots)
  /\ importing' = None
  /\ UNCHANGED <<blocks, genesis, heaviest, stored, calls>>

-----------------------------------------------------------------------------
(* Genesis and heaviest tipset.                                            *)

SetGenesis ==
  /\ Call
  /\ genesis' \in DOMAIN Contents
  /\ UNCHANGED <<blocks, heaviest, importing, loaded, stored, crashed>>

SetHeaviestTipSet ==
  /\ Call
  /\ \E load \in loaded : heaviest' = load.tipset
  /\ UNCHANGED <<blocks, genesis, importing, loaded, stored, crashed>>

\* NewStore on the same block store and metastore.
NewStore ==
  /\ Call
  /\ heaviest' = None
  /\ importing' = None
  /\ UNCHANGED <<blocks, genesis, loaded, stored, crashed>>

\* The program that a panic has ended starts again.
Restart ==
  /\ crashed
  /\ crashed' = FALSE
  /\ heaviest' = None
  /\ importing' = None
  /\ UNCHANGED <<blocks, genesis, loaded, stored, calls>>

StoreNext ==
  \/ PutCbor \/ PutManyBlockHeaders
  \/ Load \/ GetMessage
  \/ BeginImport \/ ImportBlock \/ ImportFails \/ FinishImport
  \/ SetGenesis \/ SetHeaviestTipSet
  \/ NewStore \/ Restart

StoreSpec == StoreInit /\ [][StoreNext]_storeVars

-----------------------------------------------------------------------------
IsTipSet(ts) ==
  /\ Len(ts.cids) = Len(ts.blocks) /\ ts.blocks # <<>>
  /\ \A i \in DOMAIN ts.blocks :
       ts.cids[i] = ts.blocks[i].cid /\ ts.height = ts.blocks[i].height

\* The variables have their types; every tipset has blocks, all of its height.
StoreTypeOK ==
  /\ blocks \subseteq DOMAIN Contents
  /\ genesis \in DOMAIN Contents \cup {NoCid}
  /\ heaviest = None \/ IsTipSet(heaviest)
  /\ \A load \in loaded : IsTipSet(load.tipset)
  /\ crashed \in BOOLEAN

\* What a caller was told is stored is there from then on, whatever failed, crashed or
\* was restarted since, and headers are read back as they were (PutCbor).
PutsAreKept ==
  \A c \in stored :
    /\ c \in blocks
    /\ Contents[c].kind = "header" => HeaderFound(c) /\ Contents[c].header.cid = c

\* A tipset loaded by its cids is of as many blocks, none of them another than those
\* asked for, and has their cids, except that of a block in which something follows
\* the header: its cid is not the header's (LoadTipSet, DecodeBlockHeader).
LoadedAsAsked ==
  \A load \in loaded :
    /\ Len(load.tipset.cids) = Len(load.asked)
    /\ \A c \in ToSet(load.tipset.cids) :
         \/ c \in ToSet(load.asked)
         \/ \E a \in ToSet(load.asked) : a # c /\ Contents[a].header.cid = c

\* Every tipset ever loaded can be loaded again, now, whatever other loads, imports that
\* failed half way, crashes and restarts came in between: by the cids it was asked for
\* with it is the same; by its own cids, where these are of blocks asked for, there is a
\* tipset, and it is the same if it is of one or two blocks (of more NewTipSet loses one
\* every time).
LoadsAgain ==
  \A load \in loaded :
    LET ts == load.tipset IN
    /\ CanLoad(load.asked) /\ NewTipSet(HeadersOf(load.asked)) = ts
    /\ ToSet(ts.cids) \subseteq ToSet(load.asked) =>
         /\ CanLoad(ts.cids)
         /\ Len(ts.cids) <= 2 => NewTipSet(HeadersOf(ts.cids)) = ts

=============================================================================
