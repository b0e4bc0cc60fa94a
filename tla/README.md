# Verification of filecoin-kernel

filecoin-kernel is a Filecoin node under construction: a virtual machine that
applies messages to a tree of actors (`src/runtime`), blocks and tipsets and
their store (`src/chain`), the network protocols by which nodes exchange them
(`src/protocols`), the coordinator that follows the network (`src/sync`), and
network parameters (`src/networks`, `src/gas`, `src/drand`).

This directory holds TLA+ modules that model it, TLC configurations that check
them on small instances, and TLAPS proofs. `PROJECT.json` lists the components,
the runs, a mutation of the code for every checked property, the source lines
of every definition, the findings, the hazards and the theorems.

1. [The system](#1-the-system)
2. [The modules](#2-the-modules)
3. [The runs](#3-the-runs)
4. [The proofs](#4-the-proofs)
5. [What the project found](#5-what-the-project-found)
6. [What is not modelled](#6-what-is-not-modelled)
7. [Plan](#7-plan)

## 1. The system

| Component | State it keeps | Operations |
|---|---|---|
| Message application, `runtime/vm.go` | the actor store, the current epoch | `NewVM`, `ApplyMessage` |
| Invocation contexts, `runtime/context.go` | one context per running actor method, on Go's call stack: `fromActor`/`toActor` as loaded at entry, `callerValidated`, `allowSideEffects`, the snapshot to roll back to | `invoke`, `dispatch`, `transfer`, `resolveTarget`, and the runtime interface actors see: `Send`, `CreateActor`, `DeleteActor`, `State*`, `ValidateImmediateCaller*`, `NewActorAddress` |
| Actor store, `runtime/actor.go` | the actor map being changed, the last flushed root | `GetActor`, `SetActor`, `MutateActor`, `SetActorState`, `NormalizeAddress`, `Checkpoint`, `Rollback` |
| Blocks and tipsets, `chain/chain.go`, `chain/encode.go` | none (values) | `NewTipSet`, `IsChildOf`, `CidArrsEqual` |
| Chain store, `chain/store.go` | headers and messages in a block store; the genesis CID; the heaviest tipset in memory | `PutManyBlockHeaders`, `GetBlockHeader`, `Get(Signed)Message`, `Put(Signed)Message`, `LoadTipSet`, `Import`, `Heaviest-`/`SetHeaviestTipSet`, `Get-`/`SetGenesis` |
| Chain exchange client, `protocols/chainexchange/client.go` | none between calls; in a call, the peers still to ask | `GetBlocks`, `GetFullTipSet`, `GetChainMessages`, `validateResponse`, `toFullTipSets` |
| Chain exchange wire protocol, `protocols/chainexchange/protocol.go` | a stream with deadlines | `Send` |
| Hello, `protocols/hello/protocol.go` | a stream; the channel of received greetings | `Send`, `NewStreamHandler` |
| Sync coordinator, `sync/coordinator.go` | subscriptions to identifications and to gossiped blocks; a goroutine per block | `Run`, `hello`, `sayHello`, `pubsubBlocks`, `AddBlock`, `AddPotentialHead` |
| Fetching blocks, `sync/fetchblocks.go` | a session with the block exchange, an index from cid to position | `fetchFullBlock`, `fetchSignedMessages`, `fetchMessages` |
| Gossip, `protocols/blocks`, `protocols/messages` | none | `Validate`, `validateBlockSyntax` |
| Network parameters, `networks/...` | tables of upgrades and of price lists | `VersionByEpoch`, `ActorsVersionByEpoch`, `PricelistByEpoch`, per network |
| Gas prices, `gas`, `networks/*/gaspricing.go` | constants | a charge for each message, call, IPLD access and proof; the VM does not use them yet (`ChargeGas` is a no-op) |
| CBOR codecs (`cbor_gen.go` of five packages) | none | `MarshalCBOR`, `UnmarshalCBOR` of each type |
| Genesis, bootstrap peers, drand schedules | constants | none |

How they interact. `ApplyMessage` pushes the first invocation context;
`Send` and the init actor's `Exec` push nested ones by ordinary Go calls, all of
them reading and writing the one actor store. An abort is a Go panic that
`invoke` recovers, rolls the store back for, and turns into an exit code; any
other panic is raised again by every frame and ends the program. `Run` starts
the hello loop and the block subscription side by side. The hello loop sends
greetings itself and takes received ones from the stream handlers through an
unbuffered channel. The block subscription starts a goroutine per block which
fetches its messages through the block exchange, stores the header and compares
it with the heaviest tipset. The chain exchange client is called with a context
and asks the peers of a provider one after the other over streams.

What is hard about it, and what would make each part correct:

* **VM and contexts**: partial failure at any depth, and records cached at the
  entry of a frame while nested calls, possibly re-entrant, change the store.
  Correct: a message is atomic, a failed frame undoes what it and its callees did
  and nothing else, money is conserved, the two parts of the init actor's state
  agree in every snapshot, a public key names one actor for ever, and a state
  transaction overwrites nobody's update.
* **Chain exchange client**: answers come from strangers; peers hang, refuse or
  lie. Correct: what a call returns descends from the head it was asked for,
  message lists fit their blocks, no answer kills the program, and every call
  ends.
* **Tipsets**: nodes learn of blocks in different orders. Correct: they build the
  same tipset, and a tipset keeps its blocks.
* **Hello**: a loop that waits inside itself for a peer whose loop may be doing
  the same; connections lost at any point; cancellation. Correct: greetings end,
  a late reply is not taken for another's, `Run` returns when cancelled.
* **Coordinator and fetching**: unlimited goroutines that outlive their
  subscription, failed fetches, channels that close early, blocks delivered twice
  or out of order. Correct: what is stored is what was fetched, and nothing is
  dereferenced that was not obtained.
* **Chain store**: puts that fail half way, imports between other calls, readers
  that panic. Correct: what a caller was told is stored stays, and a tipset is
  read back as it was put.
* **Codecs**: every byte comes from strangers, over connections that break.
  Correct: what is written is read as it was, a part of a message is refused, and
  what is read means one thing only.
* **Network parameters and prices**: boundaries, in three tables that must agree
  (which side of an upgrade its own epoch is on), and a map visited in any order.

`PROJECT.json` lists these hazards at their lines, with the properties that
watch them.

## 2. The modules

| Module | What it is |
|---|---|
| `ActorStore` | operators: addresses, state trees, the init actor's address map, checkpoint and rollback |
| `VM` | the state machine of `ApplyMessage` and the invocation contexts |
| `Ledger` | abstract: a message is accepted, then committed or discarded as a whole, and money is kept |
| `VMProofs` | theorems about `VM` |
| `TipSet` | operators: order of blocks, `NewTipSet`, `CidArrsEqual`, `IsChildOf` |
| `TipSetProofs` | lemmas about `TipSet` |
| `ChainExchange` | the state machine of the client's calls against arbitrary peers |
| `ChainRequest` | abstract: what a call of the client promises |
| `Hello` | the hello loops and stream handlers of several nodes |
| `HelloProofs` | theorems about `Hello` |
| `FullBlock` | operators: gossiped blocks, full blocks, the outcomes a fetch may have |
| `FetchBlocks` | the state machine of one `fetchFullBlock` against a block exchange |
| `FetchRequest` | abstract: what a fetch promises |
| `FetchBlocksProofs` | theorems about `FetchBlocks` |
| `Coordinator` | `Run`, the block subscription with its validator, a goroutine per block, the store they write to |
| `CoordinatorProofs` | theorems about `Coordinator` |
| `ChainStore` | the state machine of the store, over a block store that may fail and outlives the program |
| `ChainProofs` | theorems about `ChainStore` and `ChainExchange` |
| `Codec` | the writer and the reader of all generated codecs, token by token, and one message between them |
| `CodecProofs` | theorems about `Codec` |
| `GasPrices` | operators: the two price lists and every charge |
| `Networks` | versions by epoch, as operators; the search for the price list, as a state machine |
| `NetworksProofs` | theorems about `Networks` |
| `MCVM`, `MCChainExchange`, `MCHello`, `MCFetchBlocks`, `MCCoordinator`, `MCChainStore`, `MCCodec`, `MCNetworks` | small instances for TLC |

### ActorStore and VM

A *state tree* stands for what one root CID names: the map from IDs to actor
records, with the init actor's state unfolded into its address map and its next
free ID, because the VM itself reads and writes it. Objects are content
addressed, so a root is modelled by the tree: to checkpoint is to remember the
tree, to roll back is to take it again.

Go's call stack is the variable `stack`, one record per invocation context whose
method is running; `ret` holds what the innermost `invoke` has just returned
until its caller goes on. An actor method is any sequence of calls of the
runtime interface, so an action is one such call by the innermost frame, with
everything it does: `Send` is the whole of `invoke` up to the point where the
target's method starts (checkpoint, target resolution with the creation of an
account actor, both balance checks, the transfer, dispatch and its errors).
The methods of the init actor and of account actors, which the VM relies on, are
the exact ones; all other actors are *user code*, which may make any calls in
any order.

| Code | Model |
|---|---|
| `ApplyMessage` up to `invoke`, its early return, its end | `ApplyMessage`, `RejectMessage`, `FinishMessage` |
| `invoke`, its deferred handler | `Invoke`, `Fail` (abort), `Repanic` (any other panic) |
| `transfer`, `resolveTarget`, `dispatch` | `Transfer`, `ResolveTarget`, `Dispatch` |
| `Send` before and after `invoke` | `Send`, `SendReturns` |
| `StateTransaction` before and after `f` | `BeginTransaction`, `EndTransaction` |
| `StateCreate`, `StateReadonly`, `ValidateImmediateCaller*`, `DeleteActor` | actions of the same names |
| the return of a method, an abort of its own, a panic that is none | `Return`, `UserAbort`, `Panic` |
| a panic that is no abort, in the frames it passes through | `Unwind` |
| `NewActorAddress`, `CreateActor` as the init actor calls them | `NewActorAddress`, `CreateActor`, in `Exec` |

A panic that is no abort takes the frames away one by one: `Panic` leaves the tree as
the method has made it, perhaps with a payment half done (`DeleteActor` debits before
it finds that nobody is to be credited), and each `Unwind` is the deferred handler of
one frame, which rolls back to that frame's snapshot and panics again. That the tree
is whole at the end is therefore a result, not an assumption; while `Unwinding`, no
actor's code runs and the properties of running frames are suspended.

Transactions open in a frame are a sequence, `tx`, of the states they were given. The
flag `sideEffects` is one for all of them, as in the code, so a transaction in
which a nested one has ended is marked `pierced` (a history variable).

Data is abstracted to what properties tell apart: a state object is a name, the
parameters of a message decode, do not, or are of a Go type that `reflect.Call`
panics of (`CallPanics`), two key protocols are one, and a
robust address is the triple it is the hash of. `int` conversions keep their
width (`MaxInt`).

`Ledger` has none of this: no frames, no snapshots. It says that a message costs
its sender one nonce and that then either its effects become visible as a whole,
with no actor lost, no nonce moved, IDs handed out in order, keys bound for ever,
no account actor other than the sender's paying and the sum of all balances as it
was, or nothing does. What a sum of balances is, the state trees say
(`TotalBalance`, which `Ledger` takes as a constant: `ActorStore` counts coins, a
pair of an actor and a number below its balance each). `VM` implements it: `ledger` is the current tree when no message is being applied, after
a panic too, and otherwise `base`, the tree of the last complete message.

### TipSet, ChainExchange and ChainRequest

Headers are records whose `cid` determines the rest. `NewTipSet` is translated
with its sort and with the loop. The sort is what `sort.Slice` leaves: each block
has its `Place`, one more than the blocks that precede it by ticket and cid, and
`Sorted` has at every place the block of that place. Blocks that neither precedes
the other are the same block, so that it does not matter that `sort.Slice` may swap
them. `Kept` is the loop, which keeps the first block and then `bcs[i]` while it
ranges over `bcs[1:]`.

`ChainExchange` runs one call at a time: `AskPeer` is an iteration of
`doRequest`'s loop up to `Send`; the answer read is then any element of
`Answers`, and it is rejected, kills the program, or ends the call. Validation is
split as in the code, in the order of its checks, so that a panic in `NewTipSet`
on a later element happens only if the earlier ones passed. A count below zero
becomes a huge `uint64`, an index above `MaxInt` a negative `int`. The tipsets of
a `GetChainMessages` call are those an earlier `GetBlocks` returned; a caller that has
none makes it panic before any peer is asked (`GetMessagesOfNone`).

`ChainRequest` knows neither peers nor validation: a pending call ends with a
failure, with the death of the program, or with a result that answers it, which
is the definition `FulfilsCall`. A call may also kill the program at once
(`DieAtOnce`).

### Hello

Each node has a loop, and each stream it opened a handler at the other end. A
stream is `[to, at, open]`: `at` follows the greeting from written through
offered (the handler blocks on the unbuffered channel) and taken to answered;
`open` is cleared when the connection is lost. `SayHello` leaves the loop in
`sending` until `GetReply` or `SendFails`: the code calls `sayHello` inside the
select's case. Nodes that are identified before they have a heaviest tipset
die of a nil dereference, with all their streams (`SayHelloPanics`). A loop that
returns leaves its handler registered. What greetings contain is left out; the
code only logs it.

### FullBlock, FetchBlocks, FetchRequest and Coordinator

`FetchBlocks` is one call of `fetchFullBlock`. `Ask` indexes the cids of one kind
of message and asks the block exchange for them; the exchange, which is external,
sends any blocks in any order (`IgnoreBlock`, `TakeBlock`, `DecodeFails`) and
closes its channel when it has sent everything, or when the context has ended or
it has given up (`Break`). A closed channel ends the loop whether or not all
messages have come.

`FetchRequest` abstracts from all that: a pending fetch gets one of `Outcomes`,
which depends on the block and on whether the fetch was cut short. `Coordinator`
uses the same operator for the fetches of its goroutines, so that what is checked
of the one is what the other relies on.

| Code | Model |
|---|---|
| `Run`, `errgroup`, `g.Wait` | `Start`, `CannotStart`, `ContextDone`, `Return` |
| `pubsubBlocks`: `NewSubscription`, `sub.Next`, own messages skipped, `go func` | `Subscribe`, `SubscribeFails`, `NextMessage`, `NextFails` |
| `BlockValidator.Validate`, and the router that drops messages when the subscription's channel is full | `Publish`, also after the context has ended: a message may still be in validation then |
| the goroutine: `fetchFullBlock`, `AddBlock` up to `PutManyBlockHeaders`, the comparison of weights | `Fetched`, `AddBlock` or `AddFails`, `Compare` |
| the hello activity, in the extent that `Run` depends on it | `HelloSubscribes`, `HelloFails`, `HelloWaits`, `HelloGoesOn`, `HelloEnds` |
| `SetHeaviestTipSet`, called by the program around the coordinator | `SetHeaviest` |

A goroutine is a record in `tasks`; it stays there when it has ended, and no
action takes it away when `Run` returns, since nothing in the code does. A nil
header or a nil block that is dereferenced sets `crashed`, after which nothing
happens. The cid of a message is a name, and a function says as which kind of
message the bytes behind it decode.

### ChainStore

Blocks are content addressed, so a block is its cid, a constant function
(`Contents`) says what a cid decodes to, and the block store is the set of cids it
has. A block may be a header, a message, a signed message or garbage; it may be a
header with something after it, whose cid then is not the header's own. The block
store and the metastore outlive the program; the heaviest tipset does not.

| Code | Model |
|---|---|
| `PutBlockHeader`, `PutMessage`, `PutSignedMessage` | `PutCbor` |
| `PutManyBlockHeaders`: all are encoded, then all are put; the block store may fail with some of them there | `PutManyBlockHeaders` |
| `LoadTipSet`: `GetBlockHeader` of each cid, then `NewTipSet` | `Load` |
| `GetMessage`, `GetSignedMessage`, which unmarshal into a nil pointer | `GetMessage` |
| `Import`, block by block, then the tipset of the archive's roots | `BeginImport`, `ImportBlock`, `ImportFails`, `FinishImport` |
| `SetGenesis`, `SetHeaviestTipSet`, `NewStore` | actions of the same names |

Two history variables are never cleared, by a restart either: `stored`, the cids of
puts that returned no error, and `loaded`, every tipset that a load or an import has
returned, with the cids it was asked for by. The parts of
the specification are called `StoreInit`, `StoreNext`, `StoreSpec` and so on, since
`ChainProofs` extends `ChainExchange` beside it.

### Codec

The generated codecs follow one pattern per kind of field, so a Go type is a
*schema* (the definitions from `PoStProof` to `LatencyMessage`, in the order of the
fields). A value is a tree, a function from paths to nodes, each with its schema and
its data: that of a list is its length, that of a pointer whether it is nil. The bytes
are *tokens*, one for each CBOR head with what follows it, and a node is one token.
A head that is not the shortest for its number is
refused by the library and so is never a token; a nil `big.Int` is written as zero,
and a nil list as an empty one. Addresses, signatures, cids and big integers write
and read themselves: external, one token each, 0 standing for the undefined value,
which cannot be written. The number of such a token, or of a byte string, stands for
its contents; how those are laid out in bytes is outside, and taken to be one way
only. `Half` is 2^63, so that tokens exist that are a `uint64` and no `int64`.

The nested calls of `MarshalCBOR` and `UnmarshalCBOR` visit the fields in order, so
what they have still to do is a list of fields, `todo`. One step takes the first, writes
or reads its token, and puts its own parts before the rest.

| Code | Model |
|---|---|
| a field written by `MarshalCBOR`; its return | `MarshalCBOR`, `EndsWriting` (an error leaves what was written) |
| a field read by `UnmarshalCBOR`; an error; its return | `UnmarshalCBOR`, `Refuse`, `EndsReading` |
| the value read is written again, as `BlockHeader.Cid` does | `MarshalAgain`, `EndsCopying` |
| the connection breaks | `Cut` |
| another implementation writes a token of its own, or one more | `Stray`, if it was the sender (`~own`) |

### GasPrices and Networks

Both networks' `gaspricing.go` are the same but for the package's name, so there is
one module of charges. `PricelistByEpoch` ranges over a Go map: `Visit` takes the
entries in any order. `Networks` leaves out what nothing reads: calibnet has an
`UpgradeActorsV3Height` (`version.go:48`) that no function compares with. Calibnet's
first three upgrades are at negative heights, so its versions 0 to 2 are never
returned.

## 3. The runs

The runs of `VM`, `ChainExchange`, `FetchBlocks` and `Networks` check deadlock:
`Terminated` is the only way to stop, and callers of `Networks` ask again. Those of `Hello` and
`Coordinator` do not (`CHECK_DEADLOCK FALSE`), because nodes really stop when nobody
is left to greet, or wait for one another, and a program that has died does nothing
more; nor those of `Codec`, which ends with the one message, and of `ChainStore`,
which ends with the last call.

| Run | Question | Bounds |
|---|---|---|
| `vm_calls` | With calls of every kind, nested and failing anywhere, are messages atomic, money conserved, snapshots in order, transactions isolated? | depth 3, 3 calls per message, 2 messages, 2 transactions open in a frame (362,000 states) |
| `vm_exec` | When actors are created, through keys and by `Exec`, whose constructors send, fail or create again, do the address map and the actor map agree in every snapshot? | depth 3, 2 calls, 2 messages (97,000 states) |
| `vm_stale_balance` | violation, see section 5 | one message, 2 calls, depth 2 |
| `exchange_answers` | Whatever peers answer, does a call end, with an error or with what was asked for? | 2 calls, up to 2 peers, chains of up to 2 elements, about 200 answers |
| `exchange_honest` | violation, see section 5 | 1 call |
| `hello_circles` | With mutual greetings, lost connections, crashes and cancellations: is a greeting, or `Run`, ever held back by anything but a circle or a returned loop? | 3 nodes, one meeting per link |
| `hello_cancel` | violation, see section 5 | 2 nodes |
| `fetch_blocks` | Does the order, number or relevance of the blocks that come ever show in what a fetch returns, and does a fetch that is cut short end? | 9 blocks, well formed and malformed in each way; 4 arrivals |
| `coordinator` | Whatever is gossiped, fails or is cancelled: what gets into the store, what kills the program, do `Run` and the goroutines end? | 2 messages out of 11, one greeting waited in |
| `chain_store` | With puts and imports that fail, panics and restarts: is what was told to be stored there, are tipsets read as they were put, and can each that was ever loaded be loaded again? | 5 calls, 8 blocks, good and bad, 4 archives (373,000 states) |
| `codec` | Is what is written read as it was, a part of it refused, and what is read canonical? | all 14 types; every field at and past its limits; a cut at every token; any one token replaced by each of 12 (297,000 states) |
| `networks` | Do versions, actors versions and prices change at the same epochs, is the latest price list found in any order, and is less given back than was paid? | both networks, the epochs around every upgrade, every order |

What the properties say:

* `FundsConserved`: the balances of every tree, every snapshot included, sum to
  those of genesis, counted coin by coin. The mutant is a transfer that reads the credit account
  before it writes the debit, wrong only for payments to oneself.
* `SnapshotsInOrder`: the snapshots of the running frames are stages of one
  message, in the order of the frames. A roll back therefore removes what the
  frame and its callees did, and nothing else.
* `FramesHaveActors`, `InitStateConsistent`: no roll back takes away the actor of
  a frame still running, and an ID handed out is never found occupied.
* `BalanceFreshUntilSend`: what `CurrentBalance` returns is true until the frame
  first sends; after that it need not be (section 5).
* `TransactionIsolation`: while `f` of a `StateTransaction` runs, nobody else
  changes the state it will overwrite, be it by a re-entrant call or by a
  transaction inside `f` that is still open. Once one of these has ended, the flag is
  lifted and the outer one is promised nothing (section 5).
* `FirstPaymentSafe`: the panic marked unreachable in `transfer` is reached by no
  message's own payment and by no invocation's first: it takes the stale cache of
  section 5.
* `LedgerSpec`: `VM` implements `Ledger`, through aborts and panics at any depth. The
  mutant passes a panic on without the roll back.
* `RequestSpec`: `ChainExchange` implements `ChainRequest`. Blocks that a call
  returns descend from the requested head, generation by generation. That *all*
  the parents of a generation are there is not promised, and does not hold:
  `CidArrsEqual` tests one inclusion and the length only.
* `OrderIndependent`: `NewTipSet` of a permutation of its argument is the same,
  for equal tickets too.
* `OnlyKnownPanics`: the only answers that kill the program are a header without
  ticket among several, and an index that `int` turns negative; the only call that
  does, one for the messages of no tipsets.
* `CallReturns`, `FetchEnds`: a call and a fetch whose context is done end.
* `GreetingsEnd`, `ReturnsUnlessHeldBack`: a greeting ends, and `Run` returns when
  cancelled, unless the loop is held back for ever. `HeldBack` is a greatest fixed
  point: a set of loops each of which has returned or waits, over an open stream, for
  one of the set. So the chain of waiting ends in a returned loop or a circle; a lost
  connection, a crash or a busy peer holds nothing back for ever.
* `OneGreetingAtATime`: of the streams a node has opened, all but the last are
  answered or lost, so a reply can only be that of the greeting waited for.
* `FetchSpec`: `FetchBlocks` implements `FetchRequest`. A fetch that returns no
  error has at every place the message of its cid, unless it was cut short, and
  only malformed blocks make it fail.
* `StoredAreValid`, `StoredWereFetched`: a stored header came from another node
  and passed the validator, and its messages were all fetched unless the fetch was
  cut short. The mutants are a validator that does not ask for the signature and
  a goroutine that stores the header of a failed fetch.
* `OnlyKnownPanics` of `Coordinator`: a program that has a heaviest tipset dies
  of blocks without header and of malformed blocks, and of nothing else; in
  particular not of messages that cannot be found.
* `RunReturns` of `Coordinator`: the end of the context, or of one activity, ends
  `Run`, provided that no peer holds the hello loop for ever (`hello_cancel` is
  about that). `GoroutinesEnd`: after that no goroutine stays.
* `PutsAreKept`: what a caller was told is stored is in the store, and a header is
  read back under its own cid, whatever failed or was restarted since.
* `LoadedAsAsked`: a tipset loaded by its cids has as many blocks and no other, but
  for a block with something after its header. The mutant is the loop of `NewTipSet`
  without the first block put in before it. `LoadsAgain`: every tipset ever loaded, not
  only the last, can be loaded again after whatever came since, restarts, later loads
  and failed imports included: by the cids it was asked for with it is the same, and by
  its own it is the same if it is of one or two blocks; of three or more,
  `NewTipSet` loses one at every load (section 5). The mutant is an import that takes
  back what it has stored when it fails.
* `RoundTrip`: what is written without an error is read as it was, with nothing left
  over; the exception is a nil element in a list of pointers, which the writer takes
  and the reader refuses. `PartIsRefused`: a
  message cut anywhere, or left unfinished by its writer, is refused.
  `ReadIsCanonical`: what another implementation sends and the reader takes can be
  written again, and is written as the same tokens, but for what follows it. `TypeOK`
  says that whatever is read is a value of its type, with no part missing.
* `LatestPrice`, `UpgradesAgree`, `RefundsBelowCost`: the price list is that of the
  last entry at or before the epoch, in any order of the map; network version,
  actors version and prices change at the same epochs, an upgrade's own epoch on the
  new side; no charge is negative, none is zero but that of a return value of no bytes,
  and deleting an actor gives back less than creating it cost, across price
  lists too.

Bounds. `MaxDepth`, `MaxCalls`, `MaxMessages`, in `VM`: three frames are the least in
which the frame between two others fails and the outer one goes on; three calls
allow a payment, a nested call and one thing after it; two messages are what it
takes for one message to meet what another left. `MaxNesting` bounds open
transactions in a frame: two show the nested end that lifts the outer one's lock; in
`vm_exec`, whose question is about addresses, it is 1. `MaxInt` is 7 for method numbers (the tables have 3 or
4 entries) and 3 for indices, so that the numbers that turn negative exist.
`MaxRequestLength` is 2 in the place of 900: a request may be in range, too long,
or zero. The answers range over a chain of three heights with a tipset of two
blocks in it, and blocks with a wrong height, other parents, equal tickets and
no ticket; message lists are right, missing, short of a block, past the end, and
huge. `MaxMeetings` is the number of times a node learns of the same peer. Three
nodes allow a circle and a node outside it that waits for the circle. Four
arrivals are one more than the messages of the largest block. Two gossiped
messages give two goroutines, which is what it takes for one to be between its
steps while the other takes them, and for the same block to come twice; with a
channel of one (`Room`, 32 in pubsub) the second may be dropped. `MessageLimit` is
2, so that three messages are too many. Five calls of the store (`MaxStoreCalls`) are two puts or an
import, two loads, and one call or restart between or after them; the import's own steps are not counted. The
codecs' `MaxLength` and `ByteArrayMaxLen` are 2 in the place of 8192 and 2 MiB,
`Half` is 4, and each field takes its values around them: no rule of the codecs
depends on more than one such limit; nor on more than one token at a time, so one
stray (`MaxStrays`) is enough for TLC, and the proofs have any number. The epochs of `Networks` are those at, before
and after each upgrade of each network; nothing changes between them. `Sizes` and
`Sectors` are the lengths of messages and numbers of sectors that prices are asked
for: none, one and a large one.

Fairness. `VM`, `ChainStore`, `Codec` and `Networks` have none: nothing in them is
promised to happen but by their callers. In `ChainExchange`
the loop runs on, and every `Send` ends, since reads and writes have deadlines
(5 s for the request, 300 s for the answer; opening the stream is assumed to end).
In `Hello` a goroutine that can run does: each handler, each loop, and of the
select's cases cancellation alone, which once ready stays so (Go chooses among
ready cases at random). In `FetchBlocks` and `Coordinator` likewise, and the block
exchange closes the channel of a request whose context is done; it need not find
anything, so a fetch that is not cut short may last for ever. Of `sub.Next` too
only the error is promised once the context is done, and no reply to a greeting. Meeting, losing, cancelling, starting and setting the
heaviest tipset are the environment's and promise nothing. `hello.Send` has no
deadline, so none is assumed.

## 4. The proofs

`VMProofs` proves, for every genesis tree, every set of codes, exports, messages,
senders and calls, and every bound, under three named assumptions
(`GenesisAssumption`: the tree the store is opened on is well formed and
consistent; `CodesAssumption`: account is a registered code, not a singleton and
not user code; `MessagesAssumption`: addresses, amounts and method numbers are
what their types say):

* `Invariance`: the inductive invariant `IInv` holds.
* `TypeCorrect`, `InitStateStaysConsistent`, `SnapshotsStayInOrder`,
  `FramesKeepActors`, `FundsStayConserved`: the invariants of those properties.
* `MessagesAreAtomic`: `VM` implements `Ledger`.
* `BalancesFresh`, `FirstPaymentsSafe`, `TransactionsIsolated`: what frames remember.

The argument. None of the invariants is inductive alone: a roll back makes a
snapshot current, so whatever is to hold of the current tree must hold of every
snapshot, and be preserved relative to a snapshot by everything that happens
after it. `IInv` therefore says that (1) every tree that is, or may again become,
current is well formed and consistent (but for the tree a panic has left,
below), (2) the trees lie in the order of
`Ledger`'s relation `Grows`: `base`, the frames' snapshots from the outermost in,
the tree; and (3) the actor of each frame was there when the frame was entered.
`Grows` is what a tree may only gain (`Extends`) together with the same sum of
balances (`FundsKept`). It is reflexive and transitive (`GrowsReflexive`,
`GrowsTransitive`) and the writes to a tree follow it (`WriteExtends`,
`CreateGrows`, `SetHeadGrows`, `ResolveTargetGood`, `TransferGood`). The ways an
invocation may end, and then each action, are lemmas on top of that (`FailGood`,
`RepanicGood`, `InvokeGood`, `SendGood`, ...), and `NextGood` collects them.
Atomicity follows: at the end of a message, `Grows(base, tree)` is `Ledger`'s
commit, and a roll back to `base` is its discard.

Panics. Between a panic and the first roll back the tree need not be consistent, nor
its sum be right: `DeleteActor` may leave a debit alone. For these states `IInv`
says `Torn`: the snapshots are in order up to some tree, of which the torn one
has kept every actor. `PanicGood` enters that state, `Unwind` leaves it or keeps it
(`RepanicGood`, `UnwindGood`), since it needs nothing but the snapshot of the frame it
takes away; when the last frame is gone the tree is `base`.

Money. A single write of a payment does not keep the sum, only the two of
`transfer` together do, so `WriteExtends` leaves the sum out and `TransferGood` adds
it: the coins of the debit and credit accounts are counted before and after
(`CoinsMembers`, `MoreCoins`), the second account being read after the first is
written, which is what makes a payment to oneself come out right. A write that
leaves balances alone keeps the coins (`SameCoins`). Every tree, each snapshot
included, is thereby tied to `base`, and `base` to genesis.

Frames. The last section of the module strengthens `IInv` for the records that
frames keep. `Inv` adds that the innermost frame, if it has not yet sent, caches its
true balance, that the state it was given by an open transaction is the current one,
and that every other frame has sent and has no transaction open (`FramesCurrent`,
`Settled`); an invocation that returns or fails gives its caller back a settled
frame. The cache is then right until the first `Send`, and so no first payment
reaches the panic of `transfer`. `TransactionsIsolated` holds for transactions nested
to any depth: the invariant follows each one in `tx` until it is pierced, and as long as
one is not, nothing has written the state or sent.

`TipSetProofs` holds what later proofs need of `NewTipSet`. `Precedes` orders the
places of a list strictly and totally (`PrecedesOrders`), so each block gets a place of
its own and the places are those of the list (`PlacesDiffer`,
`PlacesTaken`, by counting); a sorted list therefore arranges the blocks it was
given (`SortedArranges`), and permuting a list whose cids decide their headers
(`CidsDecide`) changes nothing of what lies there (`SortedPermuted`,
`NewTipSetPermuted`). Of the loop it says what holds in
spite of the block it loses: everything kept was given (`KeptAreGiven`), as many as
given, and lists of one or two are stable under a second `NewTipSet`
(`NewTipSetOfFew`).

The part of `ChainProofs` about `ChainExchange` proves, for any peers, answers and number of calls, under
`HeadsAssumption`, `LengthAssumption` and `AnswersAssumption` (an answer decoded
into headers, indices are `uint64`s and the cid of a header is its hash; nothing else
is assumed of what a peer sends):

* `TypeCorrect`; `OrderDoesNotMatter`, by `NewTipSetPermuted`.
* `DiesOnlyOfTheKnown`: everything that the client does with an answer that passed
  its checks is defined, except for the nil ticket and the index turned negative; and
  of a call, but for the empty list of `GetChainMessages`.
* `KeepsRequests`: `ChainExchange` implements `ChainRequest`. The lemmas
  `SegmentOfAnswer`, `FullTipSetOfAnswer` and `MessagesOfAnswer` draw from the
  validation, check by check, what `FulfilsCall` promises; the invariants `Typed` and
  `CallsFit` say that what is validated against is the call that was made: a call in
  progress is one of those the program can make, with a length the client accepted.

`HelloProofs` proves, for any finite set of nodes, any links and any number of
meetings, under `LinksAssumption`:

* `AlwaysOneGreetingAtATime`: a loop that waits cannot open another stream, and it
  stops waiting only when its last stream is answered or lost.
* `TypeCorrect`. That the queues and the list of streams stay as short as `TypeOK`
  says is not inductive. `Counted` says that the streams a node has opened and the
  meetings still in its queue are together no more than its meetings: a meeting
  adds one to both (`MeetingAdds`), and of a stream opened the meeting has left the
  queue (`QueuesShrink`).
* `NothingElseHoldsBack`, the safety part of `GreetingsEnd`: a greeting that a loop
  waits for is held back by a circle or a returned loop, or there is something to do
  for a loop it waits for, directly or not, or for the handler of such a loop's
  stream. What there is to do is said by the guards of the actions (`LoopCanStep`,
  `GreetingCanMove`), in the place of ENABLED. The invariant is `Reached`: an open
  stream has a living handler behind it that has not given up. That what can be done
  is done, and that it leads to an end, is left to `GreetingsEnd` and the model checker.

`FetchBlocksProofs` proves `TypeCorrect` and `Refinement`, that `FetchBlocks`
implements `FetchRequest`, for any blocks and any number of arrivals, under
`BlocksAssumption`. The invariant says of the kind being fetched that what came is at
the place of its cid and nothing that came is missing there (`Partial`, `Placed`), and
of the kind before it that what is missing was cut off (`Complete`). That an index
has one place for a cid is the lemma `IndexIsPlace`.

`CoordinatorProofs` proves the four safety properties, `TypeCorrect`,
`OnlyValidStored`, `OnlyFetchedStored` and `KnownPanics`, for any gossip, any number of
messages and goroutines, under `RoomAssumption`. The invariant follows a block on its
way: what is in the channel was accepted (`Accepted`), a goroutine works on an
accepted block of another node and has fetched one of `Outcomes` (`TaskGood`), and a
stored header is that of a goroutine past its put (`StoredBy`). The refinement of
`FetchBlocksProofs` is what justifies taking `Outcomes` for a fetch here.

The part of `ChainProofs` about `ChainStore` proves, for any contents, archives and number of calls, under
`ContentsAssumption` (the cid of an encoded header decides what its block holds, and
headers are headers), `StoreTypeCorrect`, `PutsStay`, `LoadsWhatIsAsked` and `LoadsTheSame`.
The last two are about every tipset in `loaded`, and follow from each being the
`NewTipSet` of headers that
are in the store under the cids asked for, and staying so whatever is put, fails or
is restarted later (`Consistent`, `LoadedStays`), and then from the lemmas of
`TipSetProofs`.

`NetworksProofs` proves `TypeCorrect` and `LatestPriceFound` for any finite tables and
epochs, under `TablesAssumption`: the best entry so far is the latest among those
visited. Two theorems are about the tables of the two networks themselves, and
assume that `Tables` holds no others:

* `UpgradesAlwaysAgree`: at every epoch, not only at those of the run. Each table is
  a ladder (`Ladder`, `NetworksAreLadders`): the versions' upgrades lie in order, but
  for those before epoch 0, where calibnet has its first ones in no order at all and
  where nobody asks. The version of an epoch is then the number of upgrades that
  have begun (`VersionCounts`), to which the two other tables are compared.
* `RefundsStayBelowCost`: no charge but that of an empty return value is zero or
  negative, and no refund reaches the creation cost, for every size and number of
  sectors (`SizesAssumption`), not only those of the run.

`CodecProofs` proves `TypeCorrect`, `RoundTrips`, `PartsAreRefused` and
`ReadsCanonically`, for values of any size, any limits, and any tokens that another
encoder may write, as many as it likes, under `BoundsAssumption`, `ValuesAssumption`
(what is written is a value of its type) and `StraysAssumption` (the number of a token
has 64 bits).

* About one token: what the writer takes, the reader of the same schema accepts and
  reads as it was, but for a nil element (`WrittenIsAccepted`); what the reader accepts
  can be written, and as the same token (`AcceptedIsWritten`); past the end, nothing is
  accepted (`EndIsRefused`). They range over `Schemas`, a set that holds the schemas of
  all types and the schemas in them (`TypesInLevel7`).
* About a walk: what is computed of a whole tree would be an induction over data,
  out of the prover's reach. But writer, reader and copier each add one token in a
  step, so the induction is that of the specification's own steps. A *run* is a walk
  of a tree: what was still to do before each token (`IsRun`). The invariant says that
  there is a run of which the writer has written the tokens (`WriterWalks`), that the
  reader of an own message is as far in the same run as it has read
  (`ReaderFollows`), that what a reader has read is the
  tree of the run it has made, whoever wrote (`ReaderBuilds`), and that the copier
  follows that one (`CopierFollows`). No history variable records the run.
* About a tree: while a tree is walked, its nodes are those visited and those below
  what is still to do (`Covers`), each with its schema (`Fits`), so at the end of
  a walk nothing is left over and nothing is missing; while one is built, no path to
  come is below another (`Apart`), and every part of a node either is there or is
  still to come (`Grows`), so that at the end it is a value of its type (`IsTree`).

The exception of `RoundTrip` needs a clause of its own, `RefusesNil`: an own message
that is whole is refused at a nil element and nowhere else.

Every safety property, action property and refinement that a passing run checks is
thereby proved. Liveness (`CallReturns`, `GreetingsEnd`, `ReturnsUnlessHeldBack`,
`FetchEnds`, `RunReturns`, `GoroutinesEnd`) and the absence of deadlocks need fairness
and ENABLED, which are out of the prover's reach, and are only model-checked.

## 5. What the project found

Each has a run that ends in a counterexample, except where noted.

* `vm_stale_balance`: `invoke` checks the balance of the record loaded when the
  caller was entered. An actor that has paid once passes the check again and
  reaches the panic marked "unreachable: insufficient balance on debit account"
  (`context.go:285`), which is not an abort and ends the program.
* `exchange_honest`: `NewTipSet` keeps `bcs[i]` while it ranges over `bcs[1:]`:
  tipsets of several blocks lose the last and hold the first twice, and the client
  rejects the correct answer of every honest peer.
* `hello_cancel`: two nodes that greet each other at once, or one that greets a
  node whose loop has returned, wait for ever and do not see their own
  cancellation.

Seen, and part of the models, without a run of their own: `dispatch` compares
`len(exports) < int(methodIdx)` (`context.go:212`), so the number `len(exports)` itself
and those that turn negative index out of range (`IndexPanics`); `NewActorAddress`
never advances its counter and never sets the call sequence (`context.go:487`,
`vm.go:117`), so a second actor of the same originator takes over the first one's
robust address (`Exec`); `GetChainMessages` indexes an empty list
(`GetMessagesOfNone`); `GetMessage` and `GetSignedMessage` panic whenever the block
is there (`store.go:98`); a header decodes from a block with something after it, and
its cid, computed anew, is not the block's (`LoadedAsAsked`); the codecs refuse lists
of more than 8192 elements, so the gossip's limit of 10000 messages
(`BlockMessageLimit`) is never reached in a list of one kind; the side-effect lock of
`StateTransaction` is a flag, so the end of an inner transaction lifts it while
the outer one is still running (`EndTransaction`); an index of 2^63 or more passes
the validation of the client and panics when used (`AsInt`); a failed fetch is
logged and its nil block added, which ends the program, as does a block that
arrives before there is a heaviest tipset, or one without header
(`OnlyKnownPanics` of `Coordinator` names the three); `Send` decodes the
result of a nested call whatever its exit code, so that a caller that wants a
result cannot survive the failure `vm.go:140` says it can recover from
(`SendReturns`); a nil ticket from the network panics in the sort
(`HeadersPanic`); `CidArrsEqual` accepts a repeated cid in the place of a missing
one (`TipSet`); a peer identified before the heaviest tipset is set kills the
program (`SayHelloPanics`).

## 6. What is not modelled

* Failures of the block store under the actor store: the VM turns each into a
  panic that ends the program, as `Panic` does for other causes, but at places where
  the model has none.
* `CreateActor` and `NewActorAddress` called by actors other than init: the actors
  library keeps both for the init actor, and user code here does not call them.
* Overflow of a nonce or an ID, 2^64 messages away.
* Gas, randomness, syscalls: the runtime returns constants or does nothing.
* The CBOR library under the generated codecs, and the encodings of addresses,
  signatures, cids and big integers: external, a token each. What is read is canonical
  (`ReadIsCanonical`) as far as these are: a big integer with leading zeros would be
  read, and written again without them.
* What greetings contain, and the latency they report: only logged.
* The messages topic: nothing subscribes to it (`pubsubMessages` has no caller).
* The inside of pubsub, of the event bus and of the block exchange: external, and
  modelled by what the coordinator sees of them.
* The block store and the metastore under the chain store: external, a set and a
  cell; that a put is on disk when it returns is assumed.
* Genesis files, bootstrap peers and drand schedules: constants; `drand.go` holds
  their types. The names, extras and virtual parts of gas charges: for traces only.

## 7. Plan

In this order; what is done is described above.

1. Done: `ActorStore`, `VM`, `Ledger`; `TipSet`, `ChainExchange`, `ChainRequest`;
   `Hello`; `FullBlock`, `FetchBlocks`, `FetchRequest`, `Coordinator`; `ChainStore`;
   `Codec`; `GasPrices`, `Networks`; the proofs of section 4.
2. Done: proofs about `TipSet` and `ChainExchange`, of the conservation of money in
   `VM`, of what the chain store loads, of `TypeOK` of `Hello`, and about the tables
   of `Networks`.
3. Done: `Codec` by steps of one token, and the proofs of its properties.
4. Done: the loops of `Hello` that are not held back have something to do, the
   safety part of `GreetingsEnd`.

Each step adds a run only where it asks a new question; violations that later
steps bring are added in the place of those of the least consequence.
