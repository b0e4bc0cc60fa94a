--------------------------------- MODULE VM ---------------------------------
(***************************************************************************)
(* The virtual machine of src/runtime: vm.go applies one message at a      *)
(* time, context.go runs the invocations a message gives rise to.          *)
(*                                                                         *)
(* Go's call stack is the variable stack: one frame per invocationContext  *)
(* whose actor method is running, the innermost last.  An actor method is  *)
(* any sequence of calls of the runtime interface, so one action here is   *)
(* one such call by the innermost frame, with everything it does.  The     *)
(* methods of the init actor and of account actors, which the VM relies    *)
(* on, are the exact ones.                                                 *)
(*                                                                         *)
(* An abort is a Go panic that invoke recovers and turns into an exit      *)
(* code.  Every other panic, kept in the variable crash, is re-raised by   *)
(* every frame after it has rolled back, until none is left and the        *)
(* program ends.                                                           *)
(***************************************************************************)
EXTENDS ActorStore

CONSTANTS
  Genesis,      \* the state tree the store is opened on
  Codes,        \* the codes an actor record may carry
  Registry,     \* codes with an implementation (ActorRegistry)
  Singletons,   \* codes IsSingletonActor holds of
  Executable,   \* codes the init actor's Exec accepts
  UserCodes,    \* codes whose methods make any runtime calls
  Exports,      \* code -> length of the slice its Exports() returns
  Undefined,    \* code -> the nil entries of that slice
  MaxInt,       \* the largest int (2^63 - 1)
  Objects,      \* state objects user code stores
  AbortCodes,   \* exit codes user code aborts with
  Messages,     \* [to, value, method, params] a caller may choose
  Senders,      \* values of Message.From
  Calls,        \* the runtime calls user code makes
  MaxDepth,     \* bound: nested invocations
  MaxCalls,     \* bound: runtime calls of one message
  MaxMessages,  \* bound: messages applied
  MaxNesting    \* bound: StateTransactions open at once in one frame

CallNames == {"Send", "ValidateImmediateCaller", "StateCreate", "StateReadonly",
              "StateTransaction", "DeleteActor"}

Heads == Objects \cup {EmptyObject, "account", "init"}

Actor == [code : Codes, head : Heads, callSeqNum : Nat, balance : Nat]

\* A state tree: maps whose domains grow.
IsTree(tree) ==
  /\ tree = [actors |-> tree.actors, addressMap |-> tree.addressMap,
             nextID |-> tree.nextID]
  /\ tree.actors \in [DOMAIN tree.actors -> Actor]
  /\ DOMAIN tree.actors \subseteq Nat
  /\ tree.addressMap \in [DOMAIN tree.addressMap -> Nat]
  /\ DOMAIN tree.addressMap \subseteq Address
  /\ tree.nextID \in Nat

\* The init actor is there, as resolveTarget and NormalizeAddress require; every
\* address it has mapped names an actor, and no actor has an ID it has not handed
\* out yet.
Consistent(tree) ==
  /\ Found(tree, InitActorAddr)
  /\ \A a \in DOMAIN tree.addressMap : Found(tree, tree.addressMap[a])
  /\ \A id \in DOMAIN tree.actors : id < tree.nextID

ASSUME GenesisAssumption == IsTree(Genesis) /\ Consistent(Genesis)

ASSUME CodesAssumption ==
  /\ Registry \subseteq Codes
  /\ "account" \in Registry \ Singletons
  /\ {"account", "init"} \cap UserCodes = {}
  /\ Calls \subseteq CallNames

ASSUME MessagesAssumption ==
  \A m \in Messages : m.to \in Address /\ m.value \in Int /\ m.method \in Nat

Ok == "Ok"
MethodSend == 0
MethodConstructor == 1
MethodExec == 2

NoRet == [code |-> "none", val |-> "none"]

-----------------------------------------------------------------------------
VARIABLES
  store,     \* VM.store: [tree, stateRoot]
  stack,     \* the running invocationContexts
  ret,       \* what the invoke that has just returned returned, or NoRet
  base,      \* priorRoot of ApplyMessage; the tree itself between messages
  topLevel,  \* the topLevelContext
  receipt,   \* exit code of the last ApplyMessage
  crash,     \* the panic that ends the program, or "none"
  applied,   \* messages applied so far (bounded)
  calls      \* runtime calls the message has made (bounded)

vars == <<store, stack, ret, base, topLevel, receipt, crash, applied, calls>>

Init ==
  /\ store = [tree |-> Genesis, stateRoot |-> Genesis]
  /\ stack = <<>>
  /\ ret = NoRet
  /\ base = Genesis
  /\ topLevel = [originator |-> 0, callSeq |-> 0, addressCount |-> 0]
  /\ receipt = Ok
  /\ crash = "none"
  /\ applied = 0
  /\ calls = 0

Top == stack[Len(stack)]
Below == SubSeq(stack, 1, Len(stack) - 1)

Idle == stack = <<>> /\ ret = NoRet /\ crash = "none"

\* An actor method is running and it is its turn.
Running == stack # <<>> /\ ret = NoRet /\ crash = "none"

\* A panic is on its way through the frames.
Unwinding == stack # <<>> /\ crash # "none"

CodeOf(frame) == store.tree.actors[frame.to].code

\* The innermost frame is user code about to make a runtime call.
UserCalls(name) ==
  /\ Running
  /\ CodeOf(Top) \in UserCodes
  /\ name \in Calls
  /\ calls < MaxCalls
  /\ calls' = calls + 1

SetTop(frame) == stack' = Append(Below, frame)

-----------------------------------------------------------------------------
(* The ways an invocation ends.                                            *)

\* Mutant: every abort takes the message back to its beginning.
FailToBase(code, root, below) ==
  /\ store' = Rollback(base')
  /\ stack' = below
  /\ ret' = [code |-> code, val |-> "empty"]
  /\ UNCHANGED crash

\* Mutant: the root is not reset with the tree.
FailKeepingRoot(code, root, below) ==
  /\ store' = [store EXCEPT !.tree = root]
  /\ stack' = below
  /\ ret' = [code |-> code, val |-> "empty"]
  /\ UNCHANGED crash

\* invoke's deferred handler on an abort: the frame's changes and those of
\* every invocation below it are rolled back.
Fail(code, root, below) ==
  /\ store' = Rollback(root)
  /\ stack' = below
  /\ ret' = [code |-> code, val |-> "empty"]
  /\ UNCHANGED crash

\* Mutant: a panic that is no abort is passed on without the roll back.
RepanicAtOnce(reason, root, below) ==
  /\ store' = store
  /\ stack' = below
  /\ ret' = NoRet
  /\ crash' = reason

\* The handler on any other panic: the same roll back, then it panics again.
Repanic(reason, root, below) ==
  /\ store' = Rollback(root)
  /\ stack' = below
  /\ ret' = NoRet
  /\ crash' = reason

\* An actor method panics, with the tree as it then is; Unwind does the rest.
Panic(reason, tree) ==
  /\ store' = [store EXCEPT !.tree = tree]
  /\ crash' = reason
  /\ UNCHANGED <<stack, ret>>

Abort(code) == Fail(code, Top.prior, Below)

Returns(val) ==
  /\ stack' = Below
  /\ ret' = [code |-> Ok, val |-> val]
  /\ UNCHANGED <<store, crash>>

-----------------------------------------------------------------------------
(* invoke.                                                                 *)

\* CreateActor: why it would abort, and the tree it leaves.
CanCreate(tree, code, id) ==
  code \in Registry \ Singletons /\ ~Found(tree, id)

CreateActor(tree, code, id) ==
  SetActor(tree, id, [code |-> code, head |-> EmptyObject,
                      callSeqNum |-> 0, balance |-> 0])

\* The account actor resolveTarget makes for a public key.  The constructor it
\* invokes checkpoints the actor as created and then stores its state.
CreateAccount(tree, addr) ==
  LET id == tree.nextID
      created == CreateActor(MapAddressToNewID(tree, addr), "account", id)
  IN [tree |-> SetHead(created, id, "account"), stateRoot |-> created]

\* resolveTarget: the exit code it aborts with or Ok, the target's ID, and the
\* store with the account actor it may have created.
ResolveTarget(st, addr) ==
  IF Resolves(st.tree, addr)
  THEN LET id == NormalizeAddress(st.tree, addr)
       IN [code |-> IF Found(st.tree, id) THEN Ok ELSE "SysErrInvalidReceiver",
           id |-> id, store |-> st]
  ELSE IF addr.protocol = "KEY"
  THEN IF CanCreate(st.tree, "account", st.tree.nextID)
       THEN [code |-> Ok, id |-> st.tree.nextID,
             store |-> CreateAccount(st.tree, addr)]
       ELSE [code |-> "SysErrorIllegalArgument", id |-> 0, store |-> st]
  ELSE [code |-> "SysErrInvalidReceiver", id |-> 0, store |-> st]

\* transfer: the debit is written before the credit account is read, so that a
\* transfer to oneself changes nothing.
Debit(tree, id, amount) ==
  SetActor(tree, id, [tree.actors[id] EXCEPT !.balance = @ - amount])

Credit(tree, id, amount) ==
  SetActor(tree, id, [tree.actors[id] EXCEPT !.balance = @ + amount])

\* Mutant: the credit account is read before the debit is written.
TransferReadsFirst(tree, from, to, amount) ==
  SetActor(Debit(tree, from, amount), to,
           [tree.actors[to] EXCEPT !.balance = @ + amount])

\* Mutant: debit and credit swapped.
TransferSwapped(tree, from, to, amount) == Credit(Debit(tree, to, amount), from, amount)

Transfer(tree, from, to, amount) == Credit(Debit(tree, from, amount), to, amount)

\* Mutant: the check already made on the cached balance is relied on.
DebitUnchecked(tree, id, amount) == TRUE

DebitSuffices(tree, id, amount) == tree.actors[id].balance >= amount

\* Mutant: ic.toActor stays what resolveTarget loaded.
ToActorAsResolved(resolved, moved, id) == resolved.actors[id]

\* ic.toActor once invoke has moved the value, from the tree before and after.
ToActor(resolved, moved, id) == moved.actors[id]

\* Mutant: the value received is added to a balance that already has it.
NewFrameAddingValue(id, method, value, prior, balance) ==
  [to |-> id, method |-> method, value |-> value, prior |-> prior,
   balance |-> balance + value, validated |-> FALSE, sideEffects |-> TRUE,
   tx |-> <<>>, out |-> "none"]

NewFrame(id, method, value, prior, balance) ==
  [to |-> id, method |-> method, value |-> value, prior |-> prior,
   balance |-> balance, validated |-> FALSE, sideEffects |-> TRUE,
   tx |-> <<>>, out |-> "none"]

\* int(methodIdx) of a uint64: numbers above MaxInt turn negative.
AsInt(method) == IF method > MaxInt THEN method - 2 * (MaxInt + 1) ELSE method

\* dispatch tests len(exports) < int(methodIdx) before it indexes exports.
IndexPanics(code, method) ==
  code \in Registry /\ method >= Exports[code] /\ AsInt(method) <= Exports[code]

HasMethod(code, method) ==
  code \in Registry /\ method < Exports[code] /\ method \notin Undefined[code]

\* Params are bytes that decode as the method's argument or are garbage, or a value,
\* which is passed to the method as it is and may be mistyped.
Accepts(code, m) == HasMethod(code, m.method) /\ m.params = "decodes"

CallPanics(code, m) == HasMethod(code, m.method) /\ m.params = "mistyped"

\* From the Send short cut on; st is the store after the transfer, prior the
\* tree invoke rolls back to, balance that of ic.toActor.
Dispatch(m, id, st, prior, balance, below) ==
  LET code == st.tree.actors[id].code IN
  \/ /\ m.method = MethodSend
     /\ store' = st
     /\ stack' = below
     /\ ret' = [code |-> Ok, val |-> "empty"]
     /\ UNCHANGED crash
  \/ /\ m.method # MethodSend
     /\ IndexPanics(code, m.method)
     /\ Repanic("index out of range", prior, below)
  \/ /\ m.method # MethodSend
     /\ CallPanics(code, m)
     /\ Repanic("reflect: Call using a value of another type", prior, below)
  \/ /\ m.method # MethodSend
     /\ ~IndexPanics(code, m.method)
     /\ ~CallPanics(code, m)
     /\ ~Accepts(code, m)
     /\ Fail("SysErrInvalidMethod", prior, below)
  \/ /\ m.method # MethodSend
     /\ Accepts(code, m)
     /\ store' = st
     /\ stack' = Append(below, NewFrame(id, m.method, m.value, prior, balance))
     /\ ret' = NoRet
     /\ UNCHANGED crash

\* The balance is checked on fromActor, the record the caller holds (cached),
\* then again in transfer on the record the store holds.
Invoke(m, from, cached, st, below) ==
  LET checked == Checkpoint(st)
      prior == checked.tree
      target == ResolveTarget(checked, m.to)
      tree == target.store.tree
  IN
  \/ /\ target.code # Ok
     /\ Fail(target.code, prior, below)
  \/ /\ target.code = Ok
     /\ m.value < 0
     /\ Fail("SysErrForbidden", prior, below)
  \/ /\ target.code = Ok
     /\ m.value > 0
     /\ cached < m.value
     /\ Fail("SysErrInsufficientFunds", prior, below)
  \/ /\ target.code = Ok
     /\ m.value > 0
     /\ cached >= m.value
     /\ ~DebitSuffices(tree, from, m.value)
     /\ Repanic("unreachable: insufficient balance on debit account", prior, below)
  \/ /\ target.code = Ok
     /\ m.value > 0
     /\ cached >= m.value
     /\ DebitSuffices(tree, from, m.value)
     /\ LET moved == Transfer(tree, from, target.id, m.value)
        IN Dispatch(m, target.id, [target.store EXCEPT !.tree = moved], prior,
                    ToActor(tree, moved, target.id).balance, below)
  \/ /\ target.code = Ok
     /\ m.value = 0
     /\ Dispatch(m, target.id, target.store, prior,
                 tree.actors[target.id].balance, below)

-----------------------------------------------------------------------------
(* ApplyMessage.                                                           *)

KnownSender(addr) ==
  /\ Resolves(store.tree, addr)
  /\ Found(store.tree, NormalizeAddress(store.tree, addr))

\* The sender has no actor.
RejectMessage ==
  /\ Idle
  /\ applied < MaxMessages
  /\ \E from \in Senders : ~KnownSender(from)
  /\ receipt' = "SysErrSenderInvalid"
  /\ applied' = applied + 1
  /\ UNCHANGED <<store, stack, ret, base, topLevel, crash, calls>>

\* The nonce is bumped and checkpointed, then the top-level invocation starts;
\* its fromActor was read before the bump.
ApplyMessage ==
  /\ Idle
  /\ applied < MaxMessages
  /\ \E from \in Senders, m \in Messages :
       /\ KnownSender(from)
       /\ LET fromID == NormalizeAddress(store.tree, from)
              fromActor == store.tree.actors[fromID]
              bumped == [store EXCEPT !.tree = BumpCallSeqNum(store.tree, fromID)]
          IN /\ base' = bumped.tree
             /\ topLevel' = [originator |-> fromID, callSeq |-> 0,
                             addressCount |-> 0]
             /\ Invoke(m, fromID, fromActor.balance, Checkpoint(bumped), <<>>)
  /\ applied' = applied + 1
  /\ calls' = 0
  /\ UNCHANGED receipt

\* The rest of ApplyMessage, once the top-level invocation has returned.
FinishMessage ==
  /\ stack = <<>>
  /\ ret # NoRet
  /\ receipt' = ret.code
  /\ store' = IF ret.code # Ok THEN Rollback(base) ELSE store
  /\ base' = store'.tree
  /\ ret' = NoRet
  /\ UNCHANGED <<stack, topLevel, crash, applied, calls>>

-----------------------------------------------------------------------------
(* The runtime calls of user code.                                         *)

\* Mutant: the side-effect lock is not looked at.
MaySendAlways(frame) == TRUE

MaySend(frame) == frame.sideEffects

\* Send.  out is the kind of object the caller wants the result in.
Send ==
  /\ UserCalls("Send")
  /\ UNCHANGED base
  /\ IF ~MaySend(Top)
     THEN Abort("SysErrorIllegalActor")
     ELSE /\ Len(stack) < MaxDepth
          /\ \E m \in Messages, out \in {"discard", "typed"} :
               Invoke(m, Top.to, Top.balance, store,
                      Append(Below, [Top EXCEPT !.out = out]))
  /\ UNCHANGED <<topLevel, receipt, applied>>

\* The end of Send, for user code: the result is decoded into out whatever the
\* exit code, and a failure to decode it aborts the caller.
SendReturns ==
  /\ stack # <<>>
  /\ ret # NoRet
  /\ CodeOf(Top) \in UserCodes
  /\ IF Top.out = "typed" /\ ret.val = "empty"
     THEN Abort("ErrSerialization")
     ELSE ret' = NoRet /\ UNCHANGED <<store, stack, crash>>
  /\ UNCHANGED <<base, topLevel, receipt, applied, calls>>

\* ValidateImmediateCaller*: the first passes or not, a second panics.
ValidateImmediateCaller ==
  /\ UserCalls("ValidateImmediateCaller")
  /\ UNCHANGED base
  /\ \/ Top.validated /\ Panic("caller has been double validated", store.tree)
     \/ ~Top.validated /\ Abort("ErrForbidden")
     \/ /\ ~Top.validated
        /\ SetTop([Top EXCEPT !.validated = TRUE])
        /\ UNCHANGED <<store, ret, crash>>
  /\ UNCHANGED <<topLevel, receipt, applied>>

StateCreate ==
  /\ UserCalls("StateCreate")
  /\ IF store.tree.actors[Top.to].head # EmptyObject
     THEN Abort("SysErrorIllegalActor")
     ELSE /\ \E obj \in Objects :
               store' = [store EXCEPT !.tree = SetHead(store.tree, Top.to, obj)]
          /\ UNCHANGED <<stack, ret, crash>>
  /\ UNCHANGED <<base, topLevel, receipt, applied>>

\* loadState: the empty object does not decode as any actor's state.
LoadStatePanics ==
  /\ store.tree.actors[Top.to].head = EmptyObject
  /\ Panic("failed to load state", store.tree)

StateReadonly ==
  /\ UserCalls("StateReadonly")
  /\ UNCHANGED base
  /\ \/ LoadStatePanics
     \/ /\ store.tree.actors[Top.to].head # EmptyObject
        /\ UNCHANGED <<store, stack, ret, crash>>
  /\ UNCHANGED <<topLevel, receipt, applied>>

\* StateTransaction up to the call of f.
BeginTransaction ==
  /\ UserCalls("StateTransaction")
  /\ UNCHANGED base
  /\ Len(Top.tx) < MaxNesting
  /\ \/ LoadStatePanics
     \/ /\ store.tree.actors[Top.to].head # EmptyObject
        /\ SetTop([Top EXCEPT !.tx = Append(@, [state |-> store.tree.actors[Top.to].head,
                                               pierced |-> FALSE]),
                              !.sideEffects = FALSE])
        /\ UNCHANGED <<store, ret, crash>>
  /\ UNCHANGED <<topLevel, receipt, applied>>

\* What is left of the open transactions when the innermost ends: each has from
\* then on had another end inside it.
Pierced(tx) ==
  [k \in 1..(Len(tx) - 1) |-> [tx[k] EXCEPT !.pierced = TRUE]]

\* StateTransaction after f has returned: the lock is lifted, though the call may
\* be nested in another's f, and the object, as f left it, replaces the state.
EndTransaction ==
  /\ Running
  /\ Top.tx # <<>>
  /\ \E obj \in Objects :
       store' = [store EXCEPT !.tree = SetHead(store.tree, Top.to, obj)]
  /\ SetTop([Top EXCEPT !.tx = Pierced(@), !.sideEffects = TRUE])
  /\ UNCHANGED <<ret, base, topLevel, receipt, crash, applied, calls>>

\* DeleteActor moves the balance to the beneficiary, whose address transfer takes
\* as it is, and then calls the store's DeleteActor, which only panics; no path
\* returns, and two leave the money debited and credited to nobody.
DeleteActor ==
  /\ UserCalls("DeleteActor")
  /\ UNCHANGED base
  /\ \E beneficiary \in {m.to : m \in Messages} :
       LET tree == store.tree
           amount == tree.actors[Top.to].balance
           debited == Debit(tree, Top.to, amount)
           id == beneficiary.payload[1]
       IN \/ /\ amount = 0
             /\ Panic("ActorStore.DeleteActor not implemented", tree)
          \/ /\ amount > 0
             /\ beneficiary.protocol # "ID"
             /\ Panic("address must use ID protocol", debited)
          \/ /\ amount > 0
             /\ beneficiary.protocol = "ID"
             /\ ~Found(debited, id)
             /\ Panic("unreachable: credit account not found", debited)
          \/ /\ amount > 0
             /\ beneficiary.protocol = "ID"
             /\ Found(debited, id)
             /\ Panic("ActorStore.DeleteActor not implemented",
                      Credit(debited, id, amount))
  /\ UNCHANGED <<topLevel, receipt, applied>>

\* The method returns an object, or nothing.
Return ==
  /\ Running
  /\ CodeOf(Top) \in UserCodes
  /\ Top.tx = <<>>
  /\ \E val \in {"empty", "typed"} : Returns(val)
  /\ UNCHANGED <<base, topLevel, receipt, applied, calls>>

\* The method aborts, or returns what cannot be encoded.
UserAbort ==
  /\ Running
  /\ CodeOf(Top) \in UserCodes
  /\ \E code \in AbortCodes : Abort(code)
  /\ UNCHANGED <<base, topLevel, receipt, applied, calls>>

-----------------------------------------------------------------------------
(* The methods of the actors the VM relies on.                             *)

\* Account actors: the constructor is for the system actor, which sends no
\* message; PubkeyAddress returns the key.
AccountMethod ==
  /\ Running
  /\ CodeOf(Top) = "account"
  /\ IF Top.method = MethodConstructor THEN Abort("ErrForbidden")
                                       ELSE Returns("typed")
  /\ UNCHANGED <<base, topLevel, receipt, applied, calls>>

InitConstructor ==
  /\ Running
  /\ CodeOf(Top) = "init"
  /\ Top.method = MethodConstructor
  /\ Abort("ErrForbidden")
  /\ UNCHANGED <<base, topLevel, receipt, applied, calls>>

\* NewActorAddress: neither the call sequence nor the counter ever advances.
NewActorAddress ==
  ActorAddress(topLevel.originator, topLevel.callSeq, topLevel.addressCount)

\* Exec: a robust address and an ID for the new actor, then its constructor.
Exec ==
  /\ Running
  /\ CodeOf(Top) = "init"
  /\ Top.method = MethodExec
  /\ UNCHANGED base
  /\ \E code \in Codes :
       LET mapped == MapAddressToNewID(store.tree, NewActorAddress)
           id == store.tree.nextID
       IN \/ /\ code \notin Executable
             /\ Abort("ErrForbidden")
          \/ /\ code \in Executable
             /\ ~CanCreate(mapped, code, id)
             /\ Abort("SysErrorIllegalArgument")
          \/ /\ code \in Executable
             /\ CanCreate(mapped, code, id)
             /\ Invoke([to |-> IDAddress(id), value |-> Top.value,
                        method |-> MethodConstructor, params |-> "decodes"],
                       Top.to, Top.balance,
                       [store EXCEPT !.tree = CreateActor(mapped, code, id)],
                       Append(Below, [Top EXCEPT !.out = "discard"]))
  /\ UNCHANGED <<topLevel, receipt, applied, calls>>

ExecReturns ==
  /\ stack # <<>>
  /\ ret # NoRet
  /\ CodeOf(Top) = "init"
  /\ IF ret.code = Ok THEN Returns("typed") ELSE Abort(ret.code)
  /\ UNCHANGED <<base, topLevel, receipt, applied, calls>>

-----------------------------------------------------------------------------
\* The deferred handler of the innermost frame, on the panic on its way out.
Unwind ==
  /\ Unwinding
  /\ Repanic(crash, Top.prior, Below)
  /\ UNCHANGED <<base, topLevel, receipt, applied, calls>>

\* No message is left within the bound, or the program has crashed.
Terminated ==
  /\ stack = <<>>
  /\ crash # "none" \/ (Idle /\ applied = MaxMessages)
  /\ UNCHANGED vars

Next ==
  \/ RejectMessage \/ ApplyMessage \/ FinishMessage
  \/ Send \/ SendReturns
  \/ ValidateImmediateCaller
  \/ StateCreate \/ StateReadonly \/ BeginTransaction \/ EndTransaction
  \/ DeleteActor
  \/ Return \/ UserAbort
  \/ AccountMethod \/ InitConstructor \/ Exec \/ ExecReturns
  \/ Unwind
  \/ Terminated

Spec == Init /\ [][Next]_vars

-----------------------------------------------------------------------------
(* Types.                                                                  *)

IsFrame(frame) ==
  /\ frame = [to |-> frame.to, method |-> frame.method, value |-> frame.value,
              prior |-> frame.prior, balance |-> frame.balance,
              validated |-> frame.validated, sideEffects |-> frame.sideEffects,
              tx |-> frame.tx, out |-> frame.out]
  /\ frame.to \in Nat
  /\ frame.method \in Nat
  /\ frame.value \in Nat
  /\ IsTree(frame.prior)
  /\ frame.balance \in Nat
  /\ frame.validated \in BOOLEAN
  /\ frame.sideEffects \in BOOLEAN
  /\ frame.tx \in Seq([state : Heads, pierced : BOOLEAN])
  /\ frame.out \in {"none", "discard", "typed"}

\* The variables have their types; in every tree, the snapshots that may yet be
\* rolled back to included, no balance is negative.
TypeOK ==
  /\ store = [tree |-> store.tree, stateRoot |-> store.stateRoot]
  /\ IsTree(store.tree)
  /\ IsTree(store.stateRoot)
  /\ IsTree(base)
  /\ DOMAIN stack = 1..Len(stack) /\ Len(stack) \in Nat
  /\ \A i \in 1..Len(stack) : IsFrame(stack[i])
  /\ ret = NoRet \/ ret.val \in {"empty", "typed"}
  /\ topLevel \in [originator : Nat, callSeq : Nat, addressCount : Nat]
  /\ applied \in Nat
  /\ calls \in Nat

-----------------------------------------------------------------------------
(* Safety.                                                                 *)

\* The trees that are current or may be again.  A panic may leave a transfer half
\* done; the tree it leaves is not among them.
Trees ==
  {base} \cup {stack[i].prior : i \in DOMAIN stack}
    \cup (IF Unwinding THEN {} ELSE {store.tree, store.stateRoot})

\* Transfers, new actors, rollbacks and crashes neither make nor destroy money
\* (transfer and invoke, context.go).
FundsConserved == \A tree \in Trees : TotalBalance(tree) = TotalBalance(Genesis)

\* The init actor's state and the actor map are changed by different writes, with
\* snapshots in between; in every tree they agree, so that a new actor never meets
\* an old one (resolveTarget, CreateActor; the init actor's Exec).
InitStateConsistent == \A tree \in Trees : Consistent(tree)

\* The tree ApplyMessage leaves or has left, also when a panic has come through it;
\* while a message is applied, the one it started on.
L == INSTANCE Ledger WITH
       Start <- Genesis,
       TotalBalance <- TotalBalance,
       ledger <- IF stack = <<>> /\ ret = NoRet THEN store.tree ELSE base,
       sender <- IF Idle THEN -1 ELSE topLevel.originator

\* The snapshots of the running frames are stages of one message, in the order
\* the frames were entered, and the tree is past all of them; the flushed root
\* is one such stage.  So whichever frame aborts, the roll back undoes what it
\* and its nested invocations did and nothing else (invoke's deferred handler).
SnapshotsInOrder ==
  LET payer == topLevel.originator IN
  /\ \A i \in DOMAIN stack :
       /\ L!Grows(base, stack[i].prior, payer)
       /\ \A j \in DOMAIN stack :
            i < j => L!Grows(stack[i].prior, stack[j].prior, payer)
  /\ ~Unwinding =>
       /\ \A i \in DOMAIN stack : L!Grows(stack[i].prior, store.tree, payer)
       /\ L!Grows(base, store.tree, payer)
       /\ L!Grows(store.stateRoot, store.tree, payer)

\* The actor of every running frame exists, whatever is rolled back under it.
FramesHaveActors ==
  \A i \in DOMAIN stack : Found(store.tree, stack[i].to)

\* Until an invocation first calls Send, the balance it caches in toActor, which
\* CurrentBalance returns and Send checks, is the balance in the store.
BalanceFreshUntilSend ==
  \A i \in DOMAIN stack :
    stack[i].out = "none" /\ ~Unwinding =>
      /\ i = Len(stack)
      /\ stack[i].balance = store.tree.actors[stack[i].to].balance

\* An invocation can pay what its balance shows: the panic of transfer on a debit
\* account with too little (context.go:285) is reached by no message's own payment and
\* by no invocation's first Send, only by one that has sent before.
FirstPaymentSafe ==
  [][crash # crash' /\ crash' = "unreachable: insufficient balance on debit account" =>
       stack # <<>> /\ Top.out # "none"]_vars

\* While f of a StateTransaction runs, the state it was given is still the state
\* in the store, so that the replacement loses nobody's update: not through a
\* Send that comes back to the actor, nor through a call of StateTransaction
\* inside f as long as that one is open.  Once such a call has ended, which
\* lifts the lock (context.go:379), nothing is promised to the f around it.
TransactionIsolation ==
  \A i \in DOMAIN stack :
    \A k \in DOMAIN stack[i].tx :
      ~stack[i].tx[k].pierced /\ ~Unwinding =>
        /\ i = Len(stack)
        /\ store.tree.actors[stack[i].to].head = stack[i].tx[k].state

\* Messages are atomic: VM implements Ledger.
LedgerSpec == L!Spec

-----------------------------------------------------------------------------
(* Statements of comments and assertions in the source.                    *)

\* context.go:285, "unreachable: insufficient balance on debit account".
DebitAccountSuffices ==
  crash # "unreachable: insufficient balance on debit account"

=============================================================================
