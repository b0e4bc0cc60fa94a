-------------------------------- MODULE MCVM --------------------------------
(***************************************************************************)
(* Small instances of VM for TLC: one initial tree, and for each run the   *)
(* messages it may send.                                                   *)
(***************************************************************************)
EXTENDS VM

\* The init actor, an account actor with a key, and an actor running user code.
MCGenesis ==
  [actors |->
     [id \in {1, 100, 101} |->
        CASE id = 1 ->
               [code |-> "init", head |-> "init", callSeqNum |-> 0, balance |-> 0]
          [] id = 100 ->
               [code |-> "account", head |-> "account", callSeqNum |-> 0, balance |-> 2]
          [] id = 101 ->
               [code |-> "user", head |-> "obj1", callSeqNum |-> 0, balance |-> 1]],
   addressMap |-> [a \in {KeyAddress(1)} |-> 100],
   nextID |-> 102]

MCCodes == {"init", "account", "user", "ghost"}
MCRegistry == {"init", "account", "user"}

\* Three methods each: none, the constructor and one more; user code also leaves
\* number 3 nil, so that 4 is the first number past the end.
MCExports == [c \in MCRegistry |-> IF c = "user" THEN 4 ELSE 3]
MCUndefined == [c \in MCRegistry |-> IF c = "user" THEN {3} ELSE {}]

Account == IDAddress(100)
AccountKey == KeyAddress(1)
User == IDAddress(101)
NewKey == KeyAddress(2)
InitActor == IDAddress(1)
Created == IDAddress(102)
Robust == ActorAddress(100, 0, 0)
Nobody == IDAddress(999)

Message(addrs, values, methods, params) ==
  [to : addrs, value : values, method : methods, params : params]

Good == {"decodes"}

\* Payments and calls with a payment, up to more than anyone has, and the ways a
\* call can be wrong.
CallMessages ==
  Message({AccountKey, User, NewKey}, {1, 3}, {0}, Good)
    \cup Message({User}, {-1, 0, 1}, {2}, Good)
    \cup Message({Account}, {0}, {2}, Good)
    \cup Message({User}, {0}, {3, 4, 5}, Good)
    \cup Message({User}, {0}, {2}, {"garbage", "mistyped"})
    \cup Message({Robust, Nobody}, {0}, {0}, Good)
    \cup Message({Account, InitActor}, {0}, {1}, Good)

\* Creation of actors, and payments to what was created.
ExecMessages ==
  Message({InitActor}, {0, 1}, {2}, Good)
    \cup Message({NewKey, Robust}, {1}, {0}, Good)
    \cup Message({Created, User}, {0}, {2}, Good)

\* The smallest set that reaches the stale balance.
CallThenPay ==
  Message({User}, {0}, {2}, Good) \cup Message({AccountKey}, {1}, {0}, Good)

KnownSenders == {AccountKey}
AllSenders == {AccountKey, User, KeyAddress(7), Nobody}

=============================================================================
