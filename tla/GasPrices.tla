------------------------------ MODULE GasPrices ------------------------------
(***************************************************************************)
(* Price lists and what they charge, as operators on values                *)
(* (gaspricing.go of src/networks/mainnet and src/networks/calibnet, which *)
(* differ in the package's name only).  A charge is [compute, storage];    *)
(* its name, its extra and its virtual part are for traces and left out.   *)
(***************************************************************************)
EXTENDS Integers

\* The price list from epoch 0.
FirstPrices ==
  [computeGasMulti |-> 1, storageGasMulti |-> 1000,
   onChainMessageComputeBase |-> 38863, onChainMessageStorageBase |-> 36,
   onChainMessageStoragePerByte |-> 1, onChainReturnValuePerByte |-> 1,
   sendBase |-> 29233, sendTransferFunds |-> 27500,
   sendTransferOnlyPremium |-> 159672, sendInvokeMethod |-> -5377,
   ipldGetBase |-> 75242, ipldPutBase |-> 84070, ipldPutPerByte |-> 1,
   createActorCompute |-> 1108454, createActorStorage |-> 36 + 40,
   deleteActor |-> -(36 + 40),
   verifySignature |-> [BLS |-> 16598605, Secp256k1 |-> 1637292],
   hashingBase |-> 31355, computeUnsealedSectorCidBase |-> 98647,
   verifySealBase |-> 2000,
   verifyPostLookup |->
     [MiB512 |-> [flat |-> 123861062, scale |-> 9226981],
      GiB32  |-> [flat |-> 748593537, scale |-> 85639],
      GiB64  |-> [flat |-> 748593537, scale |-> 85639]],
   verifyPostDiscount |-> TRUE, verifyConsensusFault |-> 495422]

\* The price list from the Calico upgrade.
CalicoPost == [flat |-> 117680921, scale |-> 43780]

CalicoPrices ==
  [FirstPrices EXCEPT
     !.storageGasMulti = 1300,
     !.ipldGetBase = 114617,
     !.ipldPutBase = 353640,
     !.verifyPostLookup = [MiB512 |-> CalicoPost, GiB32 |-> CalicoPost, GiB64 |-> CalicoPost],
     !.verifyPostDiscount = FALSE]

-----------------------------------------------------------------------------
Charge(compute, storage) == [compute |-> compute, storage |-> storage]

Total(charge) == charge.compute + charge.storage

OnChainMessage(pl, size) ==
  Charge(pl.onChainMessageComputeBase,
         (pl.onChainMessageStorageBase + pl.onChainMessageStoragePerByte * size)
           * pl.storageGasMulti)

OnChainReturnValue(pl, size) ==
  Charge(0, size * pl.onChainReturnValuePerByte * pl.storageGasMulti)

OnMethodInvocation(pl, value, method) ==
  Charge(pl.sendBase
           + (IF value # 0 THEN pl.sendTransferFunds ELSE 0)
           + (IF value # 0 /\ method = 0 THEN pl.sendTransferOnlyPremium ELSE 0)
           + (IF method # 0 THEN pl.sendInvokeMethod ELSE 0), 0)

OnIpldGet(pl) == Charge(pl.ipldGetBase, 0)

OnIpldPut(pl, size) ==
  Charge(pl.ipldPutBase, size * pl.ipldPutPerByte * pl.storageGasMulti)

OnCreateActor(pl) ==
  Charge(pl.createActorCompute, pl.createActorStorage * pl.storageGasMulti)

\* Mutant: what creation cost is given back in full.
DeleteRefundsAll(pl) ==
  Charge(-pl.createActorCompute, pl.deleteActor * pl.storageGasMulti)

OnDeleteActor(pl) == Charge(0, pl.deleteActor * pl.storageGasMulti)

\* Of a signature type without a price an error is returned.
SignatureSupported(pl, sigType) == sigType \in DOMAIN pl.verifySignature

OnVerifySignature(pl, sigType) == Charge(pl.verifySignature[sigType], 0)

OnHashing(pl) == Charge(pl.hashingBase, 0)

OnComputeUnsealedSectorCid(pl) == Charge(pl.computeUnsealedSectorCidBase, 0)

OnVerifySeal(pl) == Charge(pl.verifySealBase, 0)

\* The first proof's type decides; of an unknown type, or without proofs, the
\* cost is that of 512 MiB.
OnVerifyPost(pl, proofType, sectors) ==
  LET known == proofType \in DOMAIN pl.verifyPostLookup
      cost == pl.verifyPostLookup[IF known THEN proofType ELSE "MiB512"]
      gasUsed == cost.flat + sectors * cost.scale
  IN  Charge(IF pl.verifyPostDiscount THEN gasUsed \div 2 ELSE gasUsed, 0)

OnVerifyConsensusFault(pl) == Charge(pl.verifyConsensusFault, 0)

-----------------------------------------------------------------------------
\* Everything a price list may charge for but the deletion of an actor.
Charges(pl, sizes, sectors) ==
  {OnIpldGet(pl), OnCreateActor(pl), OnHashing(pl), OnComputeUnsealedSectorCid(pl),
   OnVerifySeal(pl), OnVerifyConsensusFault(pl)}
    \cup {OnChainMessage(pl, n) : n \in sizes}
    \cup {OnChainReturnValue(pl, n) : n \in sizes}
    \cup {OnIpldPut(pl, n) : n \in sizes}
    \cup {OnMethodInvocation(pl, v, m) : v \in {0, 1}, m \in {0, 1}}
    \cup {OnVerifySignature(pl, s) : s \in DOMAIN pl.verifySignature}
    \cup {OnVerifyPost(pl, t, n) :
            t \in DOMAIN pl.verifyPostLookup \cup {"none"}, n \in sectors}

=============================================================================
