------------------------------ MODULE MCNetworks ------------------------------
(***************************************************************************)
(* The two networks, at the epochs around each of their upgrades, for TLC. *)
(***************************************************************************)
EXTENDS Networks

MCTables == {Mainnet, Calibnet}

Upgrades ==
  {u.versions[i] : u \in {MainnetUpgrades, CalibnetUpgrades}, i \in 1..9}

MCEpochs ==
  {e \in {0, 1} \cup UNION {{h - 1, h, h + 1} : h \in Upgrades} : e >= 0}

MCSizes == {0, 1, 100}
MCSectors == {0, 1, 10}

=============================================================================
