---------------------------- MODULE GatewayState ----------------------------
(***************************************************************************)
(* What the Gateway keeps on disk: LevelDB with the pending nonces in it,  *)
(* key files and configuration.  The four parts have no variable in common *)
(* and call nothing of each other, so no order of a step of one and a step *)
(* of another tells more than the steps of each alone: a behaviour has the *)
(* steps of one of them.                                                   *)
(***************************************************************************)
EXTENDS SharedStorage, WalletFiles, ConfigManager, PendingNonces

VARIABLE part   \* the part whose steps this behaviour has

stateVars == <<part, storageVars, walletVars, configVars, arrayVars>>

Init ==
  /\ part \in {"storage", "wallets", "configuration", "nonces"}
  /\ StorageInit /\ WalletInit /\ ConfigInit /\ ArrayInit

Next ==
  /\ \/ part = "storage" /\ StorageNext /\ UNCHANGED <<walletVars, configVars, arrayVars>>
     \/ part = "wallets" /\ WalletNext /\ UNCHANGED <<storageVars, configVars, arrayVars>>
     \/ part = "configuration" /\ ConfigNext /\ UNCHANGED <<storageVars, walletVars, arrayVars>>
     \/ part = "nonces" /\ ArrayNext /\ UNCHANGED <<storageVars, walletVars, configVars>>
  /\ UNCHANGED part

Spec == Init /\ [][Next]_stateVars
=============================================================================
