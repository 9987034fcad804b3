---------------------------- MODULE DeltaSyncMC ----------------------------
(* Small instances of DeltaSync; the values are in the configuration.      *)
EXTENDS DeltaSync
=============================================================================
