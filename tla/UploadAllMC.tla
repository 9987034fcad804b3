---------------------------- MODULE UploadAllMC ----------------------------
(* Small instances of UploadAll. A file that is also listed as a path has  *)
(* that path to itself; all others were recorded under one further path.   *)
EXTENDS UploadAll, TLC

SomeShared == [f \in Files |-> IF f \in Paths THEN f ELSE CHOOSE p \in Paths : p \notin Files]

Symm == Permutations(Files \cap Paths) \cup Permutations(Files \ Paths)
=============================================================================
