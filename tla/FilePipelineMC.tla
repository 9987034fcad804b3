--------------------------- MODULE FilePipelineMC ---------------------------
(* Small instances of FilePipeline: paths are named after the files.       *)
EXTENDS FilePipeline, TLC

\* Every content has a path of its own.
OwnPath == [f \in Files |-> f]
\* The host reuses one file name for every content.
SharedPath == [f \in Files |-> CHOOSE p \in Paths : TRUE]

\* Contents on ignored paths are not interchangeable with the others.
Symm == Permutations(Files \ Ignored)
=============================================================================
