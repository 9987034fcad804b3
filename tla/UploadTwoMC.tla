---------------------------- MODULE UploadTwoMC ----------------------------
(* A small instance of UploadTwo: each file has a path of its own.         *)
EXTENDS UploadTwo

OwnPath == [f \in Files |-> f]
=============================================================================
