----------------------------- MODULE MCFSStoreFile -----------------------------
(* FSStoreFile with two callers.                                             *)
EXTENDS FSStoreFile
CONSTANTS c1, c2
=============================================================================
