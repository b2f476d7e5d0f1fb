--------------------------- MODULE MCObjectStorage ---------------------------
(***************************************************************************)
(* ObjectStorage for TLC: calls of one sort, and kinds of artifacts, are   *)
(* interchangeable (no property tells them apart, none is temporal).       *)
(***************************************************************************)
EXTENDS ObjectStorage, TLC

Interchangeable ==
  Permutations(Completers) \cup Permutations(Publishers) \cup Permutations(Kinds)

=============================================================================
