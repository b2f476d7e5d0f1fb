---------------------------- MODULE MCJobControl ----------------------------
(***************************************************************************)
(* JobControl on small sets.  Handlers and workers are interchangeable:    *)
(* the safety runs use the symmetry of both sets.                          *)
(***************************************************************************)
EXTENDS JobControl

LOCAL INSTANCE TLC

Processes == Permutations(Handlers) \cup Permutations(Workers)
=============================================================================
