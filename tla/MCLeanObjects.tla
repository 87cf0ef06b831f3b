--------------------------- MODULE MCLeanObjects ----------------------------
(* LeanObjects for TLC.  Nothing tells two objects, handles, threads or    *)
(* payloads apart, and every property is one of safety.                    *)
EXTENDS LeanObjects, TLC

Symmetry ==
  Permutations(Objects) \cup Permutations(Handles) \cup Permutations(Threads)
    \cup Permutations(Payloads)
=============================================================================
