----------------------------- MODULE MCLifecycle -----------------------------
(***************************************************************************)
(* Instances of Lifecycle for TLC.  The requests are interchangeable, so   *)
(* the safety runs, which compare no two requests, use them as a symmetry  *)
(* set.                                                                    *)
(***************************************************************************)
EXTENDS Lifecycle, TLC

Symmetry == Permutations(Requests)
==============================================================================
