---------------------------- MODULE MCTmdbBudget ----------------------------
(* Instances of TmdbBudget for TLC. *)
EXTENDS TmdbBudget, TLC

\* Callers are interchangeable: sound for the safety runs, which do not use the
\* liveness properties.
CallerSymmetry == Permutations(Callers)
=============================================================================
