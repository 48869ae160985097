--------------------------- MODULE MCPlaySessions ---------------------------
(* Instances of PlaySessions for TLC.                                      *)
EXTENDS PlaySessions, TLC

CallerSymmetry == Permutations(Callers)
=============================================================================
