---------------------------- MODULE MCDreamState ----------------------------
(***************************************************************************)
(* DreamState instantiated for TLC: entities a, b, c, passes p and q.        *)
(***************************************************************************)
EXTENDS DreamState, TLC

CONSTANTS a, b, c, p1, p2

EntitySymmetry == Permutations(Entities)
============================================================================
