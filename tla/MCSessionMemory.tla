-------------------------- MODULE MCSessionMemory --------------------------
(***************************************************************************)
(* SessionMemory instantiated for TLC: turns a to d of one session, whose   *)
(* topics move from 0 to 1 (a drift within reach) and to 4 (a shift).       *)
(***************************************************************************)
EXTENDS SessionMemory, TLC

CONSTANTS a, b, c, d, u, v

MCTopic == [t \in Turns |-> CASE t = a -> 0 [] t = b -> 1 [] OTHER -> 4]
WriterSymmetry == Permutations(Writers)
============================================================================
