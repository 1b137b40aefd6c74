--------------------------- MODULE MCEntityGraph ---------------------------
(***************************************************************************)
(* EntityGraph instantiated for TLC.  "Anna" and "Ana" are near enough to   *)
(* merge, "Acme" and "Acme Inc" near enough to flag; memory m2 names "Ana"  *)
(* and is fed alone or with m3.                                             *)
(***************************************************************************)
EXTENDS EntityGraph

CONSTANTS m1, m2, m3, w1, w2

MCAgentOf == [m \in Memories |-> IF m = m1 THEN "a" ELSE "b"]
MCReliability == [m \in Memories |-> IF m = m3 THEN 2 ELSE 1]
MCNameOf == [e \in Entities |-> e]
MCSays == [m \in Memories |-> CASE m = m1 -> <<"Anna", "Acme">>
                                [] m = m2 -> <<"Ana", "Acme Inc">>
                                [] OTHER -> <<"Acme Inc", "Ana">>]
MCRelations == [m \in Memories |->
                  IF m = m2 THEN << <<"Ana", "Acme Inc", "caused_by">> >> ELSE <<>>]
Near(e, f, s) == {e, f} = s
MCSimilarity == [e \in Entities |-> [f \in Entities |->
                   CASE e = f -> 10
                     [] Near(e, f, {"Ana", "Anna"}) -> 9
                     [] Near(e, f, {"Acme", "Acme Inc"}) -> 7
                     [] OTHER -> 1]]
MCEarlier == {m1}
MCStored == WriteEntities(EmptyGraph, m1, AgentOf[m1])
MCSeeds == {<<"Ana", "b">>}
MCBatches == {<<m2, m3>>, <<m2, m2>>}
WriterSymmetry == Permutations(Writers)
============================================================================
