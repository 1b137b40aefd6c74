----------------------------- MODULE Migrations -----------------------------
(***************************************************************************)
(* What every service instance does to the database when it starts, with no *)
(* lock between instances: ensure_schema (schema/collections.py) goes       *)
(* through the baseline, collections, indexes, view and graph, and          *)
(* run_migrations (schema/migrations.py) reads the recorded version once,   *)
(* then applies and records what is above it.  An instance may die between  *)
(* any two statements, and fails to start when another one creates what it  *)
(* just found missing.  The registry is empty at this commit, so Versions   *)
(* is any registry that a release would ship.                               *)
(***************************************************************************)
EXTENDS Naturals, FiniteSets, FiniteSetsExt

CONSTANTS
  Booters,        \* service instances
  SchemaSize,     \* objects of the baseline, in order, the meta collection last
  CheckedObjects, \* those created after a check that they are absent; adding an index twice is a no-op
  Versions,       \* version numbers of the registry, positive
  MaxBoots        \* bound: starts of instances

ASSUME VersionsAssumption == Versions \subseteq Nat \ {0} /\ IsFiniteSet(Versions)
ASSUME SchemaAssumption == SchemaSize \in Nat /\ MaxBoots \in Nat

VARIABLES
  baseline,       \* objects that exist
  recorded,       \* the schema_version document; 0 when there is none
  applied,        \* migrations applied to the database at least once
  boots,          \* per instance: where it is, its next object, the version it believes in
  booted          \* bounded count of starts

migrationVars == <<baseline, recorded, applied, boots, booted>>

Down == [pc |-> "down", at |-> 1, version |-> 0]
Pending(version) == {v \in Versions : v > version}

MigrationInit ==
  /\ baseline = {} /\ recorded = 0 /\ applied = {} /\ booted = 0
  /\ boots = [b \in Booters |-> Down]

Boot(b) ==
  /\ boots[b].pc = "down" /\ booted < MaxBoots
  /\ boots' = [boots EXCEPT ![b].pc = "schema"]
  /\ booted' = booted + 1
  /\ UNCHANGED <<baseline, recorded, applied>>

CheckObject(b) ==
  /\ boots[b].pc = "schema" /\ boots[b].at \in CheckedObjects \cap 1..SchemaSize
  /\ \/ boots[b].at \in baseline /\ boots' = [boots EXCEPT ![b].at = @ + 1]
     \/ boots[b].at \notin baseline /\ boots' = [boots EXCEPT ![b].pc = "create"]
  /\ UNCHANGED <<baseline, recorded, applied, booted>>

\* Creating what exists by now raises, and the instance does not start.
CreateObject(b) ==
  /\ boots[b].pc = "create"
  /\ baseline' = baseline \cup {boots[b].at}
  /\ \/ boots[b].at \in baseline /\ boots' = [boots EXCEPT ![b] = Down]
     \/ boots[b].at \notin baseline /\ boots' = [boots EXCEPT ![b].pc = "schema", ![b].at = @ + 1]
  /\ UNCHANGED <<recorded, applied, booted>>

AddIndex(b) ==
  /\ boots[b].pc = "schema" /\ boots[b].at \in 1..SchemaSize \ CheckedObjects
  /\ baseline' = baseline \cup {boots[b].at}
  /\ boots' = [boots EXCEPT ![b].at = @ + 1]
  /\ UNCHANGED <<recorded, applied, booted>>

ReadVersion(b) ==
  /\ boots[b].pc = "schema" /\ boots[b].at > SchemaSize
  /\ boots' = [boots EXCEPT ![b].pc = "apply", ![b].version = recorded]
  /\ UNCHANGED <<baseline, recorded, applied, booted>>

\* Mutant: the latest pending migration.
LastOf(versions) == Max(versions)
NextOf(versions) == Min(versions)

\* The next pending migration in version order, run again if it ran before.
ApplyNext(b) ==
  /\ boots[b].pc = "apply" /\ Pending(boots[b].version) # {}
  /\ LET v == NextOf(Pending(boots[b].version))
     IN /\ applied' = applied \cup {v}
        /\ boots' = [boots EXCEPT ![b].pc = "record", ![b].version = v]
  /\ UNCHANGED <<baseline, recorded, booted>>

\* The document is replaced, whatever another instance recorded meanwhile.
RecordVersion(b) ==
  /\ boots[b].pc = "record"
  /\ recorded' = boots[b].version
  /\ boots' = [boots EXCEPT ![b].pc = "apply"]
  /\ UNCHANGED <<baseline, applied, booted>>

Ready(b) == boots[b].pc = "apply" /\ Pending(boots[b].version) = {}

Stop(b) ==
  /\ boots[b].pc # "down"
  /\ boots' = [boots EXCEPT ![b] = Down]
  /\ UNCHANGED <<baseline, recorded, applied, booted>>

MigrationNext ==
  \E b \in Booters :
    \/ Boot(b) \/ CheckObject(b) \/ CreateObject(b) \/ AddIndex(b) \/ ReadVersion(b)
    \/ ApplyNext(b) \/ RecordVersion(b) \/ Stop(b)

MigrationSpec == MigrationInit /\ [][MigrationNext]_migrationVars

MigrationTypeOK ==
  /\ baseline \subseteq 1..SchemaSize
  /\ recorded \in {0} \cup Versions
  /\ applied \subseteq Versions
  /\ boots \in [Booters -> [pc : {"down", "schema", "create", "apply", "record"},
                            at : 1..(SchemaSize + 1), version : {0} \cup Versions]]
  /\ booted \in 0..MaxBoots

\* Whatever instances race and wherever they die or fail to start, the recorded
\* version and the version of an instance that serves stand for migrations that
\* were applied, none was ever applied before a lower one or to an incomplete
\* baseline: the version may fall back, and a migration may run twice, but
\* nothing is skipped (schema/migrations.py:58, schema/collections.py:72).
NoMigrationSkipped ==
  /\ \A v \in Versions : v <= recorded => v \in applied
  /\ \A b \in Booters : Ready(b) => applied = Versions /\ baseline = 1..SchemaSize
  /\ \A v \in applied, u \in Versions : u < v => u \in applied
  /\ applied # {} => baseline = 1..SchemaSize
=============================================================================
