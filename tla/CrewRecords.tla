---------------------------- MODULE CrewRecords ----------------------------
(***************************************************************************)
(* The CrewAI unified-memory backend (crewai/unified.py): a record is one    *)
(* core memory per revision and one side row that points at the current     *)
(* one.  Clients update and delete records one database statement at a time *)
(* and may fail at any of them; a tenant-level forget hides memories without *)
(* touching the rows.  The content digest is the content itself.             *)
(***************************************************************************)
EXTENDS Naturals, FiniteSets

CONSTANTS
  Records, Contents,
  Clients,
  MaxRev,         \* bound: revisions of a record
  MaxOps,         \* bound: operations begun
  MaxFaults       \* bound: failed operations and tenant-level forgets

Nothing == "nothing"
Unknown == "unknown"
Deleted == "deleted"

ASSUME CrewAssumption ==
  /\ Contents \cap {Nothing, Unknown, Deleted} = {} /\ Nothing \notin Records
  /\ MaxRev \in Nat /\ MaxOps \in Nat /\ MaxFaults \in Nat

\* The key the core derives from the record, its revision and its content.
MemoryKeys == Records \X (0..MaxRev) \X Contents

VARIABLES
  stored,         \* per memory key: absent, live or forgotten
  rows,           \* crewai_records: revision and content per record, or NoRow
  clients,        \* per client: its operation, how far it is, what it read
  ops, faults,    \* bounded counts
  wanted,         \* history, per record: what its last operation promised
  spent,          \* history: records whose last update met its forgotten revision
  gone,           \* history: records once deleted, or forgotten with the tenant
  shaken          \* history: records whose operations overlapped or failed

crewVars == <<stored, rows, clients, ops, faults, wanted, spent, gone, shaken>>

NoRow == [rev |-> 0, text |-> Nothing]
Away == [pc |-> "idle", record |-> Nothing, text |-> Nothing, old |-> NoRow,
         found |-> {}, keys |-> {}, alone |-> TRUE]
RevisionKey(r, row) == <<r, row.rev, row.text>>

CrewInit ==
  /\ stored = [k \in MemoryKeys |-> "absent"]
  /\ rows = [r \in Records |-> NoRow]
  /\ clients = [c \in Clients |-> Away]
  /\ ops = 0 /\ faults = 0
  /\ wanted = [r \in Records |-> Unknown]
  /\ spent = {} /\ gone = {} /\ shaken = {}

\* _ROWS joins the memory: a row whose memory is forgotten is not shown.
Shown == {r \in Records : rows[r] # NoRow /\ stored[RevisionKey(r, rows[r])] = "live"}

Busy(c) == {clients[c].record} \cup clients[c].found
Forgets(keys) ==
  stored' = [k \in MemoryKeys |->
               IF k \in keys /\ stored[k] = "live" THEN "forgotten" ELSE stored[k]]

\* An operation begins; it and those it overlaps with promise nothing.
Begins(c, op, rs) ==
  LET others == {d \in Clients \ {c} : Busy(d) \cap rs # {}}
  IN /\ clients[c].pc = "idle" /\ ops < MaxOps
     /\ ops' = ops + 1
     /\ clients' = [d \in Clients |-> IF d = c THEN [op EXCEPT !.alone = others = {}]
                                     ELSE IF d \in others THEN [clients[d] EXCEPT !.alone = FALSE]
                                     ELSE clients[d]]
     /\ shaken' = shaken \cup UNION {Busy(d) \cap rs : d \in others}
     /\ wanted' = [r \in Records |-> IF r \in rs THEN Unknown ELSE wanted[r]]
     /\ spent' = spent \ rs
     /\ UNCHANGED <<stored, rows, faults, gone>>

Ends(c, promise) ==
  /\ clients' = [clients EXCEPT ![c] = Away]
  /\ wanted' = [r \in Records |-> IF clients[c].alone /\ r \in Busy(c) THEN promise ELSE wanted[r]]

---------------------------------------------------------------------------
(* update(), which save() calls for one record after the other.             *)

ReadRow(c, r, text) ==
  Begins(c, [Away EXCEPT !.pc = "read", !.record = r, !.text = text, !.old = rows[r]], {r})

\* Mutant: a rewritten record keeps its revision.
SameRev(old) == old.rev
NextRev(old) == IF old = NoRow THEN 0 ELSE old.rev + 1
Unchanged(c) == clients[c].old.text = clients[c].text
NewRow(c) ==
  [rev |-> IF Unchanged(c) THEN clients[c].old.rev ELSE NextRev(clients[c].old),
   text |-> clients[c].text]
NewKey(c) == RevisionKey(clients[c].record, NewRow(c))

\* store() ignores a key that exists, forgotten or not.
StoreRevision(c) ==
  LET me == clients[c]
  IN /\ me.pc = "read" /\ ~Unchanged(c) /\ NewRow(c).rev <= MaxRev
     /\ stored' = [stored EXCEPT ![NewKey(c)] = IF @ = "absent" THEN "live" ELSE @]
     /\ spent' = IF stored[NewKey(c)] = "forgotten" THEN spent \cup {me.record} ELSE spent
     /\ clients' = [clients EXCEPT ![c].pc = IF me.old = NoRow THEN "write" ELSE "forget"]
     /\ UNCHANGED <<ops, rows, faults, wanted, gone, shaken>>

\* Content that did not change rewrites the side row only.
KeepRevision(c) ==
  /\ clients[c].pc = "read" /\ Unchanged(c)
  /\ spent' = IF stored[NewKey(c)] = "forgotten" THEN spent \cup {clients[c].record} ELSE spent
  /\ clients' = [clients EXCEPT ![c].pc = "write"]
  /\ UNCHANGED <<ops, stored, rows, faults, wanted, gone, shaken>>

ForgetOld(c) ==
  /\ clients[c].pc = "forget"
  /\ Forgets({RevisionKey(clients[c].record, clients[c].old)})
  /\ clients' = [clients EXCEPT ![c].pc = "write"]
  /\ UNCHANGED <<ops, rows, faults, wanted, spent, gone, shaken>>

WriteRow(c) ==
  /\ clients[c].pc = "write"
  /\ rows' = [rows EXCEPT ![clients[c].record] = NewRow(c)]
  /\ Ends(c, clients[c].text)
  /\ UNCHANGED <<ops, stored, faults, spent, gone, shaken>>

---------------------------------------------------------------------------
(* delete() and reset(): the shown records that a filter selects.           *)

FindRows(c, rs) ==
  /\ rs # {} /\ rs \subseteq Shown
  /\ Begins(c, [Away EXCEPT !.pc = "found", !.found = rs,
                            !.keys = {RevisionKey(r, rows[r]) : r \in rs}], rs)

ForgetKeys(c) == Forgets(clients[c].keys)

ForgetFound(c) ==
  /\ clients[c].pc = "found"
  /\ ForgetKeys(c)
  /\ clients' = [clients EXCEPT ![c].pc = "delete"]
  /\ gone' = gone \cup clients[c].found
  /\ UNCHANGED <<ops, rows, faults, wanted, spent, shaken>>

DeleteRows(c) ==
  /\ clients[c].pc = "delete"
  /\ rows' = [r \in Records |-> IF r \in clients[c].found THEN NoRow ELSE rows[r]]
  /\ Ends(c, Deleted)
  /\ UNCHANGED <<ops, stored, faults, spent, gone, shaken>>

---------------------------------------------------------------------------

\* A statement fails, and the operation with it.
CrewFault(c) ==
  /\ clients[c].pc # "idle" /\ faults < MaxFaults
  /\ shaken' = shaken \cup (Busy(c) \cap Records)
  /\ clients' = [clients EXCEPT ![c] = Away]
  /\ faults' = faults + 1
  /\ UNCHANGED <<ops, stored, rows, wanted, spent, gone>>

\* forget() of the tenant or the agent leaves the side rows.
ForgetCrew ==
  /\ faults < MaxFaults
  /\ Forgets(MemoryKeys)
  /\ clients' = [c \in Clients |-> IF clients[c].pc = "idle" THEN Away
                                  ELSE [clients[c] EXCEPT !.alone = FALSE]]
  /\ faults' = faults + 1
  /\ wanted' = [r \in Records |-> Unknown]
  /\ gone' = Records
  /\ UNCHANGED <<ops, rows, spent, shaken>>

CrewNext ==
  \/ \E c \in Clients :
       \/ \E r \in Records, text \in Contents : ReadRow(c, r, text)
       \/ StoreRevision(c) \/ KeepRevision(c) \/ ForgetOld(c) \/ WriteRow(c)
       \/ \E rs \in SUBSET Records : FindRows(c, rs)
       \/ ForgetFound(c) \/ DeleteRows(c) \/ CrewFault(c)
  \/ ForgetCrew

CrewSpec == CrewInit /\ [][CrewNext]_crewVars

CrewTypeOK ==
  LET rowsOf == {NoRow} \cup [rev : 0..MaxRev, text : Contents]
  IN /\ stored \in [MemoryKeys -> {"absent", "live", "forgotten"}]
     /\ rows \in [Records -> rowsOf]
     /\ clients \in [Clients -> [pc : {"idle", "read", "forget", "write", "found", "delete"},
                                 record : Records \cup {Nothing}, text : Contents \cup {Nothing},
                                 old : rowsOf, found : SUBSET Records, keys : SUBSET MemoryKeys,
                                 alone : BOOLEAN]]
     /\ wanted \in [Records -> Contents \cup {Unknown, Deleted}]
     /\ ops \in Nat /\ faults \in Nat
     /\ spent \subseteq Records /\ gone \subseteq Records /\ shaken \subseteq Records

LiveKeys(r) == {k \in MemoryKeys : k[1] = r /\ stored[k] = "live"}

\* An update that nothing overlapped is shown with its content, also after
\* operations that failed before it; a deleted record is not shown.  While none
\* failed or overlapped, the core keeps exactly the memory of the current
\* revision, and none of a deleted record.  Excepted are updates whose revision
\* was forgotten before, which takes a deletion, a tenant-level forget, a failure
\* or an overlap: rewriting never leads there (crewai/unified.py:237-277).
RecordsReadBack ==
  /\ spent \subseteq gone \cup shaken
  /\ \A r \in Records \ spent :
       /\ wanted[r] \in Contents => r \in Shown /\ rows[r].text = wanted[r]
       /\ wanted[r] = Deleted => r \notin Shown
       /\ wanted[r] # Unknown /\ r \notin shaken =>
            LiveKeys(r) = (IF wanted[r] = Deleted THEN {} ELSE {RevisionKey(r, rows[r])})

\* "Never collides with the core's rule that a soft-deleted key is not
\* re-stored" (crewai/unified.py:16-20): an update that finished undisturbed is
\* shown, whatever the record went through before.
SavedIsShown ==
  \A r \in Records : wanted[r] \in Contents => r \in Shown /\ rows[r].text = wanted[r]
=============================================================================
