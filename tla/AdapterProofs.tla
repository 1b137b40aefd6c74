--------------------------- MODULE AdapterProofs ----------------------------
(***************************************************************************)
(* What the adapters of the agent frameworks promise, for every number of  *)
(* clients, records, tool calls and messages.                              *)
(***************************************************************************)
EXTENDS CrewRecords, ToolCapture, ChatHistory, TurnCapture, FiniteSetTheorems, SequenceTheorems, TLAPS

-----------------------------------------------------------------------------
(***************************************************************************)
(* CrewRecords: an operation that nothing overlapped keeps its promise, and no*)
(* memory of an older revision stays behind.                               *)
(***************************************************************************)

(* An operation is an update of one record or a deletion of several.         *)
Updating(c) == clients[c].pc \in {"read", "forget", "write"}
Deleting(c) == clients[c].pc \in {"found", "delete"}

FitsOf(c) ==
  /\ clients[c].pc = "idle" => clients[c] = Away
  /\ Updating(c) => /\ clients[c].record \in Records /\ clients[c].text \in Contents
                    /\ clients[c].found = {} /\ clients[c].keys = {}
  /\ Deleting(c) => /\ clients[c].record = Nothing
                    /\ \A k \in clients[c].keys : k[1] \in clients[c].found
  /\ clients[c].pc \in {"forget", "write"} => NewRow(c).rev <= MaxRev
  /\ clients[c].pc = "forget" => ~Unchanged(c) /\ clients[c].old # NoRow
OperationsFit == \A c \in Clients : FitsOf(c)

(* Two operations on one record know of each other.                          *)
OverlapsShow ==
  \A c, d \in Clients : \A r \in Records :
    c # d /\ r \in Busy(c) /\ r \in Busy(d) => ~clients[c].alone /\ r \in shaken

(* Nothing is promised of a record that is being worked on.                  *)
WaitsOf(r) == wanted[r] # Unknown => \A c \in Clients : r \notin Busy(c)
PromisesWait == \A r \in Records : WaitsOf(r)

(* What a row or an update points at was stored.                             *)
StoredRow(r) == rows[r] # NoRow => stored[RevisionKey(r, rows[r])] # "absent"
StoredWork(c) ==
  /\ Updating(c) /\ clients[c].old # NoRow =>
       stored[RevisionKey(clients[c].record, clients[c].old)] # "absent"
  /\ clients[c].pc \in {"forget", "write"} => stored[NewKey(c)] # "absent"
StoredFirst == (\A r \in Records : StoredRow(r)) /\ (\A c \in Clients : StoredWork(c))

(* An undisturbed update has a live memory, unless its key was forgotten.    *)
LivesOf(c) ==
  clients[c].pc \in {"forget", "write"} /\ clients[c].alone /\ clients[c].record \notin spent =>
    stored[NewKey(c)] = "live"
UpdateLives == \A c \in Clients : LivesOf(c)

PromiseOf(r) ==
  /\ r \notin spent /\ wanted[r] \in Contents => r \in Shown /\ rows[r].text = wanted[r]
  /\ wanted[r] = Deleted => rows[r] = NoRow
PromisesKept == \A r \in Records : PromiseOf(r)

(* What the operations on a record that were not disturbed have read is true. *)
ReadsOf(r) ==
  \A c \in Clients :
    /\ clients[c].pc \in {"read", "forget"} /\ clients[c].record = r => clients[c].old = rows[r]
    /\ clients[c].pc = "found" /\ r \in clients[c].found =>
         rows[r] # NoRow /\ RevisionKey(r, rows[r]) \in clients[c].keys
ReadsHold == \A r \in Records \ shaken : ReadsOf(r)

(* No statement that touches the memories of r is under way.                 *)
Resting(r) == \A c \in Clients : r \in Busy(c) => clients[c].pc \in {"read", "found"}

(* Which memories of a record may be live.                                   *)
LiveBoundOf(r) ==
  \A k \in LiveKeys(r) :
    /\ Resting(r) => k = RevisionKey(r, rows[r])
    /\ \A c \in Clients :
         /\ clients[c].pc = "forget" /\ clients[c].record = r =>
              k \in {RevisionKey(r, rows[r]), NewKey(c)}
         /\ clients[c].pc = "write" /\ clients[c].record = r => k = NewKey(c)
         /\ clients[c].pc = "delete" => r \notin clients[c].found
LiveBound == \A r \in Records \ shaken : LiveBoundOf(r)

(* The memory of a row is live, and no later revision was stored.            *)
AbsentAfter(r, rev) == \A k \in MemoryKeys : k[1] = r /\ k[2] > rev => stored[k] = "absent"
NeverStored(r) == \A k \in MemoryKeys : k[1] = r => stored[k] = "absent"
ClimbsOf(r) ==
  /\ Resting(r) => IF rows[r] = NoRow THEN NeverStored(r)
                   ELSE stored[RevisionKey(r, rows[r])] = "live" /\ AbsentAfter(r, rows[r].rev)
  /\ \A c \in Clients : clients[c].record = r /\ clients[c].pc \in {"forget", "write"} =>
       stored[NewKey(c)] = "live" /\ AbsentAfter(r, NewRow(c).rev)
GoneOf(c) == clients[c].pc = "delete" => clients[c].found \subseteq gone
Untouched == Records \ (gone \cup shaken)
RevisionsClimb ==
  /\ spent \subseteq gone \cup shaken
  /\ \A r \in Untouched : ClimbsOf(r)
  /\ \A c \in Clients : GoneOf(c)

CrewInv ==
  /\ CrewTypeOK /\ OperationsFit /\ OverlapsShow /\ PromisesWait /\ StoredFirst
  /\ UpdateLives /\ PromisesKept /\ ReadsHold /\ LiveBound /\ RevisionsClimb

----------------------------------------------------------------------------
(* Rows and keys.                                                           *)

RowsOf == {NoRow} \cup [rev : 0..MaxRev, text : Contents]
Pcs == {"idle", "read", "forget", "write", "found", "delete"}
ClientType == [pc : Pcs, record : Records \cup {Nothing}, text : Contents \cup {Nothing},
               old : RowsOf, found : SUBSET Records, keys : SUBSET MemoryKeys, alone : BOOLEAN]
StoredType == [MemoryKeys -> {"absent", "live", "forgotten"}]

LEMMA TypeParts ==
  CrewTypeOK <=> /\ stored \in StoredType /\ rows \in [Records -> RowsOf]
                 /\ clients \in [Clients -> ClientType]
                 /\ wanted \in [Records -> Contents \cup {Unknown, Deleted}]
                 /\ ops \in Nat /\ faults \in Nat
                 /\ spent \subseteq Records /\ gone \subseteq Records /\ shaken \subseteq Records
BY DEF CrewTypeOK, StoredType, RowsOf, ClientType, Pcs

LEMMA Names ==
  /\ Nothing \notin Contents /\ Unknown \notin Contents /\ Deleted \notin Contents
  /\ Nothing \notin Records /\ Unknown # Deleted /\ MaxRev \in Nat
BY CrewAssumption DEF Unknown, Deleted

LEMMA RowKey ==
  ASSUME NEW r \in Records, NEW row \in RowsOf
  PROVE  /\ RevisionKey(r, row)[1] = r /\ RevisionKey(r, row)[2] = row.rev
         /\ row.rev \in 0..MaxRev
         /\ row # NoRow => RevisionKey(r, row) \in MemoryKeys /\ row.text \in Contents
         /\ row = NoRow => row.text = Nothing /\ \A k \in MemoryKeys : k # RevisionKey(r, row)
<1>1. NoRow.rev = 0 /\ NoRow.text = Nothing BY DEF NoRow
<1>2. row.rev \in 0..MaxRev BY <1>1, Names DEF RowsOf
<1>3. row # NoRow => row.text \in Contents BY DEF RowsOf
<1>4. \A k \in MemoryKeys : k[3] \in Contents BY DEF MemoryKeys
<1> QED BY <1>1, <1>2, <1>3, <1>4, Names DEF RevisionKey, MemoryKeys

LEMMA NewKeyFits ==
  ASSUME CrewTypeOK, NEW c \in Clients, clients[c].record \in Records, clients[c].text \in Contents
  PROVE  /\ NewRow(c).rev \in Nat /\ NewRow(c).text = clients[c].text /\ NewRow(c) # NoRow
         /\ NewKey(c)[1] = clients[c].record /\ NewKey(c)[2] = NewRow(c).rev
         /\ NewRow(c).rev <= MaxRev => NewRow(c) \in RowsOf /\ NewKey(c) \in MemoryKeys
         /\ ~Unchanged(c) => NewRow(c).rev = NextRev(clients[c].old)
         /\ Unchanged(c) => /\ NewRow(c) = clients[c].old /\ clients[c].old # NoRow
                            /\ NewKey(c) = RevisionKey(clients[c].record, clients[c].old)
<1> DEFINE old == clients[c].old
<1>1. old \in RowsOf BY TypeParts DEF ClientType
<1>2. old.rev \in 0..MaxRev /\ (old # NoRow => old.text \in Contents) /\ (old = NoRow => old.text = Nothing)
  BY <1>1, RowKey
<1>3. NextRev(old) \in Nat BY <1>2 DEF NextRev
<1>4. NewRow(c).rev \in Nat /\ NewRow(c).text = clients[c].text BY <1>2, <1>3 DEF NewRow
<1>5. NewRow(c) # NoRow BY <1>4, Names DEF NoRow
<1>6. NewRow(c).rev <= MaxRev => NewRow(c) \in RowsOf /\ NewKey(c) \in MemoryKeys
  <2> SUFFICES ASSUME NewRow(c).rev <= MaxRev PROVE NewRow(c) \in RowsOf /\ NewKey(c) \in MemoryKeys OBVIOUS
  <2>1. NewRow(c).rev \in 0..MaxRev BY <1>4, Names
  <2>2. NewRow(c) \in [rev : 0..MaxRev, text : Contents] BY <2>1, <1>4 DEF NewRow
  <2> QED BY <2>1, <2>2, <1>4 DEF RowsOf, NewKey, RevisionKey, MemoryKeys
<1>7. Unchanged(c) => NewRow(c) = old /\ old # NoRow
  <2> SUFFICES ASSUME Unchanged(c) PROVE NewRow(c) = old /\ old # NoRow OBVIOUS
  <2>1. old # NoRow BY <1>2, Names DEF Unchanged
  <2>2. old \in [rev : 0..MaxRev, text : Contents] BY <2>1, <1>1 DEF RowsOf
  <2> QED BY <2>1, <2>2 DEF NewRow, Unchanged
<1> QED BY <1>4, <1>5, <1>6, <1>7 DEF NewKey, RevisionKey, NewRow

----------------------------------------------------------------------------
(* What the steps do to the clients.                                        *)

SameWork(c, d) ==
  /\ clients'[d].record = clients[d].record /\ clients'[d].text = clients[d].text
  /\ clients'[d].old = clients[d].old /\ clients'[d].found = clients[d].found
  /\ clients'[d].keys = clients[d].keys
  /\ Busy(d)' = Busy(d) /\ NewRow(d)' = NewRow(d) /\ NewKey(d)' = NewKey(d)
  /\ Unchanged(d)' = Unchanged(d)
  /\ d # c => clients'[d].pc = clients[d].pc

LEMMA ClientGoesOn ==
  ASSUME CrewTypeOK, NEW c \in Clients, NEW p \in Pcs, clients' = [clients EXCEPT ![c].pc = p]
  PROVE  /\ clients' \in [Clients -> ClientType] /\ clients'[c].pc = p
         /\ \A d \in Clients : SameWork(c, d) /\ clients'[d].alone = clients[d].alone
         /\ \A d \in Clients \ {c} : clients'[d] = clients[d]
<1>1. clients \in [Clients -> ClientType] BY TypeParts
<1>2. clients'[c] = [clients[c] EXCEPT !.pc = p] BY <1>1
<1>3. clients'[c] \in ClientType BY <1>1, <1>2 DEF ClientType
<1>4. \A d \in Clients \ {c} : clients'[d] = clients[d] BY <1>1
<1>5. clients' \in [Clients -> ClientType] BY <1>1, <1>3, <1>4
<1>6. clients'[c].pc = p BY <1>1, <1>2 DEF ClientType
<1>7. ASSUME NEW d \in Clients
      PROVE  /\ clients'[d].record = clients[d].record /\ clients'[d].text = clients[d].text
             /\ clients'[d].old = clients[d].old /\ clients'[d].found = clients[d].found
             /\ clients'[d].keys = clients[d].keys /\ clients'[d].alone = clients[d].alone
             /\ d # c => clients'[d].pc = clients[d].pc
  BY <1>1, <1>2, <1>4 DEF ClientType
<1>8. ASSUME NEW d \in Clients
      PROVE  Busy(d)' = Busy(d) /\ Unchanged(d)' = Unchanged(d) /\ NewRow(d)' = NewRow(d)
  BY <1>7 DEF Busy, Unchanged, NewRow
<1>9. ASSUME NEW d \in Clients PROVE NewKey(d)' = NewKey(d)
  BY <1>7, <1>8 DEF NewKey, RevisionKey
<1> QED BY <1>4, <1>5, <1>6, <1>7, <1>8, <1>9 DEF SameWork

LEMMA ClientGoesAway ==
  ASSUME CrewTypeOK, NEW c \in Clients, clients' = [clients EXCEPT ![c] = Away]
  PROVE  /\ clients' \in [Clients -> ClientType] /\ clients'[c] = Away
         /\ Away.pc = "idle" /\ Away.record = Nothing /\ Away.found = {} /\ Away.keys = {}
         /\ Busy(c)' = {Nothing}
         /\ \A d \in Clients \ {c} : clients'[d] = clients[d] /\ SameWork(c, d)
<1>1. clients \in [Clients -> ClientType] BY TypeParts
<1>2. Away \in ClientType BY DEF Away, ClientType, Pcs, RowsOf
<1>3. clients'[c] = Away /\ \A d \in Clients \ {c} : clients'[d] = clients[d] BY <1>1
<1>4. clients' \in [Clients -> ClientType] BY <1>1, <1>2
<1>5. Away.pc = "idle" /\ Away.record = Nothing /\ Away.found = {} /\ Away.keys = {} BY DEF Away
<1>6. Busy(c)' = {Nothing} BY <1>3, <1>5 DEF Busy
<1>7. ASSUME NEW d \in Clients \ {c}
      PROVE  Busy(d)' = Busy(d) /\ Unchanged(d)' = Unchanged(d) /\ NewRow(d)' = NewRow(d)
  BY <1>3 DEF Busy, Unchanged, NewRow
<1>8. ASSUME NEW d \in Clients \ {c} PROVE NewKey(d)' = NewKey(d)
  BY <1>3, <1>7 DEF NewKey, RevisionKey
<1> QED BY <1>3, <1>4, <1>5, <1>6, <1>7, <1>8 DEF SameWork

----------------------------------------------------------------------------
(* An operation begins.                                                     *)

OpFits(op, rs) ==
  \/ /\ op.pc = "read" /\ op.record \in Records /\ op.text \in Contents /\ rs = {op.record}
     /\ op.old = rows[op.record] /\ op.found = {} /\ op.keys = {}
  \/ /\ op.pc = "found" /\ op.record = Nothing /\ op.old = NoRow
     /\ op.found = rs /\ rs \subseteq Shown /\ op.keys = {RevisionKey(r, rows[r]) : r \in rs}

LEMMA ClientBegins ==
  ASSUME CrewTypeOK, NEW c \in Clients, NEW op \in ClientType, NEW rs \in SUBSET Records,
         Begins(c, op, rs), OpFits(op, rs)
  PROVE  /\ clients[c].pc = "idle"
         /\ clients' \in [Clients -> ClientType]
         /\ clients'[c].pc = op.pc /\ clients'[c].record = op.record /\ clients'[c].text = op.text
         /\ clients'[c].old = op.old /\ clients'[c].found = op.found /\ clients'[c].keys = op.keys
         /\ \A r \in Records : r \in Busy(c)' <=> r \in rs
         /\ \A d \in Clients \ {c} :
              /\ SameWork(c, d) /\ (Busy(d) \cap rs = {} => clients'[d] = clients[d])
              /\ clients'[d].alone => clients[d].alone /\ Busy(d) \cap rs = {}
              /\ clients'[c].alone => Busy(d) \cap rs = {}
              /\ Busy(d) \cap rs \subseteq shaken'
         /\ shaken \subseteq shaken' /\ shaken' \subseteq Records
<1> DEFINE others == {d \in Clients \ {c} : Busy(d) \cap rs # {}}
<1>1. clients \in [Clients -> ClientType] /\ shaken \subseteq Records BY TypeParts
<1>2. clients'[c] = [op EXCEPT !.alone = (others = {})]
  BY DEF Begins
<1>3. ASSUME NEW d \in Clients \ {c}
      PROVE  clients'[d] = IF d \in others THEN [clients[d] EXCEPT !.alone = FALSE] ELSE clients[d]
  BY DEF Begins
<1>4. shaken' = shaken \cup UNION {Busy(d) \cap rs : d \in others} BY DEF Begins
<1>5. clients'[c] \in ClientType BY <1>2 DEF ClientType
<1>6. ASSUME NEW d \in Clients \ {c} PROVE clients'[d] \in ClientType
  <2>1. [clients[d] EXCEPT !.alone = FALSE] \in ClientType BY <1>1 DEF ClientType
  <2> QED BY <2>1, <1>1, <1>3
<1>7. clients' \in [Clients -> ClientType]
  <2>1. clients' = [d \in Clients |-> clients'[d]] BY DEF Begins
  <2> QED BY <2>1, <1>5, <1>6
<1>8. ASSUME NEW d \in Clients \ {c}
      PROVE  /\ clients'[d].pc = clients[d].pc
             /\ clients'[d].record = clients[d].record /\ clients'[d].text = clients[d].text
             /\ clients'[d].old = clients[d].old /\ clients'[d].found = clients[d].found
             /\ clients'[d].keys = clients[d].keys
             /\ d \in others => ~clients'[d].alone
             /\ d \notin others => clients'[d] = clients[d]
  <2>1. CASE d \notin others BY <1>3, <2>1
  <2>2. CASE d \in others
    <3>1. clients[d] \in ClientType BY <1>1
    <3>2. clients'[d] = [clients[d] EXCEPT !.alone = FALSE] BY <1>3, <2>2
    <3> QED BY <2>2, <3>1, <3>2 DEF ClientType
  <2> QED BY <2>1, <2>2
<1>9. ASSUME NEW d \in Clients \ {c}
      PROVE  Busy(d)' = Busy(d) /\ Unchanged(d)' = Unchanged(d) /\ NewRow(d)' = NewRow(d)
  BY <1>8 DEF Busy, Unchanged, NewRow
<1>10. ASSUME NEW d \in Clients \ {c} PROVE NewKey(d)' = NewKey(d)
  BY <1>8, <1>9 DEF NewKey, RevisionKey
<1>11. ASSUME NEW d \in Clients \ {c} PROVE SameWork(c, d)
  BY <1>8, <1>9, <1>10 DEF SameWork
<1>12. /\ clients'[c].pc = op.pc /\ clients'[c].record = op.record /\ clients'[c].text = op.text
       /\ clients'[c].old = op.old /\ clients'[c].found = op.found /\ clients'[c].keys = op.keys
       /\ clients'[c].alone => others = {}
  BY <1>2 DEF ClientType
<1>13. \A r \in Records : r \in Busy(c)' <=> r \in rs
  BY <1>12, Names DEF Busy, OpFits
<1>14. shaken \subseteq shaken' /\ shaken' \subseteq Records BY <1>1, <1>4
<1>15. \A d \in Clients \ {c} : Busy(d) \cap rs \subseteq shaken' BY <1>4
<1>16. clients[c].pc = "idle" BY DEF Begins
<1>17. ASSUME NEW d \in Clients \ {c}
       PROVE  /\ Busy(d) \cap rs = {} => clients'[d] = clients[d]
              /\ clients'[d].alone => clients[d].alone /\ Busy(d) \cap rs = {}
              /\ clients'[c].alone => Busy(d) \cap rs = {}
  BY <1>8, <1>12
<1> HIDE DEF others
<1> QED BY <1>7, <1>11, <1>12, <1>13, <1>14, <1>15, <1>16, <1>17

LEMMA IdleIsFree ==
  ASSUME OperationsFit, NEW c \in Clients, clients[c].pc = "idle"
  PROVE  Busy(c) = {Nothing}
BY DEF OperationsFit, FitsOf, Away, Busy

LEMMA BeginInv ==
  ASSUME CrewInv, NEW c \in Clients, NEW op \in ClientType, NEW rs \in SUBSET Records,
         Begins(c, op, rs), OpFits(op, rs)
  PROVE  CrewInv'
<1> USE DEF CrewInv
<1>0. stored' = stored /\ rows' = rows /\ gone' = gone /\ faults' = faults /\ ops' = ops + 1
      /\ spent' = spent \ rs /\ wanted' = [r \in Records |-> IF r \in rs THEN Unknown ELSE wanted[r]]
  BY DEF Begins
<1>1. /\ clients[c].pc = "idle" /\ clients' \in [Clients -> ClientType]
      /\ clients'[c].pc = op.pc /\ clients'[c].record = op.record /\ clients'[c].text = op.text
      /\ clients'[c].old = op.old /\ clients'[c].found = op.found /\ clients'[c].keys = op.keys
      /\ shaken \subseteq shaken' /\ shaken' \subseteq Records
  BY ClientBegins
<1>2. \A r \in Records : r \in Busy(c)' <=> r \in rs BY ClientBegins
<1>3. ASSUME NEW d \in Clients \ {c}
      PROVE  /\ SameWork(c, d) /\ (Busy(d) \cap rs = {} => clients'[d] = clients[d])
             /\ clients'[d].alone => clients[d].alone /\ Busy(d) \cap rs = {}
             /\ clients'[c].alone => Busy(d) \cap rs = {}
             /\ Busy(d) \cap rs \subseteq shaken'
  BY ClientBegins
<1>4. Busy(c) = {Nothing} BY <1>1, IdleIsFree
<1>5. Shown' = Shown /\ (\A r \in Records : LiveKeys(r)' = LiveKeys(r))
  BY <1>0 DEF Shown, LiveKeys, RevisionKey
<1>6. \A r \in Records : Resting(r)' => Resting(r)
  BY <1>3, <1>4, Names DEF Resting, SameWork
<1>7. CrewTypeOK'
  <2>1. wanted' \in [Records -> Contents \cup {Unknown, Deleted}] BY <1>0, TypeParts
  <2> QED BY <2>1, <1>0, <1>1, TypeParts DEF CrewTypeOK, StoredType, RowsOf, ClientType, Pcs
<1>8. OperationsFit'
  <2>1. ASSUME NEW d \in Clients \ {c}, clients[d].pc = "idle" PROVE clients'[d] = Away
    <3>1. Busy(d) = {Nothing} BY <2>1, IdleIsFree
    <3>2. Busy(d) \cap rs = {} BY <3>1, Names
    <3> QED BY <3>2, <1>3, <2>1 DEF OperationsFit, FitsOf
  <2> QED BY <2>1, <1>1, <1>3 DEF OperationsFit, FitsOf, Updating, Deleting, SameWork, OpFits, RevisionKey
<1>9. OverlapsShow'
  <2> SUFFICES ASSUME NEW d \in Clients, NEW e \in Clients, NEW r \in Records, d # e,
                      r \in Busy(d)', r \in Busy(e)'
               PROVE  ~clients'[d].alone /\ r \in shaken'
    BY DEF OverlapsShow
  <2>1. CASE d = c BY <2>1, <1>2, <1>3 DEF SameWork
  <2>2. CASE e = c BY <2>2, <1>2, <1>3 DEF SameWork
  <2>3. CASE d # c /\ e # c BY <2>3, <1>1, <1>3 DEF SameWork, OverlapsShow
  <2> QED BY <2>1, <2>2, <2>3
<1>10. PromisesWait'
  BY <1>0, <1>2, <1>3, TypeParts DEF PromisesWait, WaitsOf, SameWork
<1>11. StoredFirst'
  BY <1>0, <1>1, <1>3 DEF StoredFirst, StoredRow, StoredWork, Updating, SameWork, OpFits, RevisionKey
<1>12. UpdateLives'
  <2> SUFFICES ASSUME NEW d \in Clients, clients'[d].pc \in {"forget", "write"}, clients'[d].alone,
                      clients'[d].record \notin spent'
               PROVE  stored'[NewKey(d)'] = "live"
    BY DEF UpdateLives, LivesOf
  <2>1. d # c BY <1>1 DEF OpFits
  <2>2. clients[d].record \notin rs BY <2>1, <1>3 DEF Busy
  <2> QED BY <2>1, <2>2, <1>0, <1>3 DEF UpdateLives, LivesOf, SameWork
<1>13. PromisesKept'
  BY <1>0, <1>5, Names, TypeParts DEF PromisesKept, PromiseOf
<1>14. ReadsHold'
  BY <1>0, <1>1, <1>3, Names DEF ReadsHold, ReadsOf, SameWork, OpFits, Shown, RevisionKey
<1>15. LiveBound'
  <2> SUFFICES ASSUME NEW r \in Records \ shaken', NEW k \in LiveKeys(r)
               PROVE  /\ Resting(r)' => k = RevisionKey(r, rows[r])'
                      /\ \A d \in Clients :
                           /\ clients'[d].pc = "forget" /\ clients'[d].record = r =>
                                k \in {RevisionKey(r, rows[r])', NewKey(d)'}
                           /\ clients'[d].pc = "write" /\ clients'[d].record = r => k = NewKey(d)'
                           /\ clients'[d].pc = "delete" => r \notin clients'[d].found
    BY <1>5 DEF LiveBound, LiveBoundOf
  <2>1. LiveBoundOf(r) BY <1>1 DEF LiveBound
  <2>2. RevisionKey(r, rows[r])' = RevisionKey(r, rows[r]) BY <1>0 DEF RevisionKey
  <2>3. clients'[c].pc \in {"read", "found"} BY <1>1 DEF OpFits
  <2> QED BY <2>1, <2>2, <2>3, <1>3, <1>6 DEF LiveBoundOf, SameWork
<1>16. RevisionsClimb'
  <2>1. spent' \subseteq (gone \cup shaken)' BY <1>0, <1>1 DEF RevisionsClimb
  <2>2. clients'[c].pc \in {"read", "found"} BY <1>1 DEF OpFits
  <2>3. ASSUME NEW r \in Untouched' PROVE ClimbsOf(r)'
    <3>1. ClimbsOf(r) BY <1>0, <1>1 DEF Untouched, RevisionsClimb
    <3>2. /\ NeverStored(r)' = NeverStored(r) /\ RevisionKey(r, rows[r])' = RevisionKey(r, rows[r])
          /\ \A n : AbsentAfter(r, n)' = AbsentAfter(r, n)
      BY <1>0 DEF NeverStored, AbsentAfter, RevisionKey
    <3>3. Resting(r)' => IF rows'[r] = NoRow THEN NeverStored(r)'
                         ELSE stored'[RevisionKey(r, rows[r])'] = "live" /\ AbsentAfter(r, rows[r].rev)'
      BY <3>1, <1>0, <1>6 DEF ClimbsOf, AbsentAfter, NeverStored, RevisionKey, Untouched
    <3>4. ASSUME NEW d \in Clients, clients'[d].record = r, clients'[d].pc \in {"forget", "write"}
          PROVE  stored'[NewKey(d)'] = "live" /\ AbsentAfter(r, NewRow(d).rev)'
      BY <3>1, <3>4, <2>2, <1>0, <1>3 DEF ClimbsOf, AbsentAfter, SameWork
    <3> QED BY <3>3, <3>4 DEF ClimbsOf
  <2>4. \A d \in Clients : clients'[d].pc = "delete" => clients'[d].found \subseteq gone'
    BY <2>2, <1>0, <1>3 DEF RevisionsClimb, GoneOf, SameWork
  <2> QED BY <2>1, <2>3, <2>4 DEF RevisionsClimb, GoneOf
<1> QED BY <1>7, <1>8, <1>9, <1>10, <1>11, <1>12, <1>13, <1>14, <1>15, <1>16

----------------------------------------------------------------------------
(* What a step by c on its own records leaves alone.                        *)

LEMMA SoleWorker ==
  ASSUME OverlapsShow, NEW c \in Clients, NEW r \in Records, r \in Busy(c),
         r \notin shaken \/ clients[c].alone
  PROVE  \A d \in Clients \ {c} : r \notin Busy(d)
BY DEF OverlapsShow

LEMMA RecordFrame ==
  ASSUME NEW r \in Records, \A k \in MemoryKeys : k[1] = r => stored'[k] = stored[k]
  PROVE  /\ LiveKeys(r)' = LiveKeys(r) /\ NeverStored(r)' = NeverStored(r)
         /\ \A n : AbsentAfter(r, n)' = AbsentAfter(r, n)
<1>1. LiveKeys(r)' = LiveKeys(r) BY DEF LiveKeys
<1>2. NeverStored(r)' = NeverStored(r) BY DEF NeverStored
<1>3. \A n : AbsentAfter(r, n)' = AbsentAfter(r, n) BY DEF AbsentAfter
<1> QED BY <1>1, <1>2, <1>3

LEMMA OthersKept ==
  ASSUME CrewTypeOK, OperationsFit, NEW c \in Clients, NEW r \in Records, r \notin Busy(c), r \notin Busy(c)',
         \A d \in Clients \ {c} : SameWork(c, d),
         \A k \in MemoryKeys : k[1] = r => stored'[k] = stored[k], rows'[r] = rows[r]
  PROVE  /\ Resting(r)' = Resting(r)
         /\ (LiveBoundOf(r) => LiveBoundOf(r)') /\ (ClimbsOf(r) => ClimbsOf(r)')
<1>1. Resting(r)' = Resting(r) BY DEF Resting, SameWork
<1>2. LiveKeys(r)' = LiveKeys(r) /\ NeverStored(r)' = NeverStored(r)
      /\ (\A n : AbsentAfter(r, n)' = AbsentAfter(r, n))
  BY RecordFrame
<1>3. RevisionKey(r, rows[r])' = RevisionKey(r, rows[r]) BY DEF RevisionKey
<1>4. clients'[c].record # r /\ r \notin clients'[c].found BY DEF Busy
<1>5. LiveBoundOf(r) => LiveBoundOf(r)'
  BY <1>1, <1>2, <1>3, <1>4 DEF LiveBoundOf, SameWork
<1>6. ASSUME ClimbsOf(r) PROVE ClimbsOf(r)'
  <2>1. rows[r] \in RowsOf BY TypeParts
  <2>2. rows[r] # NoRow => stored'[RevisionKey(r, rows[r])] = stored[RevisionKey(r, rows[r])]
    BY <2>1, RowKey
  <2>3. ASSUME NEW d \in Clients, clients'[d].record = r, clients'[d].pc \in {"forget", "write"}
        PROVE  stored'[NewKey(d)'] = "live" /\ AbsentAfter(r, NewRow(d).rev)'
    <3>1. d # c BY <2>3, <1>4
    <3>2. SameWork(c, d) /\ clients[d].record = r /\ clients[d].pc \in {"forget", "write"}
      BY <3>1, <2>3 DEF SameWork
    <3>3. NewKey(d) \in MemoryKeys /\ NewKey(d)[1] = r
      BY <3>2, NewKeyFits DEF OperationsFit, FitsOf, Updating
    <3>4. stored[NewKey(d)] = "live" /\ AbsentAfter(r, NewRow(d).rev) BY <3>2, <1>6 DEF ClimbsOf
    <3>5. NewKey(d)' = NewKey(d) /\ NewRow(d)' = NewRow(d) BY <3>2 DEF SameWork
    <3>6. AbsentAfter(r, NewRow(d).rev)' BY <3>4, <3>5, <1>2 DEF AbsentAfter
    <3> QED BY <3>3, <3>4, <3>5, <3>6
  <2>4. Resting(r)' => IF rows'[r] = NoRow THEN NeverStored(r)'
                       ELSE stored'[RevisionKey(r, rows[r])'] = "live" /\ AbsentAfter(r, rows[r].rev)'
    BY <2>2, <1>1, <1>2, <1>3, <1>6 DEF ClimbsOf, AbsentAfter
  <2> QED BY <2>3, <2>4 DEF ClimbsOf
<1> QED BY <1>1, <1>5, <1>6

(* The invariant, client by client and record by record.                    *)
WorkHolds(c) == FitsOf(c) /\ StoredWork(c) /\ LivesOf(c) /\ GoneOf(c)
RecordHolds(r) ==
  /\ WaitsOf(r) /\ StoredRow(r) /\ PromiseOf(r)
  /\ r \notin shaken => ReadsOf(r) /\ LiveBoundOf(r)
  /\ r \notin gone \cup shaken => ClimbsOf(r) /\ r \notin spent

LEMMA InvParts ==
  CrewInv <=> /\ CrewTypeOK /\ OverlapsShow
              /\ \A c \in Clients : WorkHolds(c)
              /\ \A r \in Records : RecordHolds(r)
<1>1. CrewTypeOK => spent \subseteq Records BY TypeParts
<1> QED BY <1>1 DEF CrewInv, OperationsFit, PromisesWait, StoredFirst, UpdateLives, PromisesKept,
                    ReadsHold, LiveBound, RevisionsClimb, Untouched, WorkHolds, RecordHolds

(* A step of one client that touches only the records it is busy with.       *)
StepBy(c) ==
  /\ \A d \in Clients \ {c} : SameWork(c, d) /\ clients'[d] = clients[d]
  /\ \/ Busy(c)' = {Nothing}
     \/ Busy(c)' = Busy(c) /\ clients'[c].alone = clients[c].alone
  /\ \A k \in MemoryKeys : /\ stored[k] # "absent" => stored'[k] # "absent"
                           /\ k[1] \notin Busy(c) => stored'[k] = stored[k]
  /\ \A r \in Records \ Busy(c) : /\ rows'[r] = rows[r] /\ wanted'[r] = wanted[r]
                                  /\ r \in spent' <=> r \in spent
  /\ spent \subseteq spent' /\ gone \subseteq gone' /\ shaken \subseteq shaken'

LEMMA OthersWork ==
  ASSUME CrewInv, NEW c \in Clients, StepBy(c), NEW d \in Clients \ {c}
  PROVE  WorkHolds(d)'
<1>1. WorkHolds(d) /\ CrewTypeOK /\ OverlapsShow BY InvParts
<1>2. SameWork(c, d) /\ clients'[d] = clients[d] BY DEF StepBy
<1>3. FitsOf(d)' BY <1>1, <1>2 DEF WorkHolds, FitsOf, SameWork, Updating, Deleting
<1>4. GoneOf(d)' BY <1>1, <1>2 DEF WorkHolds, GoneOf, StepBy
<1>5. ASSUME Updating(d) PROVE clients[d].record \in Records /\ clients[d].text \in Contents
  BY <1>1, <1>5 DEF WorkHolds, FitsOf
<1>6. ASSUME clients[d].pc \in {"forget", "write"}
      PROVE  NewKey(d) \in MemoryKeys /\ NewKey(d)[1] = clients[d].record
  <2>1. Updating(d) /\ NewRow(d).rev <= MaxRev BY <1>1, <1>6 DEF WorkHolds, FitsOf, Updating
  <2> QED BY <2>1, <1>1, <1>5, NewKeyFits
<1>7. StoredWork(d)'
  <2>1. Updating(d) /\ clients[d].old # NoRow =>
          RevisionKey(clients[d].record, clients[d].old) \in MemoryKeys
    BY <1>1, <1>5, RowKey, TypeParts DEF ClientType
  <2> QED BY <2>1, <1>1, <1>2, <1>6 DEF WorkHolds, StoredWork, StepBy, SameWork, Updating, RevisionKey
<1>8. LivesOf(d)'
  <2> SUFFICES ASSUME clients'[d].pc \in {"forget", "write"}, clients'[d].alone,
                      clients'[d].record \notin spent'
               PROVE  stored'[NewKey(d)'] = "live"
    BY DEF LivesOf
  <2>1. clients[d].pc \in {"forget", "write"} /\ clients[d].alone /\ clients[d].record \notin spent
    BY <1>2 DEF StepBy
  <2>2. stored[NewKey(d)] = "live" BY <2>1, <1>1 DEF WorkHolds, LivesOf
  <2>3. clients[d].record \in Records BY <2>1, <1>5 DEF Updating
  <2>4. clients[d].record \notin Busy(c)
    BY <2>1, <2>3, <1>1 DEF OverlapsShow, Busy
  <2>5. stored'[NewKey(d)] = stored[NewKey(d)] BY <2>1, <2>4, <1>6 DEF StepBy
  <2> QED BY <2>2, <2>5, <1>2 DEF SameWork
<1> QED BY <1>3, <1>4, <1>7, <1>8 DEF WorkHolds

LEMMA OthersRecord ==
  ASSUME CrewInv, NEW c \in Clients, StepBy(c), NEW r \in Records \ Busy(c)
  PROVE  RecordHolds(r)'
<1>1. RecordHolds(r) /\ CrewTypeOK /\ OverlapsShow BY InvParts
<1>2. \A d \in Clients \ {c} : SameWork(c, d) /\ clients'[d] = clients[d] BY DEF StepBy
<1>3. r \notin Busy(c)' BY Names DEF StepBy
<1>4. /\ rows'[r] = rows[r] /\ wanted'[r] = wanted[r] /\ (r \in spent' <=> r \in spent)
      /\ gone \subseteq gone' /\ shaken \subseteq shaken'
  BY DEF StepBy
<1>5. \A k \in MemoryKeys : k[1] = r => stored'[k] = stored[k] BY DEF StepBy
<1>6. (LiveBoundOf(r) => LiveBoundOf(r)') /\ (ClimbsOf(r) => ClimbsOf(r)')
  <2>1. OperationsFit BY DEF CrewInv
  <2> QED BY <2>1, <1>1, <1>2, <1>3, <1>4, <1>5, OthersKept
<1>7. WaitsOf(r)' BY <1>1, <1>2, <1>3, <1>4 DEF RecordHolds, WaitsOf, SameWork
<1>8. rows[r] # NoRow => stored'[RevisionKey(r, rows[r])] = stored[RevisionKey(r, rows[r])]
  BY <1>1, <1>5, RowKey, TypeParts
<1>9. StoredRow(r)' /\ PromiseOf(r)'
  BY <1>1, <1>4, <1>8 DEF RecordHolds, StoredRow, PromiseOf, Shown, RevisionKey
<1>10. ReadsOf(r) => ReadsOf(r)'
  BY <1>2, <1>3, <1>4 DEF ReadsOf, Busy, RevisionKey
<1> QED BY <1>1, <1>4, <1>6, <1>7, <1>9, <1>10 DEF RecordHolds

LEMMA StepInv ==
  ASSUME CrewInv, NEW c \in Clients, StepBy(c), CrewTypeOK', WorkHolds(c)',
         \A r \in Records \cap Busy(c) : RecordHolds(r)'
  PROVE  CrewInv'
<1>1. OverlapsShow'
  <2>1. OverlapsShow BY DEF CrewInv
  <2> SUFFICES ASSUME NEW d \in Clients, NEW e \in Clients, NEW r \in Records, d # e,
                      r \in Busy(d)', r \in Busy(e)'
               PROVE  ~clients'[d].alone /\ r \in shaken'
    BY DEF OverlapsShow
  <2>2. \A b \in Clients : r \in Busy(b)' => r \in Busy(b) /\ clients'[b].alone = clients[b].alone
    BY Names DEF StepBy, SameWork
  <2> QED BY <2>1, <2>2 DEF OverlapsShow, StepBy
<1>2. \A d \in Clients : WorkHolds(d)' BY OthersWork
<1>3. \A r \in Records : RecordHolds(r)' BY OthersRecord
<1>4. spent' \subseteq Records BY DEF CrewTypeOK
<1> QED BY <1>1, <1>2, <1>3, <1>4
        DEF CrewInv, OperationsFit, PromisesWait, StoredFirst, UpdateLives, PromisesKept,
            ReadsHold, LiveBound, RevisionsClimb, Untouched, WorkHolds, RecordHolds

----------------------------------------------------------------------------
(* The steps of an update.                                                  *)

(* What an update under way may rely on.                                     *)
LEMMA UpdateParts ==
  ASSUME CrewInv, NEW c \in Clients, Updating(c)
  PROVE  /\ clients[c].record \in Records /\ clients[c].text \in Contents
         /\ clients[c].found = {} /\ clients[c].keys = {} /\ clients[c].old \in RowsOf
         /\ \A r \in Records : r \in Busy(c) <=> r = clients[c].record
         /\ WorkHolds(c) /\ RecordHolds(clients[c].record) /\ CrewTypeOK /\ OverlapsShow
         /\ wanted[clients[c].record] = Unknown
         /\ clients[c].record \notin shaken \/ clients[c].alone =>
              \A d \in Clients \ {c} : clients[c].record \notin Busy(d)
<1>1. WorkHolds(c) /\ CrewTypeOK /\ OverlapsShow BY InvParts
<1>2. clients[c].record \in Records /\ clients[c].text \in Contents
      /\ clients[c].found = {} /\ clients[c].keys = {}
  BY <1>1 DEF WorkHolds, FitsOf
<1>3. clients[c].old \in RowsOf BY <1>1, TypeParts DEF ClientType
<1>4. RecordHolds(clients[c].record) BY <1>2, InvParts
<1>5. \A r \in Records : r \in Busy(c) <=> r = clients[c].record BY <1>2 DEF Busy
<1>6. wanted[clients[c].record] = Unknown BY <1>2, <1>4, <1>5 DEF RecordHolds, WaitsOf
<1>7. clients[c].record \notin shaken \/ clients[c].alone =>
        \A d \in Clients \ {c} : clients[c].record \notin Busy(d)
  BY <1>1, <1>2, <1>5, SoleWorker
<1> QED BY <1>1, <1>2, <1>3, <1>4, <1>5, <1>6, <1>7

LEMMA StoreInv ==
  ASSUME CrewInv, NEW c \in Clients, StoreRevision(c)
  PROVE  CrewInv'
<1>0. Updating(c) BY DEF StoreRevision, Updating
<1>r. PICK r \in Records : r = clients[c].record BY <1>0, UpdateParts
<1> DEFINE me == clients[c]
           key == NewKey(c)
           p == IF me.old = NoRow THEN "write" ELSE "forget"
<1>1. /\ me.pc = "read" /\ ~Unchanged(c) /\ NewRow(c).rev <= MaxRev
      /\ stored' = [stored EXCEPT ![key] = IF @ = "absent" THEN "live" ELSE @]
      /\ spent' = (IF stored[key] = "forgotten" THEN spent \cup {r} ELSE spent)
      /\ clients' = [clients EXCEPT ![c].pc = p]
      /\ rows' = rows /\ wanted' = wanted /\ gone' = gone /\ shaken' = shaken
      /\ ops' = ops /\ faults' = faults
  BY <1>r DEF StoreRevision
<1> HIDE DEF p
<1>3. /\ me.record = r /\ me.text \in Contents /\ me.found = {} /\ me.keys = {} /\ me.old \in RowsOf
      /\ (\A q \in Records : q \in Busy(c) <=> q = r)
      /\ WorkHolds(c) /\ RecordHolds(r) /\ CrewTypeOK /\ OverlapsShow /\ wanted[r] = Unknown
      /\ r \notin shaken => \A d \in Clients \ {c} : r \notin Busy(d)
  BY <1>0, <1>r, UpdateParts
<1>4. key \in MemoryKeys /\ key[1] = r /\ key[2] = NewRow(c).rev /\ NewRow(c).rev = NextRev(me.old)
  BY <1>1, <1>3, NewKeyFits
<1>5. p \in {"forget", "write"} /\ (p = "forget" => me.old # NoRow) /\ (p = "write" => me.old = NoRow)
  BY DEF p
<1>6. /\ clients' \in [Clients -> ClientType] /\ clients'[c].pc = p
      /\ \A d \in Clients : SameWork(c, d) /\ clients'[d].alone = clients[d].alone
      /\ \A d \in Clients \ {c} : clients'[d] = clients[d]
  <2>1. p \in Pcs BY <1>5 DEF Pcs
  <2> QED BY <2>1, <1>1, <1>3, ClientGoesOn
<1>7. /\ stored' \in StoredType /\ stored'[key] = (IF stored[key] = "absent" THEN "live" ELSE stored[key])
      /\ \A k \in MemoryKeys \ {key} : stored'[k] = stored[k]
      /\ \A k \in MemoryKeys : stored[k] # "absent" => stored'[k] # "absent"
  <2>1. stored \in StoredType BY <1>3, TypeParts
  <2> QED BY <2>1, <1>1, <1>4 DEF StoredType
<1>8. CrewTypeOK'
  BY <1>1, <1>3, <1>6, <1>7, TypeParts DEF CrewTypeOK, StoredType, RowsOf, ClientType, Pcs
<1>9. StepBy(c)
  <2>1. \A k \in MemoryKeys : k[1] \notin Busy(c) => stored'[k] = stored[k]
    BY <1>3, <1>4, <1>7
  <2>2. \A q \in Records \ Busy(c) : q \in spent' <=> q \in spent BY <1>1, <1>3
  <2> QED BY <2>1, <2>2, <1>1, <1>6, <1>7 DEF StepBy, SameWork
<1>10. WorkHolds(c)'
  <2>1. SameWork(c, c) /\ clients'[c].pc = p BY <1>6
  <2>2. FitsOf(c)' BY <2>1, <1>1, <1>3, <1>5 DEF SameWork, FitsOf, Updating, Deleting
  <2>3. StoredWork(c)'
    <3>1. me.old # NoRow => RevisionKey(r, me.old) \in MemoryKeys BY <1>3, RowKey
    <3> QED BY <3>1, <2>1, <1>0, <1>3, <1>4, <1>7 DEF SameWork, WorkHolds, StoredWork, RevisionKey, StoredType
  <2>4. LivesOf(c)'
    <3>1. stored[key] \in {"absent", "live", "forgotten"} BY <1>3, <1>4, TypeParts DEF StoredType
    <3> QED BY <3>1, <2>1, <1>1, <1>3, <1>7 DEF LivesOf, SameWork
  <2>5. GoneOf(c)' BY <2>1, <1>5 DEF GoneOf
  <2> QED BY <2>2, <2>3, <2>4, <2>5 DEF WorkHolds
<1>11. RecordHolds(r)'
  <2>1. WaitsOf(r)' /\ PromiseOf(r)' BY <1>1, <1>3, Names DEF WaitsOf, PromiseOf
  <2>2. StoredRow(r)'
    <3>1. rows[r] \in RowsOf BY <1>3, TypeParts
    <3>2. rows[r] # NoRow => RevisionKey(r, rows[r]) \in MemoryKeys BY <3>1, <1>3, RowKey
    <3> QED BY <3>2, <1>1, <1>3, <1>7 DEF RecordHolds, StoredRow, RevisionKey
  <2>3. ASSUME r \notin shaken
        PROVE  /\ rows[r] = me.old /\ Resting(r)
               /\ \A d \in Clients : (clients'[d].record = r \/ r \in clients'[d].found) => d = c
    <3>1. rows[r] = me.old BY <2>3, <1>1, <1>3 DEF RecordHolds, ReadsOf
    <3>2. Resting(r) BY <2>3, <1>1, <1>3 DEF Resting
    <3>3. \A d \in Clients : (clients'[d].record = r \/ r \in clients'[d].found) => d = c
      BY <2>3, <1>3, <1>6 DEF Busy
    <3> QED BY <3>1, <3>2, <3>3
  <2>4. ASSUME r \notin shaken PROVE ReadsOf(r)'
    BY <2>3, <2>4, <1>1, <1>3, <1>5, <1>6 DEF RecordHolds, ReadsOf, SameWork
  <2>5. ~Resting(r)' BY <1>3, <1>5, <1>6 DEF Resting, SameWork
  <2>6. ASSUME r \notin shaken PROVE LiveBoundOf(r)'
    <3> SUFFICES ASSUME NEW k \in LiveKeys(r)'
                 PROVE  /\ p = "forget" => k \in {RevisionKey(r, rows[r]), key}
                        /\ p = "write" => k = key
      BY <2>3, <2>5, <2>6, <1>1, <1>3, <1>5, <1>6 DEF LiveBoundOf, SameWork, RevisionKey
    <3>1. k \in MemoryKeys /\ (k = key \/ k \in LiveKeys(r)) BY <1>1, <1>4, <1>7 DEF LiveKeys
    <3>2. k \in LiveKeys(r) => k = RevisionKey(r, rows[r])
      BY <2>3, <2>6, <1>3 DEF RecordHolds, LiveBoundOf
    <3>3. p = "write" => k # RevisionKey(r, rows[r]) BY <3>1, <2>3, <2>6, <1>3, <1>5, RowKey
    <3> QED BY <3>1, <3>2, <3>3
  <2>7. ASSUME r \notin gone \cup shaken PROVE ClimbsOf(r)' /\ r \notin spent'
    <3>1. ClimbsOf(r) /\ r \notin spent /\ Resting(r) /\ rows[r] = me.old
      BY <2>3, <2>7, <1>3 DEF RecordHolds
    <3>2. me.old.rev \in 0..MaxRev BY <1>3, RowKey
    <3>3. \A k \in MemoryKeys : k[1] = r /\ k[2] >= NewRow(c).rev => stored[k] = "absent"
      <4>1. CASE me.old = NoRow BY <4>1, <3>1 DEF ClimbsOf, NeverStored
      <4>2. CASE me.old # NoRow
        <5>1. AbsentAfter(r, me.old.rev) BY <4>2, <3>1 DEF ClimbsOf
        <5>2. NewRow(c).rev = me.old.rev + 1 BY <4>2, <1>4 DEF NextRev
        <5>3. \A k \in MemoryKeys : k[2] \in Nat BY Names DEF MemoryKeys
        <5> QED BY <5>1, <5>2, <5>3, <3>2 DEF AbsentAfter
      <4> QED BY <4>1, <4>2
    <3>4. NewRow(c).rev \in Nat BY <1>3, NewKeyFits
    <3>5. stored[key] = "absent" BY <3>3, <3>4, <1>4
    <3>6. stored'[key] = "live" /\ r \notin spent' BY <3>1, <3>5, <1>1, <1>7
    <3>7. \A k \in MemoryKeys : k[1] = r /\ k[2] > NewRow(c).rev => stored'[k] = "absent"
      <4>1. \A k \in MemoryKeys : k[2] \in Nat BY Names DEF MemoryKeys
      <4>2. \A k \in MemoryKeys : k[2] > NewRow(c).rev => k # key /\ k[2] >= NewRow(c).rev
        BY <4>1, <3>4, <1>4
      <4> QED BY <4>2, <3>3, <1>7
    <3>8. AbsentAfter(r, NewRow(c).rev)' BY <3>7, <1>6 DEF AbsentAfter, SameWork
    <3>9. \A d \in Clients : clients'[d].record = r => d = c BY <2>3, <2>7
    <3> QED BY <3>6, <3>8, <3>9, <2>5, <1>6 DEF ClimbsOf, SameWork
  <2>8. shaken' = shaken /\ gone' = gone BY <1>1
  <2> QED BY <2>1, <2>2, <2>4, <2>6, <2>7, <2>8 DEF RecordHolds
<1>12. \A q \in Records \cap Busy(c) : q = r BY <1>3
<1> QED BY <1>8, <1>9, <1>10, <1>11, <1>12, StepInv

LEMMA KeepInv ==
  ASSUME CrewInv, NEW c \in Clients, KeepRevision(c)
  PROVE  CrewInv'
<1>0. Updating(c) BY DEF KeepRevision, Updating
<1>r. PICK r \in Records : r = clients[c].record BY <1>0, UpdateParts
<1> DEFINE me == clients[c]
           key == NewKey(c)
<1>1. /\ me.pc = "read" /\ Unchanged(c)
      /\ spent' = (IF stored[key] = "forgotten" THEN spent \cup {r} ELSE spent)
      /\ clients' = [clients EXCEPT ![c].pc = "write"]
      /\ stored' = stored /\ rows' = rows /\ wanted' = wanted /\ gone' = gone /\ shaken' = shaken
      /\ ops' = ops /\ faults' = faults
  BY <1>r DEF KeepRevision
<1>3. /\ me.record = r /\ me.text \in Contents /\ me.found = {} /\ me.keys = {} /\ me.old \in RowsOf
      /\ (\A q \in Records : q \in Busy(c) <=> q = r)
      /\ WorkHolds(c) /\ RecordHolds(r) /\ CrewTypeOK /\ OverlapsShow /\ wanted[r] = Unknown
      /\ r \notin shaken => \A d \in Clients \ {c} : r \notin Busy(d)
  BY <1>0, <1>r, UpdateParts
<1>4. me.old # NoRow /\ NewRow(c) = me.old /\ key = RevisionKey(r, me.old)
  BY <1>1, <1>3, NewKeyFits
<1>5. key \in MemoryKeys /\ NewRow(c).rev \in 0..MaxRev /\ NewRow(c).rev <= MaxRev
  BY <1>3, <1>4, RowKey
<1>6. /\ clients' \in [Clients -> ClientType] /\ clients'[c].pc = "write"
      /\ \A d \in Clients : SameWork(c, d) /\ clients'[d].alone = clients[d].alone
      /\ \A d \in Clients \ {c} : clients'[d] = clients[d]
  <2>1. "write" \in Pcs BY DEF Pcs
  <2> QED BY <2>1, <1>1, <1>3, ClientGoesOn
<1>8. CrewTypeOK'
  BY <1>1, <1>3, <1>6, TypeParts DEF CrewTypeOK, StoredType, RowsOf, ClientType, Pcs
<1>9. StepBy(c)
  <2>1. \A q \in Records \ Busy(c) : q \in spent' <=> q \in spent BY <1>1, <1>3
  <2> QED BY <2>1, <1>1, <1>6 DEF StepBy, SameWork
<1>10. WorkHolds(c)'
  <2>1. SameWork(c, c) /\ clients'[c].pc = "write" BY <1>6
  <2>2. FitsOf(c)' BY <2>1, <1>1, <1>3, <1>5 DEF SameWork, FitsOf, Updating, Deleting
  <2>3. stored[key] # "absent" BY <1>0, <1>3, <1>4 DEF WorkHolds, StoredWork
  <2>4. StoredWork(c)' BY <2>1, <2>3, <1>1, <1>3, <1>4 DEF SameWork, StoredWork, RevisionKey
  <2>5. LivesOf(c)'
    <3>1. stored[key] \in {"absent", "live", "forgotten"} BY <1>3, <1>5, TypeParts DEF StoredType
    <3> QED BY <3>1, <2>1, <2>3, <1>1, <1>3 DEF LivesOf, SameWork
  <2>6. GoneOf(c)' BY <2>1 DEF GoneOf
  <2> QED BY <2>2, <2>4, <2>5, <2>6 DEF WorkHolds
<1>11. RecordHolds(r)'
  <2>1. WaitsOf(r)' /\ PromiseOf(r)' BY <1>1, <1>3, Names DEF WaitsOf, PromiseOf
  <2>2. StoredRow(r)' BY <1>1, <1>3 DEF RecordHolds, StoredRow, RevisionKey
  <2>3. ASSUME r \notin shaken
        PROVE  /\ rows[r] = me.old /\ Resting(r)
               /\ \A d \in Clients : (clients'[d].record = r \/ r \in clients'[d].found) => d = c
    <3>1. rows[r] = me.old BY <2>3, <1>1, <1>3 DEF RecordHolds, ReadsOf
    <3>2. Resting(r) BY <2>3, <1>1, <1>3 DEF Resting
    <3>3. \A d \in Clients : (clients'[d].record = r \/ r \in clients'[d].found) => d = c
      BY <2>3, <1>3, <1>6 DEF Busy
    <3> QED BY <3>1, <3>2, <3>3
  <2>4. ASSUME r \notin shaken PROVE ReadsOf(r)'
    BY <2>3, <2>4, <1>1, <1>3, <1>6 DEF RecordHolds, ReadsOf, SameWork
  <2>5. ~Resting(r)' BY <1>3, <1>6 DEF Resting, SameWork
  <2>6. ASSUME r \notin shaken PROVE LiveBoundOf(r)'
    <3>1. LiveKeys(r)' = LiveKeys(r) BY <1>1 DEF LiveKeys
    <3>2. \A k \in LiveKeys(r) : k = key BY <2>3, <2>6, <1>3, <1>4 DEF RecordHolds, LiveBoundOf
    <3> QED BY <3>1, <3>2, <2>3, <2>5, <2>6, <1>3, <1>6 DEF LiveBoundOf, SameWork
  <2>7. ASSUME r \notin gone \cup shaken PROVE ClimbsOf(r)' /\ r \notin spent'
    <3>1. ClimbsOf(r) /\ r \notin spent /\ Resting(r) /\ rows[r] = me.old
      BY <2>3, <2>7, <1>3 DEF RecordHolds
    <3>2. stored[key] = "live" /\ AbsentAfter(r, NewRow(c).rev) BY <3>1, <1>4 DEF ClimbsOf
    <3>3. r \notin spent' BY <3>1, <3>2, <1>1
    <3>4. AbsentAfter(r, NewRow(c).rev)' BY <3>2, <1>1, <1>6 DEF AbsentAfter, SameWork
    <3>5. \A d \in Clients : clients'[d].record = r => d = c BY <2>3, <2>7
    <3> QED BY <3>2, <3>3, <3>4, <3>5, <2>5, <1>1, <1>6 DEF ClimbsOf, SameWork
  <2>8. shaken' = shaken /\ gone' = gone BY <1>1
  <2> QED BY <2>1, <2>2, <2>4, <2>6, <2>7, <2>8 DEF RecordHolds
<1>12. \A q \in Records \cap Busy(c) : q = r BY <1>3
<1> QED BY <1>8, <1>9, <1>10, <1>11, <1>12, StepInv

(* What a soft delete does to the memories.                                  *)
LEMMA ForgetsKeys ==
  ASSUME stored \in StoredType, NEW keys, Forgets(keys)
  PROVE  /\ stored' \in StoredType
         /\ \A k \in MemoryKeys :
              /\ k \notin keys => stored'[k] = stored[k]
              /\ stored'[k] = "absent" <=> stored[k] = "absent"
              /\ k \in keys => stored'[k] # "live"
              /\ stored'[k] = "live" => stored[k] = "live"
BY DEF Forgets, StoredType

LEMMA ForgetOldInv ==
  ASSUME CrewInv, NEW c \in Clients, ForgetOld(c)
  PROVE  CrewInv'
<1>0. Updating(c) BY DEF ForgetOld, Updating
<1>r. PICK r \in Records : r = clients[c].record BY <1>0, UpdateParts
<1> DEFINE me == clients[c]
           key == NewKey(c)
           old == RevisionKey(r, me.old)
<1>1. /\ me.pc = "forget" /\ Forgets({old})
      /\ clients' = [clients EXCEPT ![c].pc = "write"]
      /\ spent' = spent /\ rows' = rows /\ wanted' = wanted /\ gone' = gone /\ shaken' = shaken
      /\ ops' = ops /\ faults' = faults
  BY <1>r DEF ForgetOld
<1>3. /\ me.record = r /\ me.text \in Contents /\ me.found = {} /\ me.keys = {} /\ me.old \in RowsOf
      /\ (\A q \in Records : q \in Busy(c) <=> q = r)
      /\ WorkHolds(c) /\ RecordHolds(r) /\ CrewTypeOK /\ OverlapsShow /\ wanted[r] = Unknown
      /\ r \notin shaken => \A d \in Clients \ {c} : r \notin Busy(d)
  BY <1>0, <1>r, UpdateParts
<1>4. ~Unchanged(c) /\ me.old # NoRow /\ NewRow(c).rev <= MaxRev BY <1>1, <1>3 DEF WorkHolds, FitsOf
<1>5. /\ key \in MemoryKeys /\ key[1] = r /\ key[2] = NewRow(c).rev /\ NewRow(c).rev = NextRev(me.old)
      /\ old \in MemoryKeys /\ old[1] = r /\ old[2] = me.old.rev /\ me.old.rev \in 0..MaxRev
  BY <1>3, <1>4, NewKeyFits, RowKey
<1>e. key # old
  <2>1. NextRev(me.old) = me.old.rev + 1 BY <1>4 DEF NextRev
  <2>2. me.old.rev + 1 # me.old.rev BY <1>5
  <2> HIDE DEF key, old, me
  <2> QED BY <2>1, <2>2, <1>5
<1>6. /\ clients' \in [Clients -> ClientType] /\ clients'[c].pc = "write"
      /\ \A d \in Clients : SameWork(c, d) /\ clients'[d].alone = clients[d].alone
      /\ \A d \in Clients \ {c} : clients'[d] = clients[d]
  <2>1. "write" \in Pcs BY DEF Pcs
  <2> QED BY <2>1, <1>1, <1>3, ClientGoesOn
<1>7. /\ stored' \in StoredType /\ stored'[key] = stored[key]
      /\ \A k \in MemoryKeys :
           /\ k[1] # r => stored'[k] = stored[k]
           /\ stored'[k] = "absent" <=> stored[k] = "absent"
           /\ stored'[k] = "live" => stored[k] = "live" /\ k # old
  <2>1. stored \in StoredType BY <1>3, TypeParts
  <2> HIDE DEF key, old, me
  <2> QED BY <2>1, <1>1, <1>5, <1>e, ForgetsKeys
<1>8. CrewTypeOK'
  BY <1>1, <1>3, <1>6, <1>7, TypeParts DEF CrewTypeOK, StoredType, RowsOf, ClientType, Pcs
<1>9. StepBy(c)
  <2>1. \A k \in MemoryKeys : k[1] \notin Busy(c) => stored'[k] = stored[k] BY <1>3, <1>7
  <2> QED BY <2>1, <1>1, <1>6, <1>7 DEF StepBy, SameWork
<1>10. WorkHolds(c)'
  <2>1. SameWork(c, c) /\ clients'[c].pc = "write" /\ clients'[c].alone = me.alone BY <1>6
  <2>2. FitsOf(c)' BY <2>1, <1>1, <1>3, <1>4 DEF SameWork, FitsOf, Updating, Deleting
  <2>3. StoredWork(c)'
    BY <2>1, <1>0, <1>1, <1>3, <1>5, <1>7 DEF SameWork, WorkHolds, StoredWork, RevisionKey
  <2>4. LivesOf(c)' BY <2>1, <1>1, <1>3, <1>7 DEF WorkHolds, LivesOf, SameWork
  <2>5. GoneOf(c)' BY <2>1 DEF GoneOf
  <2> QED BY <2>2, <2>3, <2>4, <2>5 DEF WorkHolds
<1>11. RecordHolds(r)'
  <2>1. WaitsOf(r)' /\ PromiseOf(r)' BY <1>1, <1>3, Names DEF WaitsOf, PromiseOf
  <2>2. StoredRow(r)'
    <3>1. rows[r] \in RowsOf BY <1>3, TypeParts
    <3>2. rows[r] # NoRow => RevisionKey(r, rows[r]) \in MemoryKeys BY <3>1, RowKey
    <3> QED BY <3>2, <1>1, <1>3, <1>7 DEF RecordHolds, StoredRow, RevisionKey
  <2>3. ASSUME r \notin shaken
        PROVE  \A d \in Clients : (clients'[d].record = r \/ r \in clients'[d].found) => d = c
    BY <2>3, <1>3, <1>6 DEF Busy
  <2>4. ASSUME r \notin shaken PROVE ReadsOf(r)'
    BY <2>3, <2>4, <1>1, <1>3, <1>6 DEF RecordHolds, ReadsOf, SameWork
  <2>5. ~Resting(r)' BY <1>3, <1>6 DEF Resting, SameWork
  <2>6. ASSUME r \notin shaken PROVE LiveBoundOf(r)'
    <3>1. rows[r] = me.old BY <2>6, <1>1, <1>3 DEF RecordHolds, ReadsOf
    <3>2. \A k \in LiveKeys(r)' : k = key
      BY <3>1, <2>6, <1>1, <1>3, <1>7 DEF RecordHolds, LiveBoundOf, LiveKeys
    <3> QED BY <3>2, <2>3, <2>5, <2>6, <1>3, <1>6 DEF LiveBoundOf, SameWork
  <2>7. ASSUME r \notin gone \cup shaken PROVE ClimbsOf(r)' /\ r \notin spent'
    <3>1. ClimbsOf(r) /\ r \notin spent BY <2>7, <1>3 DEF RecordHolds
    <3>2. stored'[key] = "live" /\ AbsentAfter(r, NewRow(c).rev) BY <3>1, <1>1, <1>3, <1>7 DEF ClimbsOf
    <3>3. AbsentAfter(r, NewRow(c).rev)' BY <3>2, <1>6, <1>7 DEF AbsentAfter, SameWork
    <3>4. \A d \in Clients : clients'[d].record = r => d = c BY <2>3, <2>7
    <3> QED BY <3>1, <3>2, <3>3, <3>4, <2>5, <1>1, <1>6 DEF ClimbsOf, SameWork
  <2>8. shaken' = shaken /\ gone' = gone BY <1>1
  <2> QED BY <2>1, <2>2, <2>4, <2>6, <2>7, <2>8 DEF RecordHolds
<1>12. \A q \in Records \cap Busy(c) : q = r BY <1>3
<1> QED BY <1>8, <1>9, <1>10, <1>11, <1>12, StepInv

LEMMA WriteInv ==
  ASSUME CrewInv, NEW c \in Clients, WriteRow(c)
  PROVE  CrewInv'
<1>0. Updating(c) BY DEF WriteRow, Updating
<1>r. PICK r \in Records : r = clients[c].record BY <1>0, UpdateParts
<1> DEFINE me == clients[c]
           row == NewRow(c)
           key == NewKey(c)
<1>1. /\ me.pc = "write" /\ rows' = [rows EXCEPT ![r] = row]
      /\ clients' = [clients EXCEPT ![c] = Away]
      /\ wanted' = [q \in Records |-> IF me.alone /\ q \in Busy(c) THEN me.text ELSE wanted[q]]
      /\ stored' = stored /\ spent' = spent /\ gone' = gone /\ shaken' = shaken
      /\ ops' = ops /\ faults' = faults
  BY <1>r DEF WriteRow, Ends
<1>3. /\ me.record = r /\ me.text \in Contents /\ me.found = {} /\ me.keys = {} /\ me.old \in RowsOf
      /\ (\A q \in Records : q \in Busy(c) <=> q = r)
      /\ WorkHolds(c) /\ RecordHolds(r) /\ CrewTypeOK /\ OverlapsShow /\ wanted[r] = Unknown
      /\ r \notin shaken \/ me.alone => \A d \in Clients \ {c} : r \notin Busy(d)
  BY <1>0, <1>r, UpdateParts
<1>4. row.rev <= MaxRev BY <1>1, <1>3 DEF WorkHolds, FitsOf
<1>5. /\ row \in RowsOf /\ row # NoRow /\ row.text = me.text /\ key \in MemoryKeys
      /\ key = RevisionKey(r, row)
  BY <1>3, <1>4, NewKeyFits DEF NewKey
<1>6. /\ clients' \in [Clients -> ClientType] /\ clients'[c] = Away
      /\ Away.pc = "idle" /\ Away.record = Nothing /\ Away.found = {} /\ Busy(c)' = {Nothing}
      /\ \A d \in Clients \ {c} : clients'[d] = clients[d] /\ SameWork(c, d)
  BY <1>1, <1>3, ClientGoesAway
<1>7. /\ rows' \in [Records -> RowsOf] /\ rows'[r] = row
      /\ \A q \in Records \ {r} : rows'[q] = rows[q]
  <2>1. rows \in [Records -> RowsOf] BY <1>3, TypeParts
  <2> QED BY <2>1, <1>1, <1>5
<1>8. CrewTypeOK'
  <2>1. wanted' \in [Records -> Contents \cup {Unknown, Deleted}] BY <1>1, <1>3, TypeParts
  <2> QED BY <2>1, <1>1, <1>3, <1>6, <1>7, TypeParts
          DEF CrewTypeOK, StoredType, RowsOf, ClientType, Pcs
<1>9. StepBy(c)
  <2>1. \A q \in Records \ Busy(c) : rows'[q] = rows[q] /\ wanted'[q] = wanted[q]
    BY <1>1, <1>3, <1>7
  <2> QED BY <2>1, <1>1, <1>6 DEF StepBy
<1>10. WorkHolds(c)'
  BY <1>6 DEF WorkHolds, FitsOf, StoredWork, LivesOf, GoneOf, Updating, Deleting
<1>11. RecordHolds(r)'
  <2>1. wanted'[r] = (IF me.alone THEN me.text ELSE Unknown) BY <1>1, <1>3
  <2>2. \A d \in Clients : r \in Busy(d)' => d # c /\ r \in Busy(d)
    BY <1>6, Names DEF SameWork
  <2>3. WaitsOf(r)' BY <2>1, <2>2, <1>3 DEF WaitsOf
  <2>4. RevisionKey(r, rows[r])' = key BY <1>5, <1>7 DEF RevisionKey
  <2>5. StoredRow(r)' BY <2>4, <1>1, <1>3 DEF WorkHolds, StoredWork, StoredRow
  <2>6. PromiseOf(r)'
    <3>1. me.alone /\ r \notin spent => stored'[key] = "live"
      BY <1>1, <1>3 DEF WorkHolds, LivesOf
    <3> QED BY <3>1, <2>1, <2>4, <1>1, <1>3, <1>5, <1>7, Names DEF PromiseOf, Shown
  <2>7. ASSUME r \notin shaken
        PROVE  \A d \in Clients : clients'[d].record # r /\ r \notin clients'[d].found
    BY <2>2, <2>7, <1>3 DEF Busy
  <2>8. ASSUME r \notin shaken PROVE ReadsOf(r)' BY <2>7, <2>8 DEF ReadsOf
  <2>9. ASSUME r \notin shaken PROVE LiveBoundOf(r)'
    <3>1. LiveKeys(r)' = LiveKeys(r) BY <1>1 DEF LiveKeys
    <3>2. \A k \in LiveKeys(r) : k = key BY <2>9, <1>1, <1>3 DEF RecordHolds, LiveBoundOf
    <3> QED BY <3>1, <3>2, <2>4, <2>7, <2>9 DEF LiveBoundOf
  <2>10. ASSUME r \notin gone \cup shaken PROVE ClimbsOf(r)' /\ r \notin spent
    <3>1. ClimbsOf(r) /\ r \notin spent BY <2>10, <1>3 DEF RecordHolds
    <3>2. stored'[key] = "live" /\ AbsentAfter(r, row.rev) BY <3>1, <1>1, <1>3 DEF ClimbsOf
    <3>3. rows'[r] # NoRow /\ AbsentAfter(r, rows[r].rev)' BY <3>2, <1>1, <1>5, <1>7 DEF AbsentAfter
    <3> QED BY <3>1, <3>2, <3>3, <2>4, <2>7, <2>10 DEF ClimbsOf
  <2>11. shaken' = shaken /\ gone' = gone /\ spent' = spent BY <1>1
  <2> QED BY <2>3, <2>5, <2>6, <2>8, <2>9, <2>10, <2>11 DEF RecordHolds
<1>12. \A q \in Records \cap Busy(c) : q = r BY <1>3
<1> QED BY <1>8, <1>9, <1>10, <1>11, <1>12, StepInv

----------------------------------------------------------------------------
(* The steps of a deletion.                                                 *)

LEMMA DeletionParts ==
  ASSUME CrewInv, NEW c \in Clients, Deleting(c)
  PROVE  /\ clients[c].record = Nothing /\ clients[c].found \subseteq Records
         /\ \A k \in clients[c].keys : k[1] \in clients[c].found
         /\ \A r \in Records : r \in Busy(c) <=> r \in clients[c].found
         /\ WorkHolds(c) /\ CrewTypeOK /\ OverlapsShow
         /\ \A r \in clients[c].found :
              /\ RecordHolds(r) /\ wanted[r] = Unknown
              /\ r \notin shaken \/ clients[c].alone => \A d \in Clients \ {c} : r \notin Busy(d)
<1>1. WorkHolds(c) /\ CrewTypeOK /\ OverlapsShow BY InvParts
<1>2. clients[c].record = Nothing /\ \A k \in clients[c].keys : k[1] \in clients[c].found
  BY <1>1 DEF WorkHolds, FitsOf
<1>3. clients[c].found \subseteq Records BY <1>1, TypeParts DEF ClientType
<1>4. \A r \in Records : r \in Busy(c) <=> r \in clients[c].found BY <1>2, Names DEF Busy
<1>5. ASSUME NEW r \in clients[c].found
      PROVE  /\ RecordHolds(r) /\ wanted[r] = Unknown
             /\ r \notin shaken \/ clients[c].alone => \A d \in Clients \ {c} : r \notin Busy(d)
  <2>1. r \in Records /\ RecordHolds(r) /\ r \in Busy(c) BY <1>3, <1>4, InvParts
  <2>2. wanted[r] = Unknown BY <2>1 DEF RecordHolds, WaitsOf
  <2>3. r \notin shaken \/ clients[c].alone => \A d \in Clients \ {c} : r \notin Busy(d)
    BY <2>1, <1>1, SoleWorker
  <2> QED BY <2>1, <2>2, <2>3
<1> QED BY <1>1, <1>2, <1>3, <1>4, <1>5

LEMMA ForgetFoundInv ==
  ASSUME CrewInv, NEW c \in Clients, ForgetFound(c)
  PROVE  CrewInv'
<1> DEFINE me == clients[c]
<1>1. /\ me.pc = "found" /\ Forgets(me.keys)
      /\ clients' = [clients EXCEPT ![c].pc = "delete"] /\ gone' = gone \cup me.found
      /\ spent' = spent /\ rows' = rows /\ wanted' = wanted /\ shaken' = shaken
      /\ ops' = ops /\ faults' = faults
  BY DEF ForgetFound, ForgetKeys
<1>2. Deleting(c) BY <1>1 DEF Deleting
<1>3. /\ me.record = Nothing /\ me.found \subseteq Records
      /\ (\A k \in me.keys : k[1] \in me.found)
      /\ (\A r \in Records : r \in Busy(c) <=> r \in me.found)
      /\ WorkHolds(c) /\ CrewTypeOK
      /\ \A r \in me.found : /\ RecordHolds(r) /\ wanted[r] = Unknown
                             /\ r \notin shaken => \A d \in Clients \ {c} : r \notin Busy(d)
  BY <1>2, DeletionParts
<1>6. /\ clients' \in [Clients -> ClientType] /\ clients'[c].pc = "delete"
      /\ \A d \in Clients : SameWork(c, d) /\ clients'[d].alone = clients[d].alone
      /\ \A d \in Clients \ {c} : clients'[d] = clients[d]
  <2>1. "delete" \in Pcs BY DEF Pcs
  <2> QED BY <2>1, <1>1, <1>3, ClientGoesOn
<1>7. /\ stored' \in StoredType
      /\ \A k \in MemoryKeys :
           /\ k \notin me.keys => stored'[k] = stored[k]
           /\ stored'[k] = "absent" <=> stored[k] = "absent"
           /\ stored'[k] = "live" => stored[k] = "live" /\ k \notin me.keys
  <2>1. stored \in StoredType BY <1>3, TypeParts
  <2> QED BY <2>1, <1>1, ForgetsKeys
<1>8. CrewTypeOK'
  <2>1. gone' \subseteq Records BY <1>1, <1>3, TypeParts
  <2> QED BY <2>1, <1>1, <1>3, <1>6, <1>7, TypeParts
          DEF CrewTypeOK, StoredType, RowsOf, ClientType, Pcs
<1>9. StepBy(c)
  <2>1. \A k \in MemoryKeys : k[1] \notin Busy(c) => stored'[k] = stored[k]
    BY <1>3, <1>7 DEF Busy
  <2> QED BY <2>1, <1>1, <1>6, <1>7 DEF StepBy, SameWork
<1>10. WorkHolds(c)'
  <2>1. SameWork(c, c) BY <1>6
  <2> QED BY <2>1, <1>1, <1>3, <1>6
          DEF SameWork, WorkHolds, FitsOf, StoredWork, LivesOf, GoneOf, Updating, Deleting
<1>11. ASSUME NEW r \in me.found PROVE RecordHolds(r)'
  <2>0. r \in Records /\ RecordHolds(r) BY <1>3
  <2>1. WaitsOf(r)' /\ PromiseOf(r)' BY <1>1, <1>3, Names DEF WaitsOf, PromiseOf
  <2>2. StoredRow(r)'
    <3>1. rows[r] \in RowsOf BY <2>0, <1>3, TypeParts
    <3>2. rows[r] # NoRow => RevisionKey(r, rows[r]) \in MemoryKeys BY <3>1, <2>0, RowKey
    <3> QED BY <3>2, <2>0, <1>1, <1>7 DEF RecordHolds, StoredRow, RevisionKey
  <2>3. ASSUME r \notin shaken
        PROVE  \A d \in Clients : (clients'[d].record = r \/ r \in clients'[d].found) => d = c
    BY <2>3, <1>3, <1>6 DEF Busy
  <2>4. ASSUME r \notin shaken PROVE ReadsOf(r)'
    BY <2>0, <2>3, <2>4, <1>1, <1>3, <1>6, Names DEF ReadsOf, SameWork
  <2>5. ASSUME r \notin shaken PROVE LiveBoundOf(r)'
    <3>1. Resting(r) BY <2>5, <1>1, <1>3 DEF Resting
    <3>2. RevisionKey(r, rows[r]) \in me.keys BY <2>0, <2>5, <1>1 DEF RecordHolds, ReadsOf
    <3>3. \A k \in MemoryKeys : k \notin LiveKeys(r)'
      BY <3>1, <3>2, <2>0, <2>5, <1>7 DEF RecordHolds, LiveBoundOf, LiveKeys
    <3> QED BY <3>3 DEF LiveBoundOf, LiveKeys
  <2>6. r \in gone' /\ shaken' = shaken BY <1>1
  <2> QED BY <2>1, <2>2, <2>4, <2>5, <2>6 DEF RecordHolds
<1>12. \A r \in Records \cap Busy(c) : RecordHolds(r)' BY <1>3, <1>11
<1> QED BY <1>8, <1>9, <1>10, <1>12, StepInv

LEMMA DeleteInv ==
  ASSUME CrewInv, NEW c \in Clients, DeleteRows(c)
  PROVE  CrewInv'
<1> DEFINE me == clients[c]
<1>1. /\ me.pc = "delete"
      /\ rows' = [r \in Records |-> IF r \in me.found THEN NoRow ELSE rows[r]]
      /\ clients' = [clients EXCEPT ![c] = Away]
      /\ wanted' = [q \in Records |-> IF me.alone /\ q \in Busy(c) THEN Deleted ELSE wanted[q]]
      /\ stored' = stored /\ spent' = spent /\ gone' = gone /\ shaken' = shaken
      /\ ops' = ops /\ faults' = faults
  BY DEF DeleteRows, Ends
<1>2. Deleting(c) BY <1>1 DEF Deleting
<1>3. /\ me.record = Nothing /\ me.found \subseteq Records
      /\ (\A r \in Records : r \in Busy(c) <=> r \in me.found)
      /\ WorkHolds(c) /\ CrewTypeOK
      /\ \A r \in me.found :
           /\ RecordHolds(r) /\ wanted[r] = Unknown
           /\ r \notin shaken \/ me.alone => \A d \in Clients \ {c} : r \notin Busy(d)
  BY <1>2, DeletionParts
<1>6. /\ clients' \in [Clients -> ClientType] /\ clients'[c] = Away
      /\ Away.pc = "idle" /\ Away.record = Nothing /\ Away.found = {} /\ Busy(c)' = {Nothing}
      /\ \A d \in Clients \ {c} : clients'[d] = clients[d] /\ SameWork(c, d)
  BY <1>1, <1>3, ClientGoesAway
<1>7. rows' \in [Records -> RowsOf]
  <2>1. rows \in [Records -> RowsOf] BY <1>3, TypeParts
  <2> QED BY <2>1, <1>1 DEF RowsOf
<1>8. CrewTypeOK'
  <2>1. wanted' \in [Records -> Contents \cup {Unknown, Deleted}] BY <1>1, <1>3, TypeParts
  <2> QED BY <2>1, <1>1, <1>3, <1>6, <1>7, TypeParts
          DEF CrewTypeOK, StoredType, RowsOf, ClientType, Pcs
<1>9. StepBy(c)
  <2>1. \A q \in Records \ Busy(c) : rows'[q] = rows[q] /\ wanted'[q] = wanted[q]
    BY <1>1, <1>3
  <2> QED BY <2>1, <1>1, <1>6 DEF StepBy
<1>10. WorkHolds(c)'
  BY <1>6 DEF WorkHolds, FitsOf, StoredWork, LivesOf, GoneOf, Updating, Deleting
<1>11. ASSUME NEW r \in me.found PROVE RecordHolds(r)'
  <2>0. r \in Records /\ RecordHolds(r) /\ rows'[r] = NoRow BY <1>1, <1>3
  <2>1. wanted'[r] = (IF me.alone THEN Deleted ELSE Unknown) BY <2>0, <1>1, <1>3
  <2>2. \A d \in Clients : r \in Busy(d)' => d # c /\ r \in Busy(d)
    BY <2>0, <1>6, Names DEF SameWork
  <2>3. WaitsOf(r)' BY <2>1, <2>2, <1>3 DEF WaitsOf
  <2>4. StoredRow(r)' /\ PromiseOf(r)' BY <2>0, <2>1, Names DEF StoredRow, PromiseOf
  <2>5. ASSUME r \notin shaken
        PROVE  \A d \in Clients : clients'[d].record # r /\ r \notin clients'[d].found
    BY <2>2, <2>5, <1>3 DEF Busy
  <2>6. ASSUME r \notin shaken PROVE ReadsOf(r)' BY <2>5, <2>6 DEF ReadsOf
  <2>7. ASSUME r \notin shaken PROVE LiveBoundOf(r)'
    <3>1. LiveKeys(r)' = LiveKeys(r) BY <1>1 DEF LiveKeys
    <3>2. \A k : k \notin LiveKeys(r) BY <2>0, <2>7, <1>1 DEF RecordHolds, LiveBoundOf
    <3> QED BY <3>1, <3>2 DEF LiveBoundOf
  <2>8. r \in gone' /\ shaken' = shaken BY <1>1, <1>3 DEF WorkHolds, GoneOf
  <2> QED BY <2>3, <2>4, <2>6, <2>7, <2>8 DEF RecordHolds
<1>12. \A r \in Records \cap Busy(c) : RecordHolds(r)' BY <1>3, <1>11
<1> QED BY <1>8, <1>9, <1>10, <1>12, StepInv

----------------------------------------------------------------------------
(* Failed operations, and a tenant-level forget.                            *)

LEMMA FaultInv ==
  ASSUME CrewInv, NEW c \in Clients, CrewFault(c)
  PROVE  CrewInv'
<1>1. /\ shaken' = shaken \cup (Busy(c) \cap Records) /\ clients' = [clients EXCEPT ![c] = Away]
      /\ faults' = faults + 1 /\ ops' = ops /\ stored' = stored /\ rows' = rows
      /\ wanted' = wanted /\ spent' = spent /\ gone' = gone
  BY DEF CrewFault
<1>2. CrewTypeOK /\ OverlapsShow BY DEF CrewInv
<1>3. /\ clients' \in [Clients -> ClientType] /\ clients'[c] = Away
      /\ Away.pc = "idle" /\ Busy(c)' = {Nothing}
      /\ \A d \in Clients \ {c} : clients'[d] = clients[d] /\ SameWork(c, d)
  BY <1>1, <1>2, ClientGoesAway
<1>4. CrewTypeOK'
  BY <1>1, <1>2, <1>3, TypeParts DEF CrewTypeOK, StoredType, RowsOf, ClientType, Pcs
<1>5. StepBy(c) BY <1>1, <1>3 DEF StepBy
<1>6. WorkHolds(c)'
  BY <1>3 DEF WorkHolds, FitsOf, StoredWork, LivesOf, GoneOf, Updating, Deleting
<1>7. ASSUME NEW r \in Records \cap Busy(c) PROVE RecordHolds(r)'
  <2>1. RecordHolds(r) /\ r \in shaken' BY <1>1, InvParts
  <2>2. wanted[r] = Unknown BY <2>1 DEF RecordHolds, WaitsOf
  <2>3. WaitsOf(r)' /\ PromiseOf(r)' BY <2>2, <1>1, Names DEF WaitsOf, PromiseOf
  <2>4. StoredRow(r)' BY <2>1, <1>1 DEF RecordHolds, StoredRow, RevisionKey
  <2> QED BY <2>1, <2>3, <2>4 DEF RecordHolds
<1> QED BY <1>4, <1>5, <1>6, <1>7, StepInv

LEMMA ForgetCrewInv ==
  ASSUME CrewInv, ForgetCrew
  PROVE  CrewInv'
<1>1. /\ Forgets(MemoryKeys) /\ faults' = faults + 1 /\ gone' = Records
      /\ clients' = [c \in Clients |-> IF clients[c].pc = "idle" THEN Away
                                       ELSE [clients[c] EXCEPT !.alone = FALSE]]
      /\ wanted' = [r \in Records |-> Unknown]
      /\ ops' = ops /\ rows' = rows /\ spent' = spent /\ shaken' = shaken
  BY DEF ForgetCrew
<1>2. CrewTypeOK /\ OverlapsShow /\ (\A c \in Clients : WorkHolds(c))
      /\ (\A r \in Records : RecordHolds(r))
  BY InvParts
<1>3. /\ stored' \in StoredType
      /\ \A k \in MemoryKeys : stored'[k] # "live" /\ (stored'[k] = "absent" <=> stored[k] = "absent")
  BY <1>1, <1>2, TypeParts, ForgetsKeys
<1>4. Away \in ClientType /\ Away.pc = "idle" /\ Away.record = Nothing /\ Away.found = {}
  BY DEF Away, ClientType, Pcs, RowsOf
<1>5. clients \in [Clients -> ClientType] BY <1>2, TypeParts
<1>6. ASSUME NEW c \in Clients
      PROVE  /\ clients'[c] \in ClientType
             /\ clients[c].pc = "idle" => clients'[c] = Away /\ clients[c] = Away
             /\ clients[c].pc # "idle" =>
                  clients'[c] = [clients[c] EXCEPT !.alone = FALSE] /\ ~clients'[c].alone
  <2>1. clients[c].pc = "idle" => clients[c] = Away BY <1>2 DEF WorkHolds, FitsOf
  <2>2. [clients[c] EXCEPT !.alone = FALSE] \in ClientType
        /\ ~[clients[c] EXCEPT !.alone = FALSE].alone
    BY <1>5 DEF ClientType
  <2> QED BY <2>1, <2>2, <1>1, <1>4
<1>7. ASSUME NEW c \in Clients
      PROVE  /\ clients'[c].pc = clients[c].pc
             /\ clients'[c].record = clients[c].record /\ clients'[c].text = clients[c].text
             /\ clients'[c].old = clients[c].old /\ clients'[c].found = clients[c].found
             /\ clients'[c].keys = clients[c].keys
  <2>1. clients[c] \in ClientType
    BY <1>5
  <2>2. CASE clients[c].pc = "idle"
    BY <1>6, <2>2
  <2>3. CASE clients[c].pc # "idle"
    <3>1. clients'[c] = [clients[c] EXCEPT !.alone = FALSE]
      BY <1>6, <2>3
    <3> QED
      BY <2>1, <3>1 DEF ClientType
  <2> QED
    BY <2>2, <2>3
<1>8. ASSUME NEW c \in Clients
      PROVE  Busy(c)' = Busy(c) /\ Unchanged(c)' = Unchanged(c) /\ NewRow(c)' = NewRow(c)
  BY <1>7 DEF Busy, Unchanged, NewRow
<1>9. ASSUME NEW c \in Clients PROVE NewKey(c)' = NewKey(c)
  BY <1>7, <1>8 DEF NewKey, RevisionKey
<1>10. CrewTypeOK'
  <2>1. clients' \in [Clients -> ClientType] BY <1>1, <1>6
  <2>2. wanted' \in [Records -> Contents \cup {Unknown, Deleted}] BY <1>1
  <2>3. rows' \in [Records -> RowsOf] /\ ops' \in Nat /\ faults' \in Nat /\ spent' \subseteq Records
        /\ gone' \subseteq Records /\ shaken' \subseteq Records
    BY <1>1, <1>2, TypeParts
  <2>4. stored' \in StoredType BY <1>3
  <2> QED BY <2>1, <2>2, <2>3, <2>4 DEF CrewTypeOK, StoredType, RowsOf, ClientType, Pcs
<1>11. OverlapsShow'
  <2>1. \A c \in Clients : \A r \in Records : r \in Busy(c) => clients[c].pc # "idle"
    BY <1>4, <1>6, Names DEF Busy
  <2> QED BY <2>1, <1>1, <1>2, <1>6, <1>8 DEF OverlapsShow
<1>12. ASSUME NEW c \in Clients PROVE WorkHolds(c)'
  <2>1. WorkHolds(c) BY <1>2
  <2>2. FitsOf(c)' BY <2>1, <1>6, <1>7, <1>8 DEF WorkHolds, FitsOf, Updating, Deleting
  <2>3. LivesOf(c)' BY <1>6, <1>7 DEF LivesOf
  <2>4. GoneOf(c)' BY <1>1, <1>5, <1>7 DEF GoneOf, ClientType
  <2>5. StoredWork(c)'
    <3>1. ASSUME Updating(c), clients[c].old # NoRow
          PROVE  RevisionKey(clients[c].record, clients[c].old) \in MemoryKeys
      <4>1. clients[c].record \in Records BY <3>1, <2>1 DEF WorkHolds, FitsOf
      <4>2. clients[c].old \in RowsOf BY <1>5 DEF ClientType
      <4> QED BY <4>1, <4>2, <3>1, RowKey
    <3>2. ASSUME clients[c].pc \in {"forget", "write"} PROVE NewKey(c) \in MemoryKeys
      <4>1. Updating(c) /\ NewRow(c).rev <= MaxRev BY <3>2, <2>1 DEF WorkHolds, FitsOf, Updating
      <4>2. clients[c].record \in Records /\ clients[c].text \in Contents
        BY <4>1, <2>1 DEF WorkHolds, FitsOf
      <4> QED BY <4>1, <4>2, <1>2, NewKeyFits
    <3> QED BY <3>1, <3>2, <2>1, <1>3, <1>7, <1>9 DEF WorkHolds, StoredWork, Updating, RevisionKey
  <2> QED BY <2>2, <2>3, <2>4, <2>5 DEF WorkHolds
<1>13. ASSUME NEW r \in Records PROVE RecordHolds(r)'
  <2>1. wanted'[r] = Unknown BY <1>1
  <2>2. WaitsOf(r)' /\ PromiseOf(r)' BY <2>1, Names DEF WaitsOf, PromiseOf
  <2>3. StoredRow(r)'
    <3>1. rows[r] \in RowsOf BY <1>2, TypeParts
    <3>2. rows[r] # NoRow => RevisionKey(r, rows[r]) \in MemoryKeys BY <3>1, RowKey
    <3>3. StoredRow(r) BY <1>2 DEF RecordHolds
    <3> QED BY <3>2, <3>3, <1>1, <1>3 DEF StoredRow, RevisionKey
  <2>4. LiveBoundOf(r)' BY <1>3 DEF LiveBoundOf, LiveKeys
  <2>5. r \notin shaken' => ReadsOf(r)'
    <3>1. r \notin shaken => ReadsOf(r) BY <1>2 DEF RecordHolds
    <3> QED BY <3>1, <1>1, <1>7 DEF ReadsOf, RevisionKey
  <2> QED BY <2>2, <2>3, <2>4, <2>5, <1>1 DEF RecordHolds
<1>14. spent' \subseteq Records BY <1>10 DEF CrewTypeOK
<1> QED BY <1>10, <1>11, <1>12, <1>13, <1>14
        DEF CrewInv, OperationsFit, PromisesWait, StoredFirst, UpdateLives, PromisesKept,
            ReadsHold, LiveBound, RevisionsClimb, Untouched, WorkHolds, RecordHolds

----------------------------------------------------------------------------
(* Every run.                                                               *)

LEMMA InitInv == CrewInit => CrewInv
<1> SUFFICES ASSUME CrewInit PROVE CrewInv OBVIOUS
<1>1. /\ stored = [k \in MemoryKeys |-> "absent"] /\ rows = [r \in Records |-> NoRow]
      /\ clients = [c \in Clients |-> Away] /\ ops = 0 /\ faults = 0
      /\ wanted = [r \in Records |-> Unknown] /\ spent = {} /\ gone = {} /\ shaken = {}
  BY DEF CrewInit
<1>2. /\ Away \in ClientType /\ Away.pc = "idle" /\ Away.record = Nothing /\ Away.found = {}
      /\ NoRow \in RowsOf
  BY DEF Away, ClientType, Pcs, RowsOf
<1>3. CrewTypeOK BY <1>1, <1>2, TypeParts DEF StoredType
<1>4. OverlapsShow BY <1>1, <1>2, Names DEF OverlapsShow, Busy
<1>5. \A c \in Clients : WorkHolds(c)
  BY <1>1, <1>2 DEF WorkHolds, FitsOf, StoredWork, LivesOf, GoneOf, Updating, Deleting
<1>6. ASSUME NEW r \in Records PROVE RecordHolds(r)
  <2>1. WaitsOf(r) /\ StoredRow(r) /\ PromiseOf(r)
    BY <1>1, Names DEF WaitsOf, StoredRow, PromiseOf
  <2>2. ReadsOf(r) /\ LiveBoundOf(r) /\ ClimbsOf(r)
    BY <1>1, <1>2, Names DEF ReadsOf, LiveBoundOf, LiveKeys, ClimbsOf, NeverStored
  <2> QED BY <2>1, <2>2, <1>1 DEF RecordHolds
<1> QED BY <1>3, <1>4, <1>5, <1>6, InvParts

LEMMA ReadInv ==
  ASSUME CrewInv, NEW c \in Clients, NEW r \in Records, NEW text \in Contents, ReadRow(c, r, text)
  PROVE  CrewInv'
<1> DEFINE op == [Away EXCEPT !.pc = "read", !.record = r, !.text = text, !.old = rows[r]]
<1>1. rows[r] \in RowsOf BY TypeParts DEF CrewInv
<1>2. op \in ClientType /\ op.pc = "read" /\ op.record = r /\ op.text = text /\ op.old = rows[r]
      /\ op.found = {} /\ op.keys = {}
  BY <1>1 DEF Away, ClientType, Pcs
<1>3. Begins(c, op, {r}) BY DEF ReadRow
<1> HIDE DEF op
<1>4. OpFits(op, {r}) BY <1>2 DEF OpFits
<1> QED BY <1>2, <1>3, <1>4, BeginInv

LEMMA FindInv ==
  ASSUME CrewInv, NEW c \in Clients, NEW rs \in SUBSET Records, FindRows(c, rs)
  PROVE  CrewInv'
<1> DEFINE keys == {RevisionKey(r, rows[r]) : r \in rs}
           op == [Away EXCEPT !.pc = "found", !.found = rs, !.keys = keys]
<1>1. rs \subseteq Shown /\ Begins(c, op, rs) BY DEF FindRows
<1>2. keys \subseteq MemoryKeys
  <2>1. \A r \in rs : rows[r] \in RowsOf /\ rows[r] # NoRow
    BY <1>1, TypeParts DEF CrewInv, Shown
  <2>2. \A r \in rs : RevisionKey(r, rows[r]) \in MemoryKeys BY <2>1, RowKey
  <2> QED BY <2>2
<1> HIDE DEF keys
<1>3. op \in ClientType /\ op.pc = "found" /\ op.record = Nothing /\ op.old = NoRow
      /\ op.found = rs /\ op.keys = keys
  BY <1>2 DEF Away, ClientType, Pcs, RowsOf
<1> HIDE DEF op
<1>4. OpFits(op, rs) BY <1>1, <1>3 DEF OpFits, keys
<1> QED BY <1>1, <1>3, <1>4, BeginInv

LEMMA NextInv == CrewInv /\ [CrewNext]_crewVars => CrewInv'
<1> SUFFICES ASSUME CrewInv, [CrewNext]_crewVars PROVE CrewInv' OBVIOUS
<1>1. CASE UNCHANGED crewVars
  <2>1. /\ stored' = stored /\ rows' = rows /\ clients' = clients /\ wanted' = wanted /\ ops' = ops
        /\ faults' = faults /\ spent' = spent /\ gone' = gone /\ shaken' = shaken
    BY <1>1 DEF crewVars
  <2>2. \A c \in Clients : Busy(c)' = Busy(c) /\ NewRow(c)' = NewRow(c) /\ Unchanged(c)' = Unchanged(c)
    BY <2>1 DEF Busy, NewRow, Unchanged
  <2>3. \A c \in Clients : NewKey(c)' = NewKey(c) BY <2>1, <2>2 DEF NewKey
  <2>4. CrewTypeOK' BY <2>1 DEF CrewInv, CrewTypeOK
  <2>5. OperationsFit' BY <2>1, <2>2, <2>3 DEF CrewInv, OperationsFit, FitsOf, Updating, Deleting
  <2>6. OverlapsShow' BY <2>1, <2>2, <2>3 DEF CrewInv, OverlapsShow
  <2>7. PromisesWait' BY <2>1, <2>2, <2>3 DEF CrewInv, PromisesWait, WaitsOf
  <2>8. StoredFirst' BY <2>1, <2>2, <2>3 DEF CrewInv, StoredFirst, StoredRow, StoredWork, Updating, RevisionKey
  <2>9. UpdateLives' BY <2>1, <2>2, <2>3 DEF CrewInv, UpdateLives, LivesOf
  <2>10. PromisesKept' BY <2>1 DEF CrewInv, PromisesKept, PromiseOf, Shown
  <2>11. ReadsHold' BY <2>1, <2>2, <2>3 DEF CrewInv, ReadsHold, ReadsOf, RevisionKey
  <2>12. LiveBound' BY <2>1, <2>2, <2>3 DEF CrewInv, LiveBound, LiveBoundOf, LiveKeys, Resting, RevisionKey
  <2>13. RevisionsClimb'
    BY <2>1, <2>2, <2>3 DEF CrewInv, RevisionsClimb, ClimbsOf, GoneOf, Untouched, AbsentAfter, NeverStored,
                            Resting, RevisionKey
  <2> QED BY <2>4, <2>5, <2>6, <2>7, <2>8, <2>9, <2>10, <2>11, <2>12, <2>13 DEF CrewInv
<1>2. CASE CrewNext
  BY <1>2, ReadInv, StoreInv, KeepInv, ForgetOldInv, WriteInv, FindInv, ForgetFoundInv, DeleteInv,
     FaultInv, ForgetCrewInv DEF CrewNext
<1> QED BY <1>1, <1>2

(* Rows, memories and operations are of their types (crewai/unified.py:237). *)
THEOREM CrewTypes == CrewSpec => []CrewTypeOK
<1>1. CrewInv => CrewTypeOK BY DEF CrewInv
<1> QED BY <1>1, InitInv, NextInv, PTL DEF CrewSpec

(* What an undisturbed update or deletion promised of a record holds until    *)
(* the next one, and no memory of an older revision is left behind            *)
(* (crewai/unified.py:237-289).                                      *)
THEOREM RecordsAreReadBack == CrewSpec => []RecordsReadBack
<1>1. CrewInv => RecordsReadBack
  <2> SUFFICES ASSUME CrewInv PROVE RecordsReadBack OBVIOUS
  <2>1. spent \subseteq gone \cup shaken BY DEF CrewInv, RevisionsClimb
  <2>2. ASSUME NEW r \in Records \ spent
        PROVE  /\ wanted[r] \in Contents => r \in Shown /\ rows[r].text = wanted[r]
               /\ wanted[r] = Deleted => r \notin Shown
               /\ wanted[r] # Unknown /\ r \notin shaken =>
                    LiveKeys(r) = (IF wanted[r] = Deleted THEN {} ELSE {RevisionKey(r, rows[r])})
    <3>1. RecordHolds(r) /\ CrewTypeOK BY InvParts
    <3>2. rows[r] \in RowsOf BY <3>1, TypeParts
    <3>3. wanted[r] \in Contents => r \in Shown /\ rows[r].text = wanted[r]
      BY <3>1 DEF RecordHolds, PromiseOf
    <3>4. wanted[r] = Deleted => rows[r] = NoRow BY <3>1 DEF RecordHolds, PromiseOf
    <3>5. ASSUME wanted[r] # Unknown, r \notin shaken
          PROVE  LiveKeys(r) = (IF wanted[r] = Deleted THEN {} ELSE {RevisionKey(r, rows[r])})
      <4>1. Resting(r) BY <3>1, <3>5 DEF RecordHolds, WaitsOf, Resting
      <4>2. \A k \in LiveKeys(r) : k = RevisionKey(r, rows[r])
        BY <4>1, <3>1, <3>5 DEF RecordHolds, LiveBoundOf
      <4>3. CASE wanted[r] = Deleted
        <5>1. \A k \in MemoryKeys : k # RevisionKey(r, rows[r]) BY <4>3, <3>2, <3>4, RowKey
        <5> QED BY <5>1, <4>2, <4>3 DEF LiveKeys
      <4>4. CASE wanted[r] # Deleted
        <5>1. wanted[r] \in Contents BY <4>4, <3>1, <3>5, TypeParts
        <5>2. RevisionKey(r, rows[r]) \in LiveKeys(r)
          BY <5>1, <3>2, <3>3, RowKey DEF Shown, LiveKeys
        <5> QED BY <5>2, <4>2, <4>4
      <4> QED BY <4>3, <4>4
    <3> QED BY <3>3, <3>4, <3>5 DEF Shown
  <2> QED BY <2>1, <2>2 DEF RecordsReadBack
<1> QED BY <1>1, InitInv, NextInv, PTL DEF CrewSpec

-----------------------------------------------------------------------------
(***************************************************************************)
(* ToolCapture: a tool call is traced once, in the order of the calls.     *)
(***************************************************************************)

Calls == DOMAIN StepKey
StepKeys == {StepKey[t] : t \in Calls} \cup {NoStep}
CaptureStages == {"new", "next", "checked", "marked", "sent", "received", "done"}
CaptureRecords == [pc : CaptureStages, todo : Seq(Calls), prev : StepKeys]
Traces == [tool : Calls, prev : StepKeys]

CaptureTypes ==
  /\ seen \subseteq Calls /\ lastStep \in StepKeys /\ lost \in Nat /\ together \in BOOLEAN
  /\ captures \in [Captures -> CaptureRecords]
  /\ traces \in Seq(Traces)

InFlight(c) == captures[c].pc \in {"marked", "sent", "received"}
Traced(t) == \E i \in DOMAIN traces : traces[i].tool = t
KeyTraced(k) == \E i \in DOMAIN traces : StepKey[traces[i].tool] = k

(* No two threads of a node are at it.                                       *)
Apart == kind = "middleware" \/ ~together

(* A call in flight is seen.  Then it is in flight in one capture only, and  *)
(* traced once received; what a thread has just checked is not seen yet.     *)
CallsSeen ==
  /\ \A c \in Captures : captures[c].pc = "checked" => kind = "node" /\ captures[c].todo # <<>>
  /\ \A c \in Captures : InFlight(c) => captures[c].todo # <<>> /\ Tool(c) \in seen
  /\ \A i \in DOMAIN traces : traces[i].tool \in seen

FlightsApart ==
  Apart =>
    /\ \A c \in Captures : captures[c].pc = "checked" => Tool(c) \notin seen
    /\ \A c, d \in Captures : InFlight(c) /\ InFlight(d) /\ Tool(c) = Tool(d) => c = d
    /\ \A c \in Captures : captures[c].pc \in {"marked", "sent"} => ~Traced(Tool(c))

(* The step a request names as the one before it has been received.          *)
PrevTraced ==
  /\ lastStep # NoStep => KeyTraced(lastStep)
  /\ \A c \in Captures :
       /\ captures[c].pc = "received" => Traced(Tool(c))
       /\ captures[c].pc = "sent" /\ captures[c].prev # NoStep => KeyTraced(captures[c].prev)

LastKey == IF traces = <<>> THEN NoStep ELSE StepKey[traces[Len(traces)].tool]

(* Without overlap and loss the one capture under way carries the chain on.  *)
ChainGoesOn ==
  /\ ~together => \A c, d \in Captures : Running(c) /\ Running(d) => c = d
  /\ ~together /\ lost = 0 =>
       /\ \A c \in Captures :
            /\ captures[c].pc = "sent" => captures[c].prev = LastKey
            /\ captures[c].pc = "received" =>
                 traces # <<>> /\ traces[Len(traces)].tool = Tool(c)
       /\ (\A c \in Captures : captures[c].pc # "received") => lastStep = LastKey

CaptureInv == CaptureTypes /\ CallsSeen /\ FlightsApart /\ PrevTraced /\ ChainGoesOn /\ TracedOnceInOrder

LEMMA WaitingRecord ==
  /\ Waiting \in CaptureRecords /\ Waiting.pc = "new"
  /\ [Waiting EXCEPT !.pc = "done"] \in CaptureRecords
  /\ [Waiting EXCEPT !.pc = "done"].pc = "done"
<1>1. <<>> \in Seq(Calls)
  OBVIOUS
<1> QED
  BY <1>1 DEF Waiting, CaptureRecords, CaptureStages, StepKeys

LEMMA CaptureInvInit == CaptureInit => CaptureInv
<1> SUFFICES ASSUME CaptureInit PROVE CaptureInv
  OBVIOUS
<1> USE CaptureAssumption DEF CaptureInit
<1>1. NoStep \in StepKeys /\ <<>> \in Seq(Traces)
  BY DEF StepKeys
<1>2. CaptureTypes
  BY <1>1, WaitingRecord DEF CaptureTypes
<1>3. \A c \in Captures : captures[c].pc = "new"
  BY WaitingRecord
<1>4. CallsSeen /\ FlightsApart /\ PrevTraced /\ ChainGoesOn /\ TracedOnceInOrder
  BY <1>3 DEF CallsSeen, FlightsApart, PrevTraced, ChainGoesOn, TracedOnceInOrder, InFlight, Running, LastKey
<1> QED
  BY <1>2, <1>4 DEF CaptureInv

(* The call a capture has in flight, and what is left when it is done.       *)
LEMMA CallAtHand ==
  ASSUME CaptureTypes, NEW c \in Captures, captures[c].todo # <<>>
  PROVE  Tool(c) \in Calls /\ Tail(captures[c].todo) \in Seq(Calls)
BY DEF CaptureTypes, CaptureRecords, Tool

LEMMA StartKeeps ==
  ASSUME CaptureInv, NEW c \in Captures, NEW prompt \in Prompts, StartCapture(c, prompt)
  PROVE  CaptureInv'
<1> USE CaptureAssumption DEF CaptureInv
<1>1. /\ captures' = [captures EXCEPT ![c] = [Waiting EXCEPT !.pc = "next", !.todo = prompt]]
      /\ together' = (together \/ \E d \in Captures : Running(d))
      /\ UNCHANGED <<kind, seen, lastStep, traces, lost>>
      /\ captures[c].pc = "new"
  BY DEF StartCapture
<1>2. [Waiting EXCEPT !.pc = "next", !.todo = prompt] \in CaptureRecords
  BY DEF Waiting, CaptureRecords, CaptureStages, StepKeys, Calls
<1>3. CaptureTypes'
  BY <1>1, <1>2 DEF CaptureTypes
<1>4. captures'[c].pc = "next" /\ \A d \in Captures \ {c} : captures'[d] = captures[d]
  BY <1>1 DEF CaptureTypes, Waiting
<1>5. CallsSeen' /\ PrevTraced'
  BY <1>1, <1>4 DEF CallsSeen, PrevTraced, InFlight, Tool, Traced, KeyTraced
<1>6. together' \in BOOLEAN /\ (~together' => ~together /\ \A d \in Captures : ~Running(d))
  BY <1>1, <1>3 DEF CaptureTypes
<1>7. ChainGoesOn'
  BY <1>1, <1>4, <1>6 DEF ChainGoesOn, Running, LastKey, Tool
<1>8. TracedOnceInOrder'
  BY <1>1, <1>6 DEF TracedOnceInOrder, Follows
<1>9. FlightsApart'
  <2>1. Apart' => Apart
    BY <1>1, <1>6 DEF Apart
  <2>2. /\ \A d \in Captures \ {c} : Tool(d)' = Tool(d) /\ InFlight(d)' = InFlight(d)
        /\ ~InFlight(c)'
    BY <1>4 DEF Tool, InFlight
  <2>3. \A t : Traced(t)' <=> Traced(t)
    BY <1>1 DEF Traced
  <2> QED
    BY <1>1, <1>4, <2>1, <2>2, <2>3 DEF FlightsApart, Traced
<1> QED
  BY <1>3, <1>5, <1>7, <1>8, <1>9

LEMMA SendKeeps ==
  ASSUME CaptureInv, NEW c \in Captures, Send(c)
  PROVE  CaptureInv'
<1> USE DEF CaptureInv
<1> DEFINE todo == captures[c].todo
           unseen == {i \in DOMAIN todo : todo[i] \notin seen}
<1>1. captures[c].pc = "next" /\ UNCHANGED <<kind, lastStep, traces, lost, together>>
  BY DEF Send
<1>2. TracedOnceInOrder'
  BY <1>1 DEF TracedOnceInOrder, Follows
<1>3. CASE unseen = {}
  <2>1. captures' = [captures EXCEPT ![c] = [Waiting EXCEPT !.pc = "done"]] /\ UNCHANGED seen
    BY <1>3 DEF Send
  <2>3. CaptureTypes'
    BY <1>1, <2>1, WaitingRecord DEF CaptureTypes
  <2>4. captures'[c].pc = "done" /\ \A d \in Captures \ {c} : captures'[d] = captures[d]
    BY <2>1, WaitingRecord DEF CaptureTypes
  <2>5. CallsSeen' /\ FlightsApart' /\ PrevTraced'
    BY <1>1, <2>1, <2>4 DEF CallsSeen, FlightsApart, Apart, PrevTraced, InFlight, Tool, Traced, KeyTraced
  <2>6. ChainGoesOn'
    BY <1>1, <2>1, <2>4 DEF ChainGoesOn, Running, LastKey, Tool
  <2> QED
    BY <1>2, <2>3, <2>5, <2>6
<1>4. CASE unseen # {}
  <2>1. PICK i \in unseen :
          /\ captures' = [captures EXCEPT ![c] =
               [pc |-> IF kind = "node" THEN "checked" ELSE "sent",
                todo |-> SubSeq(todo, i, Len(todo)), prev |-> lastStep]]
          /\ seen' = IF kind = "node" THEN seen ELSE seen \cup {todo[i]}
    BY <1>4 DEF Send, SeenOnSend
  <2>2. todo \in Seq(Calls) /\ i \in 1..Len(todo) /\ todo[i] \in Calls /\ todo[i] \notin seen
    BY DEF CaptureTypes, CaptureRecords
  <2>3. /\ SubSeq(todo, i, Len(todo)) \in Seq(Calls)
        /\ SubSeq(todo, i, Len(todo)) # <<>>
        /\ Head(SubSeq(todo, i, Len(todo))) = todo[i]
    BY <2>2
  <2>4. CaptureTypes'
    <3>1. captures' \in [Captures -> CaptureRecords]
      BY <2>1, <2>3 DEF CaptureTypes, CaptureRecords, CaptureStages
    <3> QED
      BY <1>1, <2>1, <2>2, <3>1 DEF CaptureTypes
  <2>5. /\ captures'[c].pc = (IF kind = "node" THEN "checked" ELSE "sent")
        /\ captures'[c].prev = lastStep /\ captures'[c].todo # <<>> /\ Tool(c)' = todo[i]
        /\ \A d \in Captures \ {c} : captures'[d] = captures[d]
    BY <2>1, <2>3 DEF CaptureTypes, Tool
  <2>6. seen \subseteq seen' /\ (kind # "node" => Tool(c)' \in seen')
    BY <2>1, <2>5
  <2>7. \A a \in Captures \ {c} : Tool(a)' = Tool(a) /\ InFlight(a)' = InFlight(a)
    BY <2>5 DEF Tool, InFlight
  <2>8. CallsSeen'
    <3>1. \A a \in Captures : captures'[a].pc = "checked" => kind' = "node" /\ captures'[a].todo # <<>>
      BY <1>1, <2>5 DEF CallsSeen
    <3>2. \A a \in Captures : InFlight(a)' => captures'[a].todo # <<>> /\ Tool(a)' \in seen'
      BY <2>5, <2>6, <2>7 DEF CallsSeen, InFlight
    <3>3. \A k \in DOMAIN traces' : traces'[k].tool \in seen'
      BY <1>1, <2>6 DEF CallsSeen
    <3> QED
      BY <3>1, <3>2, <3>3 DEF CallsSeen
  <2>9. FlightsApart'
    <3> SUFFICES ASSUME Apart PROVE FlightsApart'
      BY <1>1 DEF FlightsApart, Apart
    <3>1. \A t : Traced(t)' <=> Traced(t)
      BY <1>1 DEF Traced
    <3>2. \A a \in Captures \ {c} : InFlight(a) => Tool(a) # todo[i]
      BY <2>2 DEF CallsSeen
    <3>3. ~Traced(todo[i])
      BY <2>2 DEF CallsSeen, Traced
    <3>4. \A a \in Captures : captures'[a].pc = "checked" => Tool(a)' \notin seen'
      <4>1. CASE kind = "node"
        <5>1. seen' = seen
          BY <2>1, <4>1
        <5> QED
          BY <2>2, <2>5, <2>7, <5>1 DEF FlightsApart
      <4>2. CASE kind # "node"
        BY <2>5, <4>2 DEF CallsSeen
      <4> QED
        BY <4>1, <4>2
    <3>5. \A a, b \in Captures : InFlight(a)' /\ InFlight(b)' /\ Tool(a)' = Tool(b)' => a = b
      BY <2>5, <2>7, <3>2 DEF FlightsApart
    <3>6. \A a \in Captures : captures'[a].pc \in {"marked", "sent"} => ~Traced(Tool(a))'
      <4>1. ASSUME NEW a \in Captures \ {c}, captures'[a].pc \in {"marked", "sent"} PROVE ~Traced(Tool(a))'
        BY <1>1, <2>5, <2>7, <4>1 DEF FlightsApart, Traced
      <4>2. ~Traced(Tool(c))'
        BY <1>1, <2>5, <3>3 DEF Traced
      <4> QED
        BY <4>1, <4>2
    <3> QED
      BY <3>4, <3>5, <3>6 DEF FlightsApart
  <2>10. PrevTraced'
    BY <1>1, <2>5 DEF PrevTraced, Tool, Traced, KeyTraced
  <2>11. ChainGoesOn'
    BY <1>1, <2>5 DEF ChainGoesOn, Running, LastKey, Tool
  <2> QED
    BY <1>2, <2>4, <2>8, <2>9, <2>10, <2>11
<1> QED
  BY <1>3, <1>4

(* A thread alone marks a call that was not seen.                            *)
LEMMA MarkKeeps ==
  ASSUME CaptureInv, NEW c \in Captures, MarkSeen(c)
  PROVE  CaptureInv'
<1> USE DEF CaptureInv
<1>1. /\ captures[c].pc = "checked" /\ seen' = seen \cup {Tool(c)}
      /\ captures' = [captures EXCEPT ![c].pc = "marked"]
      /\ UNCHANGED <<kind, lastStep, traces, lost, together>>
  BY DEF MarkSeen, SeenOnSend
<1>2. kind = "node" /\ captures[c].todo # <<>> /\ Tool(c) \in Calls
  BY <1>1, CallAtHand DEF CallsSeen
<1>3. /\ captures' \in [Captures -> CaptureRecords]
      /\ captures'[c].pc = "marked" /\ captures'[c].todo = captures[c].todo
      /\ \A d \in Captures \ {c} : captures'[d] = captures[d]
  BY <1>1 DEF CaptureTypes, CaptureRecords, CaptureStages
<1>4. CaptureTypes'
  BY <1>1, <1>2, <1>3 DEF CaptureTypes
<1>5. /\ \A d \in Captures : Tool(d)' = Tool(d)
      /\ \A d \in Captures \ {c} : InFlight(d)' = InFlight(d)
  BY <1>3 DEF Tool, InFlight
<1>6. CallsSeen'
  <2>1. \A a \in Captures : captures'[a].pc = "checked" => kind' = "node" /\ captures'[a].todo # <<>>
    BY <1>1, <1>3 DEF CallsSeen
  <2>2. \A a \in Captures : InFlight(a)' => captures'[a].todo # <<>> /\ Tool(a)' \in seen'
    BY <1>1, <1>2, <1>3, <1>5 DEF CallsSeen
  <2>3. \A k \in DOMAIN traces' : traces'[k].tool \in seen'
    BY <1>1 DEF CallsSeen
  <2> QED
    BY <2>1, <2>2, <2>3 DEF CallsSeen
<1>7. FlightsApart'
  <2> SUFFICES ASSUME Apart PROVE FlightsApart'
    BY <1>1 DEF FlightsApart, Apart
  <2>1. Tool(c) \notin seen
    BY <1>1 DEF FlightsApart
  <2>2. \A d \in Captures \ {c} : ~Running(d)
    BY <1>1, <1>2 DEF ChainGoesOn, Apart, Running
  <2>3. \A d \in Captures \ {c} : captures'[d].pc \in {"new", "done"}
    BY <1>3, <2>2 DEF Running
  <2>4. ~Traced(Tool(c))'
    BY <1>1, <1>5, <2>1 DEF CallsSeen, Traced
  <2> QED
    BY <1>3, <2>3, <2>4 DEF FlightsApart, InFlight
<1>8. PrevTraced'
  BY <1>1, <1>3, <1>5 DEF PrevTraced, Traced, KeyTraced
<1>9. ChainGoesOn'
  BY <1>1, <1>3, <1>5 DEF ChainGoesOn, Running, LastKey
<1>10. TracedOnceInOrder'
  BY <1>1 DEF TracedOnceInOrder, Follows
<1> QED
  BY <1>4, <1>6, <1>7, <1>8, <1>9, <1>10

LEMMA RecordKeeps ==
  ASSUME CaptureInv, NEW c \in Captures, Record(c)
  PROVE  CaptureInv'
<1> USE DEF CaptureInv
<1>1. /\ captures[c].pc = "marked"
      /\ captures' = [captures EXCEPT ![c].pc = "sent", ![c].prev = lastStep]
      /\ UNCHANGED <<kind, seen, lastStep, traces, lost, together>>
  BY DEF Record
<1>2. /\ captures' \in [Captures -> CaptureRecords]
      /\ captures'[c].pc = "sent" /\ captures'[c].todo = captures[c].todo
      /\ captures'[c].prev = lastStep
      /\ \A d \in Captures \ {c} : captures'[d] = captures[d]
  BY <1>1 DEF CaptureTypes, CaptureRecords, CaptureStages
<1>3. CaptureTypes'
  BY <1>1, <1>2 DEF CaptureTypes
<1>4. \A d \in Captures : Tool(d)' = Tool(d) /\ InFlight(d)' = InFlight(d)
  BY <1>1, <1>2 DEF Tool, InFlight
<1>5. CallsSeen'
  BY <1>1, <1>2, <1>4 DEF CallsSeen
<1>6. FlightsApart'
  BY <1>1, <1>2, <1>4 DEF FlightsApart, Apart, Traced
<1>7. PrevTraced'
  BY <1>1, <1>2, <1>4 DEF PrevTraced, Traced, KeyTraced
<1>8. ChainGoesOn'
  BY <1>1, <1>2, <1>4 DEF ChainGoesOn, Running, LastKey
<1>9. TracedOnceInOrder'
  BY <1>1 DEF TracedOnceInOrder, Follows
<1> QED
  BY <1>3, <1>5, <1>6, <1>7, <1>8, <1>9

LEMMA ReceiveKeeps ==
  ASSUME CaptureInv, NEW c \in Captures, Receive(c)
  PROVE  CaptureInv'
<1> USE DEF CaptureInv
<1> DEFINE n == Len(traces)
           step == [tool |-> Tool(c), prev |-> captures[c].prev]
<1>1. /\ captures[c].pc = "sent" /\ traces' = Append(traces, step)
      /\ captures' = [captures EXCEPT ![c].pc = "received"]
      /\ UNCHANGED <<kind, seen, lastStep, lost, together>>
  BY DEF Receive
<1>2. step \in Traces
  BY <1>1, CallAtHand DEF CaptureTypes, CaptureRecords, CallsSeen, InFlight, Traces
<1>3. /\ n \in Nat /\ Len(traces') = n + 1 /\ traces'[n + 1] = step
      /\ DOMAIN traces = 1..n /\ DOMAIN traces' = 1..(n + 1)
      /\ \A i \in 1..n : traces'[i] = traces[i]
      /\ traces' \in Seq(Traces) /\ traces' # <<>>
  <2>1. traces \in Seq(Traces) /\ n \in Nat
    BY DEF CaptureTypes
  <2> HIDE DEF step
  <2>2. /\ traces' \in Seq(Traces) /\ Len(traces') = n + 1 /\ traces'[n + 1] = step
        /\ \A i \in 1..n : traces'[i] = traces[i]
    BY <1>1, <1>2, <2>1, AppendProperties
  <2>3. DOMAIN traces = 1..n /\ DOMAIN traces' = 1..(n + 1)
    BY <2>1, <2>2
  <2>4. traces' # <<>>
    BY <2>1, <2>2
  <2> QED
    BY <2>1, <2>2, <2>3, <2>4
<1>4. /\ captures' \in [Captures -> CaptureRecords]
      /\ captures'[c].pc = "received" /\ captures'[c].todo = captures[c].todo
      /\ \A d \in Captures \ {c} : captures'[d] = captures[d]
  BY <1>1 DEF CaptureTypes, CaptureRecords, CaptureStages
<1>5. CaptureTypes'
  BY <1>1, <1>3, <1>4 DEF CaptureTypes
<1>6. Tool(c)' = Tool(c) /\ \A d \in Captures \ {c} : captures'[d].todo = captures[d].todo
  BY <1>4 DEF Tool
<1>7. Tool(c) \in seen /\ (Apart => \A i \in 1..n : traces[i].tool # Tool(c))
  BY <1>1, <1>3 DEF CallsSeen, FlightsApart, InFlight, Traced
<1>0. \A a \in Captures : InFlight(a)' = InFlight(a) /\ Tool(a)' = Tool(a)
  BY <1>1, <1>4, <1>6 DEF InFlight, Tool
<1>8. CallsSeen'
  <2>1. \A a \in Captures : captures'[a].pc = "checked" => kind' = "node" /\ captures'[a].todo # <<>>
    BY <1>1, <1>4 DEF CallsSeen
  <2>2. \A a \in Captures : InFlight(a)' => captures'[a].todo # <<>> /\ Tool(a)' \in seen'
    BY <1>0, <1>1, <1>4 DEF CallsSeen
  <2>3. \A i \in DOMAIN traces' : traces'[i].tool \in seen'
    BY <1>1, <1>3, <1>7 DEF CallsSeen
  <2> QED
    BY <2>1, <2>2, <2>3 DEF CallsSeen
<1>16. FlightsApart'
  <2> SUFFICES ASSUME Apart PROVE FlightsApart'
    BY <1>1 DEF FlightsApart, Apart
  <2>1. \A a \in Captures : captures'[a].pc = "checked" => Tool(a)' \notin seen'
    BY <1>0, <1>1, <1>4 DEF FlightsApart
  <2>2. \A a, b \in Captures : InFlight(a)' /\ InFlight(b)' /\ Tool(a)' = Tool(b)' => a = b
    BY <1>0 DEF FlightsApart
  <2>3. ASSUME NEW a \in Captures, captures'[a].pc \in {"marked", "sent"} PROVE ~Traced(Tool(a))'
    <3>1. a # c /\ captures[a].pc \in {"marked", "sent"}
      BY <1>4, <2>3
    <3>2. ~Traced(Tool(a)) /\ Tool(a) # Tool(c)
      BY <1>1, <3>1 DEF FlightsApart, InFlight
    <3>3. \A i \in 1..(n + 1) : traces'[i].tool # Tool(a)
      BY <1>3, <3>2 DEF Traced
    <3> QED
      BY <1>0, <1>3, <3>3 DEF Traced
  <2> QED
    BY <2>1, <2>2, <2>3 DEF FlightsApart
<1>9. \A k : KeyTraced(k) => KeyTraced(k)'
  BY <1>3 DEF KeyTraced
<1>10. \A t : Traced(t) => Traced(t)'
  BY <1>3 DEF Traced
<1>11. Traced(Tool(c))'
  BY <1>3, <1>6 DEF Traced
<1>12. PrevTraced'
  <2>1. \A d \in Captures \ {c} : Tool(d)' = Tool(d)
    BY <1>4 DEF Tool
  <2>2. (lastStep # NoStep => KeyTraced(lastStep))'
    BY <1>1, <1>3 DEF PrevTraced, KeyTraced
  <2>3. ASSUME NEW d \in Captures \ {c}
        PROVE  /\ (captures[d].pc = "received" => Traced(Tool(d)))'
               /\ (captures[d].pc = "sent" /\ captures[d].prev # NoStep =>
                     KeyTraced(captures[d].prev))'
    BY <1>3, <1>4, <2>1 DEF PrevTraced, Traced, KeyTraced
  <2>4. /\ (captures[c].pc = "received" => Traced(Tool(c)))'
        /\ captures'[c].pc # "sent"
    BY <1>4, <1>11
  <2> QED
    BY <2>2, <2>3, <2>4 DEF PrevTraced
<1>13. ~together /\ lost = 0 => step.prev = LastKey
  BY <1>1 DEF ChainGoesOn
<1>14. ChainGoesOn'
  <2>1. \A d \in Captures : Running(d)' <=> Running(d)
    BY <1>1, <1>4 DEF Running
  <2>2. traces'[Len(traces')].tool = Tool(c)'
    BY <1>3, <1>6
  <2>3. ~together => \A d \in Captures \ {c} : ~Running(d)'
    BY <1>1, <2>1 DEF ChainGoesOn, Running
  <2>4. ~together => \A d \in Captures \ {c} : captures'[d].pc \notin {"sent", "received"}
    BY <2>3 DEF Running
  <2>5. ~together' => \A d, e \in Captures : Running(d)' /\ Running(e)' => d = e
    BY <1>1, <2>1 DEF ChainGoesOn
  <2> QED
    BY <1>1, <1>3, <1>4, <2>2, <2>4, <2>5 DEF ChainGoesOn
<1>15. TracedOnceInOrder'
  <2>1. Apart' => \A i, j \in DOMAIN traces' : traces'[i].tool = traces'[j].tool => i = j
    BY <1>1, <1>3, <1>7 DEF TracedOnceInOrder, Apart
  <2>2. \A i \in DOMAIN traces' : traces'[i].prev # NoStep =>
          \E j \in 1..(i - 1) : StepKey[traces'[j].tool] = traces'[i].prev
    <3>1. step.prev # NoStep => \E j \in 1..n : StepKey[traces[j].tool] = step.prev
      BY <1>1, <1>3 DEF PrevTraced, KeyTraced
    <3> QED
      BY <1>3, <3>1 DEF TracedOnceInOrder
  <2>3. ~together /\ lost = 0 => \A i \in DOMAIN traces' : Follows(i)'
    BY <1>3, <1>13 DEF TracedOnceInOrder, Follows, LastKey
  <2> QED
    BY <1>1, <2>1, <2>2, <2>3 DEF TracedOnceInOrder, Apart
<1> QED
  BY <1>5, <1>8, <1>12, <1>14, <1>15, <1>16

LEMMA AnswerKeeps ==
  ASSUME CaptureInv, NEW c \in Captures, StepAnswered(c)
  PROVE  CaptureInv'
<1> USE DEF CaptureInv
<1>1. /\ captures[c].pc = "received" /\ lastStep' = StepKey[Tool(c)] /\ seen' = seen
      /\ captures' = [captures EXCEPT ![c].pc = "next", ![c].todo = Tail(@)]
      /\ UNCHANGED <<kind, traces, lost, together>>
  BY DEF StepAnswered, SeenOnSend
<1>2. captures[c].todo # <<>> /\ Tool(c) \in Calls /\ Tail(captures[c].todo) \in Seq(Calls)
  BY <1>1, CallAtHand DEF CallsSeen, InFlight
<1>3. /\ captures' \in [Captures -> CaptureRecords] /\ captures'[c].pc = "next"
      /\ \A d \in Captures \ {c} : captures'[d] = captures[d]
  BY <1>1, <1>2 DEF CaptureTypes, CaptureRecords, CaptureStages
<1>4. CaptureTypes'
  BY <1>1, <1>2, <1>3 DEF CaptureTypes, StepKeys
<1>5. CallsSeen' /\ FlightsApart'
  BY <1>1, <1>3 DEF CallsSeen, FlightsApart, Apart, InFlight, Tool, Traced
<1>6. KeyTraced(StepKey[Tool(c)])
  BY <1>1 DEF PrevTraced, Traced, KeyTraced
<1>7. PrevTraced'
  BY <1>1, <1>3, <1>6 DEF PrevTraced, Tool, Traced, KeyTraced
<1>8. ChainGoesOn'
  BY <1>1, <1>3 DEF ChainGoesOn, Running, LastKey, Tool
<1>9. TracedOnceInOrder'
  BY <1>1 DEF TracedOnceInOrder, Follows
<1> QED
  BY <1>4, <1>5, <1>7, <1>8, <1>9

LEMMA LossKeeps ==
  ASSUME CaptureInv, NEW c \in Captures, StepUnanswered(c)
  PROVE  CaptureInv'
<1> USE DEF CaptureInv
<1>1. /\ InFlight(c) /\ lost' = lost + 1
      /\ UNCHANGED <<kind, seen, lastStep, traces, together>>
  BY DEF StepUnanswered, InFlight
<1>2. Tail(captures[c].todo) \in Seq(Calls)
  BY <1>1, CallAtHand DEF CallsSeen, InFlight
<1>3. /\ captures' \in [Captures -> CaptureRecords] /\ captures'[c].pc \in {"next", "done"}
      /\ \A d \in Captures \ {c} : captures'[d] = captures[d]
  <2>1. CASE kind = "node"
    <3>1. captures' = [captures EXCEPT ![c] = [Waiting EXCEPT !.pc = "done"]]
      BY <2>1 DEF StepUnanswered
    <3> QED
      BY <3>1, WaitingRecord DEF CaptureTypes
  <2>2. CASE kind # "node"
    <3> DEFINE next == [captures[c] EXCEPT !.pc = "next", !.todo = Tail(captures[c].todo)]
    <3>1. captures' = [captures EXCEPT ![c] = next]
      <4>1. captures' = [captures EXCEPT ![c] =
              IF kind = "node" THEN [Waiting EXCEPT !.pc = "done"] ELSE next]
        BY DEF StepUnanswered
      <4> HIDE DEF next
      <4> QED
        BY <2>2, <4>1
    <3>2. next \in CaptureRecords /\ next.pc = "next"
      BY <1>2 DEF CaptureTypes, CaptureRecords, CaptureStages
    <3> HIDE DEF next
    <3> QED
      BY <3>1, <3>2 DEF CaptureTypes
  <2> QED
    BY <2>1, <2>2
<1>4. CaptureTypes' /\ lost' # 0
  BY <1>1, <1>3 DEF CaptureTypes
<1>5. CallsSeen' /\ FlightsApart'
  BY <1>1, <1>3 DEF CallsSeen, FlightsApart, Apart, InFlight, Tool, Traced
<1>6. PrevTraced'
  BY <1>1, <1>3 DEF PrevTraced, Tool, Traced, KeyTraced
<1>7. ChainGoesOn'
  BY <1>1, <1>3, <1>4 DEF ChainGoesOn, Running, InFlight
<1>8. TracedOnceInOrder'
  BY <1>1, <1>4 DEF TracedOnceInOrder, Follows
<1> QED
  BY <1>4, <1>5, <1>6, <1>7, <1>8

LEMMA CaptureInvStep == CaptureInv /\ [CaptureNext]_captureVars => CaptureInv'
<1> SUFFICES ASSUME CaptureInv, [CaptureNext]_captureVars PROVE CaptureInv'
  OBVIOUS
<1>1. CASE UNCHANGED captureVars
  BY <1>1 DEF captureVars, CaptureInv, CaptureTypes, CallsSeen, FlightsApart, Apart, PrevTraced, ChainGoesOn,
              TracedOnceInOrder, InFlight, Running, Tool, Traced, KeyTraced, LastKey, Follows
<1> QED
  BY <1>1, StartKeeps, SendKeeps, MarkKeeps, RecordKeeps, ReceiveKeeps, AnswerKeeps, LossKeeps DEF CaptureNext

(* However captures overlap and whatever is lost, no trace names a           *)
(* predecessor the core never received, and the middleware traces no tool    *)
(* call twice, nor does a node whose remember() is not called by two threads *)
(* at once; captures that neither overlap nor lose anything leave one chain  *)
(* (afterTurn in packages/vercel/src/index.ts, remember in                   *)
(* langchain/graph.py).                                                      *)
THEOREM CallsAreTracedOnce == CaptureSpec => []TracedOnceInOrder
<1>1. CaptureInv => TracedOnceInOrder
  BY DEF CaptureInv
<1> QED
  BY CaptureInvInit, CaptureInvStep, <1>1, PTL DEF CaptureSpec

-----------------------------------------------------------------------------
(***************************************************************************)
(* ChatHistory: what was added and not cleared is in the transcript, in order.*)
(***************************************************************************)

Logged == [text : Texts, turn : Nat]
HistoryRecords == [open : BOOLEAN, turn : Nat, failed : BOOLEAN]

HistoryTypes ==
  /\ log \in Seq(Logged)
  /\ cleared \in 0..Len(log)
  /\ histories \in [Histories -> HistoryRecords]
  /\ told \in Seq(Texts)
  /\ behind \in SUBSET Histories
  /\ clean \in BOOLEAN

\* No number runs ahead of the episodes: an object opened now numbers its
\* messages above all of them.
TurnsBelowIndex ==
  /\ \A i \in 1..Len(log) : log[i].turn < i
  /\ \A h \in Histories : histories[h].open => histories[h].turn <= Len(log)

\* An open object that has missed nothing.
Current(h) == histories[h].open /\ h \notin behind

\* It numbers its next message above every episode, or as the one whose add raised.
CurrentAhead ==
  \A h \in Histories : Current(h) =>
    \A i \in 1..Len(log) : /\ log[i].turn <= histories[h].turn
                           /\ log[i].turn = histories[h].turn => histories[h].failed

\* The told texts have their episodes, in order, after the last clear and up to
\* last; what a raised add left behind comes after last.
Placed(place, last) ==
  /\ \A i \in 1..Len(told) : /\ place[i] <= last
                             /\ told[i] = log[place[i]].text
                             /\ \A j \in 1..(i - 1) : place[j] < place[i]
  /\ \A h \in Histories : Current(h) =>
       \A i \in 1..Len(log) : log[i].turn = histories[h].turn => last < i
ToldPlaced ==
  \E last \in cleared..Len(log) :
    \E place \in [1..Len(told) -> (cleared + 1)..Len(log)] : Placed(place, last)

HistoryInv ==
  /\ HistoryTypes
  /\ TurnsBelowIndex
  /\ clean => CurrentAhead /\ ToldPlaced

LEMMA ClosedRecord == Closed \in HistoryRecords /\ ~Closed.open
BY DEF Closed, HistoryRecords

LEMMA LoggedEpisode ==
  HistoryTypes => /\ Len(log) \in Nat /\ Len(told) \in Nat
                  /\ \A i \in 1..Len(log) : log[i] \in Logged /\ log[i].turn \in Nat
<1> SUFFICES ASSUME HistoryTypes, NEW i \in 1..Len(log)
             PROVE  Len(log) \in Nat /\ Len(told) \in Nat /\ log[i] \in Logged /\ log[i].turn \in Nat
  BY DEF HistoryTypes
<1>1. log[i] \in Logged
  BY DEF HistoryTypes
<1> QED
  BY <1>1 DEF HistoryTypes, Logged

LEMMA HistoryInvInit == HistoryInit => HistoryInv
<1> SUFFICES ASSUME HistoryInit PROVE HistoryInv
  OBVIOUS
<1> USE DEF HistoryInit
<1>1. <<>> \in Seq(Logged) /\ <<>> \in Seq(Texts) /\ Len(log) = 0 /\ Len(told) = 0
  OBVIOUS
<1>2. HistoryTypes
  BY <1>1, ClosedRecord DEF HistoryTypes
<1>3. TurnsBelowIndex
  BY <1>1, ClosedRecord DEF TurnsBelowIndex
<1>4. \A h \in Histories : ~Current(h)
  BY ClosedRecord DEF Current
<1>5. CurrentAhead
  BY <1>4 DEF CurrentAhead
<1>6. ToldPlaced
  <2> DEFINE nowhere == [i \in 1..Len(told) |-> 1]
  <2>1. nowhere \in [1..Len(told) -> (cleared + 1)..Len(log)]
    BY <1>1
  <2>2. Placed(nowhere, 0)
    BY <1>1, <1>4 DEF Placed
  <2>3. 0 \in cleared..Len(log)
    BY <1>1
  <2> HIDE DEF nowhere
  <2> QED
    BY <2>1, <2>2, <2>3 DEF ToldPlaced
<1> QED
  BY <1>2, <1>3, <1>5, <1>6 DEF HistoryInv

LEMMA OpenHistoryStep ==
  ASSUME HistoryInv, NEW h \in Histories, OpenHistory(h)
  PROVE  HistoryInv'
<1> USE DEF HistoryInv, HistoryTypes, OpenHistory, ExistingCount
<1>1. Len(log) \in Nat /\ histories' \in [Histories -> HistoryRecords]
  BY DEF HistoryRecords
<1>2. histories'[h] = [open |-> TRUE, turn |-> Len(log), failed |-> FALSE]
  OBVIOUS
<1>3. \A k \in Histories \ {h} : histories'[k] = histories[k] /\ (Current(k)' <=> Current(k))
  BY DEF Current
<1>4. HistoryTypes'
  BY <1>1
<1>5. TurnsBelowIndex'
  BY <1>1, <1>2, <1>3 DEF TurnsBelowIndex
<1>6a. \A i \in 1..Len(log) : log[i].turn \in Nat
  BY LoggedEpisode
<1>6. \A i \in 1..Len(log) : log[i].turn < Len(log)
  <2> TAKE i \in 1..Len(log)
  <2>1. log[i].turn < i /\ log[i].turn \in Nat
    BY <1>6a DEF TurnsBelowIndex
  <2> QED
    BY <2>1, <1>1
<1>7. ASSUME clean PROVE CurrentAhead'
  <2> SUFFICES ASSUME NEW k \in Histories, Current(k)'
               PROVE  \A i \in 1..Len(log) :
                           /\ log[i].turn <= histories'[k].turn
                           /\ log[i].turn = histories'[k].turn => histories'[k].failed
    BY DEF CurrentAhead
  <2>1. CASE k = h
    BY <2>1, <1>1, <1>2, <1>6, <1>6a
  <2>2. CASE k # h
    BY <2>2, <1>3, <1>7 DEF CurrentAhead
  <2> QED
    BY <2>1, <2>2
<1>8. ASSUME clean PROVE ToldPlaced'
  <2>1. PICK last \in cleared..Len(log),
             place \in [1..Len(told) -> (cleared + 1)..Len(log)] : Placed(place, last)
    BY <1>8 DEF ToldPlaced
  <2>2. ASSUME NEW k \in Histories, Current(k)', NEW i \in 1..Len(log),
               log[i].turn = histories'[k].turn
        PROVE  last < i
    <3>1. k # h
      BY <2>2, <1>1, <1>2, <1>6, <1>6a
    <3> QED
      BY <3>1, <2>1, <2>2, <1>3 DEF Placed
  <2>3. Placed(place, last)'
    BY <2>1, <2>2 DEF Placed
  <2> QED
    BY <2>3 DEF ToldPlaced
<1> QED
  BY <1>4, <1>5, <1>7, <1>8

LEMMA ClearStep ==
  ASSUME HistoryInv, Clear
  PROVE  HistoryInv'
<1> USE DEF HistoryInv, HistoryTypes, Clear
<1>1. Len(log) \in Nat /\ cleared' = Len(log) /\ Len(told') = 0
  OBVIOUS
<1>2. HistoryTypes'
  BY <1>1
<1>3. TurnsBelowIndex'
  BY DEF TurnsBelowIndex
<1>4. ASSUME clean' PROVE CurrentAhead'
  BY <1>4 DEF CurrentAhead, Current
<1>5. ASSUME clean' PROVE ToldPlaced'
  <2>1. ASSUME NEW k \in Histories, Current(k), NEW i \in 1..Len(log)
        PROVE  log[i].turn # histories[k].turn
    BY <2>1, <1>5 DEF CurrentAhead
  <2>2. \A k \in Histories : Current(k)' <=> Current(k)
    BY DEF Current
  <2>3. Placed([i \in 1..Len(told) |-> 1], Len(log))'
    BY <2>1, <2>2, <1>1 DEF Placed
  <2>4. [i \in 1..Len(told) |-> 1]' \in [1..Len(told) -> (cleared + 1)..Len(log)]'
    BY <1>1
  <2>5. Len(log)' \in (cleared..Len(log))'
    BY <1>1
  <2> QED
    BY <2>3, <2>4, <2>5 DEF ToldPlaced
<1> QED
  BY <1>2, <1>3, <1>4, <1>5

(* An episode with the message's number and text is there afterwards, and is *)
(* the new last one or was there before; the others keep their places.       *)
LEMMA InsertedEpisode ==
  ASSUME HistoryTypes, NEW text \in Texts, NEW turn \in Nat
  PROVE  LET after == Inserted(text, turn)
         IN /\ after \in Seq(Logged)
            /\ Len(after) \in Len(log)..(Len(log) + 1)
            /\ \A i \in 1..Len(log) : after[i] = log[i]
            /\ \A i \in 1..Len(after) : i \notin 1..Len(log) =>
                 i = Len(log) + 1 /\ after[i].turn = turn
            /\ \E p \in 1..Len(after) : after[p].text = text /\ after[p].turn = turn
<1>1. CASE \E i \in DOMAIN log : log[i].text = text /\ log[i].turn = turn
  <2>1. Inserted(text, turn) = log /\ DOMAIN log = 1..Len(log)
    BY <1>1 DEF Inserted, HistoryTypes
  <2> QED
    BY <1>1, <2>1, LoggedEpisode DEF HistoryTypes
<1>2. CASE ~\E i \in DOMAIN log : log[i].text = text /\ log[i].turn = turn
  <2> DEFINE entry == [text |-> text, turn |-> turn]
  <2>1. entry \in Logged /\ entry.text = text /\ entry.turn = turn
    BY DEF Logged
  <2>2. Inserted(text, turn) = Append(log, entry)
    BY <1>2 DEF Inserted
  <2> HIDE DEF entry
  <2>3. /\ Append(log, entry) \in Seq(Logged) /\ Len(Append(log, entry)) = Len(log) + 1
        /\ \A i \in 1..Len(log) : Append(log, entry)[i] = log[i]
        /\ Append(log, entry)[Len(log) + 1] = entry
    BY <2>1 DEF HistoryTypes
  <2> QED
    BY <2>1, <2>2, <2>3, LoggedEpisode
<1> QED
  BY <1>1, <1>2

LEMMA AddMessageStep ==
  ASSUME HistoryInv, NEW h \in Histories, NEW text \in Texts, NEW fails \in BOOLEAN,
         AddMessage(h, text, fails)
  PROVE  HistoryInv'
<1> DEFINE turn == histories[h].turn
           next == IF fails THEN turn ELSE turn + 1
<1>0. HistoryTypes /\ turn \in Nat /\ log' = Inserted(text, turn)
  BY DEF HistoryInv, HistoryTypes, HistoryRecords, AddMessage
<1>1. /\ log' \in Seq(Logged) /\ Len(log') \in Len(log)..(Len(log) + 1)
      /\ \A i \in 1..Len(log) : log'[i] = log[i]
      /\ \A i \in 1..Len(log') : i \notin 1..Len(log) =>
           i = Len(log) + 1 /\ log'[i].turn = turn
      /\ \E p \in 1..Len(log') : log'[p].text = text /\ log'[p].turn = turn
  BY <1>0, InsertedEpisode
<1>2. /\ Len(log) \in Nat /\ Len(log') \in Nat /\ Len(told) \in Nat /\ told \in Seq(Texts)
      /\ \A i \in 1..Len(log) : log[i].turn \in Nat
      /\ cleared \in 0..Len(log) /\ cleared' = cleared
  BY <1>0, <1>1, LoggedEpisode DEF HistoryTypes, AddMessage
<1>3. /\ histories[h].open
      /\ histories' \in [Histories -> HistoryRecords]
      /\ histories'[h] = [open |-> TRUE, turn |-> next, failed |-> fails]
      /\ \A k \in Histories \ {h} : histories'[k] = histories[k]
  <2>1. histories[h] \in HistoryRecords /\ histories[h].open
    BY <1>0 DEF HistoryTypes, AddMessage
  <2>2. histories' = [histories EXCEPT ![h] = [open |-> TRUE, turn |-> next, failed |-> fails]]
    BY DEF AddMessage
  <2>3. next \in Nat
    BY <1>0
  <2>4. [open |-> TRUE, turn |-> next, failed |-> fails] \in HistoryRecords
    BY <2>3 DEF HistoryRecords
  <2> HIDE DEF next
  <2> QED
    BY <1>0, <2>1, <2>2, <2>4 DEF HistoryTypes
<1>4. /\ clean' => clean /\ h \notin behind
      /\ \A k \in Histories : Current(k)' => k = h
  BY <1>3 DEF AddMessage, Current
<1>5. HistoryTypes'
  <2>1. told' \in Seq(Texts) /\ behind' \in SUBSET Histories /\ clean' \in BOOLEAN
    BY <1>0, <1>2 DEF HistoryTypes, AddMessage
  <2> QED
    BY <1>1, <1>2, <1>3, <2>1 DEF HistoryTypes
<1>6. TurnsBelowIndex /\ (clean => CurrentAhead /\ ToldPlaced)
  BY DEF HistoryInv
<1>7. TurnsBelowIndex'
  <2>1. turn <= Len(log) /\ \A i \in 1..Len(log) : log[i].turn < i
    BY <1>3, <1>6 DEF TurnsBelowIndex
  <2>2. \A i \in 1..Len(log') : log'[i].turn < i
    <3> TAKE i \in 1..Len(log')
    <3>1. CASE i \in 1..Len(log)
      BY <3>1, <1>1, <2>1
    <3>2. CASE i \notin 1..Len(log)
      BY <3>2, <1>0, <1>1, <1>2, <2>1
    <3> QED
      BY <3>1, <3>2
  <2>3. next <= Len(log')
    BY <1>0, <1>1, <1>2, <2>1, <2>2
  <2> HIDE DEF next
  <2>4. \A k \in Histories : histories'[k].open => histories'[k].turn <= Len(log')
    <3> TAKE k \in Histories
    <3>1. CASE k = h
      BY <3>1, <1>3, <2>3
    <3>2. CASE k # h
      <4>1. histories'[k] = histories[k] /\ histories[k].turn \in Nat
        BY <3>2, <1>0, <1>3 DEF HistoryTypes, HistoryRecords
      <4> QED
        BY <4>1, <1>1, <1>2, <1>6 DEF TurnsBelowIndex
    <3> QED
      BY <3>1, <3>2
  <2> QED
    BY <2>2, <2>4 DEF TurnsBelowIndex
<1>10. ASSUME clean' PROVE /\ \A i \in 1..Len(log) : log[i].turn = turn => histories[h].failed
                           /\ \A i \in 1..Len(log') : log'[i].turn \in Nat /\ log'[i].turn <= turn
  <2>1. \A i \in 1..Len(log) : /\ log[i].turn <= turn
                               /\ log[i].turn = turn => histories[h].failed
    BY <1>3, <1>4, <1>6, <1>10 DEF CurrentAhead, Current
  <2>2. \A i \in 1..Len(log') : log'[i].turn \in Nat /\ log'[i].turn <= turn
    BY <1>0, <1>1, <1>2, <2>1, SMTT(30)
  <2> QED
    BY <2>1, <2>2
<1>8. ASSUME clean' PROVE CurrentAhead'
  <2>3. \A i \in 1..Len(log') : log'[i].turn <= next /\ (log'[i].turn = next => fails)
    BY <1>0, <1>8, <1>10
  <2> HIDE DEF next
  <2> QED
    BY <1>3, <1>4, <2>3 DEF CurrentAhead
<1>9. ASSUME clean' PROVE ToldPlaced'
  <2>1. PICK last \in cleared..Len(log),
             place \in [1..Len(told) -> (cleared + 1)..Len(log)] : Placed(place, last)
    BY <1>4, <1>6, <1>9 DEF ToldPlaced
  <2>2. \A i \in 1..Len(log) : log[i].turn = turn => last < i
    BY <1>3, <1>4, <1>9, <2>1 DEF Placed, Current
  <2>3. ASSUME NEW i \in 1..Len(log'), log'[i].turn = turn PROVE last < i
    <3>1. CASE i \in 1..Len(log)
      <4>1. log'[i] = log[i]
        BY <1>1, <3>1
      <4> QED
        BY <2>2, <2>3, <3>1, <4>1
    <3>2. CASE i \notin 1..Len(log)
      <4>1. i = Len(log) + 1
        BY <1>1, <3>2
      <4> QED
        BY <1>2, <2>1, <4>1
    <3> QED
      BY <3>1, <3>2
  <2>4. ASSUME NEW i \in 1..Len(told)
        PROVE  /\ place[i] \in 1..Len(log) /\ place[i] \in (cleared + 1)..Len(log')
               /\ place[i] <= last /\ told[i] = log'[place[i]].text
               /\ \A j \in 1..(i - 1) : place[j] < place[i]
    <3>1. place[i] \in (cleared + 1)..Len(log)
      BY <2>1, <2>4
    <3>2. place[i] \in 1..Len(log) /\ place[i] \in (cleared + 1)..Len(log')
      BY <1>1, <1>2, <3>1
    <3>3. /\ place[i] <= last /\ told[i] = log[place[i]].text
          /\ \A j \in 1..(i - 1) : place[j] < place[i]
      BY <2>1, <2>4 DEF Placed
    <3>4. log'[place[i]] = log[place[i]]
      BY <1>1, <3>2
    <3> QED
      BY <3>2, <3>3, <3>4
  <2>5. CASE fails
    <3>1. told' = told /\ next = turn
      BY <2>5 DEF AddMessage
    <3>2. \A k \in Histories : Current(k)' =>
            \A i \in 1..Len(log') : log'[i].turn = histories'[k].turn => last < i
      BY <1>3, <1>4, <2>3, <3>1
    <3>4. Placed(place, last)'
      BY <2>4, <3>1, <3>2 DEF Placed
    <3>3. place \in [1..Len(told') -> (cleared' + 1)..Len(log')] /\ last \in cleared'..Len(log')
      BY <1>1, <1>2, <2>1, <2>4, <3>1
    <3> QED
      BY <3>4, <3>3 DEF ToldPlaced
  <2>6. CASE ~fails
    <3>1. told' = Append(told, text) /\ next = turn + 1
      BY <2>6 DEF AddMessage
    <3>2. /\ Len(told') = Len(told) + 1 /\ told'[Len(told) + 1] = text
          /\ \A i \in 1..Len(told) : told'[i] = told[i]
      BY <1>2, <3>1
    <3>3. PICK p \in 1..Len(log') : log'[p].text = text /\ log'[p].turn = turn
      BY <1>1
    <3>4. last < p
      BY <2>3, <3>3
    <3>5. PICK placed \in [1..Len(told') -> (cleared' + 1)..Len(log')] :
            /\ \A i \in 1..Len(told) : placed[i] = place[i]
            /\ placed[Len(told) + 1] = p
      <4> DEFINE longer == [i \in 1..Len(told') |-> IF i \in 1..Len(told) THEN place[i] ELSE p]
      <4>1. /\ longer \in [1..Len(told') -> (cleared' + 1)..Len(log')]
            /\ \A i \in 1..Len(told) : longer[i] = place[i]
            /\ longer[Len(told) + 1] = p
        BY <1>2, <2>1, <2>4, <3>2, <3>4
      <4> HIDE DEF longer
      <4> QED
        BY <4>1
    <3>6. \A i \in 1..Len(told') : /\ placed[i] <= p
                                   /\ told'[i] = log'[placed[i]].text
                                   /\ \A j \in 1..(i - 1) : placed[j] < placed[i]
      <4> TAKE i \in 1..Len(told')
      <4>1. CASE i \in 1..Len(told)
        BY <4>1, <1>2, <2>1, <2>4, <3>2, <3>4, <3>5
      <4>2. CASE i = Len(told) + 1
        BY <4>2, <1>2, <2>1, <2>4, <3>2, <3>3, <3>4, <3>5
      <4> QED
        BY <4>1, <4>2, <1>2, <3>2
    <3>7. \A i \in 1..Len(log') : log'[i].turn \in Nat /\ log'[i].turn # turn + 1
      BY <1>0, <1>9, <1>10
    <3>8. \A k \in Histories : Current(k)' =>
            \A i \in 1..Len(log') : log'[i].turn = histories'[k].turn => p < i
      BY <1>3, <1>4, <3>1, <3>7
    <3>10. Placed(placed, p)'
      BY <3>6, <3>8 DEF Placed
    <3>9. p \in cleared'..Len(log')
      BY <1>2, <2>1, <3>4
    <3> QED
      BY <3>5, <3>10, <3>9 DEF ToldPlaced
  <2> QED
    BY <2>5, <2>6
<1> QED
  BY <1>5, <1>7, <1>8, <1>9 DEF HistoryInv

LEMMA HistoryInvStep == HistoryInv /\ [HistoryNext]_historyVars => HistoryInv'
<1> SUFFICES ASSUME HistoryInv, [HistoryNext]_historyVars PROVE HistoryInv'
  OBVIOUS
<1>1. CASE UNCHANGED historyVars
  <2> USE <1>1 DEF historyVars
  <2>1. HistoryTypes' /\ TurnsBelowIndex'
    BY DEF HistoryInv, HistoryTypes, TurnsBelowIndex
  <2>2. \A k \in Histories : Current(k)' <=> Current(k)
    BY DEF Current
  <2>3. CurrentAhead => CurrentAhead'
    BY <2>2 DEF CurrentAhead
  <2>4. \A place, last : Placed(place, last) => Placed(place, last)'
    BY <2>2 DEF Placed
  <2>5. ToldPlaced => ToldPlaced'
    BY <2>4 DEF ToldPlaced
  <2> QED
    BY <2>1, <2>3, <2>5 DEF HistoryInv
<1>2. CASE HistoryNext
  BY <1>2, OpenHistoryStep, AddMessageStep, ClearStep DEF HistoryNext
<1> QED
  BY <1>1, <1>2

\* The episodes of the told texts are messages shown, in the same order.
LEMMA PlacedIsShown == HistoryInv => TranscriptKeepsAdds
<1> SUFFICES ASSUME HistoryInv, clean
             PROVE  \E place \in [DOMAIN told -> DOMAIN Messages] :
                      \A i \in DOMAIN told : /\ told[i] = Messages[place[i]]
                                             /\ \A j \in 1..(i - 1) : place[j] < place[i]
  BY DEF TranscriptKeepsAdds
<1>1. PICK last \in cleared..Len(log),
           place \in [1..Len(told) -> (cleared + 1)..Len(log)] : Placed(place, last)
  BY DEF HistoryInv, ToldPlaced
<1>2. /\ Len(log) \in Nat /\ Len(told) \in Nat /\ cleared \in 0..Len(log)
      /\ DOMAIN told = 1..Len(told)
  BY LoggedEpisode DEF HistoryInv, HistoryTypes
<1>3. /\ DOMAIN Messages = 1..(Len(log) - cleared)
      /\ \A i \in 1..(Len(log) - cleared) : Messages[i] = log[cleared + i].text
  BY DEF Messages
<1> DEFINE shown == [i \in 1..Len(told) |-> place[i] - cleared]
<1>4. /\ shown \in [1..Len(told) -> 1..(Len(log) - cleared)]
      /\ \A i \in 1..Len(told) : shown[i] = place[i] - cleared /\ place[i] = cleared + shown[i]
  BY <1>1, <1>2
<1> HIDE DEF shown
<1>5. \A i \in 1..Len(told) : told[i] = Messages[shown[i]]
  BY <1>1, <1>3, <1>4 DEF Placed
<1>6. \A i \in 1..Len(told) : \A j \in 1..(i - 1) : shown[j] < shown[i]
  <2> TAKE i \in 1..Len(told)
  <2> TAKE j \in 1..(i - 1)
  <2>1. j \in 1..Len(told) /\ place[j] < place[i]
    BY <1>1, <1>2 DEF Placed
  <2>2. shown[j] = place[j] - cleared /\ shown[i] = place[i] - cleared
    BY <2>1, <1>4
  <2> QED
    BY <1>1, <1>2, <2>1, <2>2
<1> QED
  BY <1>2, <1>3, <1>4, <1>5, <1>6

(* As long as no object that missed another's add is used again, every       *)
(* message whose add returned is shown, in order, whatever adds raised       *)
(* (langchain/history.py:78, :121).                                          *)
THEOREM TranscriptIsKept == HistorySpec => []TranscriptKeepsAdds
<1>1. HistoryInv => TranscriptKeepsAdds
  BY PlacedIsShown
<1> QED
  BY <1>1, HistoryInvInit, HistoryInvStep, PTL DEF HistorySpec

-----------------------------------------------------------------------------
(***************************************************************************)
(* TurnCapture: the core hears each thing once, in the node's order, and in  *)
(* the end everything.                                                      *)
(***************************************************************************)

Roles == {"user", "model", "tool", "system"}
TurnMessages == [role : Roles, text : Utterances \cup {Silence, MemoryBlock.text}]
Told == Range(heard) \cup {request[2] : request \in inFlight}

TurnTypes ==
  /\ adapter \in {"generate", "stream", "node"}
  /\ said \in Seq(TurnMessages) /\ toRemember \in Seq(TurnMessages)
  /\ stage \in {"idle", "recall", "model", "streaming", "remember"}
  /\ block \in BOOLEAN /\ dropped \in Nat
  /\ heard \in Seq(StoredAs(said)) /\ \A request \in inFlight : request[2] \in StoredAs(said)

(* What the first n messages say is what the core heard, in its order.       *)
HeardJust(n) ==
  /\ HeardUpTo(n)
  /\ Range(heard) = {Content(said[i]) : i \in {j \in 1..n : Spoken(said[j])}}

(* remember() goes through the rest of the conversation, and what comes      *)
(* before it was heard.                                                     *)
NodeRemembers ==
  adapter = "node" =>
    /\ inFlight = {} /\ stage # "streaming"
    /\ \E n \in 0..Len(said) : HeardJust(n) /\ (stage = "remember" => n + Len(toRemember) >= Len(said))
    /\ stage = "remember" =>
         /\ Len(toRemember) <= Len(said)
         /\ \A i \in 1..Len(toRemember) : toRemember[i] = said[Len(said) - Len(toRemember) + i]
    /\ stage = "idle" /\ caughtUp => HeardJust(Len(said))

(* Only the words of the present model call are still to be sent.            *)
LatestUser(i) == said[i].role = "user" /\ \A j \in (i + 1)..Len(said) : said[j].role # "user"
ToBeSent(i) ==
  \/ stage \in {"recall", "model"} /\ LatestUser(i)
  \/ stage = "streaming" /\ i = Len(said)
MiddlewareSends ==
  adapter # "node" =>
    /\ stage # "remember" /\ (stage = "streaming" => said # <<>>)
    /\ stage \in {"recall", "model"} => \E i \in 1..Len(said) : LatestUser(i)
    /\ dropped = 0 => \A i \in 1..Len(said) : Spoken(said[i]) => Content(said[i]) \in Told \/ ToBeSent(i)

TurnInv == TurnTypes /\ IsInjective(heard) /\ NodeRemembers /\ MiddlewareSends

LEMMA TurnInitInv == TurnInit => TurnInv
<1> SUFFICES ASSUME TurnInit PROVE TurnInv
  OBVIOUS
<1>1. Len(said) = 0 /\ Len(heard) = 0 /\ DOMAIN heard = {} /\ Range(heard) = {}
  BY DEF TurnInit, Range
<1>2. TurnTypes
  <2>1. heard \in Seq(StoredAs(said)) /\ said \in Seq(TurnMessages) /\ toRemember \in Seq(TurnMessages)
    BY DEF TurnInit
  <2> QED
    BY <2>1 DEF TurnInit, TurnTypes
<1>3. FirstSaid(0) = {}
  BY DEF FirstSaid
<1>4. HeardJust(0)
  BY <1>1, <1>3, FS_EmptySet DEF HeardJust, HeardUpTo
<1>5. NodeRemembers
  BY <1>1, <1>4 DEF TurnInit, NodeRemembers
<1>6. MiddlewareSends
  BY <1>1 DEF TurnInit, MiddlewareSends
<1> QED
  BY <1>1, <1>2, <1>5, <1>6 DEF TurnInv, IsInjective

(* Saying more changes nothing of what was said.                            *)
LEMMA SaidMore ==
  ASSUME TurnTypes, NEW m \in TurnMessages, said' = Append(said, m), UNCHANGED <<adapter, heard>>
  PROVE  /\ said' \in Seq(TurnMessages) /\ Len(said') = Len(said) + 1 /\ said'[Len(said')] = m
         /\ \A i \in 1..Len(said) : said'[i] = said[i]
         /\ StoredAs(said)' = IF Spoken(m) THEN StoredAs(said) \cup {Content(m)} ELSE StoredAs(said)
         /\ \A n \in 0..Len(said) : HeardJust(n) => HeardJust(n)'
<1>1. /\ said \in Seq(TurnMessages) /\ Len(said) \in Nat /\ DOMAIN said = 1..Len(said)
      /\ said' \in Seq(TurnMessages) /\ Len(said') = Len(said) + 1 /\ said'[Len(said')] = m
      /\ DOMAIN said' = 1..(Len(said) + 1)
      /\ \A i \in 1..Len(said) : said'[i] = said[i]
  BY DEF TurnTypes
<1>2. ASSUME NEW i \in 1..Len(said)
      PROVE  /\ Spoken(said'[i]) <=> Spoken(said[i])
             /\ (IF adapter' = "node" THEN <<"", said'[i].text>> ELSE <<said'[i].role, said'[i].text>>)
                  = Content(said[i])
  <2>1. adapter' = adapter /\ said'[i] = said[i]
    BY <1>1
  <2> QED
    BY <2>1 DEF Content
<1>3. /\ (IF adapter' = "node" THEN <<"", m.text>> ELSE <<m.role, m.text>>) = Content(m)
      /\ heard' = heard
  <2>1. adapter' = adapter
    OBVIOUS
  <2> QED
    BY <2>1 DEF Content
<1>4. StoredAs(said)' = IF Spoken(m) THEN StoredAs(said) \cup {Content(m)} ELSE StoredAs(said)
  <2>1. StoredAs(said)' = {IF adapter' = "node" THEN <<"", said'[i].text>> ELSE <<said'[i].role, said'[i].text>>
                             : i \in {j \in 1..(Len(said) + 1) : Spoken(said'[j])}}
    BY <1>1 DEF StoredAs, Content
  <2>2. StoredAs(said) = {Content(said[i]) : i \in {j \in 1..Len(said) : Spoken(said[j])}}
    BY <1>1 DEF StoredAs
  <2>3. \A j : j \in 1..(Len(said) + 1) <=> j \in 1..Len(said) \/ j = Len(said) + 1
    BY <1>1
  <2>4. said'[Len(said) + 1] = m
    BY <1>1
  <2> DEFINE c(i) == IF adapter' = "node" THEN <<"", said'[i].text>> ELSE <<said'[i].role, said'[i].text>>
  <2>5. \A x : x \in StoredAs(said)' <=>
               \E i \in 1..(Len(said) + 1) : Spoken(said'[i]) /\ x = c(i)
    BY <2>1
  <2>6. \A x : x \in StoredAs(said) <=> \E i \in 1..Len(said) : Spoken(said[i]) /\ x = Content(said[i])
    BY <2>2
  <2>7. c(Len(said) + 1) = Content(m) /\ \A i \in 1..Len(said) : c(i) = Content(said[i])
    BY <1>2, <1>3, <2>4
  <2> HIDE DEF c
  <2>8. \A x : x \in StoredAs(said)' <=> x \in StoredAs(said) \/ (Spoken(m) /\ x = Content(m))
    <3>1. ASSUME NEW x, x \in StoredAs(said)' PROVE x \in StoredAs(said) \/ (Spoken(m) /\ x = Content(m))
      <4>1. PICK i \in 1..(Len(said) + 1) : Spoken(said'[i]) /\ x = c(i)
        BY <3>1, <2>5
      <4>2. CASE i \in 1..Len(said)
        BY <4>1, <4>2, <1>2, <2>6, <2>7
      <4>3. CASE i = Len(said) + 1
        BY <4>1, <4>3, <2>4, <2>7
      <4> QED
        BY <4>2, <4>3, <2>3
    <3>2. ASSUME NEW x, x \in StoredAs(said) PROVE x \in StoredAs(said)'
      <4>1. PICK i \in 1..Len(said) : Spoken(said[i]) /\ x = Content(said[i])
        BY <3>2, <2>6
      <4> QED
        BY <4>1, <1>2, <2>3, <2>5, <2>7
    <3>3. Spoken(m) => Content(m) \in StoredAs(said)'
      BY <2>3, <2>4, <2>5, <2>7
    <3> QED
      BY <3>1, <3>2, <3>3
  <2> QED
    BY <2>8
<1>5. ASSUME NEW n \in 0..Len(said), HeardJust(n) PROVE HeardJust(n)'
  <2>1. ASSUME NEW k \in 0..n PROVE FirstSaid(k)' = FirstSaid(k)
    <3>1. \A j \in 1..k : j \in 1..Len(said) /\ \A l \in 1..(j - 1) : l \in 1..Len(said)
      BY <1>1
    <3> QED
      BY <1>2, <3>1 DEF FirstSaid, Content
  <2>2. \A i \in FirstSaid(n) : i \in 0..n /\ i \in 1..Len(said)
    BY <1>1 DEF FirstSaid
  <2>3. HeardUpTo(n)'
    <3>1. HeardUpTo(n)' <=>
            /\ Len(heard') = Cardinality(FirstSaid(n)')
            /\ \A i \in FirstSaid(n)' : heard'[Cardinality(FirstSaid(i)')] =
                 IF adapter' = "node" THEN <<"", said'[i].text>> ELSE <<said'[i].role, said'[i].text>>
      BY DEF HeardUpTo, Content
    <3>2. \A i \in FirstSaid(n) : FirstSaid(i)' = FirstSaid(i)
      BY <2>1, <2>2
    <3>3. FirstSaid(n)' = FirstSaid(n)
      BY <2>1
    <3>4. /\ Len(heard) = Cardinality(FirstSaid(n))
          /\ \A i \in FirstSaid(n) : heard[Cardinality(FirstSaid(i))] = Content(said[i])
      BY <1>5 DEF HeardJust, HeardUpTo
    <3> QED
      BY <1>2, <1>3, <2>2, <3>1, <3>2, <3>3, <3>4
  <2>4. {Content(said[i]) : i \in {j \in 1..n : Spoken(said[j])}}'
          = {Content(said[i]) : i \in {j \in 1..n : Spoken(said[j])}}
    <3>1. \A i \in 1..n : i \in 1..Len(said)
      BY <1>1
    <3>2. {Content(said[i]) : i \in {j \in 1..n : Spoken(said[j])}}'
            = {IF adapter' = "node" THEN <<"", said'[i].text>> ELSE <<said'[i].role, said'[i].text>>
                 : i \in {j \in 1..n : Spoken(said'[j])}}
      BY DEF Content
    <3> QED
      BY <1>2, <3>1, <3>2
  <2> QED
    BY <1>3, <1>5, <2>3, <2>4 DEF HeardJust, Range
<1> QED
  BY <1>1, <1>4, <1>5

(* What nothing of this changes stays.                                       *)
LEMMA SameHeard ==
  ASSUME UNCHANGED <<adapter, said, heard>>, NEW n
  PROVE  HeardJust(n)' <=> HeardJust(n)
BY DEF HeardJust, HeardUpTo, FirstSaid, Content, Spoken, Range

LEMMA OnceAdds ==
  ASSUME NEW S, NEW s \in Seq(S), IsInjective(s), NEW x \in S
  PROVE  /\ Once(s, x) \in Seq(S) /\ IsInjective(Once(s, x))
         /\ Range(Once(s, x)) = Range(s) \cup {x}
<1>1. CASE x \in Range(s)
  BY <1>1 DEF Once
<1>2. CASE x \notin Range(s)
  <2> DEFINE t == Append(s, x)
  <2>1. Once(s, x) = t
    BY <1>2 DEF Once
  <2>2. /\ t \in Seq(S) /\ Len(t) = Len(s) + 1 /\ DOMAIN t = 1..(Len(s) + 1) /\ DOMAIN s = 1..Len(s)
        /\ Len(s) \in Nat /\ \A i \in 1..Len(s) : t[i] = s[i]
        /\ t[Len(s) + 1] = x
    OBVIOUS
  <2>3. \A i \in 1..Len(s) : s[i] # x
    BY <1>2, <2>2 DEF Range
  <2> HIDE DEF t
  <2>4. \A i \in 1..(Len(s) + 1) : i \in 1..Len(s) \/ i = Len(s) + 1
    BY <2>2
  <2>5. IsInjective(t)
    BY <2>2, <2>3, <2>4 DEF IsInjective
  <2>6. Range(t) = Range(s) \cup {x}
    BY <2>2, <2>4 DEF Range
  <2> QED
    BY <2>1, <2>2, <2>5, <2>6
<1> QED
  BY <1>1, <1>2

LEMMA SaidKept ==
  ASSUME TurnTypes, StoredAs(said) \subseteq StoredAs(said)', heard' = heard
  PROVE  heard' \in Seq(StoredAs(said)')
BY DEF TurnTypes

LEMMA MessageFits == \A role \in Roles : \A text \in Utterances \cup {Silence, MemoryBlock.text} :
                       Message(role, text) \in TurnMessages
BY DEF Message, TurnMessages

LEMMA MemoryBlockFits == MemoryBlock \in TurnMessages /\ MemoryBlock.role = "system" /\ ~Spoken(MemoryBlock)
BY DEF MemoryBlock, Message, TurnMessages, Roles, Spoken

(* The user speaks.                                                          *)
LEMMA SayTurnKeeps == ASSUME TurnInv, NEW text \in Utterances, SayTurn(text) PROVE TurnInv'
<1> DEFINE m == Message("user", text)
<1>1. m \in TurnMessages /\ m.role = "user"
  BY MessageFits DEF Roles, Message
<1>2. /\ said' = Append(said, m) /\ stage = "idle" /\ stage' = "recall"
      /\ UNCHANGED <<adapter, block, toRemember, inFlight, heard, dropped, caughtUp>>
  BY DEF SayTurn
<1> HIDE DEF m
<1>3. TurnTypes /\ IsInjective(heard) /\ NodeRemembers /\ MiddlewareSends
  BY DEF TurnInv
<1>4. /\ said' \in Seq(TurnMessages) /\ Len(said') = Len(said) + 1 /\ said'[Len(said')] = m
      /\ \A i \in 1..Len(said) : said'[i] = said[i]
      /\ StoredAs(said) \subseteq StoredAs(said)'
      /\ \A n \in 0..Len(said) : HeardJust(n) => HeardJust(n)'
  BY <1>1, <1>2, <1>3, SaidMore
<1>5. Len(said) \in Nat
  BY <1>3 DEF TurnTypes
<1>6. TurnTypes'
  BY <1>2, <1>3, <1>4, SaidKept DEF TurnTypes
<1>7. NodeRemembers'
  BY <1>2, <1>3, <1>4, <1>5 DEF NodeRemembers
<1>8. MiddlewareSends'
  <2> SUFFICES ASSUME adapter # "node" PROVE MiddlewareSends'
    BY <1>2 DEF MiddlewareSends
  <2> PICK k \in Nat : k = Len(said) + 1
    BY <1>5
  <2>1. LatestUser(k)'
    BY <1>1, <1>4, <1>5 DEF LatestUser
  <2>2. ASSUME dropped = 0, NEW i \in 1..Len(said), Spoken(said'[i]) PROVE Content(said[i])' \in Told'
    <3>1. Content(said[i]) \in Told
      BY <1>2, <1>3, <1>4, <2>2 DEF MiddlewareSends, ToBeSent
    <3>2. Content(said[i])' = Content(said[i]) /\ Told' = Told
      BY <1>2, <1>4 DEF Content, Told
    <3> QED
      BY <3>1, <3>2
  <2>3. \A i \in 1..Len(said') : i \in 1..Len(said) \/ i = k
    BY <1>4, <1>5
  <2>4. ToBeSent(k)'
    BY <2>1, <1>2 DEF ToBeSent
  <2>5. k \in 1..Len(said')
    BY <1>4, <1>5
  <2> QED
    BY <1>2, <2>1, <2>2, <2>3, <2>4, <2>5 DEF MiddlewareSends
<1> QED
  BY <1>2, <1>3, <1>6, <1>7, <1>8 DEF TurnInv

(* What leaves the conversation and what was heard alone.                    *)
LEMMA TalkSame ==
  ASSUME TurnInv, UNCHANGED <<adapter, said, heard>>
  PROVE  /\ StoredAs(said)' = StoredAs(said) /\ IsInjective(heard')
         /\ heard' \in Seq(StoredAs(said)')
         /\ \A i : Content(said[i])' = Content(said[i]) /\ (LatestUser(i)' <=> LatestUser(i))
         /\ \A n : HeardJust(n)' <=> HeardJust(n)
<1>1. StoredAs(said)' = StoredAs(said)
  BY DEF StoredAs, Content, Spoken
<1>2. \A i : Content(said[i])' = Content(said[i]) /\ (LatestUser(i)' <=> LatestUser(i))
  BY DEF Content, LatestUser
<1> QED
  BY <1>1, <1>2, SameHeard DEF TurnInv, TurnTypes

LEMMA RecallTurnKeeps == ASSUME TurnInv, NEW context \in BOOLEAN, RecallTurn(context) PROVE TurnInv'
<1>1. /\ stage = "recall" /\ stage' = "model" /\ block' \in BOOLEAN
      /\ said' = IF context /\ adapter = "node" THEN Append(said, MemoryBlock) ELSE said
      /\ UNCHANGED <<adapter, toRemember, inFlight, heard, dropped, caughtUp>>
  BY DEF RecallTurn
<1>2. TurnTypes /\ IsInjective(heard) /\ NodeRemembers /\ MiddlewareSends
  BY DEF TurnInv
<1>3. CASE said' = said
  <2>1. /\ StoredAs(said)' = StoredAs(said) /\ heard' \in Seq(StoredAs(said)')
        /\ \A i : Content(said[i])' = Content(said[i]) /\ (LatestUser(i)' <=> LatestUser(i))
        /\ \A n : HeardJust(n)' <=> HeardJust(n)
    BY <1>1, <1>3, TalkSame
  <2>2. TurnTypes'
    BY <1>1, <1>2, <1>3, <2>1 DEF TurnTypes
  <2>3. NodeRemembers'
    BY <1>1, <1>2, <1>3, <2>1 DEF NodeRemembers
  <2>4. Told' = Told /\ \A i : ToBeSent(i)' <=> ToBeSent(i)
    BY <1>1, <2>1 DEF Told, ToBeSent
  <2>5. MiddlewareSends'
    BY <1>1, <1>2, <1>3, <2>1, <2>4 DEF MiddlewareSends
  <2> QED
    BY <1>1, <1>2, <2>2, <2>3, <2>5 DEF TurnInv
<1>4. CASE adapter = "node" /\ said' = Append(said, MemoryBlock)
  <2>1. /\ said' \in Seq(TurnMessages) /\ Len(said') = Len(said) + 1
        /\ StoredAs(said) \subseteq StoredAs(said)'
        /\ \A n \in 0..Len(said) : HeardJust(n) => HeardJust(n)'
    BY <1>1, <1>2, <1>4, SaidMore, MemoryBlockFits
  <2>2. Len(said) \in Nat
    BY <1>2 DEF TurnTypes
  <2>3. TurnTypes'
    BY <1>1, <1>2, <2>1, SaidKept DEF TurnTypes
  <2>4. NodeRemembers'
    BY <1>1, <1>2, <1>4, <2>1, <2>2 DEF NodeRemembers
  <2>5. MiddlewareSends'
    BY <1>1, <1>4 DEF MiddlewareSends
  <2> QED
    BY <1>1, <1>2, <2>3, <2>4, <2>5 DEF TurnInv
<1> QED
  BY <1>1, <1>3, <1>4

LEMMA MaxIs == ASSUME NEW T \in SUBSET Nat, NEW k \in T, \A j \in T : k >= j PROVE Max(T) = k
<1>1. \A x \in T : (\A y \in T : x >= y) => x = k
  <2>1. ASSUME NEW x \in T, \A y \in T : x >= y PROVE x = k
    <3>1. x \in Nat /\ k \in Nat /\ x >= k /\ k >= x
      BY <2>1
    <3> QED
      BY <3>1
  <2> QED
    BY <2>1
<1>2. Max(T) \in T /\ \A y \in T : Max(T) >= y
  BY Zenon DEF Max
<1> QED
  BY <1>1, <1>2

(* What the middleware takes for the user's latest words is that.            *)
LEMMA LastUserIs ==
  ASSUME TurnInv, adapter # "node", stage \in {"recall", "model"}
  PROVE  \E i \in 1..Len(said) : LatestUser(i) /\ LastUser(Prompt) = said[i] /\ said[i] \in TurnMessages
<1>1. /\ said \in Seq(TurnMessages) /\ Len(said) \in Nat /\ DOMAIN said = 1..Len(said)
  BY DEF TurnInv, TurnTypes
<1>2. PICK i \in 1..Len(said) : LatestUser(i)
  BY DEF TurnInv, MiddlewareSends
<1> DEFINE S(p) == {j \in DOMAIN p : p[j].role = "user"}
<1>4. CASE ~block
  <2>1. ASSUME NEW j \in S(said) PROVE i >= j
    <3>1. j \in 1..Len(said) /\ ~(j \in (i + 1)..Len(said))
      BY <1>1, <1>2, <2>1 DEF LatestUser
    <3> QED
      BY <1>1, <3>1
  <2>2. i \in S(said) /\ S(said) \in SUBSET Nat
    BY <1>1, <1>2 DEF LatestUser
  <2> HIDE DEF S
  <2>3. Max(S(said)) = i
    BY <2>1, <2>2, MaxIs
  <2>4. LastUser(said) = said[Max(S(said))]
    BY DEF LastUser, S
  <2> QED
    BY <1>1, <1>2, <1>4, <2>3, <2>4, ElementOfSeq DEF Prompt
<1>5. CASE block
  <2> DEFINE p == <<MemoryBlock>> \o said
  <2>1. <<MemoryBlock>> \in Seq(TurnMessages) /\ Len(<<MemoryBlock>>) = 1 /\ <<MemoryBlock>>[1] = MemoryBlock
    BY MemoryBlockFits
  <2>2. /\ p \in Seq(TurnMessages) /\ Len(p) = 1 + Len(said) /\ DOMAIN p = 1..(1 + Len(said))
        /\ p[1] = MemoryBlock /\ \A j \in 1..Len(said) : p[1 + j] = said[j]
    <3>1. p \in Seq(TurnMessages) /\ Len(p) = 1 + Len(said)
      BY <1>1, <2>1, ConcatProperties
    <3>2. \A j \in 1..Len(p) : p[j] = IF j <= 1 THEN <<MemoryBlock>>[j] ELSE said[j - 1]
      BY <1>1, <2>1, ConcatProperties
    <3> HIDE DEF p
    <3>3. 1 \in 1..Len(p) /\ \A j \in 1..Len(said) : 1 + j \in 1..Len(p) /\ ~(1 + j <= 1) /\ (1 + j) - 1 = j
      BY <1>1, <3>1
    <3> QED
      BY <1>1, <2>1, <3>1, <3>2, <3>3
  <2> HIDE DEF p
  <2>3. \A j \in 1..(1 + Len(said)) : j = 1 \/ (j - 1 \in 1..Len(said) /\ p[j] = said[j - 1])
    <3>1. \A j \in 1..(1 + Len(said)) : j = 1 \/ (j - 1 \in 1..Len(said) /\ 1 + (j - 1) = j)
      BY <1>1
    <3> QED
      BY <2>2, <3>1
  <2> PICK k \in 1..(1 + Len(said)) : k = i + 1
    BY <1>1
  <2>4. p[k] = said[i] /\ said[i].role = "user"
    BY <1>1, <1>2, <2>2 DEF LatestUser
  <2>5. k \in S(p) /\ S(p) \in SUBSET Nat
    BY <2>2, <2>4
  <2>6. ASSUME NEW j \in S(p) PROVE k >= j
    <3>1. j \in 1..(1 + Len(said)) /\ p[j].role = "user"
      BY <2>2, <2>6
    <3>2. p[1].role # "user"
      BY <2>2, MemoryBlockFits
    <3>3. j - 1 \in 1..Len(said) /\ said[j - 1].role = "user"
      BY <2>3, <3>1, <3>2
    <3>4. ~(j - 1 \in (i + 1)..Len(said))
      BY <1>2, <3>3 DEF LatestUser
    <3> QED
      BY <1>1, <3>1, <3>3, <3>4
  <2> HIDE DEF S
  <2>7. Max(S(p)) = k
    BY <2>5, <2>6, MaxIs
  <2>8. LastUser(p) = p[Max(S(p))]
    BY DEF LastUser, S
  <2>9. Prompt = p
    BY <1>5 DEF Prompt, p
  <2> QED
    BY <1>1, <1>2, <2>4, <2>7, <2>8, <2>9, ElementOfSeq
<1> QED
  BY <1>4, <1>5 DEF TurnInv, TurnTypes

LEMMA SentIsTold ==
  ASSUME NEW messages, inFlight' = inFlight \cup Sends(messages), UNCHANGED <<adapter, heard>>
  PROVE  /\ Told \subseteq Told' /\ \A m \in messages : Spoken(m) => Content(m) \in Told'
         /\ \A request \in inFlight' :
              request \in inFlight \/ \E m \in messages : Spoken(m) /\ request[2] = Content(m)
<1>1. \A request \in Sends(messages) : \E m \in messages : Spoken(m) /\ request = <<Len(said), Content(m)>>
  BY DEF Sends
<1>2. \A m \in messages : Spoken(m) => <<Len(said), Content(m)>> \in Sends(messages)
  BY DEF Sends
<1>3. \A c : c \in Told' <=> c \in Range(heard) \/ \E request \in inFlight' : c = request[2]
  BY DEF Told, Range
<1>4. \A c : c \in Told <=> c \in Range(heard) \/ \E request \in inFlight : c = request[2]
  BY DEF Told
<1>5. ASSUME NEW m \in messages, Spoken(m) PROVE Content(m) \in Told'
  <2>1. <<Len(said), Content(m)>> \in inFlight' /\ <<Len(said), Content(m)>>[2] = Content(m)
    BY <1>2, <1>5
  <2> QED
    BY <1>3, <2>1
<1>6. ASSUME NEW request \in Sends(messages) PROVE \E m \in messages : Spoken(m) /\ request[2] = Content(m)
  BY <1>1
<1> QED
  BY <1>3, <1>4, <1>5, <1>6

LEMMA SaidIsStored ==
  ASSUME TurnTypes, NEW i \in 1..Len(said), Spoken(said[i])
  PROVE  Content(said[i]) \in StoredAs(said)
BY DEF TurnTypes, StoredAs

(* The messages of a call of the model, all but the last sent with it.       *)
LEMMA GeneratedKeeps ==
  ASSUME TurnInv, NEW text \in Utterances \cup {Silence}, Generated(text) PROVE TurnInv'
<1> DEFINE m == Message("model", text)
<1>1. m \in TurnMessages
  BY MessageFits DEF Roles
<1>2. /\ stage = "model" /\ adapter = "generate"
      /\ inFlight' = inFlight \cup Sends({LastUser(Prompt), m})
      /\ UNCHANGED <<adapter, block, toRemember, heard, dropped, caughtUp>>
  BY DEF Generated
<1>3. TurnTypes /\ IsInjective(heard) /\ NodeRemembers /\ MiddlewareSends
  BY DEF TurnInv
<1>4. PICK u \in 1..Len(said) : LatestUser(u) /\ LastUser(Prompt) = said[u]
  BY <1>2, LastUserIs
<1>5. /\ said \in Seq(TurnMessages) /\ Len(said) \in Nat
  BY <1>3 DEF TurnTypes
<1> DEFINE t == Append(said, m)
<1>6. /\ t \in Seq(TurnMessages) /\ Len(t) = Len(said) + 1 /\ t[Len(said) + 1] = m
      /\ \A i \in 1..Len(said) : t[i] = said[i]
  BY <1>1, <1>5
<1>7. \/ said' = t /\ stage' = "idle"
      \/ stage' = "recall" /\ \E result \in Utterances : said' = Append(t, Message("tool", result))
  BY DEF Generated, FromModel
<1>8. \A result \in Utterances : /\ Message("tool", result) \in TurnMessages /\ ~Spoken(Message("tool", result))
                                  /\ Message("tool", result).role = "tool"
  BY MessageFits DEF Roles, Message, Spoken
<1>9. m.role = "model"
  BY DEF Message
<1> HIDE DEF m
<1>10. PICK more \in {0, 1} :
         /\ said' \in Seq(TurnMessages) /\ Len(said') = Len(said) + 1 + more
         /\ \A i \in 1..Len(said) : said'[i] = said[i]
         /\ said'[Len(said) + 1] = m
         /\ more = 1 => said'[Len(said) + 2].role = "tool" /\ ~Spoken(said'[Len(said) + 2])
         /\ stage' = IF more = 0 THEN "idle" ELSE "recall"
  <2>1. CASE said' = t /\ stage' = "idle"
    BY <1>6, <2>1
  <2>2. CASE stage' = "recall" /\ \E result \in Utterances : said' = Append(t, Message("tool", result))
    <3>1. PICK result \in Utterances : said' = Append(t, Message("tool", result))
      BY <2>2
    <3> HIDE DEF t
    <3>2. /\ said' \in Seq(TurnMessages) /\ Len(said') = Len(t) + 1 /\ said'[Len(t) + 1] = Message("tool", result)
          /\ \A i \in 1..Len(t) : said'[i] = t[i]
      <4>1. t \in Seq(TurnMessages) /\ Message("tool", result) \in TurnMessages
        BY <1>6, <1>8
      <4> QED
        BY <3>1, <4>1, AppendProperties
    <3>3. Len(said) + 1 \in 1..Len(t) /\ \A i \in 1..Len(said) : i \in 1..Len(t)
      BY <1>5, <1>6
    <3>4. Len(t) + 1 = Len(said) + 2
      BY <1>5, <1>6
    <3>5. said'[Len(said) + 1] = m /\ \A i \in 1..Len(said) : said'[i] = said[i]
      BY <3>2, <3>3, <1>6
    <3>6. said'[Len(said) + 2].role = "tool" /\ ~Spoken(said'[Len(said) + 2])
      BY <3>2, <3>4, <1>8
    <3> QED
      BY <2>2, <3>2, <3>4, <3>5, <3>6, <1>5, <1>6
  <2> QED
    BY <1>7, <2>1, <2>2
<1>11. /\ \A i \in 1..Len(said) : i \in 1..Len(said') /\ Content(said[i])' = Content(said[i])
       /\ \A i \in 1..Len(said') : i \in 1..Len(said) \/ i = Len(said) + 1 \/ (more = 1 /\ i = Len(said) + 2)
       /\ Len(said) + 1 \in 1..Len(said') /\ (more = 1 => Len(said) + 2 \in 1..Len(said'))
       /\ DOMAIN said = 1..Len(said) /\ DOMAIN said' = 1..Len(said')
  <2>1. \A i \in 1..Len(said) : i \in 1..Len(said')
    BY <1>5, <1>10
  <2>2. \A i \in 1..Len(said) : Content(said[i])' = Content(said[i])
    BY <1>2, <1>10 DEF Content
  <2>3. /\ \A i \in 1..Len(said') : i \in 1..Len(said) \/ i = Len(said) + 1 \/ (more = 1 /\ i = Len(said) + 2)
        /\ Len(said) + 1 \in 1..Len(said') /\ (more = 1 => Len(said) + 2 \in 1..Len(said'))
    BY <1>5, <1>10
  <2>4. DOMAIN said = 1..Len(said) /\ DOMAIN said' = 1..Len(said')
    BY <1>5, <1>10
  <2> QED
    BY <2>1, <2>2, <2>3, <2>4
<1> PICK k \in Nat : k = Len(said) + 1
  BY <1>5
<1>12. Content(said[k])' = Content(m) /\ k \in 1..Len(said')
  BY <1>2, <1>10, <1>11 DEF Content
<1>13. StoredAs(said) \subseteq StoredAs(said)' /\ (Spoken(m) => Content(m) \in StoredAs(said)')
  <2>1. \A x \in StoredAs(said) : \E i \in 1..Len(said) : Spoken(said[i]) /\ x = Content(said[i])
    BY <1>11 DEF StoredAs
  <2>2. \A i \in 1..Len(said') : Spoken(said'[i]) => Content(said[i])' \in StoredAs(said)'
    BY <1>11 DEF StoredAs
  <2>3. \A i \in 1..Len(said) : Spoken(said[i]) => Content(said[i]) \in StoredAs(said)'
    BY <1>10, <1>11, <2>2
  <2>4. Spoken(m) => Content(m) \in StoredAs(said)'
    BY <1>10, <1>12, <2>2
  <2> QED
    BY <2>1, <2>3, <2>4
<1>14. /\ Told \subseteq Told' /\ (Spoken(said[u]) => Content(said[u]) \in Told')
       /\ (Spoken(m) => Content(m) \in Told')
       /\ \A request \in inFlight' : request \in inFlight \/ (Spoken(said[u]) /\ request[2] = Content(said[u]))
                                       \/ (Spoken(m) /\ request[2] = Content(m))
  <2> DEFINE messages == {said[u], m}
  <2>1. inFlight' = inFlight \cup Sends(messages)
    BY <1>2, <1>4
  <2>2. said[u] \in messages /\ m \in messages /\ \A x \in messages : x = said[u] \/ x = m
    OBVIOUS
  <2> HIDE DEF messages
  <2>3. /\ Told \subseteq Told' /\ \A x \in messages : Spoken(x) => Content(x) \in Told'
        /\ \A request \in inFlight' :
             request \in inFlight \/ \E x \in messages : Spoken(x) /\ request[2] = Content(x)
    BY <1>2, <2>1, SentIsTold
  <2> QED
    BY <2>2, <2>3
<1>15. Spoken(said[u]) => Content(said[u]) \in StoredAs(said)
  BY <1>3, SaidIsStored
<1>16. TurnTypes'
  <2>1. heard' \in Seq(StoredAs(said)')
    BY <1>2, <1>3, <1>13, SaidKept
  <2>2. \A request \in inFlight' : request[2] \in StoredAs(said)'
    BY <1>3, <1>13, <1>14, <1>15 DEF TurnTypes
  <2> QED
    BY <1>2, <1>3, <1>10, <2>1, <2>2 DEF TurnTypes
<1>17. NodeRemembers'
  BY <1>2 DEF NodeRemembers
<1>18. MiddlewareSends'
  <2>1. more = 1 => LatestUser(u)'
    <3>1. ASSUME more = 1, NEW j \in (u + 1)..Len(said') PROVE said'[j].role # "user"
      <4>1. j \in 1..Len(said')
        BY <3>1
      <4>2. CASE j \in 1..Len(said)
        BY <4>2, <1>4, <1>10 DEF LatestUser
      <4>3. CASE j = Len(said) + 1
        BY <4>3, <1>9, <1>10
      <4>4. CASE j = Len(said) + 2
        BY <3>1, <4>4, <1>10
      <4> QED
        BY <4>1, <4>2, <4>3, <4>4, <1>11
    <3> QED
      BY <3>1, <1>4, <1>10 DEF LatestUser
  <2>2. ASSUME dropped = 0, NEW i \in 1..Len(said), Spoken(said[i]) PROVE Content(said[i]) \in Told'
    <3>1. Content(said[i]) \in Told \/ LatestUser(i)
      BY <1>2, <1>3, <2>2 DEF MiddlewareSends, ToBeSent
    <3>2. LatestUser(i) => i = u
      BY <1>4 DEF LatestUser
    <3> QED
      BY <1>14, <2>2, <3>1, <3>2
  <2>3. ASSUME dropped = 0, NEW i \in 1..Len(said'), Spoken(said'[i]) PROVE Content(said[i])' \in Told'
    <3>1. CASE i \in 1..Len(said)
      BY <2>2, <2>3, <3>1, <1>10, <1>11
    <3>2. CASE i = k
      BY <2>3, <3>2, <1>10, <1>12, <1>14
    <3>3. CASE more = 1 /\ i = Len(said) + 2
      BY <2>3, <3>3, <1>10
    <3> QED
      BY <3>1, <3>2, <3>3, <1>11
  <2> QED
    BY <1>2, <1>10, <1>11, <2>1, <2>3 DEF MiddlewareSends
<1> QED
  BY <1>2, <1>3, <1>16, <1>17, <1>18 DEF TurnInv

(* The stream's words are sent when it ends; what was sent before stays.     *)
LEMMA StreamedKeeps ==
  ASSUME TurnInv, NEW text \in Utterances \cup {Silence}, Streamed(text) PROVE TurnInv'
<1> DEFINE m == Message("model", text)
<1>1. m \in TurnMessages
  BY MessageFits DEF Roles
<1>2. /\ stage = "model" /\ adapter = "stream" /\ stage' = "streaming"
      /\ inFlight' = inFlight \cup Sends({LastUser(Prompt)}) /\ said' = Append(said, m)
      /\ UNCHANGED <<adapter, block, toRemember, heard, dropped, caughtUp>>
  BY DEF Streamed, FromModel
<1> HIDE DEF m
<1>3. TurnTypes /\ IsInjective(heard) /\ NodeRemembers /\ MiddlewareSends
  BY DEF TurnInv
<1>4. PICK u \in 1..Len(said) : LatestUser(u) /\ LastUser(Prompt) = said[u]
  BY <1>2, LastUserIs
<1>5. said \in Seq(TurnMessages) /\ Len(said) \in Nat
  BY <1>3 DEF TurnTypes
<1>6. /\ said' \in Seq(TurnMessages) /\ Len(said') = Len(said) + 1
      /\ \A i \in 1..Len(said) : said'[i] = said[i]
      /\ StoredAs(said) \subseteq StoredAs(said)'
  BY <1>1, <1>2, <1>3, SaidMore
<1>7. /\ Told \subseteq Told' /\ (Spoken(said[u]) => Content(said[u]) \in Told')
      /\ \A request \in inFlight' : request \in inFlight \/ (Spoken(said[u]) /\ request[2] = Content(said[u]))
  <2> DEFINE messages == {said[u]}
  <2>1. inFlight' = inFlight \cup Sends(messages) /\ \A x : x \in messages <=> x = said[u]
    BY <1>2, <1>4
  <2> HIDE DEF messages
  <2>2. /\ Told \subseteq Told' /\ \A x \in messages : Spoken(x) => Content(x) \in Told'
        /\ \A request \in inFlight' :
             request \in inFlight \/ \E x \in messages : Spoken(x) /\ request[2] = Content(x)
    BY <1>2, <2>1, SentIsTold
  <2> QED
    BY <2>1, <2>2
<1>8. Spoken(said[u]) => Content(said[u]) \in StoredAs(said)
  BY <1>3, SaidIsStored
<1>9. TurnTypes'
  <2>1. heard' \in Seq(StoredAs(said)')
    BY <1>2, <1>3, <1>6, SaidKept
  <2>2. \A request \in inFlight' : request[2] \in StoredAs(said)'
    BY <1>3, <1>6, <1>7, <1>8 DEF TurnTypes
  <2> QED
    BY <1>2, <1>3, <1>6, <2>1, <2>2 DEF TurnTypes
<1>10. NodeRemembers'
  BY <1>2 DEF NodeRemembers
<1>11. MiddlewareSends'
  <2>1. ASSUME dropped = 0, NEW i \in 1..Len(said'), Spoken(said'[i])
        PROVE Content(said[i])' \in Told' \/ ToBeSent(i)'
    <3>1. CASE i \in 1..Len(said)
      <4>1. Content(said[i])' = Content(said[i]) /\ Spoken(said[i])
        BY <1>2, <1>6, <2>1, <3>1 DEF Content
      <4>2. Content(said[i]) \in Told \/ LatestUser(i)
        BY <1>2, <1>3, <2>1, <3>1, <4>1 DEF MiddlewareSends, ToBeSent
      <4>3. LatestUser(i) => i = u
        BY <3>1, <1>4 DEF LatestUser
      <4> QED
        BY <4>1, <4>2, <4>3, <1>7
    <3>2. CASE i = Len(said')
      BY <1>2, <3>2 DEF ToBeSent
    <3> QED
      BY <1>5, <1>6, <3>1, <3>2
  <2> QED
    BY <1>2, <1>5, <1>6, <2>1 DEF MiddlewareSends
<1> QED
  BY <1>2, <1>3, <1>9, <1>10, <1>11 DEF TurnInv

LEMMA StreamEndsKeeps == ASSUME TurnInv, StreamEnds PROVE TurnInv'
<1>1. /\ stage = "streaming" /\ stage' = "idle" /\ inFlight' = inFlight \cup Sends({said[Len(said)]})
      /\ UNCHANGED <<adapter, said, block, toRemember, heard, dropped, caughtUp>>
  BY DEF StreamEnds
<1>2. TurnTypes /\ IsInjective(heard) /\ NodeRemembers /\ MiddlewareSends
  BY DEF TurnInv
<1>3. adapter # "node" /\ said # <<>>
  BY <1>1, <1>2 DEF NodeRemembers, MiddlewareSends
<1>4. said \in Seq(TurnMessages) /\ Len(said) \in Nat /\ Len(said) \in 1..Len(said)
  BY <1>2, <1>3 DEF TurnTypes
<1> PICK k \in 1..Len(said) : k = Len(said)
  BY <1>4
<1>5. /\ Told \subseteq Told' /\ (Spoken(said[k]) => Content(said[k]) \in Told')
      /\ \A request \in inFlight' : request \in inFlight \/ (Spoken(said[k]) /\ request[2] = Content(said[k]))
  <2> DEFINE messages == {said[k]}
  <2>1. inFlight' = inFlight \cup Sends(messages) /\ \A x : x \in messages <=> x = said[k]
    BY <1>1
  <2> HIDE DEF messages
  <2>2. /\ Told \subseteq Told' /\ \A x \in messages : Spoken(x) => Content(x) \in Told'
        /\ \A request \in inFlight' :
             request \in inFlight \/ \E x \in messages : Spoken(x) /\ request[2] = Content(x)
    BY <1>1, <2>1, SentIsTold
  <2> QED
    BY <2>1, <2>2
<1>6. /\ StoredAs(said)' = StoredAs(said) /\ heard' \in Seq(StoredAs(said)')
      /\ \A i : Content(said[i])' = Content(said[i])
  BY <1>1, TalkSame
<1>7. Spoken(said[k]) => Content(said[k]) \in StoredAs(said)
  BY <1>2, SaidIsStored
<1>8. TurnTypes'
  BY <1>1, <1>2, <1>5, <1>6, <1>7 DEF TurnTypes
<1>9. NodeRemembers'
  BY <1>1, <1>3 DEF NodeRemembers
<1>10. MiddlewareSends'
  <2>1. ASSUME dropped = 0, NEW i \in 1..Len(said), Spoken(said[i]) PROVE Content(said[i]) \in Told'
    BY <1>1, <1>2, <1>3, <1>5, <2>1 DEF MiddlewareSends, ToBeSent
  <2> QED
    BY <1>1, <1>6, <2>1 DEF MiddlewareSends
<1> QED
  BY <1>1, <1>2, <1>8, <1>9, <1>10 DEF TurnInv

(* What is dropped, the middleware no longer owes.                           *)
LEMMA StreamCutKeeps == ASSUME TurnInv, StreamCut PROVE TurnInv'
<1>1. /\ stage = "streaming" /\ stage' = "idle" /\ dropped' = dropped + 1
      /\ UNCHANGED <<adapter, said, block, toRemember, inFlight, heard, caughtUp>>
  BY DEF StreamCut
<1>2. TurnTypes /\ IsInjective(heard) /\ NodeRemembers /\ MiddlewareSends
  BY DEF TurnInv
<1>3. adapter # "node"
  BY <1>1, <1>2 DEF NodeRemembers
<1>4. StoredAs(said)' = StoredAs(said) /\ heard' \in Seq(StoredAs(said)')
  BY <1>1, TalkSame
<1>5. dropped \in Nat /\ dropped' # 0
  BY <1>1, <1>2 DEF TurnTypes
<1> QED
  BY <1>1, <1>2, <1>3, <1>4, <1>5 DEF TurnInv, TurnTypes, NodeRemembers, MiddlewareSends

LEMMA TurnFailsKeeps == ASSUME TurnInv, TurnFails PROVE TurnInv'
<1>1. /\ stage \in {"model", "recall"} /\ stage' = "idle" /\ dropped' = dropped + 1 /\ caughtUp' = FALSE
      /\ UNCHANGED <<adapter, said, block, toRemember, inFlight, heard>>
  BY DEF TurnFails
<1>2. TurnTypes /\ IsInjective(heard) /\ NodeRemembers /\ MiddlewareSends
  BY DEF TurnInv
<1>3. /\ StoredAs(said)' = StoredAs(said) /\ heard' \in Seq(StoredAs(said)')
      /\ \A n : HeardJust(n)' <=> HeardJust(n)
  BY <1>1, TalkSame
<1>4. dropped \in Nat /\ dropped' # 0
  BY <1>1, <1>2 DEF TurnTypes
<1>5. NodeRemembers'
  BY <1>1, <1>2, <1>3 DEF NodeRemembers
<1>6. MiddlewareSends' /\ TurnTypes'
  BY <1>1, <1>2, <1>3, <1>4 DEF TurnTypes, MiddlewareSends
<1> QED
  BY <1>1, <1>2, <1>5, <1>6 DEF TurnInv

(* remember() begins with the whole conversation.                            *)
LEMMA RepliedKeeps ==
  ASSUME TurnInv, NEW text \in Utterances \cup {Silence}, Replied(text) PROVE TurnInv'
<1> DEFINE m == Message("model", text)
<1>1. m \in TurnMessages
  BY MessageFits DEF Roles
<1>2. /\ adapter = "node" /\ stage' = "remember" /\ said' = Append(said, m) /\ toRemember' = said'
      /\ UNCHANGED <<adapter, block, inFlight, heard, dropped, caughtUp>>
  BY DEF Replied, FromModel, WholeState
<1> HIDE DEF m
<1>3. TurnTypes /\ IsInjective(heard) /\ NodeRemembers /\ MiddlewareSends
  BY DEF TurnInv
<1>4. /\ said' \in Seq(TurnMessages) /\ Len(said') = Len(said) + 1
      /\ StoredAs(said) \subseteq StoredAs(said)'
      /\ \A n \in 0..Len(said) : HeardJust(n) => HeardJust(n)'
  BY <1>1, <1>2, <1>3, SaidMore
<1>5. Len(said) \in Nat
  BY <1>3 DEF TurnTypes
<1>6. TurnTypes'
  BY <1>2, <1>3, <1>4, SaidKept DEF TurnTypes
<1>7. NodeRemembers'
  <2>1. \A i \in 1..Len(said') : Len(said') - Len(said') + i = i
    BY <1>4, <1>5
  <2>2. \A n \in 0..Len(said) : n \in 0..Len(said') /\ n + Len(said') >= Len(said')
    BY <1>4, <1>5
  <2>3. Len(said') <= Len(said')
    BY <1>4, <1>5
  <2>4. PICK n \in 0..Len(said) : HeardJust(n)
    BY <1>2, <1>3 DEF NodeRemembers
  <2>5. HeardJust(n)' /\ n \in 0..Len(said') /\ n + Len(toRemember') >= Len(said')
    BY <1>2, <1>4, <2>2, <2>4
  <2>6. inFlight' = {} /\ stage' = "remember"
    BY <1>2, <1>3 DEF NodeRemembers
  <2> QED
    BY <1>2, <2>1, <2>3, <2>5, <2>6 DEF NodeRemembers
<1>8. MiddlewareSends'
  BY <1>2 DEF MiddlewareSends
<1> QED
  BY <1>2, <1>3, <1>6, <1>7, <1>8 DEF TurnInv

(* The places where something new is said.                                   *)
LEMMA FirstSaidNext ==
  ASSUME TurnTypes, NEW n \in 0..(Len(said) - 1)
  PROVE  /\ IsFiniteSet(FirstSaid(n)) /\ n + 1 \notin FirstSaid(n) /\ FirstSaid(n) \subseteq 1..n
         /\ FirstSaid(n + 1) =
              IF Spoken(said[n + 1]) /\ \A j \in 1..n : Spoken(said[j]) => Content(said[j]) # Content(said[n + 1])
              THEN FirstSaid(n) \cup {n + 1} ELSE FirstSaid(n)
<1>1. Len(said) \in Nat /\ n \in Nat
  BY DEF TurnTypes
<1>2. FirstSaid(n) \subseteq 1..n
  BY DEF FirstSaid
<1>3. IsFiniteSet(FirstSaid(n)) /\ n + 1 \notin FirstSaid(n)
  <2>1. IsFiniteSet(1..n)
    BY <1>1, FS_Interval
  <2> QED
    BY <1>1, <1>2, <2>1, FS_Subset
<1> DEFINE new(i) == Spoken(said[i]) /\ \A j \in 1..(i - 1) : Spoken(said[j]) => Content(said[j]) # Content(said[i])
<1>4. FirstSaid(n) = {i \in 1..n : new(i)} /\ FirstSaid(n + 1) = {i \in 1..(n + 1) : new(i)}
  BY DEF FirstSaid
<1>5. \A i : i \in 1..(n + 1) <=> i \in 1..n \/ i = n + 1
  BY <1>1
<1>6. new(n + 1) <=> Spoken(said[n + 1]) /\ \A j \in 1..n : Spoken(said[j]) => Content(said[j]) # Content(said[n + 1])
  BY <1>1
<1> HIDE DEF new
<1>7. CASE new(n + 1)
  BY <1>4, <1>5, <1>6, <1>7, <1>2, <1>3
<1>8. CASE ~new(n + 1)
  BY <1>4, <1>5, <1>6, <1>8, <1>2, <1>3
<1> QED
  BY <1>7, <1>8

(* How many new things were said up to one of them.                          *)
LEMMA CountUpTo ==
  ASSUME TurnTypes, NEW n \in 0..Len(said), NEW i \in FirstSaid(n)
  PROVE  Cardinality(FirstSaid(i)) \in 1..Cardinality(FirstSaid(n))
<1>1. n \in Nat /\ i \in 1..n /\ i \in FirstSaid(i) /\ FirstSaid(i) \subseteq FirstSaid(n)
  BY DEF FirstSaid, TurnTypes
<1>2. IsFiniteSet(FirstSaid(n))
  <2>1. IsFiniteSet(1..n) /\ FirstSaid(n) \subseteq 1..n
    BY <1>1, FS_Interval DEF FirstSaid
  <2> QED
    BY <2>1, FS_Subset
<1>3. /\ IsFiniteSet(FirstSaid(i)) /\ Cardinality(FirstSaid(i)) \in Nat /\ Cardinality(FirstSaid(n)) \in Nat
      /\ Cardinality(FirstSaid(i)) <= Cardinality(FirstSaid(n))
  BY <1>1, <1>2, FS_Subset, FS_CardinalityType
<1>4. Cardinality(FirstSaid(i)) # 0
  BY <1>1, <1>3, FS_EmptySet
<1> QED
  BY <1>3, <1>4

LEMMA OnceNew ==
  \A S : \A s \in Seq(S) : \A x \in S : IsInjective(s) /\ x \notin Range(s) =>
    /\ Range(Once(s, x)) = Range(s) \cup {x} /\ Len(Once(s, x)) = Len(s) + 1
    /\ Once(s, x)[Len(s) + 1] = x /\ \A i \in 1..Len(s) : Once(s, x)[i] = s[i]
<1> SUFFICES ASSUME NEW S, NEW s \in Seq(S), NEW x \in S, IsInjective(s), x \notin Range(s)
             PROVE  /\ Range(Once(s, x)) = Range(s) \cup {x} /\ Len(Once(s, x)) = Len(s) + 1
                    /\ Once(s, x)[Len(s) + 1] = x /\ \A i \in 1..Len(s) : Once(s, x)[i] = s[i]
  OBVIOUS
<1>1. Range(Once(s, x)) = Range(s) \cup {x}
  BY OnceAdds
<1>2. Once(s, x) = Append(s, x)
  BY DEF Once
<1> QED
  BY <1>1, <1>2

(* The next message is stored, unless it says nothing or nothing new.        *)
LEMMA HeardNext ==
  ASSUME TurnTypes, IsInjective(heard), NEW n \in 0..(Len(said) - 1), HeardJust(n), UNCHANGED <<adapter, said>>,
         heard' = IF Spoken(said[n + 1]) THEN Once(heard, Content(said[n + 1])) ELSE heard
  PROVE  HeardJust(n + 1)'
<1> DEFINE c == Content(said[n + 1])
<1>1. Len(said) \in Nat /\ n \in Nat /\ n + 1 \in 1..Len(said) /\ heard \in Seq(StoredAs(said)) /\ Len(heard) \in Nat
  BY DEF TurnTypes
<1>2. /\ Len(heard) = Cardinality(FirstSaid(n))
      /\ \A i \in FirstSaid(n) : heard[Cardinality(FirstSaid(i))] = Content(said[i])
      /\ Range(heard) = {Content(said[i]) : i \in {j \in 1..n : Spoken(said[j])}}
  BY DEF HeardJust, HeardUpTo
<1>3. Spoken(said[n + 1]) => c \in StoredAs(said)
  BY <1>1, SaidIsStored
<1>4. \A i : Content(said[i])' = Content(said[i]) /\ FirstSaid(i)' = FirstSaid(i)
  <2>1. \A i : Content(said[i])' = Content(said[i]) /\ Spoken(said[i])' = Spoken(said[i])
    BY DEF Content, Spoken
  <2> QED
    BY <2>1 DEF FirstSaid
<1>5. (\A j \in 1..n : Spoken(said[j]) => Content(said[j]) # c) <=> c \notin Range(heard)
  BY <1>2
<1>6. {Content(said[i]) : i \in {j \in 1..(n + 1) : Spoken(said[j])}}
        = IF Spoken(said[n + 1]) THEN Range(heard) \cup {c} ELSE Range(heard)
  <2>1. \A i : i \in 1..(n + 1) <=> i \in 1..n \/ i = n + 1
    BY <1>1
  <2> QED
    BY <1>2, <2>1
<1>7. HeardJust(n + 1)' <=>
        /\ Len(heard') = Cardinality(FirstSaid(n + 1))
        /\ \A i \in FirstSaid(n + 1) : heard'[Cardinality(FirstSaid(i))] = Content(said[i])
        /\ Range(heard') = {Content(said[i]) : i \in {j \in 1..(n + 1) : Spoken(said[j])}}
  <2>1. HeardUpTo(n + 1)' <=>
          /\ Len(heard') = Cardinality(FirstSaid(n + 1))
          /\ \A i \in FirstSaid(n + 1) : heard'[Cardinality(FirstSaid(i))] = Content(said[i])
    <3>1. HeardUpTo(n + 1)' <=>
            /\ Len(heard') = Cardinality(FirstSaid(n + 1)')
            /\ \A i \in FirstSaid(n + 1)' : heard'[Cardinality(FirstSaid(i)')] = Content(said[i])'
      BY DEF HeardUpTo
    <3> QED
      BY <1>4, <3>1
  <2>2. {Content(said[i]) : i \in {j \in 1..(n + 1) : Spoken(said[j])}}'
          = {Content(said[i]) : i \in {j \in 1..(n + 1) : Spoken(said[j])}}
    BY DEF Content, Spoken
  <2>3. HeardJust(n + 1)' <=> HeardUpTo(n + 1)' /\ Range(heard)' = {Content(said[i]) : i \in {j \in 1..(n + 1) : Spoken(said[j])}}'
    BY DEF HeardJust
  <2>4. Range(heard)' = Range(heard')
    BY DEF Range
  <2> QED
    BY <2>1, <2>2, <2>3, <2>4
<1>8. /\ IsFiniteSet(FirstSaid(n)) /\ n + 1 \notin FirstSaid(n)
      /\ FirstSaid(n + 1) = IF Spoken(said[n + 1]) /\ c \notin Range(heard) THEN FirstSaid(n) \cup {n + 1} ELSE FirstSaid(n)
  BY <1>5, FirstSaidNext
<1> HIDE DEF c
<1>9. CASE ~Spoken(said[n + 1])
  BY <1>2, <1>6, <1>7, <1>8, <1>9
<1>10. CASE Spoken(said[n + 1]) /\ c \in Range(heard)
  <2>1. heard' = heard
    BY <1>10 DEF Once, c
  <2> QED
    BY <1>2, <1>6, <1>7, <1>8, <1>10, <2>1
<1>11. CASE Spoken(said[n + 1]) /\ c \notin Range(heard)
  <2>1. heard' = Once(heard, c) /\ c \in StoredAs(said)
    BY <1>3, <1>11 DEF c
  <2>2. /\ Range(heard') = Range(heard) \cup {c} /\ Len(heard') = Len(heard) + 1
        /\ heard'[Len(heard) + 1] = c /\ \A i \in 1..Len(heard) : heard'[i] = heard[i]
    <3>1. /\ Range(Once(heard, c)) = Range(heard) \cup {c} /\ Len(Once(heard, c)) = Len(heard) + 1
          /\ Once(heard, c)[Len(heard) + 1] = c /\ \A i \in 1..Len(heard) : Once(heard, c)[i] = heard[i]
      BY <1>1, <1>11, <2>1, OnceNew
    <3> QED
      BY <2>1, <3>1
  <2>3. Cardinality(FirstSaid(n + 1)) = Len(heard) + 1
    BY <1>2, <1>8, <1>11, FS_AddElement
  <2>4. ASSUME NEW i \in FirstSaid(n + 1) PROVE heard'[Cardinality(FirstSaid(i))] = Content(said[i])
    <3>1. CASE i = n + 1
      BY <2>2, <2>3, <3>1 DEF c
    <3>2. CASE i \in FirstSaid(n)
      <4>1. Cardinality(FirstSaid(i)) \in 1..Len(heard)
        <5>1. n \in 0..Len(said)
          BY <1>1
        <5> QED
          BY <1>2, <3>2, <5>1, CountUpTo
      <4> QED
        BY <1>2, <2>2, <3>2, <4>1
    <3> QED
      BY <1>8, <1>11, <3>1, <3>2
  <2> QED
    BY <1>6, <1>7, <1>11, <2>2, <2>3, <2>4
<1> QED
  BY <1>9, <1>10, <1>11

LEMMA RememberOneKeeps == ASSUME TurnInv, RememberOne PROVE TurnInv'
<1>1. /\ stage = "remember" /\ toRemember # <<>> /\ toRemember' = Tail(toRemember)
      /\ heard' = IF Spoken(Head(toRemember)) THEN Once(heard, Content(Head(toRemember))) ELSE heard
      /\ UNCHANGED <<adapter, said, stage, block, inFlight, dropped, caughtUp>>
  BY DEF RememberOne
<1>2. TurnTypes /\ IsInjective(heard) /\ NodeRemembers /\ MiddlewareSends
  BY DEF TurnInv
<1>3. adapter = "node"
  BY <1>1, <1>2 DEF MiddlewareSends
<1>4. /\ said \in Seq(TurnMessages) /\ Len(said) \in Nat /\ heard \in Seq(StoredAs(said))
      /\ toRemember \in Seq(TurnMessages) /\ Len(toRemember) \in Nat \ {0}
  BY <1>1, <1>2 DEF TurnTypes
<1>5. /\ toRemember' \in Seq(TurnMessages) /\ Len(toRemember') = Len(toRemember) - 1
      /\ \A i \in 1..Len(toRemember') : toRemember'[i] = toRemember[i + 1]
      /\ Head(toRemember) = toRemember[1]
  BY <1>1, <1>4
<1>6. /\ inFlight = {} /\ Len(toRemember) <= Len(said)
      /\ \A i \in 1..Len(toRemember) : toRemember[i] = said[Len(said) - Len(toRemember) + i]
  BY <1>1, <1>2, <1>3 DEF NodeRemembers
<1>7. PICK n \in 0..Len(said) : HeardJust(n) /\ n + Len(toRemember) >= Len(said)
  BY <1>1, <1>2, <1>3 DEF NodeRemembers
<1> PICK k \in 1..Len(said) : k = Len(said) - Len(toRemember) + 1
  BY <1>4, <1>6
<1>8. Head(toRemember) = said[k]
  BY <1>4, <1>5, <1>6
<1>9. Spoken(said[k]) => Content(said[k]) \in StoredAs(said)
  BY <1>2, SaidIsStored
<1>10. heard' \in Seq(StoredAs(said)) /\ IsInjective(heard')
  BY <1>1, <1>2, <1>4, <1>8, <1>9, OnceAdds
<1>11. StoredAs(said)' = StoredAs(said)
  BY <1>1 DEF StoredAs, Content, Spoken
<1>12. TurnTypes'
  BY <1>1, <1>2, <1>5, <1>10, <1>11 DEF TurnTypes
<1>13. \E l \in 0..Len(said) : HeardJust(l)' /\ l + Len(toRemember') >= Len(said)
  <2>1. CASE k <= n
    <3>1. Spoken(said[k]) => Content(said[k]) \in Range(heard)
      <4>1. k \in 1..n
        BY <2>1, <1>4
      <4> QED
        BY <1>7, <4>1 DEF HeardJust
    <3>2. heard' = heard
      BY <1>1, <1>8, <3>1 DEF Once
    <3>3. HeardJust(n)'
      BY <1>1, <1>7, <3>2, SameHeard
    <3> QED
      BY <2>1, <3>3, <1>4, <1>5
  <2>2. CASE k = n + 1
    <3>1. n \in 0..(Len(said) - 1)
      BY <2>2, <1>4
    <3>2. HeardJust(n + 1)'
      BY <1>1, <1>2, <1>7, <1>8, <2>2, <3>1, HeardNext
    <3>3. HeardJust(k)' /\ k \in 0..Len(said) /\ k + Len(toRemember') >= Len(said)
      BY <2>2, <3>2, <1>4, <1>5
    <3> QED
      BY <3>3
  <2>3. k <= n \/ k = n + 1
    <3>1. n \in Nat /\ k \in Nat
      BY <1>4
    <3>2. k <= n + 1
      BY <1>4, <1>7
    <3> QED
      BY <3>1, <3>2
  <2> QED
    BY <2>1, <2>2, <2>3
<1>14. NodeRemembers'
  <2>1. ASSUME NEW i \in 1..Len(toRemember') PROVE toRemember'[i] = said[Len(said) - Len(toRemember') + i]
    <3>1. /\ i + 1 \in 1..Len(toRemember) /\ Len(said) - Len(toRemember) + (i + 1) = Len(said) - Len(toRemember') + i
      BY <1>4, <1>5
    <3> QED
      BY <3>1, <1>5, <1>6
  <2>2. Len(toRemember') <= Len(said)
    BY <1>4, <1>5, <1>6
  <2> QED
    BY <1>1, <1>6, <1>13, <2>1, <2>2 DEF NodeRemembers
<1>15. MiddlewareSends'
  BY <1>1, <1>3 DEF MiddlewareSends
<1> QED
  BY <1>2, <1>10, <1>12, <1>14, <1>15 DEF TurnInv

LEMMA RememberFailsKeeps == ASSUME TurnInv, RememberFails PROVE TurnInv'
<1>1. /\ stage = "remember" /\ toRemember' = <<>> /\ stage' = "idle" /\ dropped' = dropped + 1 /\ caughtUp' = FALSE
      /\ UNCHANGED <<adapter, said, block, inFlight, heard>>
  BY DEF RememberFails
<1>2. TurnTypes /\ IsInjective(heard) /\ NodeRemembers /\ MiddlewareSends
  BY DEF TurnInv
<1>3. adapter = "node"
  BY <1>1, <1>2 DEF MiddlewareSends
<1>4. /\ StoredAs(said)' = StoredAs(said) /\ heard' \in Seq(StoredAs(said)')
      /\ \A n : HeardJust(n)' <=> HeardJust(n)
  BY <1>1, TalkSame
<1>5. toRemember' \in Seq(TurnMessages)
  BY <1>1
<1>6. NodeRemembers'
  BY <1>1, <1>2, <1>3, <1>4 DEF NodeRemembers
<1> QED
  BY <1>1, <1>2, <1>3, <1>4, <1>5, <1>6 DEF TurnInv, TurnTypes, MiddlewareSends

(* A remember() that goes through has caught up.                             *)
LEMMA RememberedKeeps == ASSUME TurnInv, Remembered PROVE TurnInv'
<1>1. /\ stage = "remember" /\ toRemember = <<>> /\ stage' = "idle" /\ caughtUp' = TRUE
      /\ UNCHANGED <<adapter, said, block, toRemember, inFlight, heard, dropped>>
  BY DEF Remembered
<1>2. TurnTypes /\ IsInjective(heard) /\ NodeRemembers /\ MiddlewareSends
  BY DEF TurnInv
<1>3. adapter = "node"
  BY <1>1, <1>2 DEF MiddlewareSends
<1>4. /\ StoredAs(said)' = StoredAs(said) /\ heard' \in Seq(StoredAs(said)')
      /\ \A n : HeardJust(n)' <=> HeardJust(n)
  BY <1>1, TalkSame
<1>5. HeardJust(Len(said)) /\ inFlight = {} /\ Len(said) \in 0..Len(said)
  <2>1. PICK n \in 0..Len(said) : HeardJust(n) /\ n + Len(toRemember) >= Len(said)
    BY <1>1, <1>2, <1>3 DEF NodeRemembers
  <2>2. Len(said) \in Nat /\ Len(toRemember) = 0
    BY <1>1, <1>2 DEF TurnTypes
  <2>3. n = Len(said)
    BY <2>1, <2>2
  <2> QED
    BY <1>1, <1>2, <1>3, <2>1, <2>2, <2>3 DEF NodeRemembers
<1>6. NodeRemembers'
  BY <1>1, <1>2, <1>3, <1>4, <1>5 DEF NodeRemembers
<1> QED
  BY <1>1, <1>2, <1>3, <1>4, <1>6 DEF TurnInv, TurnTypes, MiddlewareSends

(* A request that arrives was told before and is told still.                 *)
LEMMA RequestArrivesKeeps ==
  ASSUME TurnInv, NEW request \in inFlight, RequestArrives(request) PROVE TurnInv'
<1>1. /\ inFlight' = inFlight \ {request} /\ heard' = Once(heard, request[2])
      /\ UNCHANGED <<adapter, said, stage, block, toRemember, dropped, caughtUp>>
  BY DEF RequestArrives
<1>2. TurnTypes /\ IsInjective(heard) /\ NodeRemembers /\ MiddlewareSends
  BY DEF TurnInv
<1>3. adapter # "node"
  BY <1>2 DEF NodeRemembers
<1>4. /\ StoredAs(said)' = StoredAs(said) /\ \A i : Content(said[i])' = Content(said[i])
      /\ \A i : ToBeSent(i)' <=> ToBeSent(i)
  BY <1>1 DEF StoredAs, Content, Spoken, ToBeSent, LatestUser
<1>5. heard \in Seq(StoredAs(said)) /\ request[2] \in StoredAs(said)
  BY <1>2 DEF TurnTypes
<1>6. heard' \in Seq(StoredAs(said)) /\ IsInjective(heard') /\ Range(heard') = Range(heard) \cup {request[2]}
  <2>1. /\ Once(heard, request[2]) \in Seq(StoredAs(said)) /\ IsInjective(Once(heard, request[2]))
        /\ Range(Once(heard, request[2])) = Range(heard) \cup {request[2]}
    BY <1>2, <1>5, OnceAdds
  <2> QED
    BY <1>1, <2>1
<1>7. Told' = Told
  <2>1. Told' = Range(heard') \cup {r[2] : r \in inFlight'}
    BY DEF Told, Range
  <2>2. {r[2] : r \in inFlight} = {request[2]} \cup {r[2] : r \in inFlight'}
    BY <1>1
  <2> QED
    BY <1>6, <2>1, <2>2 DEF Told
<1>8. TurnTypes'
  BY <1>1, <1>2, <1>4, <1>6 DEF TurnTypes
<1>9. MiddlewareSends'
  <2>1. stage \in {"recall", "model"} => \E i \in 1..Len(said) : LatestUser(i)'
    BY <1>1, <1>2, <1>3 DEF MiddlewareSends, LatestUser
  <2> QED
    BY <1>1, <1>2, <1>3, <1>4, <1>7, <2>1 DEF MiddlewareSends
<1> QED
  BY <1>1, <1>3, <1>6, <1>8, <1>9 DEF TurnInv, NodeRemembers

LEMMA LoseTurnKeeps == ASSUME TurnInv, NEW request \in inFlight, LoseTurn(request) PROVE TurnInv'
<1>1. /\ inFlight' = inFlight \ {request} /\ dropped' = dropped + 1
      /\ UNCHANGED <<adapter, said, stage, block, toRemember, heard, caughtUp>>
  BY DEF LoseTurn
<1>2. TurnTypes /\ IsInjective(heard) /\ NodeRemembers /\ MiddlewareSends
  BY DEF TurnInv
<1>3. adapter # "node"
  BY <1>2 DEF NodeRemembers
<1>4. /\ StoredAs(said)' = StoredAs(said) /\ heard' \in Seq(StoredAs(said)')
      /\ \A i : LatestUser(i)' <=> LatestUser(i)
  BY <1>1, TalkSame
<1>5. dropped \in Nat /\ dropped' # 0
  BY <1>1, <1>2 DEF TurnTypes
<1> QED
  BY <1>1, <1>2, <1>3, <1>4, <1>5 DEF TurnInv, TurnTypes, NodeRemembers, MiddlewareSends

LEMMA TurnStep == TurnInv /\ [TurnNext]_turnVars => TurnInv'
<1> SUFFICES ASSUME TurnInv, [TurnNext]_turnVars PROVE TurnInv'
  OBVIOUS
<1>1. CASE \E text \in Utterances : SayTurn(text)
  BY <1>1, SayTurnKeeps
<1>2. CASE \E context \in BOOLEAN : RecallTurn(context)
  BY <1>2, RecallTurnKeeps
<1>3. CASE \E text \in Utterances \cup {Silence} : Generated(text) \/ Streamed(text) \/ Replied(text)
  BY <1>3, GeneratedKeeps, StreamedKeeps, RepliedKeeps
<1>4. CASE StreamEnds \/ StreamCut \/ TurnFails
  BY <1>4, StreamEndsKeeps, StreamCutKeeps, TurnFailsKeeps
<1>5. CASE RememberOne \/ RememberFails \/ Remembered
  BY <1>5, RememberOneKeeps, RememberFailsKeeps, RememberedKeeps
<1>6. CASE \E request \in inFlight : RequestArrives(request) \/ LoseTurn(request)
  BY <1>6, RequestArrivesKeeps, LoseTurnKeeps
<1>7. CASE UNCHANGED turnVars
  <2>1. UNCHANGED <<adapter, said, heard, inFlight, stage, block, toRemember, dropped, caughtUp>>
    BY <1>7 DEF turnVars
  <2>2. /\ StoredAs(said)' = StoredAs(said) /\ \A i : Content(said[i])' = Content(said[i])
        /\ \A n : HeardJust(n)' <=> HeardJust(n)
    BY <2>1, TalkSame
  <2>3. Told' = Told /\ \A i : (ToBeSent(i)' <=> ToBeSent(i)) /\ (LatestUser(i)' <=> LatestUser(i))
    BY <2>1 DEF Told, ToBeSent, LatestUser
  <2>4. NodeRemembers' /\ MiddlewareSends' /\ TurnTypes'
    BY <2>1, <2>2, <2>3 DEF TurnInv, NodeRemembers, MiddlewareSends, TurnTypes
  <2> QED
    BY <2>1, <2>4 DEF TurnInv
<1> QED
  BY <1>1, <1>2, <1>3, <1>4, <1>5, <1>6, <1>7 DEF TurnNext

LEMMA TurnsHeardThen == TurnInv => TurnsHeard
<1> SUFFICES ASSUME TurnInv PROVE TurnsHeard
  OBVIOUS
<1>1. TurnTypes /\ IsInjective(heard) /\ NodeRemembers /\ MiddlewareSends
  BY DEF TurnInv
<1>2. Range(heard) \subseteq StoredAs(said)
  BY <1>1 DEF TurnTypes, Range
<1>3. ASSUME adapter # "node", stage = "idle", inFlight = {}, dropped = 0 PROVE StoredAs(said) \subseteq Range(heard)
  <2>1. \A i \in 1..Len(said) : Spoken(said[i]) => Content(said[i]) \in Told
    BY <1>1, <1>3 DEF MiddlewareSends, ToBeSent
  <2>2. Told = Range(heard)
    BY <1>3 DEF Told
  <2>3. DOMAIN said = 1..Len(said)
    BY <1>1 DEF TurnTypes
  <2> QED
    BY <2>1, <2>2, <2>3 DEF StoredAs
<1> QED
  BY <1>1, <1>2, <1>3 DEF TurnsHeard, NodeRemembers, HeardJust

(***************************************************************************)
(* What the core hears of a conversation, whatever is lost, cut or raised:  *)
(* each thing once, nothing nobody said, the node's part in its order and,   *)
(* after a remember() that went through, to the end.  TurnInv says what is   *)
(* still owed: the node's conversation was heard up to where toRemember      *)
(* begins, and of the middleware's only the latest user's words and the      *)
(* stream's are not yet sent.                                               *)
(***************************************************************************)
THEOREM ConversationHeard == TurnSpec => []TurnsHeard
<1>1. TurnSpec => []TurnInv
  BY TurnInitInv, TurnStep, PTL DEF TurnSpec
<1> QED
  BY <1>1, TurnsHeardThen, PTL
=============================================================================
