---------------------------- MODULE ChatHistory ----------------------------
(***************************************************************************)
(* ArangoChatMessageHistory (langchain/history.py): the chat history of one *)
(* session.  An object counts the session's episodes once, when it is made, *)
(* and numbers its messages from there; the key of a message is its number  *)
(* and its text, and an episode whose key exists is not inserted again.     *)
(* Several objects may be open on the session.                              *)
(***************************************************************************)
EXTENDS Naturals, Sequences

CONSTANTS
  Histories,      \* history objects
  Texts,          \* non-empty message texts: add_message drops an empty one
  MaxLog,         \* bound: episodes of the session
  MaxTurn         \* bound: number of a message

ASSUME HistoryAssumption == MaxLog \in Nat /\ MaxTurn \in Nat

VARIABLES
  log,            \* the session's episodes as ingested: text and turn
  cleared,        \* how many of them were there when the session was last cleared
  histories,      \* per object: open, its next turn, and whether an add failed under it
  told,           \* history: texts whose add returned, since the last clear
  behind,         \* history: objects that do not count some other object's add
  clean           \* history: no add by an object behind, no clear over a failed add

historyVars == <<log, cleared, histories, told, behind, clean>>

Closed == [open |-> FALSE, turn |-> 0, failed |-> FALSE]

HistoryInit ==
  /\ log = <<>> /\ cleared = 0 /\ told = <<>>
  /\ histories = [h \in Histories |-> Closed]
  /\ behind = {} /\ clean = TRUE

\* Mutant: cleared episodes are not counted.
CountValid == Len(log) - cleared
ExistingCount == Len(log)

OpenHistory(h) ==
  /\ histories' = [histories EXCEPT ![h] = [open |-> TRUE, turn |-> ExistingCount, failed |-> FALSE]]
  /\ behind' = behind \ {h}
  /\ UNCHANGED <<log, cleared, told, clean>>

\* The message is ignored when an episode, cleared or not, has its key.
Inserted(text, turn) ==
  IF \E i \in DOMAIN log : log[i].text = text /\ log[i].turn = turn THEN log
  ELSE Append(log, [text |-> text, turn |-> turn])

\* Fails: store() raises after its episode insert, and the turn stays.
AddMessage(h, text, fails) ==
  /\ histories[h].open /\ Len(log) < MaxLog /\ histories[h].turn < MaxTurn
  /\ log' = Inserted(text, histories[h].turn)
  /\ LET turn == histories[h].turn
     IN histories' = [histories EXCEPT ![h] =
          [open |-> TRUE, turn |-> IF fails THEN turn ELSE turn + 1, failed |-> fails]]
  /\ told' = IF fails THEN told ELSE Append(told, text)
  /\ behind' = behind \cup {k \in Histories \ {h} : histories[k].open}
  /\ clean' = (clean /\ h \notin behind)
  /\ UNCHANGED cleared

\* Every episode of the session stops being valid; none is removed.
Clear ==
  /\ cleared' = Len(log)
  /\ told' = <<>>
  /\ clean' = (clean /\ \A h \in Histories : ~histories[h].failed)
  /\ UNCHANGED <<log, histories, behind>>

HistoryNext ==
  \/ \E h \in Histories :
       OpenHistory(h) \/ \E text \in Texts, fails \in BOOLEAN : AddMessage(h, text, fails)
  \/ Clear

HistorySpec == HistoryInit /\ [][HistoryNext]_historyVars

\* The messages a history shows: the valid episodes, in ingestion order.
Messages == [i \in 1..(Len(log) - cleared) |-> log[cleared + i].text]

\* As long as an object that missed another's add is not used again, every
\* message whose add returned since the last clear is shown, each by an episode
\* of its own and in the order of the adds, also after adds that raised and for
\* equal texts (langchain/history.py:78, :121).
TranscriptKeepsAdds ==
  clean => \E place \in [DOMAIN told -> DOMAIN Messages] :
    \A i \in DOMAIN told : /\ told[i] = Messages[place[i]]
                           /\ \A j \in 1..(i - 1) : place[j] < place[i]
=============================================================================
