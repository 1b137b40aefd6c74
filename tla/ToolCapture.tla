---------------------------- MODULE ToolCapture ----------------------------
(***************************************************************************)
(* Tool traces captured from a conversation: the middleware of the Vercel   *)
(* client (packages/vercel/src/index.ts), which fires a capture after each  *)
(* model call and does not await it, and the LangGraph node                 *)
(* (langchain/graph.py), which captures within remember(), in the thread    *)
(* that called it.  Both remember the calls they have seen and the key of    *)
(* the last step they recorded.                                             *)
(***************************************************************************)
EXTENDS Naturals, Sequences

CONSTANTS
  Captures,       \* captures, one per model call or remember()
  Prompts,        \* prompts a capture may read: sequences of completed tool calls
  StepKey,        \* [tool call -> key of its step]: calls of one tool and outcome share it
  MaxLost         \* bound: requests or replies lost, statements failed

ASSUME CaptureAssumption == Prompts \subseteq Seq(DOMAIN StepKey) /\ MaxLost \in Nat

NoStep == "no step"

VARIABLES
  kind,           \* "middleware" or "node"
  seen,           \* state.seen, _seen_tools
  lastStep,       \* state.lastStepKey, _last_step_key
  captures,       \* per capture: where it is, the calls left, the step in flight
  traces,         \* steps the core received, in order: the call and prev_step_key
  lost,           \* bounded count
  together        \* history: two captures ran at once

captureVars == <<kind, seen, lastStep, captures, traces, lost, together>>

Waiting == [pc |-> "new", todo |-> <<>>, prev |-> NoStep]
Running(c) == captures[c].pc \notin {"new", "done"}
Tool(c) == Head(captures[c].todo)

CaptureInit ==
  /\ kind \in {"middleware", "node"}
  /\ seen = {} /\ lastStep = NoStep /\ traces = <<>> /\ lost = 0 /\ together = FALSE
  /\ captures = [c \in Captures |-> Waiting]

\* afterTurn and remember: the completed calls of the prompt, oldest first.
StartCapture(c, prompt) ==
  /\ captures[c].pc = "new"
  /\ captures' = [captures EXCEPT ![c] = [Waiting EXCEPT !.pc = "next", !.todo = prompt]]
  /\ together' = (together \/ \E d \in Captures : Running(d))
  /\ UNCHANGED <<kind, seen, lastStep, traces, lost>>

\* Mutant: a call is marked seen when its step was answered.
SeenOnReply(tool, when) == IF when = "answered" THEN seen \cup {tool} ELSE seen
SeenOnSend(tool, when) == IF when = "sent" THEN seen \cup {tool} ELSE seen

\* The calls already seen are skipped.  In the middleware the request of the
\* first other one is built at once, with the last step key as it is now; a
\* thread of the node may be interrupted before it marks the call and before it
\* reads the key.
Send(c) ==
  /\ captures[c].pc = "next"
  /\ LET todo == captures[c].todo
         unseen == {i \in DOMAIN todo : todo[i] \notin seen}
     IN IF unseen = {}
        THEN /\ captures' = [captures EXCEPT ![c] = [Waiting EXCEPT !.pc = "done"]]
             /\ UNCHANGED seen
        ELSE \E i \in unseen :
               /\ \A j \in unseen : i <= j
               /\ captures' = [captures EXCEPT ![c] =
                    [pc |-> IF kind = "node" THEN "checked" ELSE "sent",
                     todo |-> SubSeq(todo, i, Len(todo)), prev |-> lastStep]]
               /\ seen' = IF kind = "node" THEN seen ELSE SeenOnSend(todo[i], "sent")
  /\ UNCHANGED <<kind, lastStep, traces, lost, together>>

MarkSeen(c) ==
  /\ captures[c].pc = "checked"
  /\ seen' = SeenOnSend(Tool(c), "sent")
  /\ captures' = [captures EXCEPT ![c].pc = "marked"]
  /\ UNCHANGED <<kind, lastStep, traces, lost, together>>

Record(c) ==
  /\ captures[c].pc = "marked"
  /\ captures' = [captures EXCEPT ![c].pc = "sent", ![c].prev = lastStep]
  /\ UNCHANGED <<kind, seen, lastStep, traces, lost, together>>

Receive(c) ==
  /\ captures[c].pc = "sent"
  /\ traces' = Append(traces, [tool |-> Tool(c), prev |-> captures[c].prev])
  /\ captures' = [captures EXCEPT ![c].pc = "received"]
  /\ UNCHANGED <<kind, seen, lastStep, lost, together>>

StepAnswered(c) ==
  /\ captures[c].pc = "received"
  /\ lastStep' = StepKey[Tool(c)]
  /\ seen' = SeenOnSend(Tool(c), "answered")
  /\ captures' = [captures EXCEPT ![c].pc = "next", ![c].todo = Tail(@)]
  /\ UNCHANGED <<kind, traces, lost, together>>

\* The request or its answer is lost, or refused: the middleware goes on with
\* the next call; in the node the exception ends remember().
StepUnanswered(c) ==
  /\ captures[c].pc \in {"sent", "received"} /\ lost < MaxLost
  /\ captures' = [captures EXCEPT ![c] =
       IF kind = "node" THEN [Waiting EXCEPT !.pc = "done"]
       ELSE [captures[c] EXCEPT !.pc = "next", !.todo = Tail(captures[c].todo)]]
  /\ lost' = lost + 1
  /\ UNCHANGED <<kind, seen, lastStep, traces, together>>

CaptureNext ==
  \E c \in Captures :
    \/ \E prompt \in Prompts : StartCapture(c, prompt)
    \/ Send(c) \/ MarkSeen(c) \/ Record(c) \/ Receive(c) \/ StepAnswered(c) \/ StepUnanswered(c)

CaptureSpec == CaptureInit /\ [][CaptureNext]_captureVars

\* A trace follows one received before it.  Every tool call is traced at most
\* once, however the middleware's captures overlap; two threads in one node's
\* remember() may both find a call not seen.  While captures do not overlap and
\* nothing is lost, the traces form one chain in the order of the calls
\* (packages/vercel/src/index.ts:141-152, langchain/graph.py:126-139).
Follows(i) ==
  traces[i].prev = (IF i = 1 THEN NoStep ELSE StepKey[traces[i - 1].tool])
TracedOnceInOrder ==
  /\ kind = "middleware" \/ ~together =>
       \A i, j \in DOMAIN traces : traces[i].tool = traces[j].tool => i = j
  /\ \A i \in DOMAIN traces : traces[i].prev # NoStep =>
       \E j \in 1..(i - 1) : StepKey[traces[j].tool] = traces[i].prev
  /\ ~together /\ lost = 0 => \A i \in DOMAIN traces : Follows(i)
=============================================================================
