---------------------------- MODULE TurnCapture ----------------------------
(***************************************************************************)
(* How a conversation reaches the core, besides its tool calls: the Vercel  *)
(* middleware (packages/vercel/src/index.ts), which retrieves before each    *)
(* model call and stores after it in requests that nothing awaits, and the  *)
(* LangGraph nodes (langchain/graph.py), where remember() stores every      *)
(* message again.  A turn may take several model calls, with tool results   *)
(* in between.  The core keeps a content once (store()).                    *)
(***************************************************************************)
EXTENDS Naturals, Sequences, FiniteSets, FiniteSetsExt, Functions

CONSTANTS
  Utterances,     \* texts of users, models and tools
  MaxSaid,        \* bound: messages of the conversation
  MaxDropped      \* bound: requests lost, streams cut, stores that raise

Silence == ""

ASSUME TurnAssumption == Silence \notin Utterances /\ MaxSaid \in Nat /\ MaxDropped \in Nat

VARIABLES
  adapter,        \* "generate", "stream" or "node"
  said,           \* the conversation: [role, text] each
  stage,          \* of the turn: "idle", "recall", "model", "streaming", "remember"
  block,          \* the prompt of this model call begins with a memory block
  toRemember,     \* messages left for remember()
  inFlight,       \* requests under way
  heard,          \* contents the core stored, in order
  dropped,        \* bounded count
  caughtUp        \* history: the last remember() went through

turnVars == <<adapter, said, stage, block, toRemember, inFlight, heard, dropped, caughtUp>>

Message(role, text) == [role |-> role, text |-> text]
MemoryBlock == Message("system", "memory context")

TurnInit ==
  /\ adapter \in {"generate", "stream", "node"}
  /\ said = <<>> /\ stage = "idle" /\ block = FALSE /\ toRemember = <<>>
  /\ inFlight = {} /\ heard = <<>> /\ dropped = 0 /\ caughtUp = TRUE

\* What a message is stored as: the middleware marks the model's own text.
Spoken(m) == m.role \in {"user", "model"} /\ m.text # Silence
Content(m) == IF adapter = "node" THEN <<"", m.text>> ELSE <<m.role, m.text>>
StoredAs(messages) ==
  {Content(messages[i]) : i \in {j \in DOMAIN messages : Spoken(messages[j])}}

\* store(): a content that is there is not stored again.
Once(stored, content) == IF content \in Range(stored) THEN stored ELSE Append(stored, content)

\* The latest user message.
LastUser(prompt) == prompt[Max({i \in DOMAIN prompt : prompt[i].role = "user"})]

SayTurn(text) ==
  /\ stage = "idle" /\ Len(said) < MaxSaid
  /\ said' = Append(said, Message("user", text))
  /\ stage' = "recall"
  /\ UNCHANGED <<adapter, block, toRemember, inFlight, heard, dropped, caughtUp>>

\* transformParams and recall: an empty answer, and in the middleware a fault or
\* the timeout, leave the prompt as it is.  recall() adds its block to the conversation.
RecallTurn(context) ==
  /\ stage = "recall"
  /\ block' = (context /\ adapter # "node")
  /\ said' = IF context /\ adapter = "node" THEN Append(said, MemoryBlock) ELSE said
  /\ stage' = "model"
  /\ UNCHANGED <<adapter, toRemember, inFlight, heard, dropped, caughtUp>>

\* Requests of one model call are told apart by the length of the conversation.
Sends(messages) == {<<Len(said), Content(m)>> : m \in {x \in messages : Spoken(x)}}

Prompt == IF block THEN <<MemoryBlock>> \o said ELSE said
FromModel(text) == Append(said, Message("model", text))

\* wrapGenerate: the user's text and the model's own are sent, neither awaited;
\* the host may go on with a tool result and another call.
Generated(text) ==
  /\ stage = "model" /\ adapter = "generate"
  /\ inFlight' = inFlight \cup Sends({LastUser(Prompt), Message("model", text)})
  /\ \/ said' = FromModel(text) /\ stage' = "idle"
     \/ /\ Len(said) < MaxSaid
        /\ \E result \in Utterances : said' = Append(FromModel(text), Message("tool", result))
        /\ stage' = "recall"
  /\ UNCHANGED <<adapter, block, toRemember, heard, dropped, caughtUp>>

\* wrapStream: the user's text at once, the model's when the stream has ended.
Streamed(text) ==
  /\ stage = "model" /\ adapter = "stream"
  /\ inFlight' = inFlight \cup Sends({LastUser(Prompt)})
  /\ said' = FromModel(text) /\ stage' = "streaming"
  /\ UNCHANGED <<adapter, block, toRemember, heard, dropped, caughtUp>>

StreamEnds ==
  /\ stage = "streaming"
  /\ inFlight' = inFlight \cup Sends({said[Len(said)]})
  /\ stage' = "idle"
  /\ UNCHANGED <<adapter, said, block, toRemember, heard, dropped, caughtUp>>

StreamCut ==
  /\ stage = "streaming" /\ dropped < MaxDropped
  /\ stage' = "idle" /\ dropped' = dropped + 1
  /\ UNCHANGED <<adapter, said, block, toRemember, inFlight, heard, caughtUp>>

\* The model fails, or the store of the node's recall(), which catches nothing:
\* the turn ends and nothing of it is stored.
TurnFails ==
  /\ stage = "model" \/ (stage = "recall" /\ adapter = "node")
  /\ dropped < MaxDropped
  /\ stage' = "idle" /\ dropped' = dropped + 1 /\ caughtUp' = FALSE
  /\ UNCHANGED <<adapter, said, block, toRemember, inFlight, heard>>

\* Mutant: the latest exchange only.
ExchangeOnly(messages) == SubSeq(messages, Len(messages) - 1, Len(messages))
WholeState(messages) == messages

\* The agent node answers, remember() begins.
Replied(text) ==
  /\ stage = "model" /\ adapter = "node"
  /\ said' = FromModel(text)
  /\ toRemember' = WholeState(FromModel(text))
  /\ stage' = "remember"
  /\ UNCHANGED <<adapter, block, inFlight, heard, dropped, caughtUp>>

\* Memory blocks, tool results and empty messages are skipped.
RememberOne ==
  /\ stage = "remember" /\ toRemember # <<>>
  /\ heard' = IF Spoken(Head(toRemember)) THEN Once(heard, Content(Head(toRemember))) ELSE heard
  /\ toRemember' = Tail(toRemember)
  /\ UNCHANGED <<adapter, said, stage, block, inFlight, dropped, caughtUp>>

\* store() raises, and remember() with it.
RememberFails ==
  /\ stage = "remember" /\ toRemember # <<>> /\ dropped < MaxDropped
  /\ toRemember' = <<>> /\ stage' = "idle"
  /\ dropped' = dropped + 1 /\ caughtUp' = FALSE
  /\ UNCHANGED <<adapter, said, block, inFlight, heard>>

Remembered ==
  /\ stage = "remember" /\ toRemember = <<>>
  /\ stage' = "idle" /\ caughtUp' = TRUE
  /\ UNCHANGED <<adapter, said, block, toRemember, inFlight, heard, dropped>>

\* Requests arrive in any order; storeTurn() swallows what fails.
RequestArrives(request) ==
  /\ inFlight' = inFlight \ {request}
  /\ heard' = Once(heard, request[2])
  /\ UNCHANGED <<adapter, said, stage, block, toRemember, dropped, caughtUp>>

LoseTurn(request) ==
  /\ dropped < MaxDropped
  /\ inFlight' = inFlight \ {request} /\ dropped' = dropped + 1
  /\ UNCHANGED <<adapter, said, stage, block, toRemember, heard, caughtUp>>

TurnNext ==
  \/ \E text \in Utterances : SayTurn(text)
  \/ \E context \in BOOLEAN : RecallTurn(context)
  \/ \E text \in Utterances \cup {Silence} : Generated(text) \/ Streamed(text) \/ Replied(text)
  \/ StreamEnds \/ StreamCut \/ TurnFails
  \/ RememberOne \/ RememberFails \/ Remembered
  \/ \E request \in inFlight : RequestArrives(request) \/ LoseTurn(request)

TurnSpec == TurnInit /\ [][TurnNext]_turnVars

\* The places, among the first n messages, where something is said first; heard
\* is what these say, in their order.
FirstSaid(n) ==
  {i \in 1..n : /\ Spoken(said[i])
                /\ \A j \in 1..(i - 1) : Spoken(said[j]) => Content(said[j]) # Content(said[i])}
HeardUpTo(n) ==
  /\ Len(heard) = Cardinality(FirstSaid(n))
  /\ \A i \in FirstSaid(n) : heard[Cardinality(FirstSaid(i))] = Content(said[i])

\* The core hears each thing once and only what users and models said: no memory
\* block and no tool result comes back as a memory.  The node keeps the order of
\* the conversation whatever fails, and a remember() that goes through makes up
\* for those that did not; with nothing lost or cut the middleware has told
\* everything once its requests arrived (langchain/graph.py:90-113,
\* packages/vercel/src/index.ts:194-200).
TurnsHeard ==
  /\ IsInjective(heard) /\ Range(heard) \subseteq StoredAs(said)
  /\ adapter = "node" =>
       /\ \E n \in 0..Len(said) : HeardUpTo(n)
       /\ stage = "idle" /\ caughtUp => HeardUpTo(Len(said))
  /\ adapter # "node" /\ stage = "idle" /\ inFlight = {} /\ dropped = 0 =>
       Range(heard) = StoredAs(said)
=============================================================================
