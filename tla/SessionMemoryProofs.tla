------------------------ MODULE SessionMemoryProofs ------------------------
(***************************************************************************)
(* The safety properties of SessionMemory, for every set of threads and     *)
(* turns, every capacity and every number of attempts.                      *)
(***************************************************************************)
EXTENDS SessionMemory, FiniteSetTheorems, TLAPS

(* What two commits of one session leave of each other: a commit that did not *)
(* find its turn new repeats an earlier one, and two that run side by side    *)
(* are both disturbed.                                                      *)
Repeats ==
  /\ \A t \in episodes : tries[t] > 0
  /\ \A w \in Busy : tries[turn[w]] > 0
  /\ \A w \in Busy : ~isNew[w] => turn[w] \in disturbed
Overlaps == \A v, w \in Busy : v # w => turn[w] \in disturbed

(* Types and expiry go together.                                            *)
KindsFit ==
  \A t \in Turns : /\ kind[t] = "working" => t \in WorkingTurns
                   /\ kind[t] = "episodic" => ~expires[t]

(* Nothing is newer than the clock; while an undisturbed commit runs, nothing *)
(* newer is stored, and whatever runs after an undisturbed commit is newer.   *)
Times ==
  /\ \A t \in Turns : created[t] <= clock
  /\ \A w \in Writers : now[w] <= clock
  /\ \A w \in Busy : turn[w] \notin disturbed =>
       \A t \in Turns : created[t] <= now[w]
  /\ \A t \in Buffer \ disturbed : \A w \in Busy : created[t] <= now[w]

(* Between the flush and the record of the shift, only disturbed commits put  *)
(* anything into the buffer; an undisturbed commit has seen the last shift.  *)
Flushed ==
  /\ \A w \in Writers : pc[w] = "shift" => Buffer \subseteq disturbed
  /\ \A w \in Writers :
       pc[w] \in {"memory", "sweep"} /\ Tracks(w) /\ turn[w] \notin disturbed =>
         seenBy[turn[w]] = shifts

Inv ==
  /\ TypeOK /\ Repeats /\ Overlaps /\ KindsFit /\ Times /\ Flushed
  /\ BufferBounded /\ ShiftFlushesPrior /\ BufferHoldsNewest /\ ShiftStaysFlagged

LEMMA Shrinks ==
  ASSUME NEW S, NEW T \in SUBSET Turns, S \subseteq T, Cardinality(T) <= Capacity
  PROVE  Cardinality(S) <= Capacity
<1>1. IsFiniteSet(T) BY FS_Subset, SessionAssumption
<1>2. IsFiniteSet(S) /\ Cardinality(S) <= Cardinality(T) BY <1>1, FS_Subset
<1> QED BY <1>1, <1>2, FS_CardinalityType, SessionAssumption

LEMMA InitInv == Init => Inv
<1> SUFFICES ASSUME Init PROVE Inv OBVIOUS
<1>1. TypeOK BY SessionAssumption DEF Init, TypeOK, Location
<1>2. Busy = {} /\ Buffer = {} BY DEF Init, Busy, Buffer
<1>3. BufferBounded
  <2>1. Buffer \ (Owing \cup unswept) = {} BY <1>2
  <2> QED BY <2>1, FS_EmptySet, SessionAssumption DEF BufferBounded
<1>4. Repeats /\ Overlaps /\ KindsFit BY <1>2 DEF Init, Repeats, Overlaps, KindsFit
<1>5. Times /\ Flushed BY <1>2 DEF Init, Times, Flushed
<1>6. ShiftFlushesPrior /\ BufferHoldsNewest /\ ShiftStaysFlagged
  BY <1>2 DEF Init, ShiftFlushesPrior, BufferHoldsNewest, ShiftStaysFlagged
<1> QED BY <1>1, <1>3, <1>4, <1>5, <1>6 DEF Inv

-----------------------------------------------------------------------------
(* A step that keeps the buffer, or takes from it, and forgives no debt keeps  *)
(* the bound.                                                               *)
LEMMA BoundKept ==
  ASSUME Inv, TypeOK', Buffer' \ (Owing' \cup unswept') \subseteq Buffer \ (Owing \cup unswept)
  PROVE  BufferBounded'
<1>1. Buffer \ (Owing \cup unswept) \in SUBSET Turns BY DEF Buffer
<1> QED BY <1>1, Shrinks DEF Inv, BufferBounded

LEMMA BeginKeeps ==
  ASSUME Inv, NEW w \in Writers, NEW t \in Turns, Begin(w, t)
  PROVE  Inv'
<1> USE DEF Inv, TypeOK, Busy, Buffer
<1> t # NoTurn BY SessionAssumption
<1>1. TypeOK'
  <2>1. disturbed' \subseteq Turns BY DEF Begin
  <2> QED BY <2>1 DEF Begin, Go, Location, memoryVars, sessionVars
<1>2. Busy' = Busy \cup {w} /\ w \notin Busy BY DEF Begin, Go, Location
<1>3. /\ turn'[w] = t /\ now'[w] = clock + 1 /\ clock' = clock + 1
      /\ \A v \in Busy : turn'[v] = turn[v] /\ now'[v] = now[v] /\ isNew'[v] = isNew[v] /\ pc'[v] = pc[v]
      /\ pc'[w] = "episode" /\ isNew'[w] = (t \notin episodes)
  BY <1>2 DEF Begin, Go
<1>4. disturbed \subseteq disturbed' /\ \A v \in Busy : turn[v] \in disturbed' BY DEF Begin
<1>5. Busy # {} \/ tries[t] > 0 => t \in disturbed' BY DEF Begin
<1>6. Repeats'
  <2>1. tries'[t] > 0 /\ \A u \in Turns : tries[u] > 0 => tries'[u] > 0 BY DEF Begin
  <2>2. episodes' = episodes BY DEF Begin
  <2>3. \A v \in Busy' : ~isNew'[v] => turn'[v] \in disturbed'
    BY <1>2, <1>3, <1>4, <1>5 DEF Repeats
  <2> QED BY <1>2, <1>3, <2>1, <2>2, <2>3 DEF Repeats
<1>7. Overlaps' BY <1>2, <1>3, <1>4, <1>5 DEF Overlaps
<1>8. kind' = kind /\ expires' = expires /\ created' = created /\ due' = due /\ shifts' = shifts
      /\ seenBy' = seenBy /\ unswept' = unswept
  BY DEF Begin, memoryVars, sessionVars
<1>9. KindsFit' BY <1>8 DEF KindsFit
<1>10. Times'
  <2>1. \A u \in Turns : created'[u] <= clock' BY <1>3, <1>8 DEF Times
  <2>2. \A v \in Writers : now'[v] <= clock' BY <1>3 DEF Times, Begin
  <2>3. \A u \in Turns : created'[u] <= now'[w] BY <1>3, <1>8 DEF Times
  <2>4. \A v \in Busy : turn'[v] \notin disturbed' => \A u \in Turns : created'[u] <= now'[v]
    BY <1>3, <1>4, <1>8
  <2>5. \A u \in Buffer' \ disturbed' : \A v \in Busy : created'[u] <= now'[v]
    BY <1>3, <1>4, <1>8 DEF Times
  <2> QED BY <1>2, <2>1, <2>2, <2>3, <2>4, <2>5 DEF Times
<1>11. Flushed'
  <2>1. \A v \in Writers : pc'[v] = "shift" => v \in Busy /\ pc[v] = "shift" BY <1>2, <1>3
  <2>2. \A v \in Writers : pc'[v] \in {"memory", "sweep"} => v \in Busy BY <1>2, <1>3
  <2>3. \A v \in Busy : Tracks(v)' <=> Tracks(v) BY <1>3 DEF Tracks
  <2> QED BY <1>3, <1>4, <1>8, <2>1, <2>2, <2>3 DEF Flushed
<1>12. BufferBounded'
  <2>1. Owing \subseteq Owing' BY <1>2, <1>3 DEF Owing, Sweeps, Tracks
  <2> QED BY <1>1, <1>8, <2>1, BoundKept
<1>13. ShiftFlushesPrior' BY <1>2, <1>3, <1>4, <1>8 DEF ShiftFlushesPrior
<1>14. BufferHoldsNewest' BY <1>4, <1>8 DEF BufferHoldsNewest
<1>15. ShiftStaysFlagged' BY <1>8 DEF ShiftStaysFlagged
<1> QED BY <1>1, <1>6, <1>7, <1>9, <1>10, <1>11, <1>12, <1>13, <1>14, <1>15 DEF Inv

(* A commit that goes on without touching the memories.                     *)
LEMMA MoveKeeps ==
  ASSUME Inv, NEW w \in Writers, w \in Busy, NEW l \in Location \ {"idle", "sweep"},
         Go(w, l), UNCHANGED <<turn, isNew, now, memoryVars, clock, tries, disturbed, unswept>>,
         prior' \in [Writers -> Nat], episodes' \subseteq episodes \cup {turn[w]},
         seeded' \in BOOLEAN, topic' \in Nat, due' \in BOOLEAN,
         \/ shifts' = shifts /\ (due' <=> due)
         \/ shifts' = shifts + 1 /\ due' /\ pc[w] = "shift",
         l = "memory" => \/ seenBy' = [seenBy EXCEPT ![turn[w]] = shifts']
                         \/ ~Tracks(w) /\ seenBy' = seenBy,
         l # "memory" => seenBy' = seenBy /\ shifts' = shifts,
         l = "shift" => Buffer \subseteq disturbed
  PROVE  Inv'
<1> USE DEF Inv, TypeOK, Busy, Buffer, memoryVars
<1> turn[w] \in Turns OBVIOUS
<1>1. TypeOK'
  <2>1. pc' \in [Writers -> Location] /\ (\A v \in Writers : pc'[v] # "idle" => turn[v] \in Turns)
    BY DEF Go, Location
  <2>2. shifts' \in Nat /\ seenBy' \in [Turns -> Nat]
    <3>1. shifts' \in Nat OBVIOUS
    <3>2. CASE l = "memory" BY <3>1, <3>2
    <3>3. CASE l # "memory" BY <3>1, <3>3
    <3> QED BY <3>1, <3>2, <3>3
  <2>3. episodes' \subseteq Turns OBVIOUS
  <2> QED BY <2>1, <2>2, <2>3
<1>2. Busy' = Busy BY DEF Go, Location
<1>3. Repeats' BY <1>2 DEF Repeats
<1>4. Overlaps' BY <1>2 DEF Overlaps
<1>5. KindsFit' BY DEF KindsFit
<1>6. Times' BY <1>2 DEF Times
<1>7. \A v \in Busy : Tracks(v)' <=> Tracks(v) BY DEF Tracks
<1>8. \A v \in Busy : v # w => pc'[v] = pc[v] /\ turn[v] \in disturbed /\ turn[w] \in disturbed
  BY DEF Go, Overlaps
<1>9. Flushed'
  <2>1. \A v \in Writers : pc'[v] = "shift" => Buffer' \subseteq disturbed'
    BY DEF Flushed, Go
  <2>2. pc'[w] \in {"memory", "sweep"} /\ Tracks(w)' => seenBy'[turn'[w]] = shifts'
    BY <1>7 DEF Go
  <2>3. \A v \in Writers \ {w} : pc'[v] \in {"memory", "sweep"} => turn'[v] \in disturbed'
    BY <1>8 DEF Go, Location
  <2> QED BY <2>1, <2>2, <2>3 DEF Flushed
<1>10. BufferBounded'
  <2>1. Owing \subseteq Owing' BY <1>2, <1>7 DEF Owing, Sweeps
  <2> QED BY <1>1, <2>1, BoundKept
<1>11. ShiftFlushesPrior'
  <2> SUFFICES ASSUME NEW u \in Buffer \ (disturbed \cup BulkTurns)
               PROVE  seenBy'[u] = shifts' \/ \E v \in Busy : turn[v] = u
    BY <1>2 DEF ShiftFlushesPrior
  <2>1. CASE turn[w] = u BY <2>1
  <2>2. CASE turn[w] # u
    <3>1. shifts' = shifts BY DEF Flushed
    <3>2. seenBy'[u] = seenBy[u] BY <2>2
    <3> QED BY <3>1, <3>2 DEF ShiftFlushesPrior
  <2> QED BY <2>1, <2>2
<1>12. BufferHoldsNewest' BY DEF BufferHoldsNewest
<1>13. ShiftStaysFlagged' BY DEF ShiftStaysFlagged
<1> QED BY <1>1, <1>3, <1>4, <1>5, <1>6, <1>9, <1>10, <1>11, <1>12, <1>13 DEF Inv

LEMMA TrackingKeeps ==
  ASSUME Inv, NEW w \in Writers,
         InsertEpisode(w) \/ ReadTopic(w) \/ Seed(w) \/ Shift(w) \/ Blend(w)
  PROVE  Inv'
<1> USE DEF Move, Locals, memoryVars, sessionVars, historyVars, Busy
<1>0. TypeOK /\ turn \in [Writers -> Turns \cup {NoTurn}] /\ Topic \in [Turns -> Nat]
  BY SessionAssumption DEF Inv, TypeOK
<1>1. CASE InsertEpisode(w)
  <2>1. CASE Tracks(w) BY <1>0, <1>1, <2>1, MoveKeeps DEF InsertEpisode, Location, TypeOK
  <2>2. CASE ~Tracks(w) BY <1>0, <1>1, <2>2, MoveKeeps DEF InsertEpisode, Location, TypeOK
  <2> QED BY <2>1, <2>2
<1>2. CASE ReadTopic(w)
  <2>1. PICK l \in {"seed", "flush", "blend"} : Go(w, l) BY <1>2 DEF ReadTopic
  <2>2. prior' \in [Writers -> Nat] BY <1>0, <1>2 DEF ReadTopic, TypeOK
  <2>3. UNCHANGED <<turn, isNew, now, memoryVars, clock, tries, disturbed, unswept>> /\ w \in Busy
    BY <1>2 DEF ReadTopic
  <2>4. episodes' = episodes /\ seeded' = seeded /\ topic' = topic /\ (due' <=> due)
        /\ shifts' = shifts /\ seenBy' = seenBy
    BY <1>2 DEF ReadTopic
  <2> QED BY <1>0, <2>1, <2>2, <2>3, <2>4, MoveKeeps DEF TypeOK, Location
<1>3. CASE Seed(w)
  <2>1. topic' \in Nat /\ turn[w] \in Turns BY <1>0, <1>3 DEF Seed, TypeOK
  <2> QED BY <1>0, <1>3, <2>1, MoveKeeps DEF Seed, Saw, TypeOK, Location
<1>4. CASE Shift(w)
  <2>1. topic' \in Nat /\ turn[w] \in Turns BY <1>0, <1>4 DEF Shift, TypeOK
  <2> QED BY <1>0, <1>4, <2>1, MoveKeeps DEF Shift, Saw, TypeOK, Location
<1>5. CASE Blend(w)
  <2>1. turn[w] \in Turns BY <1>0, <1>5 DEF Blend, TypeOK
  <2>2. topic' \in Nat BY <1>0, <1>5, <2>1 DEF Blend, TypeOK
  <2> QED BY <1>0, <1>5, <2>1, <2>2, MoveKeeps DEF Blend, Saw, TypeOK, Location
<1> QED BY <1>1, <1>2, <1>3, <1>4, <1>5

LEMMA FlushKeeps ==
  ASSUME Inv, NEW w \in Writers, Flush(w)
  PROVE  Inv'
<1> USE DEF Inv, TypeOK, Busy, Flush, Move, Locals, Promote, sessionVars, historyVars
<1>1. TypeOK' BY DEF Go, Location
<1>2. Busy' = Busy BY DEF Go, Location
<1>3. Buffer' = {} BY DEF Buffer
<1>4. Repeats' /\ Overlaps' BY <1>2 DEF Repeats, Overlaps
<1>5. KindsFit' BY DEF KindsFit, Buffer
<1>6. Times' BY <1>2, <1>3 DEF Times
<1>7. Flushed'
  <2>1. \A v \in Writers : (pc'[v] \in {"memory", "sweep"} => pc[v] = pc'[v]) /\ (Tracks(v)' <=> Tracks(v))
    BY DEF Go, Location, Tracks
  <2> QED BY <1>3, <2>1 DEF Flushed
<1>8. BufferBounded' BY <1>1, <1>3, BoundKept
<1>9. ShiftFlushesPrior' /\ BufferHoldsNewest' BY <1>3 DEF ShiftFlushesPrior, BufferHoldsNewest
<1>10. ShiftStaysFlagged' BY DEF ShiftStaysFlagged
<1> QED BY <1>1, <1>4, <1>5, <1>6, <1>7, <1>8, <1>9, <1>10 DEF Inv

LEMMA ExpireKeeps ==
  ASSUME Inv, NEW t \in Turns, Expire(t)
  PROVE  Inv'
<1> USE DEF Inv, TypeOK, Busy, Expire, threadVars, sessionVars, historyVars
<1>1. TypeOK' OBVIOUS
<1>2. Busy' = Busy /\ Buffer' \subseteq Buffer BY DEF Buffer
<1>3. Repeats' /\ Overlaps' BY <1>2 DEF Repeats, Overlaps
<1>4. KindsFit' BY DEF KindsFit
<1>5. Times' BY <1>2 DEF Times
<1>6. Flushed'
  <2>1. \A v \in Writers : Tracks(v)' <=> Tracks(v) BY DEF Tracks
  <2> QED BY <1>2, <2>1 DEF Flushed
<1>7. BufferBounded'
  <2>1. Owing' = Owing BY <1>2 DEF Owing, Sweeps, Tracks
  <2> QED BY <1>1, <1>2, <2>1, BoundKept
<1>8. ShiftFlushesPrior' BY <1>2 DEF ShiftFlushesPrior
<1>9. BufferHoldsNewest'
  <2>1. \A u \in Turns : kind'[u] = "episodic" => kind[u] = "episodic" OBVIOUS
  <2> QED BY <1>2, <2>1, SessionAssumption DEF BufferHoldsNewest
<1>10. ShiftStaysFlagged' BY DEF ShiftStaysFlagged
<1> QED BY <1>1, <1>3, <1>4, <1>5, <1>6, <1>7, <1>8, <1>9, <1>10 DEF Inv

(* A commit that ends, leaving a buffer no larger.                          *)
LEMMA DoneFrame ==
  ASSUME Inv, NEW w \in Writers, w \in Busy, Done(w),
         Buffer' \subseteq Buffer, disturbed \subseteq disturbed',
         UNCHANGED <<episodes, created, clock, tries, shifts, seenBy, due>>
  PROVE  /\ Busy' = Busy \ {w}
         /\ \A v \in Busy' : /\ pc'[v] = pc[v] /\ turn'[v] = turn[v] /\ (isNew'[v] <=> isNew[v])
                            /\ now'[v] = now[v]
         /\ Repeats' /\ Overlaps' /\ Times' /\ Flushed'
<1> USE DEF Inv, TypeOK
<1>1. Busy' = Busy \ {w} BY DEF Done, Go, Busy, Location
<1>2. \A v \in Busy' : /\ pc'[v] = pc[v] /\ turn'[v] = turn[v] /\ (isNew'[v] <=> isNew[v])
                     /\ now'[v] = now[v] /\ v \in Busy
  BY <1>1 DEF Done, Go, Busy
<1>3. Repeats' BY <1>2 DEF Repeats
<1>4. Overlaps' BY <1>2 DEF Overlaps
<1>5. Times'
  <2>1. \A v \in Writers : now'[v] <= clock BY DEF Times, Done
  <2> QED BY <1>2, <2>1 DEF Times
<1>6. Flushed'
  <2>1. \A v \in Writers : pc'[v] # "idle" => v \in Busy' BY DEF Busy
  <2>2. \A v \in Busy' : Tracks(v)' <=> Tracks(v) BY <1>2 DEF Tracks
  <2>3. \A v \in Writers : pc'[v] = "shift" => pc[v] = "shift" BY <1>2, <2>1
  <2> QED BY <1>2, <2>1, <2>2, <2>3 DEF Flushed
<1> QED BY <1>1, <1>2, <1>3, <1>4, <1>5, <1>6

LEMMA FailKeeps ==
  ASSUME Inv, NEW w \in Writers, Fail(w)
  PROVE  Inv'
<1> USE DEF Inv, TypeOK, memoryVars, sessionVars
<1>1. turn[w] \in Turns /\ w \in Busy BY DEF Fail, Busy
<1>2. Buffer' = Buffer /\ disturbed' = disturbed \cup {turn[w]} BY DEF Fail, Buffer
<1>3. /\ Busy' = Busy \ {w}
      /\ \A v \in Busy' : pc'[v] = pc[v] /\ turn'[v] = turn[v] /\ (isNew'[v] <=> isNew[v])
      /\ Repeats' /\ Overlaps' /\ Times' /\ Flushed'
  BY <1>1, <1>2, DoneFrame DEF Fail
<1>4. TypeOK' BY <1>1 DEF Fail, Done, Go, Location
<1>5. KindsFit' BY DEF Fail, KindsFit
<1>6. BufferBounded'
  <2>1. \A v \in Busy' : Sweeps(v)' <=> Sweeps(v) BY <1>3 DEF Sweeps, Tracks
  <2>2. Owing \subseteq Owing' \cup unswept'
    <3> SUFFICES ASSUME NEW t \in Owing, t \notin unswept' PROVE t \in Owing' OBVIOUS
    <3>1. PICK v \in Busy : Sweeps(v) /\ turn[v] = t BY DEF Owing
    <3>2. v # w BY <3>1 DEF Fail
    <3> QED BY <1>3, <2>1, <3>1, <3>2 DEF Owing
  <2>3. unswept \subseteq unswept' BY DEF Fail
  <2> QED BY <1>2, <1>4, <2>2, <2>3, BoundKept
<1>7. ShiftFlushesPrior' BY <1>2, <1>3 DEF ShiftFlushesPrior, Fail
<1>8. BufferHoldsNewest' BY <1>2 DEF BufferHoldsNewest, Fail
<1>9. ShiftStaysFlagged' BY DEF ShiftStaysFlagged, Fail
<1> QED BY <1>3, <1>4, <1>5, <1>6, <1>7, <1>8, <1>9 DEF Inv

LEMMA SweepKeeps ==
  ASSUME Inv, NEW w \in Writers, Sweep(w)
  PROVE  Inv'
<1> USE DEF Inv, TypeOK, sessionVars
<1>0. w \in Busy /\ turn[w] \in Turns BY DEF Sweep, Busy
<1>1. PICK K \in SUBSET Buffer : Newest(K) /\ Promote(Buffer \ K) BY DEF Sweep
<1>2. Buffer' = K BY <1>1 DEF Promote, Buffer
<1>3. disturbed' = disturbed /\ created' = created /\ seenBy' = seenBy /\ shifts' = shifts
  BY <1>1 DEF Sweep, Promote
<1>4. /\ Busy' = Busy \ {w}
      /\ \A v \in Busy' : pc'[v] = pc[v] /\ turn'[v] = turn[v] /\ (isNew'[v] <=> isNew[v])
      /\ Repeats' /\ Overlaps' /\ Times' /\ Flushed'
  BY <1>0, <1>2, <1>3, DoneFrame DEF Sweep
<1>5. TypeOK'
  <2>1. kind' \in [Turns -> {"none", "working", "episodic"}] /\ expires' \in [Turns -> BOOLEAN]
    BY <1>1 DEF Promote
  <2> QED BY <1>3, <2>1 DEF Sweep, Done, Go, Location
<1>6. KindsFit' BY <1>1 DEF Promote, KindsFit, Buffer
<1>7. BufferBounded'
  <2>1. K \in SUBSET Turns /\ Cardinality(K) <= Capacity
    <3>1. IsFiniteSet(Buffer) BY FS_Subset, SessionAssumption DEF Buffer
    <3>2. Cardinality(Buffer) \in Nat BY <3>1, FS_CardinalityType
    <3> QED BY <1>1, <3>2, SessionAssumption DEF Newest, Least, Buffer
  <2>2. Cardinality(K \ (Owing' \cup unswept')) <= Capacity BY <2>1, Shrinks
  <2> QED BY <1>2, <2>2 DEF BufferBounded
<1>8. ShiftFlushesPrior'
  <2> SUFFICES ASSUME NEW t \in Buffer', t \notin disturbed \cup BulkTurns, seenBy[t] # shifts
               PROVE  \E v \in Busy' : turn'[v] = t
    BY <1>3 DEF ShiftFlushesPrior
  <2>1. PICK v \in Busy : turn[v] = t BY <1>2 DEF ShiftFlushesPrior
  <2>2. v # w
    <3> SUFFICES ASSUME v = w PROVE FALSE OBVIOUS
    <3>1. Tracks(w) BY <1>0, <2>1 DEF Tracks, Repeats
    <3> QED BY <2>1, <3>1 DEF Flushed, Sweep
  <2> QED BY <1>4, <2>1, <2>2
<1>9. BufferHoldsNewest'
  <2> SUFFICES ASSUME NEW t \in K, t \notin disturbed, NEW u \in WorkingTurns, kind'[u] = "episodic"
               PROVE  created[u] <= created[t]
    BY <1>2, <1>3 DEF BufferHoldsNewest
  <2>1. u \in Turns /\ t \in Turns BY SessionAssumption DEF Buffer
  <2>2. CASE kind[u] = "episodic" BY <2>2 DEF BufferHoldsNewest
  <2>3. CASE u \in Buffer \ K BY <1>1, <2>1, <2>3 DEF Newest
  <2> QED BY <1>1, <2>1, <2>2, <2>3 DEF Promote
<1>10. ShiftStaysFlagged' BY DEF ShiftStaysFlagged, Sweep
<1> QED BY <1>4, <1>5, <1>6, <1>7, <1>8, <1>9, <1>10 DEF Inv

LEMMA InsertKeeps ==
  ASSUME Inv, NEW w \in Writers, InsertMemory(w)
  PROVE  Inv'
<1> USE DEF Inv, TypeOK, sessionVars
<1> DEFINE t == turn[w]
<1>0. w \in Busy /\ t \in Turns /\ pc[w] = "memory" BY DEF InsertMemory, Busy
<1>1. /\ disturbed' = disturbed /\ seenBy' = seenBy /\ shifts' = shifts /\ (due' <=> due)
      /\ episodes' = episodes /\ tries' = tries /\ clock' = clock
  BY DEF InsertMemory
<1>2. \A u \in Turns \ {t} : kind'[u] = kind[u] /\ (expires'[u] <=> expires[u]) /\ created'[u] = created[u]
  BY <1>0 DEF InsertMemory
<1>3. kind[t] # "none" => kind' = kind /\ created' = created BY <1>0 DEF InsertMemory
<1>4. kind[t] = "none" => /\ kind'[t] = IF t \in WorkingTurns THEN "working" ELSE "episodic"
                          /\ created'[t] = now[w]
  BY <1>0 DEF InsertMemory
<1>5. kind' \in [Turns -> {"none", "working", "episodic"}] /\ created' \in [Turns -> Nat]
      /\ expires' \in [Turns -> BOOLEAN]
  <2>1. kind' \in [Turns -> {"none", "working", "episodic"}]
    <3>1. kind' = [kind EXCEPT ![t] = IF kind[t] # "none" THEN kind[t] ELSE
                                      IF t \in WorkingTurns THEN "working" ELSE "episodic"]
      BY <1>0 DEF InsertMemory
    <3> QED BY <1>0, <3>1
  <2>2. created' \in [Turns -> Nat]
    <3>1. created' = [created EXCEPT ![t] = IF kind[t] = "none" THEN now[w] ELSE created[t]]
      BY <1>0 DEF InsertMemory
    <3> QED BY <1>0, <3>1
  <2>3. expires' \in [Turns -> BOOLEAN]
    <3>1. expires' = [expires EXCEPT ![t] = IF kind[t] = "none" THEN t \in WorkingTurns ELSE expires[t]]
      BY <1>0 DEF InsertMemory
    <3>2. expires[t] \in BOOLEAN /\ (t \in WorkingTurns) \in BOOLEAN BY <1>0
    <3>3. CASE kind[t] = "none" BY <1>0, <3>1, <3>2, <3>3
    <3>4. CASE kind[t] # "none" BY <1>0, <3>1, <3>2, <3>4
    <3> QED BY <3>3, <3>4
  <2> QED BY <2>1, <2>2, <2>3
<1>6. (Sweeps(w) /\ Move(w, "sweep")) \/ (~Sweeps(w) /\ Done(w)) BY DEF InsertMemory
<1>7. TypeOK'
  <2>1. unswept' \subseteq Turns /\ UNCHANGED <<seeded, topic>> BY <1>0 DEF InsertMemory
  <2>2. CASE Move(w, "sweep") BY <1>0, <1>1, <1>5, <2>1, <2>2 DEF Move, Locals, Go, Location
  <2>3. CASE Done(w) BY <1>0, <1>1, <1>5, <2>1, <2>3 DEF Done, Go, Location
  <2> QED BY <1>6, <2>2, <2>3
<1>8. /\ Busy' \subseteq Busy /\ \A v \in Busy : v # w \/ Sweeps(w) => v \in Busy'
      /\ \A v \in Busy' : turn'[v] = turn[v] /\ (isNew'[v] <=> isNew[v]) /\ now'[v] = now[v]
      /\ \A v \in Busy' \ {w} : pc'[v] = pc[v]
      /\ w \in Busy' => pc'[w] = "sweep"
      /\ \A v \in Writers : now'[v] <= clock
  <2>1. CASE Sweeps(w) /\ Move(w, "sweep") BY <1>0, <2>1 DEF Move, Locals, Go, Location, Busy, Times
  <2>2. CASE ~Sweeps(w) /\ Done(w) BY <1>0, <2>2 DEF Done, Go, Location, Busy, Times
  <2> QED BY <1>6, <2>1, <2>2
<1>9. Repeats' BY <1>1, <1>8 DEF Repeats
<1>10. Overlaps' BY <1>1, <1>8 DEF Overlaps
<1>11. KindsFit'
  <2>1. kind'[t] = "working" => t \in WorkingTurns BY <1>0, <1>3, <1>4 DEF KindsFit
  <2>2. kind'[t] = "episodic" => ~expires'[t]
    <3>1. CASE kind[t] = "none" BY <1>0, <1>4, <3>1 DEF InsertMemory
    <3>2. CASE kind[t] # "none" BY <1>0, <1>3, <3>2 DEF InsertMemory, KindsFit
    <3> QED BY <3>1, <3>2
  <2> QED BY <1>2, <2>1, <2>2 DEF KindsFit
<1>12. \A v \in Busy : v # w => turn[v] \in disturbed /\ t \in disturbed BY <1>0 DEF Overlaps
<1>13. created'[t] \in {created[t], now[w]} BY <1>3, <1>4, <1>0
<1>14. \A u \in Buffer' : u # t => u \in Buffer BY <1>2 DEF Buffer
<1>15. Times'
  <2>1. \A u \in Turns : created'[u] <= clock
    BY <1>2, <1>13, <1>0 DEF Times
  <2>2. \A v \in Busy' : turn[v] \notin disturbed => \A u \in Turns : created'[u] <= now[v]
    <3>1. turn[w] \notin disturbed => \A u \in Turns : created'[u] <= now[w]
      BY <1>0, <1>2, <1>13 DEF Times
    <3> QED BY <1>8, <1>12, <3>1
  <2>3. \A u \in Buffer' \ disturbed : \A v \in Busy' : created'[u] <= now[v]
    <3>1. \A u \in Buffer' \ disturbed : u # t => \A v \in Busy : created'[u] <= now[v]
      BY <1>2, <1>14 DEF Times, Buffer
    <3>2. t \notin disturbed => created'[t] <= now[w] BY <1>0, <1>13 DEF Times
    <3> QED BY <1>8, <1>12, <3>1, <3>2
  <2> QED BY <1>1, <1>8, <2>1, <2>2, <2>3 DEF Times
<1>16. Flushed'
  <2>1. \A v \in Busy' : Tracks(v)' <=> Tracks(v) BY <1>8 DEF Tracks
  <2>2. \A v \in Writers : pc'[v] # "idle" => v \in Busy' BY DEF Busy
  <2>3. \A v \in Writers : pc'[v] = "shift" => Buffer' \subseteq disturbed'
    <3> SUFFICES ASSUME NEW v \in Writers, pc'[v] = "shift" PROVE Buffer' \subseteq disturbed
      BY <1>1
    <3>1. v # w /\ pc[v] = "shift" /\ v \in Busy BY <1>8, <2>2
    <3> QED BY <1>12, <1>14, <3>1 DEF Flushed
  <2>4. \A v \in Busy' : pc'[v] \in {"memory", "sweep"} /\ Tracks(v) /\ turn[v] \notin disturbed =>
           seenBy[turn[v]] = shifts
    BY <1>0, <1>8 DEF Flushed, Busy
  <2> QED BY <1>1, <1>8, <2>1, <2>2, <2>3, <2>4 DEF Flushed
<1>17. BufferBounded'
  <2>1. \A v \in Busy' : Sweeps(v)' <=> Sweeps(v) BY <1>8 DEF Sweeps, Tracks
  <2>2. Owing \subseteq Owing' BY <1>8, <2>1 DEF Owing
  <2>3. t \in Buffer' => t \in Buffer \/ t \in Owing' \/ t \in unswept'
    <3>1. CASE kind[t] # "none" BY <1>3, <3>1 DEF Buffer
    <3>2. CASE Sweeps(w) BY <1>0, <1>8, <2>1, <3>2 DEF Owing
    <3>3. CASE kind[t] = "none" /\ ~Sweeps(w) BY <3>3 DEF InsertMemory
    <3> QED BY <3>1, <3>2, <3>3
  <2>4. unswept \subseteq unswept' BY DEF InsertMemory
  <2> QED BY <1>7, <1>14, <2>2, <2>3, <2>4, BoundKept
<1>18. ShiftFlushesPrior'
  <2> SUFFICES ASSUME NEW u \in Buffer', u \notin disturbed, u \notin BulkTurns, seenBy[u] # shifts
               PROVE  \E v \in Busy' : turn'[v] = u
    BY <1>1 DEF ShiftFlushesPrior
  <2>1. u \in Turns /\ kind'[u] = "working" /\ u \in WorkingTurns BY <1>11 DEF Buffer, KindsFit
  <2>2. CASE u = t
    <3>1. Sweeps(w) BY <1>0, <2>1, <2>2 DEF Sweeps, Tracks, Repeats
    <3> QED BY <1>0, <1>8, <2>2, <3>1
  <2>3. CASE u # t
    <3>1. PICK v \in Busy : turn[v] = u BY <1>14, <2>3 DEF ShiftFlushesPrior
    <3> QED BY <1>8, <2>3, <3>1
  <2> QED BY <2>2, <2>3
<1>19. BufferHoldsNewest'
  <2> SUFFICES ASSUME NEW u \in Buffer', u \notin disturbed,
                      NEW x \in WorkingTurns, kind'[x] = "episodic"
               PROVE  created'[x] <= created'[u]
    BY <1>1 DEF BufferHoldsNewest
  <2>1. x \in Turns /\ kind[x] = "episodic" /\ created'[x] = created[x]
    BY <1>2, <1>3, <1>4, SessionAssumption
  <2>2. CASE u \in Buffer
    <3>1. created'[u] = created[u] BY <1>2, <1>3, <2>2 DEF Buffer
    <3> QED BY <2>1, <2>2, <3>1 DEF BufferHoldsNewest
  <2>3. CASE u \notin Buffer
    <3>1. u = t /\ kind[t] = "none" BY <1>3, <1>14, <2>3, <1>0 DEF Buffer
    <3> QED BY <1>0, <1>4, <2>1, <3>1 DEF Times
  <2> QED BY <2>2, <2>3
<1>20. ShiftStaysFlagged' BY <1>1 DEF ShiftStaysFlagged
<1> QED BY <1>7, <1>9, <1>10, <1>11, <1>15, <1>16, <1>17, <1>18, <1>19, <1>20 DEF Inv

-----------------------------------------------------------------------------
LEMMA NextInv == Inv /\ [Next]_vars => Inv'
<1> SUFFICES ASSUME Inv, [Next]_vars PROVE Inv' OBVIOUS
<1>1. ASSUME NEW w \in Writers, NEW t \in Turns, Begin(w, t) PROVE Inv' BY <1>1, BeginKeeps
<1>2. ASSUME NEW w \in Writers, Commit(w) PROVE Inv'
  BY <1>2, TrackingKeeps, FlushKeeps, InsertKeeps, SweepKeeps, FailKeeps DEF Commit, Track
<1>3. ASSUME NEW t \in Turns, Expire(t) PROVE Inv' BY <1>3, ExpireKeeps
<1>4. CASE UNCHANGED vars
  BY <1>4 DEF vars, threadVars, memoryVars, sessionVars, historyVars, Inv, TypeOK, Repeats,
     Overlaps, KindsFit, Times, Flushed, BufferBounded, ShiftFlushesPrior, BufferHoldsNewest,
     ShiftStaysFlagged, Busy, Buffer, Owing, Sweeps, Tracks
<1> QED BY <1>1, <1>2, <1>3, <1>4 DEF Next

LEMMA InvHolds == Spec => []Inv
<1> HIDE DEF Inv
<1> QED BY InitInv, NextInv, PTL DEF Spec

(* Every reachable state of a session is well typed.                        *)
THEOREM SessionTypes == Spec => []TypeOK
<1>1. Inv => TypeOK BY DEF Inv
<1> QED BY <1>1, InvHolds, PTL

(* The buffer never holds more than working_capacity memories beyond those    *)
(* whose sweep is to come or was lost.                                      *)
THEOREM WorkingBufferIsBounded == Spec => []BufferBounded
<1>1. Inv => BufferBounded BY DEF Inv
<1> QED BY <1>1, InvHolds, PTL

(* A recorded topic shift leaves no memory of an undisturbed earlier commit   *)
(* in the buffer.                                                           *)
THEOREM ShiftsFlush == Spec => []ShiftFlushesPrior
<1>1. Inv => ShiftFlushesPrior BY DEF Inv
<1> QED BY <1>1, InvHolds, PTL

(* A session whose topic shifted stays due for consolidation.                *)
THEOREM ShiftsStayFlagged == Spec => []ShiftStaysFlagged
<1>1. Inv => ShiftStaysFlagged BY DEF Inv
<1> QED BY <1>1, InvHolds, PTL

(* Whatever the interleaving, the sweep and the flush never promote a memory  *)
(* newer than one an undisturbed commit left in the buffer.                 *)
THEOREM OldestIsPromotedFirst == Spec => []BufferHoldsNewest
<1>1. Inv => BufferHoldsNewest BY DEF Inv
<1> QED BY <1>1, InvHolds, PTL

(* A promoted memory stays: no expiry, redelivery or promotion changes it.    *)
THEOREM PromotedMemoriesStay == Spec => PromotedIsKept
<1>1. Inv /\ [Next]_vars => [\A t \in Turns : kind[t] = "episodic" => kind'[t] = "episodic"]_vars
  <2> SUFFICES ASSUME Inv, Next, NEW t \in Turns, kind[t] = "episodic"
               PROVE  kind'[t] = "episodic"
    OBVIOUS
  <2> USE DEF Inv, TypeOK
  <2>1. ASSUME NEW w \in Writers, NEW u \in Turns, Begin(w, u) PROVE kind'[t] = kind[t]
    BY <2>1 DEF Begin, memoryVars
  <2>2. ASSUME NEW w \in Writers, InsertEpisode(w) \/ Track(w) \/ Fail(w)
        PROVE  kind'[t] = "episodic"
    BY <2>2 DEF InsertEpisode, Track, ReadTopic, Seed, Flush, Shift, Blend, Fail, memoryVars, Promote
  <2>3. ASSUME NEW w \in Writers, InsertMemory(w) PROVE kind'[t] = "episodic"
    BY <2>3 DEF InsertMemory
  <2>4. ASSUME NEW w \in Writers, Sweep(w) PROVE kind'[t] = "episodic"
    BY <2>4 DEF Sweep, Promote
  <2>5. ASSUME NEW u \in Turns, Expire(u) PROVE kind'[t] = "episodic"
    BY <2>5 DEF Expire, KindsFit
  <2> QED BY <2>1, <2>2, <2>3, <2>4, <2>5 DEF Next, Commit
<1> HIDE DEF Inv
<1> QED BY <1>1, InvHolds, PTL DEF Spec, PromotedIsKept
============================================================================
