--------------------------- MODULE EventFeedProofs --------------------------
(***************************************************************************)
(* Theorems about EventFeed, for all values of its constants: any number   *)
(* of transactions, events, subscribers, loops and relays, any batch size  *)
(* and any bound on what may fail.                                         *)
(***************************************************************************)
EXTENDS EventFeed, WellFoundedInduction, FiniteSetTheorems, TLAPS

----------------------------------------------------------------------------
(* Least and greatest elements of sets of event ids *)

LEMMA EventIds == Event \subseteq Nat /\ Event \subseteq 0..LastId /\ NoEvent \notin Event
  BY LogAssumption DEF Event, NoEvent

Less == {pair \in Nat \X Nat : pair[1] < pair[2]}

LEMMA LessWF == IsWellFoundedOn(Less, Nat)
  BY NatLessThanWellFounded DEF OpToRel, Less

LEMMA LeastExists ==
  ASSUME NEW S, S \subseteq Nat, S # {}
  PROVE  \E m \in S : \A n \in S : m <= n
  <1>1. PICK m \in S : \A n \in S : <<n, m>> \notin Less
    BY LessWF, WFMin
  <1>2. ASSUME NEW n \in S PROVE m <= n
    <2>1. m \in Nat /\ n \in Nat
      OBVIOUS
    <2>2. n < m => <<n, m>> \in Less
      BY <2>1 DEF Less
    <2> QED
      BY <1>1, <2>1, <2>2
  <1> QED
    BY <1>2

LEMMA GreatestExists ==
  ASSUME NEW S \in SUBSET Event, S # {}
  PROVE  \E m \in S : \A n \in S : n <= m
  <1> DEFINE Gaps == {j \in 0..LastId : LastId - j \in S}
  <1>0. LastId \in Nat /\ S \subseteq 1..LastId
    BY LogAssumption DEF Event
  <1>1. Gaps # {}
    <2>1. PICK e \in S : TRUE
      OBVIOUS
    <2>2. e \in 1..LastId
      BY <1>0
    <2>3. LastId - e \in 0..LastId /\ LastId - (LastId - e) = e
      BY <1>0, <2>2
    <2> QED
      BY <2>3
  <1>2. Gaps \subseteq Nat
    OBVIOUS
  <1>3. PICK least \in Gaps : \A j \in Gaps : least <= j
    <2> HIDE DEF Gaps
    <2> QED
      BY <1>1, <1>2, LeastExists
  <1>4. ASSUME NEW n \in S PROVE n <= LastId - least
    <2>1. n \in 1..LastId
      BY <1>0
    <2>2. LastId - n \in 0..LastId /\ LastId - (LastId - n) = n
      BY <1>0, <2>1
    <2>3. least <= LastId - n
      BY <1>3, <2>2
    <2>4. least \in 0..LastId
      OBVIOUS
    <2> QED
      BY <1>0, <2>1, <2>3, <2>4
  <1>5. LastId - least \in S
    OBVIOUS
  <1> QED
    BY <1>4, <1>5

\* A batch leaves out nothing before the rows it holds.
LEMMA FirstIsPrefix ==
  ASSUME NEW S \in SUBSET Event, NEW n \in Nat, NEW e \in First(S, n),
         NEW d \in S, d < e
  PROVE  d \in First(S, n)
  <1> DEFINE Below(x) == {f \in S : f < x}
  <1>0. S \subseteq Int /\ d \in Int /\ e \in S /\ e \in Int
    BY LogAssumption DEF First, Event
  <1>1. IsFiniteSet(S)
    <2>1. IsFiniteSet(1..LastId)
      BY LogAssumption, FS_Interval
    <2> QED
      BY <2>1, FS_Subset DEF Event
  <1>2. Below(d) \in SUBSET Below(e)
    <2>1. ASSUME NEW f \in Below(d) PROVE f \in Below(e)
      <3>1. f \in S /\ f \in Int /\ f < d
        BY <1>0
      <3>2. f < e
        BY <3>1, <1>0
      <3> QED
        BY <3>1, <3>2
    <2> QED
      BY <2>1
  <1>3. IsFiniteSet(Below(e))
    <2>1. Below(e) \in SUBSET S
      OBVIOUS
    <2> QED
      BY <2>1, <1>1, FS_Subset
  <1>4. IsFiniteSet(Below(d)) /\ Cardinality(Below(d)) <= Cardinality(Below(e))
    <2> HIDE DEF Below
    <2> QED
      BY <1>2, <1>3, FS_Subset
  <1>5. Cardinality(Below(d)) \in Nat /\ Cardinality(Below(e)) \in Nat
    <2> HIDE DEF Below
    <2> QED
      BY <1>3, <1>4, FS_CardinalityType
  <1>6. Cardinality(Below(e)) < n
    BY DEF First
  <1> QED
    BY <1>4, <1>5, <1>6 DEF First

LEMMA FirstWithin == ASSUME NEW S, NEW n PROVE First(S, n) \subseteq S
  BY DEF First

LEMMA EventsFinite == ASSUME NEW S \in SUBSET Event
                      PROVE  IsFiniteSet(S) /\ Cardinality(S) \in Nat
  <1>1. IsFiniteSet(1..LastId)
    BY LogAssumption, FS_Interval
  <1> QED
    BY <1>1, FS_Subset, FS_CardinalityType DEF Event

\* LIMIT n: a batch has n rows at most.
LEMMA FirstBounded ==
  ASSUME NEW S \in SUBSET Event, NEW n \in Nat
  PROVE  Cardinality(First(S, n)) <= n
  <1> DEFINE F == First(S, n)
             Below(x) == {f \in S : f < x}
  <1>0. F \in SUBSET Event /\ F \subseteq S
    BY DEF First
  <1>1. CASE F = {}
    BY <1>1, FS_EmptySet
  <1>2. CASE F # {}
    <2>0. \E m \in F : \A e \in F : e <= m
      <3> HIDE DEF F
      <3> QED
        BY <1>0, <1>2, GreatestExists
    <2>1. PICK m \in F : \A e \in F : e <= m
      BY <2>0
    <2>2. F \subseteq Below(m) \union {m}
      <3>0. \A e \in F : e \in Event /\ e \in S
        <4> HIDE DEF F
        <4> QED
          BY <1>0
      <3>1. ASSUME NEW e \in F PROVE e \in Int /\ e \in S
        <4>1. e \in Event /\ e \in S
          BY <3>0
        <4> HIDE DEF F
        <4> QED
          BY <4>1, EventIds
      <3>2. \A e \in F : e < m \/ e = m
        <4> HIDE DEF F
        <4> QED
          BY <2>1, <3>1
      <3> HIDE DEF F
      <3> QED
        BY <3>1, <3>2
    <2>3. Cardinality(Below(m)) < n
      BY <2>1 DEF First
    <2>b. Below(m) \in SUBSET Event
      OBVIOUS
    <2> HIDE DEF F, Below
    <2>4. IsFiniteSet(Below(m)) /\ Cardinality(Below(m)) \in Nat
      BY <2>b, EventsFinite
    <2>5. /\ IsFiniteSet(Below(m) \union {m})
          /\ Cardinality(Below(m) \union {m}) <= Cardinality(Below(m)) + 1
      <3>1. Cardinality(Below(m) \union {m})
              = IF m \in Below(m) THEN Cardinality(Below(m)) ELSE Cardinality(Below(m)) + 1
        BY <2>4, FS_AddElement
      <3>2. IsFiniteSet(Below(m) \union {m})
        BY <2>4, FS_AddElement
      <3> QED
        BY <2>4, <3>1, <3>2
    <2>6. /\ Cardinality(F) <= Cardinality(Below(m) \union {m})
          /\ Cardinality(F) \in Nat /\ Cardinality(Below(m) \union {m}) \in Nat
      BY <1>0, <2>2, <2>5, FS_Subset, FS_CardinalityType
    <2> QED
      BY <2>3, <2>4, <2>5, <2>6 DEF F
  <1> QED
    BY <1>1, <1>2

----------------------------------------------------------------------------
(* Type correctness. *)

ReadTypeOK ==
    /\ registered \subseteq Subscriber
    /\ cursor \in [Subscriber -> 0..LastId]
    /\ pc \in [Loop -> Live \union {"stopped", "down"}]
    /\ base \in [Loop -> 0..LastId]
    /\ todo \in [Loop -> SUBSET Event]
    /\ \A i \in Loop : pc[i] \in InBatch <=> todo[i] # {}

RelayTypeOK ==
    /\ relaying \in [Relay -> SUBSET Event]
    /\ rpc \in [Relay -> {"top", "handling", "waiting", "stopped", "down"}]
    /\ \A r \in Relay : rpc[r] = "handling" <=> relaying[r] # {}
    /\ relayed \in [Event -> Nat]

HistoryTypeOK ==
    /\ cancelled \in BOOLEAN
    /\ {handled, waived, owed} \subseteq [Subscriber -> SUBSET Event]
    /\ raced \subseteq Subscriber

FaultsTypeOK == {crashes, dbErrors, refusals, replays} \subseteq Nat

LEMMA TypeParts ==
  TypeOK <=> LogTypeOK /\ ReadTypeOK /\ RelayTypeOK /\ HistoryTypeOK /\ FaultsTypeOK
  BY DEF TypeOK, ReadTypeOK, RelayTypeOK, HistoryTypeOK, FaultsTypeOK

\* The row in turn is the least of the batch.
LEMMA RowIsLeast ==
  ASSUME ReadTypeOK, NEW i \in Loop, pc[i] \in InBatch
  PROVE  /\ Row(i) \in todo[i]
         /\ Row(i) \in Event
         /\ \A f \in todo[i] : Row(i) <= f
  <1>1. todo[i] # {} /\ todo[i] \subseteq Event
    BY DEF ReadTypeOK
  <1>2. \E e \in todo[i] : \A f \in todo[i] : e <= f
    BY <1>1, EventIds, LeastExists
  <1> QED
    BY <1>1, <1>2 DEF Row

\* What Commit chooses for the snapshot: the last state of x in p's
\* transaction.
LastState(p, x) ==
    CHOOSE e \in tx[p] : /\ entity[e] = x
                         /\ \A f \in tx[p] : entity[f] = x => f <= e

LEMMA LastStateExists ==
  ASSUME LogTypeOK, NEW p \in Publisher, NEW x \in Locked(p)
  PROVE  /\ LastState(p, x) \in tx[p]
         /\ entity[LastState(p, x)] = x
         /\ \A f \in tx[p] : entity[f] = x => f <= LastState(p, x)
  <1> DEFINE States == {e \in tx[p] : entity[e] = x}
  <1>1. States \in SUBSET Event /\ States # {}
    BY DEF LogTypeOK, Locked
  <1>2. PICK e \in States : \A f \in States : f <= e
    <2> HIDE DEF States
    <2> QED
      BY <1>1, GreatestExists
  <1>3. e \in tx[p] /\ entity[e] = x /\ \A f \in tx[p] : entity[f] = x => f <= e
    BY <1>2
  <1> QED
    BY <1>3 DEF LastState

LEMMA PublishType ==
  ASSUME LogTypeOK, NEW p \in Publisher, Publish(p)
  PROVE  LogTypeOK'
  <1>1. CASE InsertEvent(p)
    <2>1. nextId \in Event /\ nextId + 1 \in 1..(LastId + 1)
      BY <1>1, LogAssumption DEF InsertEvent, LogTypeOK, Event
    <2> QED
      BY <1>1, <2>1 DEF InsertEvent, LogTypeOK
  <1>2. CASE UpsertSnapshot(p)
    BY <1>2 DEF UpsertSnapshot, LogTypeOK
  <1>3. CASE Commit(p)
    <2>1. \A x \in Locked(p) : LastState(p, x) \in Event
      BY LastStateExists DEF LogTypeOK
    <2>2. snapshot' \in [Entity -> Event \union {NoEvent}]
      BY <1>3, <2>1 DEF Commit, LogTypeOK, LastState
    <2>3. status' \in [Event -> {"absent", "pending", "delivered", "gone"}]
      BY <1>3 DEF Commit, LogTypeOK
    <2>4. late' \subseteq Event /\ tx' \in [Publisher -> SUBSET Event]
      BY <1>3 DEF Commit, LogTypeOK
    <2> QED
      BY <1>3, <2>2, <2>3, <2>4 DEF Commit, LogTypeOK
  <1>4. CASE Abort(p)
    BY <1>4 DEF Abort, LogTypeOK
  <1> QED
    BY <1>1, <1>2, <1>3, <1>4 DEF Publish

LEMMA SetStatusType ==
  ASSUME LogTypeOK, NEW S, NEW new \in {"delivered", "gone"}, SetStatus(S, new),
         UNCHANGED <<nextId, entity, tx, writing, snapshot, late>>
  PROVE  LogTypeOK'
  BY DEF SetStatus, LogTypeOK

LEMMA InitType == Init => TypeOK
  <1> SUFFICES ASSUME Init PROVE TypeOK
    OBVIOUS
  <1>1. LogTypeOK
    BY LogAssumption DEF Init, LogInit, LogTypeOK
  <1>2. ReadTypeOK
    BY LogAssumption DEF Init, ReadTypeOK, Live, InBatch
  <1>3. RelayTypeOK
    BY DEF Init, RelayTypeOK
  <1>4. HistoryTypeOK
    BY DEF Init, HistoryTypeOK
  <1>5. FaultsTypeOK
    BY DEF Init, FaultsTypeOK
  <1> QED
    BY <1>1, <1>2, <1>3, <1>4, <1>5, TypeParts

\* Steps that only move loop i.
LEMMA GotoType ==
  ASSUME ReadTypeOK, NEW i \in Loop, NEW place \in Live \union {"stopped", "down"},
         pc[i] \in InBatch <=> place \in InBatch, Goto(i, place), UNCHANGED todo
  PROVE  /\ pc' \in [Loop -> Live \union {"stopped", "down"}]
         /\ todo' \in [Loop -> SUBSET Event]
         /\ \A j \in Loop : pc'[j] \in InBatch <=> todo'[j] # {}
  BY DEF Goto, ReadTypeOK

\* Steps that end a batch.
LEMMA LeaveType ==
  ASSUME ReadTypeOK, NEW i \in Loop, NEW place \in {"top", "down"}, Leave(i, place)
  PROVE  /\ pc' \in [Loop -> Live \union {"stopped", "down"}]
         /\ todo' \in [Loop -> SUBSET Event]
         /\ \A j \in Loop : pc'[j] \in InBatch <=> todo'[j] # {}
  BY DEF Leave, Goto, ReadTypeOK, Live, InBatch

LEMMA LoopTypeStep ==
  ASSUME ReadTypeOK, HistoryTypeOK, FaultsTypeOK, NEW i \in Loop,
         Advance(i) \/ LoopFault(i) \/ Restart(i)
  PROVE  ReadTypeOK' /\ HistoryTypeOK' /\ FaultsTypeOK'
  <1> USE FeedAssumption
  <1>1. CASE Register(i)
    BY <1>1, GotoType DEF Register, ReadTypeOK, HistoryTypeOK, FaultsTypeOK, replayVars,
                          faultVars, Live, InBatch
  <1>2. CASE ReadCursor(i)
    BY <1>2, GotoType DEF ReadCursor, ReadTypeOK, HistoryTypeOK, FaultsTypeOK, replayVars,
                          faultVars, Live, InBatch
  <1>3. CASE Stop(i)
    BY <1>3, GotoType DEF Stop, ReadTypeOK, HistoryTypeOK, FaultsTypeOK, replayVars,
                          faultVars, Live, InBatch
  <1>4. CASE Poll(i)
    <2> DEFINE rows == First(EventsAfter(EntityType[SubscriberOf[i]], base[i]), BatchSize)
    <2>1. rows \subseteq Event
      BY FirstWithin DEF EventsAfter, Visible
    <2>2. todo' = [todo EXCEPT ![i] = rows]
          /\ pc' = [pc EXCEPT ![i] = IF rows = {} THEN "waiting" ELSE "handling"]
      BY <1>4 DEF Poll, Goto
    <2>3. \A j \in Loop : pc'[j] \in InBatch <=> todo'[j] # {}
      BY <2>2 DEF ReadTypeOK, InBatch
    <2>4. pc' \in [Loop -> Live \union {"stopped", "down"}]
      BY <2>2 DEF ReadTypeOK, Live, InBatch
    <2>5. todo' \in [Loop -> SUBSET Event]
      BY <2>1, <2>2 DEF ReadTypeOK
    <2> QED
      BY <1>4, <2>3, <2>4, <2>5 DEF Poll, ReadTypeOK, HistoryTypeOK, FaultsTypeOK,
                                    replayVars, faultVars
  <1>5. CASE HandleOk(i)
    <2>1. Row(i) \in Event
      BY <1>5, RowIsLeast DEF HandleOk, InBatch
    <2>2. ReadTypeOK'
      BY <1>5, GotoType DEF HandleOk, ReadTypeOK, Live, InBatch
    <2>3. HistoryTypeOK'
      BY <1>5, <2>1 DEF HandleOk, HistoryTypeOK
    <2> QED
      BY <1>5, <2>2, <2>3 DEF HandleOk, FaultsTypeOK, faultVars
  <1>6. CASE HandleErr(i)
    BY <1>6, LeaveType DEF HandleErr, Refuse, ReadTypeOK, HistoryTypeOK, FaultsTypeOK,
                           replayVars
  <1>7. CASE AdvanceCursor(i)
    <2>1. Row(i) \in todo[i] /\ Row(i) \in 0..LastId
      BY <1>7, RowIsLeast, EventIds DEF AdvanceCursor, InBatch
    <2>2. pc' \in [Loop -> Live \union {"stopped", "down"}]
      BY <1>7 DEF AdvanceCursor, Goto, ReadTypeOK, Live, InBatch
    <2>3. \A j \in Loop : pc'[j] \in InBatch <=> todo'[j] # {}
      BY <1>7, <2>1 DEF AdvanceCursor, Goto, ReadTypeOK, InBatch
    <2> QED
      BY <1>7, <2>1, <2>2, <2>3 DEF AdvanceCursor, ReadTypeOK, HistoryTypeOK,
                                    FaultsTypeOK, replayVars, faultVars
  <1>8. CASE Wake(i)
    BY <1>8, GotoType DEF Wake, ReadTypeOK, HistoryTypeOK, FaultsTypeOK, replayVars,
                          faultVars, Live, InBatch
  <1>9. CASE RegisterError(i)
    BY <1>9, GotoType DEF RegisterError, DbError, ReadTypeOK, HistoryTypeOK, FaultsTypeOK,
                          replayVars, Live, InBatch
  <1>10. CASE ReadError(i)
    BY <1>10, GotoType DEF ReadError, DbError, ReadTypeOK, HistoryTypeOK, FaultsTypeOK,
                           replayVars, Live, InBatch
  <1>11. CASE AdvanceError(i)
    <2>1. Row(i) \in 0..LastId
      BY <1>11, RowIsLeast, EventIds DEF AdvanceError, InBatch
    <2>2. cursor' \in [Subscriber -> 0..LastId]
      BY <1>11, <2>1 DEF AdvanceError, ReadTypeOK
    <2> QED
      BY <1>11, <2>2, LeaveType DEF AdvanceError, DbError, ReadTypeOK, HistoryTypeOK,
                                    FaultsTypeOK, replayVars
  <1>12. CASE Crash(i)
    BY <1>12, LeaveType DEF Crash, CountCrash, ReadTypeOK, HistoryTypeOK, FaultsTypeOK,
                            replayVars
  <1>13. CASE Restart(i)
    BY <1>13, GotoType DEF Restart, ReadTypeOK, HistoryTypeOK, FaultsTypeOK, replayVars,
                           faultVars, Live, InBatch
  <1> QED
    BY <1>1, <1>2, <1>3, <1>4, <1>5, <1>6, <1>7, <1>8, <1>9, <1>10, <1>11, <1>12, <1>13
       DEF Advance, LoopFault

\* The steps of a subscriber loop leave the log and the relays alone.
LEMMA LoopFrame ==
  ASSUME NEW i \in Loop, Advance(i) \/ LoopFault(i) \/ Restart(i)
  PROVE  UNCHANGED <<logVars, relayVars, cancelled>>
  BY DEF Advance, LoopFault, Register, ReadCursor, Stop, Poll, HandleOk, HandleErr,
         AdvanceCursor, Wake, RegisterError, ReadError, AdvanceError, Crash, Restart

LEMMA RelayTypeStep ==
  ASSUME LogTypeOK, RelayTypeOK, FaultsTypeOK, NEW r \in Relay,
         RelayStep(r) \/ RelayError(r) \/ RelayCrash(r) \/ RelayRestart(r)
  PROVE  LogTypeOK' /\ RelayTypeOK' /\ FaultsTypeOK'
  <1>1. CASE RelayPoll(r)
    <2> DEFINE rows == First(Pending, RelayBatch)
    <2>1. rows \subseteq Event
      BY FirstWithin DEF Pending
    <2>2. LogTypeOK'
      BY <1>1, SetStatusType DEF RelayPoll
    <2>3. /\ relaying' = [relaying EXCEPT ![r] = rows]
          /\ rpc' = [rpc EXCEPT ![r] = IF rows = {} THEN "waiting" ELSE "handling"]
      BY <1>1 DEF RelayPoll
    <2>4. RelayTypeOK'
      BY <1>1, <2>1, <2>3 DEF RelayPoll, RelayTypeOK
    <2> QED
      BY <1>1, <2>2, <2>4 DEF RelayPoll, FaultsTypeOK, faultVars
  <1>2. CASE RelayHandle(r)
    BY <1>2 DEF RelayHandle, LogTypeOK, RelayTypeOK, FaultsTypeOK, logVars, faultVars
  <1>3. ASSUME NEW places \in {{"waiting"}, {"top", "waiting"}, {"down"}},
               NEW to \in {"top", "stopped"}, RelayMoves(r, places, to)
        PROVE  LogTypeOK' /\ RelayTypeOK' /\ FaultsTypeOK'
    BY <1>3 DEF RelayMoves, LogTypeOK, RelayTypeOK, FaultsTypeOK, logVars, faultVars
  <1>4. CASE RelayError(r)
    <2>1. LogTypeOK'
      BY <1>4, SetStatusType DEF RelayError
    <2> QED
      BY <1>4, <2>1 DEF RelayError, DbError, RelayTypeOK, FaultsTypeOK
  <1>5. CASE RelayCrash(r)
    BY <1>5 DEF RelayCrash, CountCrash, LogTypeOK, RelayTypeOK, FaultsTypeOK, logVars
  <1> QED
    BY <1>1, <1>2, <1>3, <1>4, <1>5
       DEF RelayStep, RelayWake, RelayStop, RelayRestart

LEMMA RelayFrame ==
  ASSUME NEW r \in Relay,
         RelayStep(r) \/ RelayError(r) \/ RelayCrash(r) \/ RelayRestart(r)
  PROVE  UNCHANGED <<readVars, replayVars, cancelled, handled,
                     nextId, entity, tx, writing, snapshot, late>>
  BY DEF RelayStep, RelayPoll, RelayHandle, RelayWake, RelayStop, RelayError, RelayCrash,
         RelayRestart, RelayMoves, logVars

LEMMA ReplayType ==
  ASSUME TypeOK, NEW s \in Subscriber, NEW from \in 0..LastId, Replay(s, from)
  PROVE  TypeOK'
  <1>1. EventsAfter(EntityType[s], from) \subseteq Event
    BY DEF EventsAfter, Visible
  <1>2. LogTypeOK' /\ ReadTypeOK'
    BY TypeParts DEF Replay, LogTypeOK, ReadTypeOK, logVars
  <1>3. RelayTypeOK' /\ FaultsTypeOK'
    BY TypeParts DEF Replay, RelayTypeOK, relayVars, FaultsTypeOK
  <1>4. HistoryTypeOK'
    BY <1>1, TypeParts DEF Replay, HistoryTypeOK
  <1> QED
    BY <1>2, <1>3, <1>4
       DEF TypeOK, ReadTypeOK, RelayTypeOK, HistoryTypeOK, FaultsTypeOK

LEMMA NextType == TypeOK /\ [Next]_vars => TypeOK'
  <1> SUFFICES ASSUME TypeOK, [Next]_vars PROVE TypeOK'
    OBVIOUS
  <1>0. LogTypeOK /\ ReadTypeOK /\ RelayTypeOK /\ HistoryTypeOK /\ FaultsTypeOK
    BY TypeParts
  <1>1. CASE UNCHANGED vars
    BY <1>1 DEF vars, logVars, readVars, relayVars, replayVars, faultVars, TypeOK, LogTypeOK
  <1>2. ASSUME NEW i \in Loop, Advance(i) \/ LoopFault(i) \/ Restart(i) PROVE TypeOK'
    <2>1. LogTypeOK' /\ RelayTypeOK'
      BY <1>0, <1>2, LoopFrame DEF logVars, relayVars, LogTypeOK, RelayTypeOK
    <2> QED
      BY <1>0, <1>2, <2>1, LoopTypeStep
         DEF TypeOK, ReadTypeOK, RelayTypeOK, HistoryTypeOK, FaultsTypeOK
  <1>3. ASSUME NEW r \in Relay,
               RelayStep(r) \/ RelayError(r) \/ RelayCrash(r) \/ RelayRestart(r)
        PROVE  TypeOK'
    <2>1. ReadTypeOK' /\ HistoryTypeOK'
      BY <1>0, <1>3, RelayFrame DEF readVars, replayVars, ReadTypeOK, HistoryTypeOK
    <2> QED
      BY <1>0, <1>3, <2>1, RelayTypeStep
         DEF TypeOK, ReadTypeOK, RelayTypeOK, HistoryTypeOK, FaultsTypeOK
  <1>4. CASE PublishStep
    <2>1. LogTypeOK'
      BY <1>0, <1>4, PublishType DEF PublishStep
    <2> QED
      BY <1>4, <2>1 DEF PublishStep, TypeOK, readVars, relayVars, replayVars, faultVars
  <1>5. CASE ReapEvents
    <2>1. LogTypeOK'
      BY <1>0, <1>5, SetStatusType DEF ReapEvents
    <2> QED
      BY <1>5, <2>1 DEF ReapEvents, TypeOK, readVars, relayVars, replayVars, faultVars
  <1>6. CASE Shutdown
    BY <1>6 DEF Shutdown, TypeOK, LogTypeOK, logVars, readVars, relayVars, replayVars, faultVars
  <1>7. ASSUME NEW s \in Subscriber, NEW from \in 0..LastId, Replay(s, from) PROVE TypeOK'
    BY <1>7, ReplayType
  <1> QED
    BY <1>1, <1>2, <1>3, <1>4, <1>5, <1>6, <1>7 DEF Next

\* Every variable keeps its type; a loop holds events exactly in the middle of
\* a batch, and so does a relay.
THEOREM TypeCorrect == Spec => []TypeOK
  BY InitType, NextType, PTL DEF Spec

----------------------------------------------------------------------------
(* How the log grows: what all readers rely on. *)

\* Ids at and above nextId are unused, an open transaction's rows are unseen,
\* and no row is in two transactions.
Ids ==
    /\ \A e \in Published : e < nextId
    /\ \A p \in Publisher : \A e \in tx[p] : e < nextId /\ status[e] = "absent"
    /\ \A p, q \in Publisher : p # q => tx[p] \intersect tx[q] = {}

\* A step keeps what is published, and what becomes visible behind a published
\* event of its type is late.
Growth ==
    /\ Published \subseteq Published'
    /\ \A e \in Published : entity'[e] = entity[e]
    /\ Visible' \intersect Published \subseteq Visible
    /\ late \subseteq late'
    /\ \A e \in Visible' \ Published, f \in Published :
           f > e /\ TypeOf[entity[f]] = TypeOf[entity'[e]] => e \in late'
    /\ \A s \in Subscriber : handled[s] \subseteq handled'[s] /\ waived[s] \subseteq waived'[s]

LEMMA InitIds == Init => Ids
  BY DEF Init, LogInit, Ids, Published

LEMMA PublishIds ==
  ASSUME LogTypeOK, Ids, NEW p \in Publisher, Publish(p)
  PROVE  Ids'
  <1>0. nextId \in Int /\ Event \subseteq Int
    BY LogAssumption DEF LogTypeOK, Event
  <1>1. CASE InsertEvent(p)
    <2>1. nextId' = nextId + 1 /\ UNCHANGED status /\ nextId \in Event
      BY <1>1, LogAssumption DEF InsertEvent, LogTypeOK, Event
    <2>2. \A q \in Publisher : tx'[q] = IF q = p THEN tx[p] \union {nextId} ELSE tx[q]
      BY <1>1 DEF InsertEvent, LogTypeOK
    <2>3. status[nextId] = "absent"
      BY <1>0, <2>1 DEF Ids, Published
    <2>4. \A q \in Publisher : nextId \notin tx[q]
      BY <1>0 DEF Ids
    <2>5. \A e \in Published' : e < nextId'
      BY <1>0, <2>1 DEF Ids, Published
    <2>6. ASSUME NEW q \in Publisher, NEW e \in tx'[q]
          PROVE  e < nextId' /\ status'[e] = "absent"
      <3>1. CASE e = nextId
        BY <1>0, <2>1, <2>3, <3>1
      <3>2. CASE e # nextId
        <4>1. e \in tx[q] /\ e \in Int
          BY <1>0, <2>2, <3>2 DEF LogTypeOK
        <4> QED
          BY <1>0, <2>1, <4>1 DEF Ids
      <3> QED
        BY <3>1, <3>2
    <2>7. \A q, r \in Publisher : q # r => tx'[q] \intersect tx'[r] = {}
      BY <2>2, <2>4 DEF Ids
    <2> QED
      BY <2>5, <2>6, <2>7 DEF Ids
  <1>2. CASE UpsertSnapshot(p)
    BY <1>2 DEF UpsertSnapshot, Ids, Published
  <1>3. CASE Commit(p)
    <2>1. \A e \in Event : status'[e] = IF e \in tx[p] THEN "pending" ELSE status[e]
      BY <1>3 DEF Commit
    <2>2. UNCHANGED nextId /\ \A q \in Publisher : tx'[q] = IF q = p THEN {} ELSE tx[q]
      BY <1>3 DEF Commit, LogTypeOK
    <2>3. \A e \in Published' : e < nextId'
      BY <2>1, <2>2 DEF Ids, Published
    <2>4. \A q \in Publisher : \A e \in tx'[q] : e < nextId' /\ status'[e] = "absent"
      <3>1. ASSUME NEW q \in Publisher, NEW e \in tx'[q]
            PROVE  e < nextId' /\ status'[e] = "absent"
        <4>1. q # p /\ e \in tx[q] /\ e \notin tx[p] /\ e \in Event
          BY <2>2 DEF Ids, LogTypeOK
        <4> QED
          BY <4>1, <2>1, <2>2 DEF Ids
      <3> QED
        BY <3>1
    <2>5. \A q, r \in Publisher : q # r => tx'[q] \intersect tx'[r] = {}
      BY <2>2 DEF Ids
    <2> QED
      BY <2>3, <2>4, <2>5 DEF Ids
  <1>4. CASE Abort(p)
    <2>1. UNCHANGED <<nextId, status>>
      BY <1>4 DEF Abort
    <2>2. \A q \in Publisher : tx'[q] \subseteq tx[q]
      BY <1>4 DEF Abort, LogTypeOK
    <2>3. \A q, r \in Publisher : q # r => tx'[q] \intersect tx'[r] = {}
      BY <2>2 DEF Ids
    <2> QED
      BY <2>1, <2>2, <2>3 DEF Ids, Published
  <1> QED
    BY <1>1, <1>2, <1>3, <1>4 DEF Publish

LEMMA PublishGrowth ==
  ASSUME LogTypeOK, Ids, NEW p \in Publisher, Publish(p), UNCHANGED <<handled, waived>>
  PROVE  Growth
  <1>1. CASE InsertEvent(p)
    <2>1. UNCHANGED <<status, late>>
      BY <1>1 DEF InsertEvent
    <2>2. \A e \in Published : e # nextId
      BY LogAssumption DEF Ids, Published, Event, LogTypeOK
    <2>3. \A e \in Published : entity'[e] = entity[e]
      BY <1>1, <2>2 DEF InsertEvent, LogTypeOK, Published
    <2> QED
      BY <2>1, <2>3 DEF Growth, Published, Visible
  <1>2. CASE UpsertSnapshot(p) \/ Abort(p)
    BY <1>2 DEF UpsertSnapshot, Abort, Growth, Published, Visible
  <1>3. CASE Commit(p)
    <2>1. \A e \in Event : status'[e] = IF e \in tx[p] THEN "pending" ELSE status[e]
      BY <1>3 DEF Commit
    <2>2. UNCHANGED entity
      BY <1>3 DEF Commit
    <2>3. late' = late \union {e \in tx[p] : \E f \in Published : f > e /\ SameType(e, f)}
      BY <1>3 DEF Commit
    <2>4. \A e \in tx[p] : e \in Event /\ status[e] = "absent"
      BY DEF Ids, LogTypeOK
    <2>5. Published \subseteq Published' /\ Visible' \intersect Published \subseteq Visible
      BY <2>1, <2>4 DEF Published, Visible
    <2>6. Visible' \ Published \subseteq tx[p]
      BY <2>1 DEF Published, Visible
    <2>7. ASSUME NEW e \in Visible' \ Published, NEW f \in Published,
                 f > e, TypeOf[entity[f]] = TypeOf[entity'[e]]
          PROVE  e \in late'
      BY <2>2, <2>3, <2>6, <2>7 DEF SameType
    <2> QED
      BY <2>2, <2>3, <2>5, <2>7 DEF Growth
  <1> QED
    BY <1>1, <1>2, <1>3 DEF Publish

\* A step that sets the status of visible rows only.
LEMMA SetStatusGrowth ==
  ASSUME LogTypeOK, Ids, NEW S \in SUBSET Visible, NEW new \in {"delivered", "gone"},
         SetStatus(S, new),
         UNCHANGED <<nextId, entity, tx, late, handled, waived>>
  PROVE  Growth /\ Ids'
  <1>1. \A e \in Event : status'[e] = IF e \in S THEN new ELSE status[e]
    BY DEF SetStatus
  <1>2. Published' = Published
    BY <1>1 DEF Published, Visible
  <1>3. \A p \in Publisher : \A e \in tx[p] : e \in Event /\ e \notin S
    BY DEF Ids, LogTypeOK, Visible
  <1>4. Growth
    BY <1>1, <1>2 DEF Growth, Published, Visible
  <1>5. Ids'
    BY <1>1, <1>2, <1>3 DEF Ids
  <1> QED
    BY <1>4, <1>5

\* A step that leaves the log alone.
LEMMA StillGrowth ==
  ASSUME Ids, UNCHANGED <<nextId, entity, status, tx, late>>,
         \A s \in Subscriber : handled[s] \subseteq handled'[s] /\ waived[s] \subseteq waived'[s]
  PROVE  Growth /\ Ids'
  BY DEF Growth, Ids, Published, Visible

LEMMA LoopHistory ==
  ASSUME HistoryTypeOK, NEW i \in Loop, Advance(i) \/ LoopFault(i) \/ Restart(i)
  PROVE  \A s \in Subscriber : handled[s] \subseteq handled'[s] /\ waived[s] \subseteq waived'[s]
  <1>1. CASE HandleOk(i)
    BY <1>1 DEF HandleOk, HistoryTypeOK
  <1>2. CASE ~HandleOk(i)
    BY <1>2 DEF Advance, LoopFault, Register, ReadCursor, Stop, Poll, HandleErr,
                AdvanceCursor, Wake, RegisterError, ReadError, AdvanceError, Crash,
                Restart, replayVars
  <1> QED
    BY <1>1, <1>2

LEMMA NextGrowth == TypeOK /\ Ids /\ [Next]_vars => Growth /\ Ids'
  <1> SUFFICES ASSUME TypeOK, Ids, [Next]_vars PROVE Growth /\ Ids'
    OBVIOUS
  <1>0. LogTypeOK /\ HistoryTypeOK
    BY TypeParts
  <1>1. CASE UNCHANGED vars
    BY <1>1, StillGrowth DEF vars, logVars, replayVars
  <1>2. ASSUME NEW i \in Loop, Advance(i) \/ LoopFault(i) \/ Restart(i)
        PROVE  Growth /\ Ids'
    BY <1>0, <1>2, LoopFrame, LoopHistory, StillGrowth DEF logVars
  <1>3. ASSUME NEW r \in Relay,
               RelayStep(r) \/ RelayError(r) \/ RelayCrash(r) \/ RelayRestart(r)
        PROVE  Growth /\ Ids'
    <2>1. UNCHANGED <<nextId, entity, tx, late, handled, waived>>
      BY <1>3, RelayFrame DEF replayVars
    <2>2. UNCHANGED status \/ \E S \in SUBSET Visible : SetStatus(S, "delivered")
      <3>1. First(Pending, RelayBatch) \subseteq Visible
        BY FirstWithin DEF Pending, Visible
      <3> QED
        BY <1>3, <3>1 DEF RelayStep, RelayPoll, RelayHandle, RelayWake, RelayStop,
                          RelayError, RelayCrash, RelayRestart, RelayMoves, logVars
    <2> QED
      BY <1>0, <2>1, <2>2, StillGrowth, SetStatusGrowth
  <1>4. CASE PublishStep
    BY <1>0, <1>4, PublishIds, PublishGrowth DEF PublishStep, replayVars
  <1>5. CASE ReapEvents
    <2>1. PICK S \in SUBSET {e \in Event : status[e] = "delivered"} : SetStatus(S, "gone")
      BY <1>5 DEF ReapEvents
    <2>2. S \in SUBSET Visible
      BY DEF Visible
    <2> QED
      BY <1>0, <1>5, <2>1, <2>2, SetStatusGrowth DEF ReapEvents, replayVars
  <1>6. CASE Shutdown
    BY <1>6, StillGrowth DEF Shutdown, logVars, replayVars
  <1>7. ASSUME NEW s \in Subscriber, NEW from \in 0..LastId, Replay(s, from)
        PROVE  Growth /\ Ids'
    <2>1. \A u \in Subscriber : waived[u] \subseteq waived'[u]
      BY <1>0, <1>7 DEF Replay, HistoryTypeOK
    <2> QED
      BY <1>7, <2>1, StillGrowth DEF Replay, logVars
  <1> QED
    BY <1>1, <1>2, <1>3, <1>4, <1>5, <1>6, <1>7 DEF Next

----------------------------------------------------------------------------
(* No event is skipped, and events arrive in order. *)

Excused(s, e) == e \in handled[s] \union late \union waived[s]

\* s need not wait for e: e is excused, or it is not in its feed and never will
\* be without being late.
Settled(s, e) ==
    \/ Excused(s, e)
    \/ /\ e \notin Feed(s)
       /\ \/ e \in Published
          \/ \E f \in Published : f > e /\ TypeOf[entity[f]] = EntityType[s]

\* Everything up to a cursor, a cursor read, a handled event, or the rows of a
\* batch is settled, except for the rows of that batch.
CursorsInv ==
    /\ \A s \in Subscriber, e \in Event : e <= cursor[s] => Settled(s, e)
    /\ \A i \in Loop, e \in Event : e <= base[i] => Settled(SubscriberOf[i], e)

BatchesInv ==
    \A i \in Loop : \A x \in todo[i], e \in Event :
        e < x => Settled(SubscriberOf[i], e) \/ e \in todo[i]

HandledInv ==
    /\ \A s \in Subscriber : \A f \in handled[s], e \in Event : e < f => Settled(s, e)
    /\ \A i \in Loop : pc[i] = "advancing" => Row(i) \in handled[SubscriberOf[i]]

FeedInv == CursorsInv /\ BatchesInv /\ HandledInv

LEMMA SettledStays ==
  ASSUME TypeOK, Growth, NEW s \in Subscriber, NEW e \in Event, Settled(s, e)
  PROVE  Settled(s, e)'
  <1>1. CASE Excused(s, e)
    BY <1>1 DEF Excused, Settled, Growth
  <1>2. e \in Published /\ e \notin Feed(s) => e \notin Feed(s)'
    BY DEF Growth, Feed, Visible
  <1>3. CASE e \in Published /\ e \notin Feed(s)
    BY <1>2, <1>3 DEF Settled, Growth
  <1>4. ASSUME e \notin Published, e \notin Feed(s),
               NEW f \in Published, f > e, TypeOf[entity[f]] = EntityType[s]
        PROVE  Settled(s, e)'
    <2>1. f \in Published' /\ entity'[f] = entity[f]
      BY <1>4 DEF Growth
    <2>2. e \in Feed(s)' => e \in late'
      BY <1>4 DEF Growth, Feed
    <2> QED
      BY <1>4, <2>1, <2>2 DEF Settled, Excused
  <1> QED
    BY <1>1, <1>3, <1>4 DEF Settled

LEMMA InitFeed == Init => FeedInv
  <1> SUFFICES ASSUME Init PROVE FeedInv
    OBVIOUS
  <1>1. \A e \in Event : ~(e <= 0)
    BY LogAssumption DEF Event
  <1>2. CursorsInv
    BY <1>1, FeedAssumption DEF Init, CursorsInv
  <1>3. BatchesInv /\ HandledInv
    BY DEF Init, BatchesInv, HandledInv
  <1> QED
    BY <1>2, <1>3 DEF FeedInv

\* A step that takes no batch, moves no cursor and handles nothing.
LEMMA FeedStutter ==
  ASSUME TypeOK, FeedInv, Growth,
         UNCHANGED <<cursor, base, handled>>,
         \A i \in Loop : todo'[i] = {} \/ todo'[i] = todo[i],
         \A i \in Loop : pc'[i] = "advancing" => pc[i] = "advancing" /\ todo'[i] = todo[i]
  PROVE  FeedInv'
  <1>1. CursorsInv'
    BY SettledStays, FeedAssumption DEF FeedInv, CursorsInv
  <1>2. BatchesInv'
    BY SettledStays, FeedAssumption DEF FeedInv, BatchesInv
  <1>3. HandledInv'
    <2>1. \A s \in Subscriber : handled[s] \subseteq Event
      BY DEF TypeOK
    <2>2. \A s \in Subscriber : \A f \in handled'[s], e \in Event : e < f => Settled(s, e)'
      BY SettledStays DEF FeedInv, HandledInv
    <2>3. \A i \in Loop : pc'[i] = "advancing" => Row(i)' \in handled'[SubscriberOf[i]]
      BY DEF FeedInv, HandledInv, Row
    <2> QED
      BY <2>2, <2>3 DEF HandledInv
  <1> QED
    BY <1>1, <1>2, <1>3 DEF FeedInv

LEMMA PollFeed ==
  ASSUME TypeOK, FeedInv, Growth, NEW i \in Loop, Poll(i)
  PROVE  FeedInv'
  <1> DEFINE s == SubscriberOf[i]
             rows == First(EventsAfter(EntityType[s], base[i]), BatchSize)
  <1>0. /\ s \in Subscriber
        /\ UNCHANGED <<cursor, base, handled>>
        /\ \A j \in Loop : todo'[j] = IF j = i THEN rows ELSE todo[j]
        /\ \A j \in Loop : pc'[j] = "advancing" => pc[j] = "advancing" /\ j # i
    BY FeedAssumption DEF Poll, Goto, TypeOK
  <1>1. CursorsInv'
    BY <1>0, SettledStays, FeedAssumption DEF FeedInv, CursorsInv
  <1>2. ASSUME NEW x \in rows, NEW e \in Event, e < x, e \notin rows
        PROVE  Settled(s, e)
    <2>1. x \in EventsAfter(EntityType[s], base[i])
      BY FirstWithin
    <2>2. CASE e <= base[i]
      BY <2>2, <1>0 DEF FeedInv, CursorsInv
    <2>3. CASE ~(e <= base[i])
      <3>1. e > base[i]
        BY <2>3, EventIds DEF TypeOK
      <3>2. e \notin EventsAfter(EntityType[s], base[i])
        <4>1. EventsAfter(EntityType[s], base[i]) \in SUBSET Event
          BY DEF EventsAfter, Visible
        <4> QED
          BY <1>2, <4>1, FirstIsPrefix, FeedAssumption
      <3>3. e \notin Feed(s)
        BY <3>1, <3>2 DEF EventsAfter, Feed
      <3>4. x \in Published /\ TypeOf[entity[x]] = EntityType[s] /\ x > e
        BY <1>2, <2>1, EventIds DEF EventsAfter, Visible, Published
      <3> QED
        BY <3>3, <3>4 DEF Settled
    <2> QED
      BY <2>2, <2>3
  <1>3. BatchesInv'
    <2>1. ASSUME NEW j \in Loop, NEW x \in todo'[j], NEW e \in Event, e < x
          PROVE  Settled(SubscriberOf[j], e)' \/ e \in todo'[j]
      <3>1. Settled(SubscriberOf[j], e) \/ e \in todo'[j]
        BY <1>0, <1>2, <2>1 DEF FeedInv, BatchesInv
      <3> QED
        BY <3>1, SettledStays, FeedAssumption
    <2> QED
      BY <2>1 DEF BatchesInv
  <1>4. HandledInv'
    <2>1. \A u \in Subscriber : \A f \in handled'[u], e \in Event : e < f => Settled(u, e)'
      BY <1>0, SettledStays DEF FeedInv, HandledInv
    <2>2. \A j \in Loop : pc'[j] = "advancing" => Row(j)' \in handled'[SubscriberOf[j]]
      BY <1>0 DEF FeedInv, HandledInv, Row
    <2> QED
      BY <2>1, <2>2 DEF HandledInv
  <1> QED
    BY <1>1, <1>3, <1>4 DEF FeedInv

LEMMA HandleOkFeed ==
  ASSUME TypeOK, FeedInv, Growth, NEW i \in Loop, HandleOk(i)
  PROVE  FeedInv'
  <1> DEFINE s == SubscriberOf[i]
  <1>0. /\ s \in Subscriber
        /\ UNCHANGED <<cursor, base, todo>>
        /\ \A u \in Subscriber :
               handled'[u] = IF u = s THEN handled[u] \union {Row(i)} ELSE handled[u]
        /\ \A j \in Loop : pc'[j] = "advancing" => j = i \/ pc[j] = "advancing"
    BY FeedAssumption DEF HandleOk, Goto, TypeOK
  <1>1. Row(i) \in todo[i] /\ Row(i) \in Event /\ \A f \in todo[i] : Row(i) <= f
    BY TypeParts, RowIsLeast DEF HandleOk, InBatch
  <1>2. CursorsInv'
    BY <1>0, SettledStays, FeedAssumption DEF FeedInv, CursorsInv
  <1>3. BatchesInv'
    <2>1. ASSUME NEW j \in Loop, NEW x \in todo[j], NEW e \in Event, e < x
          PROVE  Settled(SubscriberOf[j], e)' \/ e \in todo[j]
      BY <2>1, SettledStays, FeedAssumption DEF FeedInv, BatchesInv
    <2> QED
      BY <1>0, <2>1 DEF BatchesInv
  <1>4. ASSUME NEW e \in Event, e < Row(i) PROVE Settled(s, e)
    <2>1. e \in Int /\ Row(i) \in Int
      BY <1>1, LogAssumption DEF Event
    <2>2. e \notin todo[i]
      BY <1>1, <1>4, <2>1
    <2> QED
      BY <1>1, <1>4, <2>2 DEF FeedInv, BatchesInv
  <1>5. \A u \in Subscriber : \A f \in handled'[u], e \in Event : e < f => Settled(u, e)'
    <2>1. ASSUME NEW u \in Subscriber, NEW f \in handled'[u], NEW e \in Event, e < f
          PROVE  Settled(u, e)
      BY <1>0, <1>4, <2>1 DEF FeedInv, HandledInv
    <2> QED
      BY <2>1, SettledStays
  <1>6. \A j \in Loop : pc'[j] = "advancing" => Row(j)' \in handled'[SubscriberOf[j]]
    <2>1. \A j \in Loop : Row(j)' = Row(j)
      BY <1>0 DEF Row
    <2> QED
      BY <1>0, <2>1, FeedAssumption DEF FeedInv, HandledInv
  <1> QED
    BY <1>2, <1>3, <1>5, <1>6 DEF FeedInv, HandledInv

\* The cursor may move to the row just handled: everything before it is
\* settled.
LEMMA AdvancingSettled ==
  ASSUME TypeOK, FeedInv, NEW i \in Loop, pc[i] = "advancing",
         NEW e \in Event, e <= Row(i)
  PROVE  Settled(SubscriberOf[i], e)
  <1>1. Row(i) \in todo[i] /\ Row(i) \in Event /\ \A f \in todo[i] : Row(i) <= f
    BY TypeParts, RowIsLeast DEF InBatch
  <1>2. CASE e = Row(i)
    BY <1>2 DEF FeedInv, HandledInv, Settled, Excused
  <1>3. CASE e # Row(i)
    <2>1. e < Row(i) /\ e \notin todo[i]
      BY <1>1, <1>3, EventIds
    <2> QED
      BY <1>1, <2>1 DEF FeedInv, BatchesInv
  <1> QED
    BY <1>2, <1>3

LEMMA AdvanceFeed ==
  ASSUME TypeOK, FeedInv, Growth, NEW i \in Loop, AdvanceCursor(i) \/ AdvanceError(i)
  PROVE  FeedInv'
  <1> DEFINE s == SubscriberOf[i]
  <1>0. /\ pc[i] = "advancing"
        /\ UNCHANGED <<base, handled>>
        /\ s \in Subscriber
        /\ \A u \in Subscriber : cursor'[u] = cursor[u] \/ (u = s /\ cursor'[u] = Row(i))
        /\ \A j \in Loop : todo'[j] = todo[j] \/ j = i
        /\ todo'[i] = todo[i] \ {Row(i)} \/ todo'[i] = {}
        /\ \A j \in Loop : pc'[j] = "advancing" => pc[j] = "advancing" /\ j # i
    BY FeedAssumption DEF AdvanceCursor, AdvanceError, Leave, Goto, TypeOK
  <1>1. CursorsInv'
    <2>1. ASSUME NEW u \in Subscriber, NEW e \in Event, e <= cursor'[u] PROVE Settled(u, e)'
      <3>1. Settled(u, e)
        BY <1>0, <2>1, AdvancingSettled DEF FeedInv, CursorsInv
      <3> QED
        BY <3>1, SettledStays
    <2>2. \A j \in Loop, e \in Event : e <= base'[j] => Settled(SubscriberOf[j], e)'
      BY <1>0, SettledStays, FeedAssumption DEF FeedInv, CursorsInv
    <2> QED
      BY <2>1, <2>2 DEF CursorsInv
  <1>2. BatchesInv'
    <2>1. ASSUME NEW j \in Loop, NEW x \in todo'[j], NEW e \in Event, e < x
          PROVE  Settled(SubscriberOf[j], e)' \/ e \in todo'[j]
      <3>1. x \in todo[j]
        BY <1>0
      <3>2. Settled(SubscriberOf[j], e) \/ e \in todo[j]
        BY <2>1, <3>1 DEF FeedInv, BatchesInv
      <3>3. ASSUME e \in todo[j], e \notin todo'[j] PROVE j = i /\ e = Row(i)
        <4>1. j = i
          BY <1>0, <3>3
        <4>2. todo'[i] = todo[i] \ {Row(i)}
          BY <1>0, <4>1
        <4> QED
          BY <3>3, <4>1, <4>2
      <3>4. ASSUME e \in todo[j], e \notin todo'[j] PROVE Settled(SubscriberOf[j], e)
        <4>1. j = i /\ e <= Row(i)
          BY <3>3, <3>4, EventIds
        <4> QED
          BY <1>0, <4>1, AdvancingSettled
      <3> QED
        BY <3>2, <3>4, SettledStays, FeedAssumption
    <2> QED
      BY <2>1 DEF BatchesInv
  <1>3. HandledInv'
    <2>1. \A u \in Subscriber : \A f \in handled'[u], e \in Event : e < f => Settled(u, e)'
      BY <1>0, SettledStays DEF FeedInv, HandledInv
    <2>2. \A j \in Loop : pc'[j] = "advancing" => Row(j)' \in handled'[SubscriberOf[j]]
      BY <1>0 DEF FeedInv, HandledInv, Row
    <2> QED
      BY <2>1, <2>2 DEF HandledInv
  <1> QED
    BY <1>1, <1>2, <1>3 DEF FeedInv

LEMMA ReadCursorFeed ==
  ASSUME TypeOK, FeedInv, Growth, NEW i \in Loop, ReadCursor(i)
  PROVE  FeedInv'
  <1>0. /\ UNCHANGED <<cursor, todo, handled>>
        /\ \A j \in Loop : base'[j] = IF j = i THEN cursor[SubscriberOf[i]] ELSE base[j]
        /\ \A j \in Loop : pc'[j] = "advancing" => pc[j] = "advancing"
    BY DEF ReadCursor, Goto, TypeOK
  <1>1. CursorsInv'
    <2>1. \A s \in Subscriber, e \in Event : e <= cursor'[s] => Settled(s, e)'
      BY <1>0, SettledStays DEF FeedInv, CursorsInv
    <2>2. ASSUME NEW j \in Loop, NEW e \in Event, e <= base'[j]
          PROVE  Settled(SubscriberOf[j], e)'
      <3>1. Settled(SubscriberOf[j], e)
        BY <1>0, <2>2, FeedAssumption DEF FeedInv, CursorsInv
      <3> QED
        BY <3>1, SettledStays, FeedAssumption
    <2> QED
      BY <2>1, <2>2 DEF CursorsInv
  <1>2. BatchesInv'
    BY <1>0, SettledStays, FeedAssumption DEF FeedInv, BatchesInv
  <1>3. HandledInv'
    <2>1. \A u \in Subscriber : \A f \in handled'[u], e \in Event : e < f => Settled(u, e)'
      BY <1>0, SettledStays DEF FeedInv, HandledInv
    <2>2. \A j \in Loop : pc'[j] = "advancing" => Row(j)' \in handled'[SubscriberOf[j]]
      BY <1>0 DEF FeedInv, HandledInv, Row
    <2> QED
      BY <2>1, <2>2 DEF HandledInv
  <1> QED
    BY <1>1, <1>2, <1>3 DEF FeedInv

LEMMA ReplayFeed ==
  ASSUME TypeOK, FeedInv, Growth, NEW s \in Subscriber, NEW from \in 0..LastId,
         Replay(s, from)
  PROVE  FeedInv'
  <1>0. /\ UNCHANGED <<base, todo, pc, handled>>
        /\ \A u \in Subscriber : cursor'[u] = IF u = s THEN from ELSE cursor[u]
        /\ {e \in Event : cursor[s] < e /\ e <= from} \subseteq waived'[s]
    BY DEF Replay, TypeOK
  <1>1. CursorsInv'
    <2>1. ASSUME NEW u \in Subscriber, NEW e \in Event, e <= cursor'[u] PROVE Settled(u, e)'
      <3>1. CASE e <= cursor[u]
        BY <3>1, SettledStays DEF FeedInv, CursorsInv
      <3>2. CASE ~(e <= cursor[u])
        <4>1. u = s /\ e <= from
          BY <1>0, <2>1, <3>2
        <4>2. cursor[u] < e
          BY <3>2, EventIds DEF TypeOK
        <4>3. e \in waived'[u]
          BY <1>0, <4>1, <4>2
        <4> QED
          BY <4>3 DEF Settled, Excused
      <3> QED
        BY <3>1, <3>2
    <2>2. \A j \in Loop, e \in Event : e <= base'[j] => Settled(SubscriberOf[j], e)'
      BY <1>0, SettledStays, FeedAssumption DEF FeedInv, CursorsInv
    <2> QED
      BY <2>1, <2>2 DEF CursorsInv
  <1>2. BatchesInv'
    BY <1>0, SettledStays, FeedAssumption DEF FeedInv, BatchesInv
  <1>3. HandledInv'
    <2>1. \A u \in Subscriber : \A f \in handled'[u], e \in Event : e < f => Settled(u, e)'
      BY <1>0, SettledStays DEF FeedInv, HandledInv
    <2>2. \A j \in Loop : pc'[j] = "advancing" => Row(j)' \in handled'[SubscriberOf[j]]
      BY <1>0 DEF FeedInv, HandledInv, Row
    <2> QED
      BY <2>1, <2>2 DEF HandledInv
  <1> QED
    BY <1>1, <1>2, <1>3 DEF FeedInv

LEMMA NextFeed == TypeOK /\ FeedInv /\ Growth /\ [Next]_vars => FeedInv'
  <1> SUFFICES ASSUME TypeOK, FeedInv, Growth, [Next]_vars PROVE FeedInv'
    OBVIOUS
  <1>1. CASE UNCHANGED vars
    BY <1>1, FeedStutter DEF vars, readVars
  <1>2. ASSUME NEW i \in Loop,
               \/ Register(i) \/ Stop(i) \/ HandleErr(i) \/ Wake(i) \/ RegisterError(i)
               \/ ReadError(i) \/ Crash(i) \/ Restart(i)
        PROVE  FeedInv'
    <2>1. UNCHANGED <<cursor, base, handled>>
      BY <1>2 DEF Register, Stop, HandleErr, Wake, RegisterError, ReadError, Crash, Restart
    <2>2. \A j \in Loop : todo'[j] = {} \/ todo'[j] = todo[j]
      BY <1>2 DEF Register, Stop, HandleErr, Wake, RegisterError, ReadError, Crash, Restart,
                  Leave, TypeOK
    <2>3. \A j \in Loop : pc'[j] = "advancing" => pc[j] = "advancing" /\ todo'[j] = todo[j]
      BY <1>2 DEF Register, Stop, HandleErr, Wake, RegisterError, ReadError, Crash, Restart,
                  Leave, Goto, TypeOK
    <2> QED
      BY <2>1, <2>2, <2>3, FeedStutter
  <1>3. ASSUME NEW i \in Loop, Advance(i) \/ LoopFault(i) \/ Restart(i) PROVE FeedInv'
    BY <1>2, <1>3, PollFeed, HandleOkFeed, AdvanceFeed, ReadCursorFeed
       DEF Advance, LoopFault
  <1>4. ASSUME NEW r \in Relay,
               RelayStep(r) \/ RelayError(r) \/ RelayCrash(r) \/ RelayRestart(r)
        PROVE  FeedInv'
    BY <1>4, RelayFrame, FeedStutter DEF readVars
  <1>5. CASE PublishStep \/ ReapEvents \/ Shutdown
    BY <1>5, FeedStutter DEF PublishStep, ReapEvents, Shutdown, readVars
  <1>6. ASSUME NEW s \in Subscriber, NEW from \in 0..LastId, Replay(s, from) PROVE FeedInv'
    BY <1>6, ReplayFeed
  <1> QED
    BY <1>1, <1>3, <1>4, <1>5, <1>6 DEF Next

LEMMA FeedIsInvariant == Spec => [](TypeOK /\ Ids /\ FeedInv)
  BY InitType, InitIds, InitFeed, NextType, NextGrowth, NextFeed, PTL DEF Spec

\* No subscriber's cursor passes an event its handler has not taken, unless it
\* committed late or a replay jumped over it (Subscriber::spawn).
THEOREM NoSkipCorrect == Spec => []NoSkip
  <1>1. FeedInv => NoSkip
    BY DEF FeedInv, CursorsInv, Settled, Excused, NoSkip, Feed, Visible
  <1> QED
    BY <1>1, FeedIsInvariant, PTL

\* Handlers take events in the order of their ids, redeliveries apart.
THEOREM InOrderCorrect == Spec => []InOrder
  <1>1. FeedInv => InOrder
    BY DEF FeedInv, HandledInv, Settled, Excused, InOrder, Feed, Visible
  <1> QED
    BY <1>1, FeedIsInvariant, PTL

----------------------------------------------------------------------------
(* Replays. *)

\* What a quiet replay asked for is ahead of the cursor and of every cursor
\* read since, and a batch leaves out nothing of it.
Ahead(s) ==
    /\ \A e \in owed[s] \intersect Visible : cursor[s] < e
    /\ \A i \in Loop : SubscriberOf[i] = s =>
          /\ pc[i] = "polling" => \A e \in owed[s] \intersect Visible : base[i] < e
          /\ \A x \in todo[i], e \in owed[s] \intersect Visible : e < x => e \in todo[i]
          /\ pc[i] = "advancing" => Row(i) \notin owed[s]

ReplayInv ==
    /\ \A s \in Subscriber : \A e \in owed[s] :
           e \in Published /\ TypeOf[entity[e]] = EntityType[s]
    /\ \A s \in Subscriber \ raced : Ahead(s)

LEMMA InitReplay == Init => ReplayInv
  BY DEF Init, ReplayInv, Ahead

\* A step that asks for nothing new and moves no cursor.
LEMMA ReplayStutter ==
  ASSUME TypeOK, ReplayInv, Growth,
         UNCHANGED <<cursor, owed, raced>>,
         \A i \in Loop : todo'[i] = {} \/ todo'[i] = todo[i],
         \A i \in Loop : pc'[i] = "polling" => pc[i] = "polling" /\ base'[i] = base[i],
         \A i \in Loop : pc'[i] = "advancing" => pc[i] = "advancing" /\ todo'[i] = todo[i]
  PROVE  ReplayInv'
  <1>1. ASSUME NEW s \in Subscriber, NEW e \in owed[s]
        PROVE  /\ e \in Published' /\ TypeOf[entity'[e]] = EntityType[s]
               /\ e \in Visible' => e \in Visible
    BY DEF ReplayInv, Growth
  <1>2. ASSUME NEW s \in Subscriber \ raced PROVE Ahead(s)'
    <2>0. Ahead(s) /\ owed'[s] \intersect Visible' \subseteq owed[s] \intersect Visible
      BY <1>1 DEF ReplayInv
    <2>1. \A e \in owed'[s] \intersect Visible' : cursor'[s] < e
      BY <2>0 DEF Ahead
    <2>2. ASSUME NEW i \in Loop, SubscriberOf[i] = s
          PROVE  /\ pc'[i] = "polling" => \A e \in owed'[s] \intersect Visible' : base'[i] < e
                 /\ \A x \in todo'[i], e \in owed'[s] \intersect Visible' :
                        e < x => e \in todo'[i]
                 /\ pc'[i] = "advancing" => Row(i)' \notin owed'[s]
      BY <2>0, <2>2 DEF Ahead, Row
    <2> QED
      BY <2>1, <2>2 DEF Ahead
  <1> QED
    BY <1>1, <1>2 DEF ReplayInv

\* A step of loop i that leaves the other loops, and the log, as they are, and
\* asks for nothing new.
LEMMA ReplayLoop ==
  ASSUME TypeOK, ReplayInv, NEW i \in Loop, UNCHANGED <<logVars, raced>>,
         \A s \in Subscriber : owed'[s] \subseteq owed[s],
         \A j \in Loop : j # i => pc'[j] = pc[j] /\ base'[j] = base[j] /\ todo'[j] = todo[j],
         SubscriberOf[i] \notin raced /\ Ahead(SubscriberOf[i]) =>
            /\ \A e \in owed'[SubscriberOf[i]] \intersect Visible : cursor'[SubscriberOf[i]] < e
            /\ pc'[i] = "polling" =>
                  \A e \in owed'[SubscriberOf[i]] \intersect Visible : base'[i] < e
            /\ \A x \in todo'[i], e \in owed'[SubscriberOf[i]] \intersect Visible :
                  e < x => e \in todo'[i]
            /\ pc'[i] = "advancing" => Row(i)' \notin owed'[SubscriberOf[i]],
         \A s \in Subscriber : s # SubscriberOf[i] => cursor'[s] = cursor[s]
  PROVE  ReplayInv'
  <1>0. Visible' = Visible /\ Published' = Published /\ entity' = entity
    BY DEF logVars, Visible, Published
  <1>1. ASSUME NEW s \in Subscriber \ raced PROVE Ahead(s)'
    <2>0. Ahead(s)
      BY DEF ReplayInv
    <2>1. \A e \in owed'[s] \intersect Visible : cursor'[s] < e
      BY <2>0 DEF Ahead
    <2>2. ASSUME NEW j \in Loop, SubscriberOf[j] = s
          PROVE  /\ pc'[j] = "polling" => \A e \in owed'[s] \intersect Visible : base'[j] < e
                 /\ \A x \in todo'[j], e \in owed'[s] \intersect Visible :
                        e < x => e \in todo'[j]
                 /\ pc'[j] = "advancing" => Row(j)' \notin owed'[s]
      <3>1. CASE j = i
        BY <2>0, <2>2, <3>1
      <3>2. CASE j # i
        BY <2>0, <2>2, <3>2 DEF Ahead, Row
      <3> QED
        BY <3>1, <3>2
    <2> QED
      BY <1>0, <2>1, <2>2 DEF Ahead
  <1> QED
    BY <1>0, <1>1 DEF ReplayInv

LEMMA NextReplay == TypeOK /\ ReplayInv /\ Growth /\ [Next]_vars => ReplayInv'
  <1> SUFFICES ASSUME TypeOK, ReplayInv, Growth, [Next]_vars PROVE ReplayInv'
    OBVIOUS
  <1>1. CASE UNCHANGED vars
    BY <1>1, ReplayStutter DEF vars, readVars, replayVars
  <1>2. ASSUME NEW i \in Loop,
               \/ Register(i) \/ Stop(i) \/ HandleErr(i) \/ Wake(i) \/ RegisterError(i)
               \/ ReadError(i) \/ Crash(i) \/ Restart(i)
        PROVE  ReplayInv'
    <2>1. UNCHANGED <<cursor, owed, raced, base>>
      BY <1>2 DEF Register, Stop, HandleErr, Wake, RegisterError, ReadError, Crash, Restart,
                  replayVars
    <2>2. \A j \in Loop : todo'[j] = {} \/ todo'[j] = todo[j]
      BY <1>2 DEF Register, Stop, HandleErr, Wake, RegisterError, ReadError, Crash, Restart,
                  Leave, TypeOK
    <2>3. \A j \in Loop : pc'[j] \in {"polling", "advancing"} =>
                              pc[j] = pc'[j] /\ todo'[j] = todo[j]
      BY <1>2 DEF Register, Stop, HandleErr, Wake, RegisterError, ReadError, Crash, Restart,
                  Leave, Goto, TypeOK
    <2> QED
      BY <2>1, <2>2, <2>3, ReplayStutter
  <1>3. ASSUME NEW i \in Loop, ReadCursor(i) PROVE ReplayInv'
    <2>1. /\ UNCHANGED <<logVars, cursor, todo, owed, raced>>
          /\ base' = [base EXCEPT ![i] = cursor[SubscriberOf[i]]]
          /\ pc' = [pc EXCEPT ![i] = "polling"]
      BY <1>3 DEF ReadCursor, Goto, replayVars
    <2> QED
      BY <2>1, ReplayLoop DEF TypeOK, Ahead
  <1>4. ASSUME NEW i \in Loop, Poll(i) PROVE ReplayInv'
    <2> DEFINE s == SubscriberOf[i]
               rows == First(EventsAfter(EntityType[s], base[i]), BatchSize)
    <2>1. /\ UNCHANGED <<logVars, cursor, base, owed, raced>>
          /\ todo' = [todo EXCEPT ![i] = rows]
          /\ pc' = [pc EXCEPT ![i] = IF rows = {} THEN "waiting" ELSE "handling"]
          /\ pc[i] = "polling"
          /\ s \in Subscriber
      BY <1>4, FeedAssumption DEF Poll, Goto, replayVars
    <2>2. ASSUME s \notin raced, Ahead(s), NEW x \in rows,
                 NEW e \in owed[s] \intersect Visible, e < x
          PROVE  e \in rows
      <3>1. EventsAfter(EntityType[s], base[i]) \in SUBSET Event
        BY DEF EventsAfter, Visible
      <3>2. base[i] < e /\ e \in Event /\ base[i] \in Int
        BY <2>1, <2>2, EventIds DEF Ahead, Visible, TypeOK
      <3>3. e \in EventsAfter(EntityType[s], base[i])
        BY <2>1, <3>2, EventIds DEF ReplayInv, EventsAfter
      <3> QED
        BY <2>2, <3>1, <3>3, FirstIsPrefix, FeedAssumption
    <2> QED
      BY <2>1, <2>2, ReplayLoop DEF TypeOK, Ahead
  <1>5. ASSUME NEW i \in Loop, HandleOk(i) PROVE ReplayInv'
    <2> DEFINE s == SubscriberOf[i]
    <2>1. /\ UNCHANGED <<logVars, cursor, base, todo, raced>>
          /\ \A u \in Subscriber : owed'[u] = IF u = s THEN owed[u] \ {Row(i)} ELSE owed[u]
          /\ pc' = [pc EXCEPT ![i] = "advancing"]
          /\ s \in Subscriber
      BY <1>5, FeedAssumption DEF HandleOk, Goto, TypeOK
    <2>2. Row(i)' = Row(i) /\ Row(i) \notin owed'[s]
      BY <2>1 DEF Row
    <2>3. pc'[i] = "advancing"
      BY <2>1 DEF TypeOK
    <2>4. \A j \in Loop : j # i => pc'[j] = pc[j]
      BY <2>1 DEF TypeOK
    <2>5. ASSUME Ahead(s)
          PROVE  /\ \A e \in owed'[s] \intersect Visible : cursor'[s] < e
                 /\ \A x \in todo'[i], e \in owed'[s] \intersect Visible : e < x => e \in todo'[i]
      BY <2>1, <2>5 DEF Ahead
    <2> QED
      BY <2>1, <2>2, <2>3, <2>4, <2>5, ReplayLoop
  <1>6. ASSUME NEW i \in Loop, AdvanceCursor(i) \/ AdvanceError(i) PROVE ReplayInv'
    <2> DEFINE s == SubscriberOf[i]
    <2>1. /\ UNCHANGED <<logVars, base, owed, raced>>
          /\ \A u \in Subscriber : cursor'[u] = cursor[u] \/ (u = s /\ cursor'[u] = Row(i))
          /\ \A j \in Loop : j # i => pc'[j] = pc[j] /\ todo'[j] = todo[j]
          /\ todo'[i] = todo[i] \ {Row(i)} \/ todo'[i] = {}
          /\ pc[i] = "advancing"
          /\ pc'[i] \in {"top", "handling"}
          /\ s \in Subscriber
      BY <1>6, FeedAssumption DEF AdvanceCursor, AdvanceError, Leave, Goto, replayVars, TypeOK
    <2>2. Row(i) \in todo[i] /\ Row(i) \in Int /\ \A f \in todo[i] : Row(i) <= f
      <3>1. Row(i) \in todo[i] /\ Row(i) \in Event /\ \A f \in todo[i] : Row(i) <= f
        BY <2>1, TypeParts, RowIsLeast DEF InBatch
      <3> QED
        BY <3>1, LogAssumption DEF Event
    <2>3. ASSUME s \notin raced, Ahead(s)
          PROVE  /\ \A e \in owed[s] \intersect Visible : cursor'[s] < e
                 /\ \A x \in todo'[i], e \in owed[s] \intersect Visible : e < x => e \in todo'[i]
      <3>1. Row(i) \notin owed[s]
        BY <2>1, <2>3 DEF Ahead
      <3>2. ASSUME NEW e \in owed[s] \intersect Visible PROVE Row(i) < e
        <4>1. e # Row(i) /\ e \in Int
          BY <3>1, LogAssumption DEF Visible, Event
        <4>2. e < Row(i) => e \in todo[i]
          BY <2>2, <2>3 DEF Ahead
        <4> QED
          BY <2>2, <4>1, <4>2
      <3>3. \A e \in owed[s] \intersect Visible : cursor'[s] < e
        BY <2>1, <2>3, <3>2 DEF Ahead
      <3>4. \A x \in todo'[i], e \in owed[s] \intersect Visible : e < x => e \in todo'[i]
        BY <2>1, <2>3, <3>1 DEF Ahead
      <3> QED
        BY <3>3, <3>4
    <2> QED
      BY <2>1, <2>3, ReplayLoop
  <1>7. ASSUME NEW i \in Loop, Advance(i) \/ LoopFault(i) \/ Restart(i) PROVE ReplayInv'
    BY <1>2, <1>3, <1>4, <1>5, <1>6, <1>7 DEF Advance, LoopFault
  <1>8. ASSUME NEW r \in Relay,
               RelayStep(r) \/ RelayError(r) \/ RelayCrash(r) \/ RelayRestart(r)
        PROVE  ReplayInv'
    BY <1>8, RelayFrame, ReplayStutter DEF readVars, replayVars
  <1>9. CASE PublishStep \/ ReapEvents \/ Shutdown
    BY <1>9, ReplayStutter DEF PublishStep, ReapEvents, Shutdown, readVars, replayVars
  <1>10. ASSUME NEW s \in Subscriber, NEW from \in 0..LastId, Replay(s, from)
         PROVE  ReplayInv'
    <2>1. /\ UNCHANGED <<logVars, base, todo, pc>>
          /\ \A u \in Subscriber : cursor'[u] = IF u = s THEN from ELSE cursor[u]
          /\ \A u \in Subscriber :
                 owed'[u] = IF u = s THEN EventsAfter(EntityType[s], from) ELSE owed[u]
          /\ raced' = IF UnderWay(s) THEN raced \union {s} ELSE raced \ {s}
      BY <1>10 DEF Replay, TypeOK
    <2>2. Visible' = Visible /\ Published' = Published /\ entity' = entity
      BY <2>1 DEF logVars, Visible, Published
    <2>3. \A u \in Subscriber : \A e \in owed'[u] :
              e \in Published' /\ TypeOf[entity'[e]] = EntityType[u]
      <3>1. \A e \in EventsAfter(EntityType[s], from) :
                e \in Published /\ TypeOf[entity[e]] = EntityType[s]
        BY DEF EventsAfter, Visible, Published
      <3> QED
        BY <2>1, <2>2, <3>1 DEF ReplayInv
    <2>4. ASSUME NEW u \in Subscriber \ raced' PROVE Ahead(u)'
      <3>1. CASE u # s
        <4>1. u \notin raced
          BY <2>1, <3>1
        <4>2. Ahead(u) /\ owed'[u] = owed[u] /\ cursor'[u] = cursor[u]
          BY <2>1, <3>1, <4>1 DEF ReplayInv
        <4> QED
          BY <2>1, <2>2, <4>2 DEF Ahead, Row
      <3>2. CASE u = s
        <4>1. ~UnderWay(s)
          BY <2>1, <3>2
        <4>2. \A i \in Loop : SubscriberOf[i] = s =>
                  pc'[i] \notin {"polling", "advancing"} /\ todo'[i] = {}
          BY <2>1, <4>1 DEF UnderWay, TypeOK, InBatch
        <4>3. \A e \in EventsAfter(EntityType[s], from) : from < e
          BY LogAssumption DEF EventsAfter, Visible, Event
        <4> QED
          BY <2>1, <3>2, <4>2, <4>3 DEF Ahead
      <3> QED
        BY <3>1, <3>2
    <2> QED
      BY <2>3, <2>4 DEF ReplayInv
  <1> QED
    BY <1>1, <1>7, <1>8, <1>9, <1>10 DEF Next

\* A replay at a moment none of the subscriber's loops is under way is
\* honoured: the cursor does not pass what it asked for before it is handled.
THEOREM ReplayCorrect == Spec => []QuietReplayHonoured
  <1>1. ReplayInv => QuietReplayHonoured
    BY DEF ReplayInv, Ahead, QuietReplayHonoured, Honoured
  <1> QED
    BY <1>1, InitType, InitIds, InitReplay, NextType, NextGrowth, NextReplay, PTL DEF Spec

----------------------------------------------------------------------------
(* Snapshots. *)

\* The snapshot of x is an event of x, and each event of x is at or before it
\* unless one of them is late.
SnapshotInv ==
    \A x \in Entity :
        /\ snapshot[x] # NoEvent => snapshot[x] \in EverPublished(x)
        /\ \A e \in EverPublished(x) :
               e <= snapshot[x] \/ EverPublished(x) \intersect late # {}

LEMMA InitSnapshot == Init => SnapshotInv
  BY DEF Init, LogInit, SnapshotInv, EverPublished, Published

LEMMA SnapshotStutter ==
  ASSUME SnapshotInv, Growth, UNCHANGED snapshot, Published' = Published
  PROVE  SnapshotInv'
  <1>1. \A x \in Entity : EverPublished(x)' = EverPublished(x)
    BY DEF EverPublished, Growth
  <1> QED
    BY <1>1 DEF SnapshotInv, Growth

LEMMA CommitSnapshot ==
  ASSUME LogTypeOK, Ids, SnapshotInv, NEW p \in Publisher, Commit(p)
  PROVE  SnapshotInv'
  <1>0. /\ UNCHANGED entity
        /\ writing[p] = NoEvent
        /\ \A e \in Event : status'[e] = IF e \in tx[p] THEN "pending" ELSE status[e]
        /\ late' = late \union {e \in tx[p] : \E f \in Published : f > e /\ SameType(e, f)}
        /\ \A x \in Entity :
               snapshot'[x] = IF x \in Locked(p) THEN LastState(p, x) ELSE snapshot[x]
    BY DEF Commit, LastState
  <1>1. tx[p] \subseteq Event /\ \A e \in tx[p] : e # NoEvent /\ entity[e] \in Locked(p)
    BY <1>0, EventIds DEF LogTypeOK, Locked
  <1>2. Published' = Published \union tx[p]
    BY <1>0, <1>1 DEF Published
  <1>3. ASSUME NEW x \in Entity, x \notin Locked(p)
        PROVE  EverPublished(x)' = EverPublished(x) /\ snapshot'[x] = snapshot[x]
    BY <1>0, <1>1, <1>2, <1>3 DEF EverPublished
  <1>4. ASSUME NEW x \in Entity, x \in Locked(p)
        PROVE  /\ snapshot'[x] \in EverPublished(x)'
               /\ \A e \in EverPublished(x)' :
                      e <= snapshot'[x] \/ EverPublished(x)' \intersect late' # {}
    <2>1. PICK g \in tx[p] : /\ snapshot'[x] = g /\ entity[g] = x
                             /\ \A f \in tx[p] : entity[f] = x => f <= g
      BY <1>0, <1>4, LastStateExists
    <2>2. g \in EverPublished(x)'
      BY <1>0, <1>2, <2>1 DEF EverPublished
    <2>3. ASSUME NEW e \in EverPublished(x)', ~(e <= g) PROVE g \in late'
      <3>1. e \in Published /\ entity[e] = x
        BY <1>0, <1>2, <2>1, <2>3 DEF EverPublished
      <3>2. e > g
        BY <1>1, <2>3, <3>1, LogAssumption DEF Published, Event
      <3> QED
        BY <1>0, <2>1, <3>1, <3>2 DEF SameType
    <2> QED
      BY <2>1, <2>2, <2>3
  <1>5. late \subseteq late'
    BY <1>0
  <1> QED
    BY <1>3, <1>4, <1>5 DEF SnapshotInv

LEMMA NextSnapshot == TypeOK /\ Ids /\ SnapshotInv /\ Growth /\ [Next]_vars => SnapshotInv'
  <1> SUFFICES ASSUME TypeOK, Ids, SnapshotInv, Growth, [Next]_vars PROVE SnapshotInv'
    OBVIOUS
  <1>0. LogTypeOK
    BY TypeParts
  <1>1. ASSUME UNCHANGED logVars PROVE SnapshotInv'
    BY <1>1, SnapshotStutter DEF logVars, Published
  <1>2. ASSUME UNCHANGED snapshot, NEW S \in SUBSET Visible, NEW new \in {"delivered", "gone"},
               SetStatus(S, new)
        PROVE  SnapshotInv'
    BY <1>2, SnapshotStutter DEF SetStatus, Published, Visible
  <1>3. ASSUME NEW r \in Relay,
               RelayStep(r) \/ RelayError(r) \/ RelayCrash(r) \/ RelayRestart(r)
        PROVE  SnapshotInv'
    <2>1. First(Pending, RelayBatch) \in SUBSET Visible /\ {} \in SUBSET Visible
      BY FirstWithin DEF Pending, Visible
    <2> QED
      BY <1>1, <1>2, <1>3, <2>1 DEF RelayStep, RelayPoll, RelayHandle, RelayWake, RelayStop,
                                    RelayError, RelayCrash, RelayRestart, RelayMoves
  <1>4. ASSUME NEW p \in Publisher, Publish(p) PROVE SnapshotInv'
    <2>1. CASE Commit(p)
      BY <1>0, <2>1, CommitSnapshot
    <2>2. CASE InsertEvent(p) \/ UpsertSnapshot(p) \/ Abort(p)
      BY <2>2, SnapshotStutter DEF InsertEvent, UpsertSnapshot, Abort, Published
    <2> QED
      BY <1>4, <2>1, <2>2 DEF Publish
  <1>5. CASE ReapEvents
    <2>1. \A S \in SUBSET {e \in Event : status[e] = "delivered"} : S \in SUBSET Visible
      BY DEF Visible
    <2> QED
      BY <1>2, <1>5, <2>1 DEF ReapEvents
  <1>6. ASSUME NEW i \in Loop, Advance(i) \/ LoopFault(i) \/ Restart(i) PROVE SnapshotInv'
    BY <1>1, <1>6, LoopFrame
  <1> QED
    BY <1>1, <1>3, <1>4, <1>5, <1>6 DEF Next, PublishStep, Shutdown, Replay, vars

\* The snapshot of an entity is the last state published for it, unless
\* overlapping transactions committed out of the order of their ids
\* (EventPublish::publish).
THEOREM SnapshotCorrect == Spec => []SnapshotAgrees
  <1>1. SnapshotInv => SnapshotAgrees
    BY DEF SnapshotInv, SnapshotAgrees
  <1> QED
    BY <1>1, InitType, InitIds, InitSnapshot, NextType, NextGrowth, NextSnapshot, PTL DEF Spec

----------------------------------------------------------------------------
(* Relays. *)

\* A row a relay holds or has handled is delivered, in no other hand, and not
\* handled before.
RelayInv ==
    /\ \A r \in Relay : \A e \in relaying[r] :
          /\ status[e] \in {"delivered", "gone"}
          /\ relayed[e] = 0
          /\ \A q \in Relay : e \in relaying[q] => q = r
    /\ \A e \in Event :
          relayed[e] = 0 \/ (relayed[e] = 1 /\ status[e] \in {"delivered", "gone"})

RelayBatches == \A r \in Relay : Cardinality(relaying[r]) <= RelayBatch

\* A step loses no event, or it is a fault and loses one batch.
Counted ==
    \/ /\ Unrelayed' \subseteq Unrelayed
       /\ crashes' + dbErrors' >= crashes + dbErrors
    \/ /\ crashes' + dbErrors' = crashes + dbErrors + 1
       /\ \E batch \in SUBSET Event : /\ Cardinality(batch) <= RelayBatch
                                      /\ Unrelayed' \subseteq Unrelayed \union batch

LEMMA InitRelay == Init => RelayInv /\ RelayBatches /\ RelayKeeps
  <1> SUFFICES ASSUME Init PROVE RelayInv /\ RelayBatches /\ RelayKeeps
    OBVIOUS
  <1>1. RelayInv
    BY DEF Init, LogInit, RelayInv
  <1>2. /\ \A r \in Relay : relaying[r] = {}
        /\ Unrelayed = {} /\ crashes + dbErrors = 0
    BY DEF Init, LogInit, Unrelayed
  <1>3. Cardinality({}) = 0
    BY FS_EmptySet
  <1>4. RelayBatches
    BY <1>2, <1>3, FeedAssumption DEF RelayBatches
  <1>5. RelayKeeps
    BY <1>2, <1>3, FeedAssumption DEF RelayKeeps
  <1> QED
    BY <1>1, <1>4, <1>5

\* Steps that leave the relays alone and undo no delivery.
LEMMA RelayStutter ==
  ASSUME LogTypeOK, RelayInv, RelayBatches, UNCHANGED relayVars,
         \A e \in Event : status[e] \in {"delivered", "gone"} <=> status'[e] \in {"delivered", "gone"},
         crashes' + dbErrors' >= crashes + dbErrors,
         RelayTypeOK
  PROVE  RelayInv' /\ RelayBatches' /\ Counted
  <1>1. RelayInv'
    BY DEF RelayInv, relayVars, RelayTypeOK
  <1>2. Unrelayed' \subseteq Unrelayed /\ RelayBatches'
    BY DEF Unrelayed, RelayBatches, relayVars
  <1> QED
    BY <1>1, <1>2 DEF Counted

LEMMA RelayStepKeeps ==
  ASSUME LogTypeOK, RelayTypeOK, FaultsTypeOK, RelayInv, RelayBatches, NEW r \in Relay,
         RelayStep(r) \/ RelayError(r) \/ RelayCrash(r) \/ RelayRestart(r)
  PROVE  RelayInv' /\ RelayBatches' /\ Counted
  <1>f. crashes \in Nat /\ dbErrors \in Nat
    BY DEF FaultsTypeOK
  <1>p. First(Pending, RelayBatch) \in SUBSET Event /\ Cardinality(First(Pending, RelayBatch)) <= RelayBatch
    BY FirstWithin, FirstBounded, FeedAssumption DEF Pending
  <1>1. CASE RelayPoll(r)
    <2> DEFINE rows == First(Pending, RelayBatch)
    <2>1. rows \subseteq Pending
      BY FirstWithin
    <2>2. /\ \A e \in Event : status'[e] = IF e \in rows THEN "delivered" ELSE status[e]
          /\ \A q \in Relay : relaying'[q] = IF q = r THEN rows ELSE relaying[q]
          /\ UNCHANGED <<relayed, crashes, dbErrors>>
          /\ relaying[r] = {}
      BY <1>1 DEF RelayPoll, SetStatus, RelayTypeOK, faultVars
    <2>3. \A e \in rows : e \in Event /\ status[e] = "pending"
      BY <2>1 DEF Pending
    <2>4. \A e \in rows : relayed[e] = 0 /\ \A q \in Relay : e \notin relaying[q]
      BY <2>3 DEF RelayInv
    <2>5. RelayInv'
      <3>1. ASSUME NEW q \in Relay, NEW e \in relaying'[q]
            PROVE  /\ status'[e] \in {"delivered", "gone"}
                   /\ relayed'[e] = 0
                   /\ \A k \in Relay : e \in relaying'[k] => k = q
        <4>1. CASE q = r
          BY <2>2, <2>3, <2>4, <4>1
        <4>2. CASE q # r
          <5>1. e \in relaying[q] /\ e \in Event /\ e \notin rows
            BY <2>2, <2>4, <4>2 DEF RelayTypeOK
          <5> QED
            BY <2>2, <4>2, <5>1 DEF RelayInv
        <4> QED
          BY <4>1, <4>2
      <3>2. \A e \in Event :
               relayed'[e] = 0 \/ (relayed'[e] = 1 /\ status'[e] \in {"delivered", "gone"})
        BY <2>2 DEF RelayInv
      <3> QED
        BY <3>1, <3>2 DEF RelayInv
    <2>6. RelayBatches'
      BY <2>2, <1>p DEF RelayBatches
    <2>7. Counted
      BY <2>2, <1>f DEF Counted, Unrelayed
    <2> QED
      BY <2>5, <2>6, <2>7
  <1>2. CASE RelayHandle(r)
    <2>1. PICK e \in relaying[r] :
              /\ relaying' = [relaying EXCEPT ![r] = @ \ {e}]
              /\ relayed' = [relayed EXCEPT ![e] = @ + 1]
      BY <1>2 DEF RelayHandle
    <2>2. e \in Event /\ relayed[e] = 0 /\ status[e] \in {"delivered", "gone"}
      BY DEF RelayInv, RelayTypeOK
    <2>3. /\ \A f \in Event : relayed'[f] = IF f = e THEN 1 ELSE relayed[f]
          /\ \A q \in Relay : relaying'[q] = IF q = r THEN relaying[r] \ {e} ELSE relaying[q]
          /\ UNCHANGED <<status, crashes, dbErrors>>
      <3>1. \A f \in Event : relayed'[f] = IF f = e THEN relayed[e] + 1 ELSE relayed[f]
        BY <2>1, <2>2 DEF RelayTypeOK
      <3>2. \A f \in Event : relayed'[f] = IF f = e THEN 1 ELSE relayed[f]
        BY <2>2, <3>1
      <3>3. \A q \in Relay : relaying'[q] = IF q = r THEN relaying[r] \ {e} ELSE relaying[q]
        BY <2>1 DEF RelayTypeOK
      <3>4. UNCHANGED <<status, crashes, dbErrors>>
        BY <1>2 DEF RelayHandle, logVars, faultVars
      <3> QED
        BY <3>2, <3>3, <3>4
    <2>4. \A q \in Relay : relaying'[q] \subseteq relaying[q] /\ e \notin relaying'[q]
      BY <2>3 DEF RelayInv
    <2>5. RelayInv'
      <3>1. ASSUME NEW q \in Relay, NEW f \in relaying'[q]
            PROVE  /\ status'[f] \in {"delivered", "gone"}
                   /\ relayed'[f] = 0
                   /\ \A k \in Relay : f \in relaying'[k] => k = q
        <4>1. f \in relaying[q] /\ f # e /\ f \in Event
          BY <2>4 DEF RelayTypeOK
        <4> QED
          BY <2>3, <2>4, <4>1 DEF RelayInv
      <3>2. \A f \in Event :
               relayed'[f] = 0 \/ (relayed'[f] = 1 /\ status'[f] \in {"delivered", "gone"})
        BY <2>2, <2>3 DEF RelayInv
      <3> QED
        BY <3>1, <3>2 DEF RelayInv
    <2>6. RelayBatches'
      <3>1. ASSUME NEW q \in Relay PROVE Cardinality(relaying'[q]) <= RelayBatch
        <4>1. relaying[q] \in SUBSET Event /\ relaying'[q] \subseteq relaying[q]
          BY <2>4 DEF RelayTypeOK
        <4>2. /\ Cardinality(relaying'[q]) <= Cardinality(relaying[q])
              /\ Cardinality(relaying'[q]) \in Nat /\ Cardinality(relaying[q]) \in Nat
          BY <4>1, EventsFinite, FS_Subset
        <4> QED
          BY <4>2, FeedAssumption DEF RelayBatches
      <3> QED
        BY <3>1 DEF RelayBatches
    <2>7. Counted
      BY <2>3, <1>f DEF Counted, Unrelayed
    <2> QED
      BY <2>5, <2>6, <2>7
  <1>3. CASE RelayWake(r) \/ RelayStop(r) \/ RelayRestart(r)
    BY <1>3, <1>f DEF RelayWake, RelayStop, RelayRestart, RelayMoves, logVars, faultVars,
                      RelayInv, RelayBatches, Counted, Unrelayed
  <1>4. CASE RelayError(r)
    <2>1. PICK rows \in {{}, First(Pending, RelayBatch)} : SetStatus(rows, "delivered")
      BY <1>4 DEF RelayError
    <2>2. /\ \A e \in Event : status'[e] = IF e \in rows THEN "delivered" ELSE status[e]
          /\ UNCHANGED <<relaying, relayed>>
          /\ crashes' + dbErrors' = crashes + dbErrors + 1
      BY <1>4, <2>1, <1>f DEF RelayError, DbError, SetStatus
    <2>3. RelayInv' /\ RelayBatches'
      BY <2>2 DEF RelayInv, RelayTypeOK, RelayBatches
    <2>4. Unrelayed' \subseteq Unrelayed \union First(Pending, RelayBatch)
      BY <2>2 DEF Unrelayed
    <2> QED
      BY <2>2, <2>3, <2>4, <1>p DEF Counted
  <1>5. CASE RelayCrash(r)
    <2>1. /\ \A q \in Relay : relaying'[q] = IF q = r THEN {} ELSE relaying[q]
          /\ UNCHANGED <<status, relayed>>
          /\ crashes' + dbErrors' = crashes + dbErrors + 1
      BY <1>5, <1>f DEF RelayCrash, CountCrash, RelayTypeOK, logVars
    <2>2. RelayInv'
      BY <2>1 DEF RelayInv
    <2>3. RelayBatches'
      BY <2>1, FS_EmptySet, FeedAssumption DEF RelayBatches
    <2>4. Unrelayed' \subseteq Unrelayed \union relaying[r]
      BY <2>1 DEF Unrelayed
    <2>5. relaying[r] \in SUBSET Event /\ Cardinality(relaying[r]) <= RelayBatch
      BY DEF RelayTypeOK, RelayBatches
    <2> QED
      BY <2>1, <2>2, <2>3, <2>4, <2>5 DEF Counted
  <1> QED
    BY <1>1, <1>2, <1>3, <1>4, <1>5 DEF RelayStep

LEMMA NextRelay ==
  TypeOK /\ Ids /\ RelayInv /\ RelayBatches /\ [Next]_vars
  => RelayInv' /\ RelayBatches' /\ Counted
  <1> SUFFICES ASSUME TypeOK, Ids, RelayInv, RelayBatches, [Next]_vars
               PROVE  RelayInv' /\ RelayBatches' /\ Counted
    OBVIOUS
  <1>0. LogTypeOK /\ RelayTypeOK /\ FaultsTypeOK
    BY TypeParts
  <1>f. crashes \in Nat /\ dbErrors \in Nat
    BY <1>0 DEF FaultsTypeOK
  <1>1. CASE UNCHANGED vars
    BY <1>0, <1>f, <1>1, RelayStutter DEF vars, logVars, faultVars
  <1>2. ASSUME NEW i \in Loop, Advance(i) \/ LoopFault(i) \/ Restart(i)
        PROVE  RelayInv' /\ RelayBatches' /\ Counted
    <2>1. UNCHANGED <<relayVars, status>>
      BY <1>2, LoopFrame DEF logVars
    <2>2. crashes' + dbErrors' >= crashes + dbErrors
      BY <1>f, <1>2 DEF Advance, LoopFault, Register, ReadCursor, Stop, Poll, HandleOk,
         HandleErr, AdvanceCursor, Wake, RegisterError, ReadError, AdvanceError, Crash,
         Restart, Refuse, DbError, CountCrash, faultVars
    <2> QED
      BY <1>0, <2>1, <2>2, RelayStutter
  <1>3. ASSUME NEW r \in Relay,
               RelayStep(r) \/ RelayError(r) \/ RelayCrash(r) \/ RelayRestart(r)
        PROVE  RelayInv' /\ RelayBatches' /\ Counted
    BY <1>0, <1>3, RelayStepKeeps
  <1>4. CASE PublishStep
    <2>1. PICK p \in Publisher : Publish(p)
      BY <1>4 DEF PublishStep
    <2>2. UNCHANGED <<relayVars, crashes, dbErrors>>
      BY <1>4 DEF PublishStep, faultVars
    <2>3. \A e \in Event :
              status[e] \in {"delivered", "gone"} <=> status'[e] \in {"delivered", "gone"}
      BY <2>1 DEF Publish, InsertEvent, UpsertSnapshot, Commit, Abort, Ids
    <2> QED
      BY <1>0, <1>f, <2>2, <2>3, RelayStutter
  <1>5. CASE ReapEvents
    <2>1. \A e \in Event :
              status[e] \in {"delivered", "gone"} <=> status'[e] \in {"delivered", "gone"}
      BY <1>5 DEF ReapEvents, SetStatus
    <2> QED
      BY <1>0, <1>f, <1>5, <2>1, RelayStutter DEF ReapEvents, faultVars
  <1>6. CASE Shutdown
    BY <1>0, <1>f, <1>6, RelayStutter DEF Shutdown, logVars, faultVars
  <1>7. ASSUME NEW s \in Subscriber, NEW from \in 0..LastId, Replay(s, from)
        PROVE  RelayInv' /\ RelayBatches' /\ Counted
    BY <1>0, <1>f, <1>7, RelayStutter DEF Replay, logVars
  <1> QED
    BY <1>1, <1>2, <1>3, <1>4, <1>5, <1>6, <1>7 DEF Next

LEMMA RelayKeepsStep ==
  TypeOK /\ TypeOK' /\ RelayKeeps /\ Counted => RelayKeeps'
  <1> SUFFICES ASSUME TypeOK, TypeOK', RelayKeeps, Counted PROVE RelayKeeps'
    OBVIOUS
  <1> DEFINE old == crashes + dbErrors
             new == crashes' + dbErrors'
  <1>0. old \in Nat /\ new \in Nat /\ RelayBatch \in Nat
    BY FeedAssumption DEF TypeOK
  <1>1. /\ IsFiniteSet(Unrelayed) /\ Cardinality(Unrelayed) \in Nat
        /\ IsFiniteSet(Unrelayed') /\ Cardinality(Unrelayed') \in Nat
    BY EventsFinite DEF Unrelayed
  <1>2. Cardinality(Unrelayed) <= RelayBatch * old
    BY DEF RelayKeeps
  <1>3. CASE Unrelayed' \subseteq Unrelayed /\ new >= old
    <2>1. Cardinality(Unrelayed') <= Cardinality(Unrelayed)
      BY <1>1, <1>3, FS_Subset
    <2>2. RelayBatch * old <= RelayBatch * new /\ RelayBatch * old \in Nat /\ RelayBatch * new \in Nat
      <3> HIDE DEF old, new
      <3> QED
        BY <1>0, <1>3
    <2> QED
      BY <2>1, <2>2, <1>1, <1>2 DEF RelayKeeps
  <1>4. ASSUME NEW batch \in SUBSET Event, Cardinality(batch) <= RelayBatch,
               Unrelayed' \subseteq Unrelayed \union batch, new = old + 1
        PROVE  RelayKeeps'
    <2>1. IsFiniteSet(batch) /\ Cardinality(batch) \in Nat
      BY EventsFinite
    <2>2. /\ IsFiniteSet(Unrelayed \union batch)
          /\ Cardinality(Unrelayed \union batch) <= Cardinality(Unrelayed) + Cardinality(batch)
          /\ Cardinality(Unrelayed \union batch) \in Nat
      <3> DEFINE both == Unrelayed \union batch
                 shared == Unrelayed \intersect batch
      <3>1. shared \in SUBSET Event /\ both \in SUBSET Event
        BY DEF Unrelayed
      <3>2. Cardinality(both) = Cardinality(Unrelayed) + Cardinality(batch) - Cardinality(shared)
        BY <1>1, <2>1, FS_Union
      <3> HIDE DEF both, shared
      <3>3. IsFiniteSet(both) /\ Cardinality(both) \in Nat /\ Cardinality(shared) \in Nat
        BY <3>1, EventsFinite
      <3>4. Cardinality(both) <= Cardinality(Unrelayed) + Cardinality(batch)
        BY <1>1, <2>1, <3>2, <3>3
      <3> QED
        BY <3>3, <3>4 DEF both
    <2>3. Cardinality(Unrelayed') <= Cardinality(Unrelayed \union batch)
      BY <1>4, <2>2, FS_Subset
    <2>4. RelayBatch * new = RelayBatch * old + RelayBatch /\ RelayBatch * old \in Nat
      <3> HIDE DEF old
      <3> QED
        BY <1>0, <1>4
    <2> QED
      BY <2>1, <2>2, <2>3, <2>4, <1>0, <1>1, <1>2, <1>4 DEF RelayKeeps
  <1> QED
    BY <1>3, <1>4 DEF Counted

LEMMA RelayIsInvariant == Spec => [](TypeOK /\ RelayInv /\ RelayBatches /\ RelayKeeps)
  BY InitType, InitIds, InitRelay, NextType, NextGrowth, NextRelay, RelayKeepsStep, PTL
  DEF Spec

\* Relays share the events: an event is in one hand at most and reaches a relay
\* handler at most once (Relay::poll_pending).
THEOREM RelayedOnceCorrect == Spec => []RelayedOnce
  <1>1. TypeOK /\ RelayInv => RelayedOnce
    <2> SUFFICES ASSUME TypeOK, RelayInv, NEW e \in Event
                 PROVE  relayed[e] + Cardinality({r \in Relay : e \in relaying[r]}) <= 1
      BY DEF RelayedOnce
    <2>1. CASE {r \in Relay : e \in relaying[r]} = {}
      <3>1. Cardinality({r \in Relay : e \in relaying[r]}) = 0
        BY <2>1, FS_EmptySet
      <3>2. relayed[e] = 0 \/ relayed[e] = 1
        BY DEF RelayInv
      <3> QED
        BY <3>1, <3>2
    <2>2. ASSUME NEW r \in Relay, e \in relaying[r]
          PROVE  relayed[e] + Cardinality({q \in Relay : e \in relaying[q]}) <= 1
      <3>1. {q \in Relay : e \in relaying[q]} = {r} /\ relayed[e] = 0
        BY <2>2 DEF RelayInv
      <3>2. Cardinality({q \in Relay : e \in relaying[q]}) = 1
        BY <3>1, FS_Singleton
      <3> QED
        BY <3>1, <3>2
    <2> QED
      BY <2>1, <2>2
  <1> QED
    BY <1>1, RelayIsInvariant, PTL

\* The events marked delivered that reach no relay handler are one batch at
\* most for each crash or failed statement (Relay::spawn).
THEOREM RelayKeepsCorrect == Spec => []RelayKeeps
  BY RelayIsInvariant, PTL

----------------------------------------------------------------------------
(* Shutdown *)

\* How many of its own steps a cancelled subscriber loop may still take at
\* place, with n rows of its batch left: it handles what it has polled, goes
\* to the top and finds the token.
Distance(place, n) ==
    CASE place \in {"stopped", "down"} -> 0
      [] place = "top" -> 1
      [] place \in {"starting", "waiting"} -> 2
      [] place = "advancing" -> 2 * n
      [] place = "handling" -> 2 * n + 1
      [] place = "polling" -> 2 * BatchSize + 2

\* The same for a relay.
RelayDistance(place, n) ==
    CASE place \in {"stopped", "down"} -> 0
      [] place = "top" -> 1
      [] place = "waiting" -> 2
      [] place = "handling" -> n + 2

LoopSteps(i) == Distance(pc[i], Cardinality(todo[i]))
RelaySteps(r) == RelayDistance(rpc[r], Cardinality(relaying[r]))

\* A loop has two steps for each row of one batch, and two more, left at most;
\* a relay has one for each row, and two.
StepsBounded ==
    /\ \A i \in Loop : LoopSteps(i) \in 0..(2 * BatchSize + 2)
    /\ \A r \in Relay : RelaySteps(r) \in 0..(RelayBatch + 2)

\* Once cancelled, whatever a loop or a relay does and whatever fails under it
\* brings it closer to its end: it polls once more at most and begins no other
\* turn; no step of another sends it back.
ReadersDescend ==
    [][cancelled =>
        /\ cancelled'
        /\ \A i \in Loop :
              /\ LoopSteps(i)' <= LoopSteps(i)
              /\ Advance(i) \/ LoopFault(i) => LoopSteps(i)' < LoopSteps(i)
        /\ \A r \in Relay :
              /\ RelaySteps(r)' <= RelaySteps(r)
              /\ RelayStep(r) \/ RelayError(r) \/ RelayCrash(r) =>
                     RelaySteps(r)' < RelaySteps(r)]_vars

LEMMA Distances ==
  ASSUME NEW n
  PROVE  /\ Distance("stopped", n) = 0 /\ Distance("down", n) = 0
         /\ Distance("top", n) = 1
         /\ Distance("starting", n) = 2 /\ Distance("waiting", n) = 2
         /\ Distance("advancing", n) = 2 * n
         /\ Distance("handling", n) = 2 * n + 1
         /\ Distance("polling", n) = 2 * BatchSize + 2
         /\ RelayDistance("stopped", n) = 0 /\ RelayDistance("down", n) = 0
         /\ RelayDistance("top", n) = 1 /\ RelayDistance("waiting", n) = 2
         /\ RelayDistance("handling", n) = n + 2
  BY DEF Distance, RelayDistance

\* A row that is taken off a batch makes it shorter by one.
LEMMA OneLess ==
  ASSUME NEW S \in SUBSET Event, NEW e \in S
  PROVE  /\ Cardinality(S \ {e}) = Cardinality(S) - 1
         /\ Cardinality(S) \in Nat \ {0}
  <1>1. IsFiniteSet(S) /\ Cardinality(S) \in Nat
    BY EventsFinite
  <1>2. Cardinality(S) # 0
    BY <1>1, FS_EmptySet
  <1> QED
    BY <1>1, <1>2, FS_RemoveElement

\* A batch is no longer than the limit of the query.
SmallBatches == \A i \in Loop : Cardinality(todo[i]) <= BatchSize

\* What the steps of a loop do to its place and to its batch.
LEMMA LoopMoves ==
  ASSUME ReadTypeOK, NEW i \in Loop, Advance(i) \/ LoopFault(i)
  PROVE  /\ \A j \in Loop \ {i} : pc'[j] = pc[j] /\ todo'[j] = todo[j]
         /\ \/ pc[i] = "polling" /\ pc'[i] \in {"waiting", "handling"}
                /\ Cardinality(todo'[i]) <= BatchSize
            \/ pc[i] = "handling" /\ pc'[i] = "advancing" /\ todo'[i] = todo[i]
            \/ pc[i] = "advancing" /\ pc'[i] \in {"top", "handling"}
                /\ todo'[i] = todo[i] \ {Row(i)}
            \/ pc[i] \in InBatch /\ pc'[i] = "top" /\ todo'[i] = {}
            \/ pc[i] = "top" /\ ~cancelled /\ pc'[i] \in {"polling", "waiting"} /\ todo'[i] = {}
            \/ pc[i] = "polling" /\ pc'[i] = "waiting" /\ todo'[i] = {}
            \/ pc[i] \in {"starting", "waiting"} /\ pc'[i] = "top" /\ todo'[i] = {}
            \/ pc[i] \in Live \ {"polling"} /\ pc'[i] = "stopped" /\ todo'[i] = {}
                /\ pc[i] \notin InBatch
            \/ pc[i] \in Live /\ pc'[i] = "down" /\ todo'[i] = {}
  <1>1. CASE Poll(i)
    <2> DEFINE rows == First(EventsAfter(EntityType[SubscriberOf[i]], base[i]), BatchSize)
    <2>1. Cardinality(rows) <= BatchSize
      BY FirstBounded, FeedAssumption DEF EventsAfter, Visible
    <2> HIDE DEF rows
    <2>2. /\ pc[i] = "polling"
          /\ todo' = [todo EXCEPT ![i] = rows]
          /\ pc' = [pc EXCEPT ![i] = IF rows = {} THEN "waiting" ELSE "handling"]
      BY <1>1 DEF Poll, Goto, rows
    <2> QED
      BY <2>1, <2>2 DEF ReadTypeOK
  <1>2. CASE Register(i) \/ RegisterError(i) \/ ReadCursor(i) \/ ReadError(i) \/ Stop(i)
             \/ Wake(i)
    BY <1>2 DEF Register, RegisterError, ReadCursor, ReadError, Stop, Wake, Goto, ReadTypeOK,
                InBatch, Live
  <1>3. CASE HandleOk(i) \/ AdvanceCursor(i)
    BY <1>3 DEF HandleOk, AdvanceCursor, Goto, ReadTypeOK
  <1>4. CASE HandleErr(i) \/ AdvanceError(i) \/ Crash(i)
    BY <1>4 DEF HandleErr, AdvanceError, Crash, Leave, Goto, ReadTypeOK, InBatch
  <1> QED
    BY <1>1, <1>2, <1>3, <1>4 DEF Advance, LoopFault

LEMMA LoopDescends ==
  ASSUME TypeOK, cancelled, NEW i \in Loop, Advance(i) \/ LoopFault(i)
  PROVE  LoopSteps(i)' < LoopSteps(i)
  <1> DEFINE n == Cardinality(todo[i])
             m == Cardinality(todo'[i])
  <1>1. ReadTypeOK /\ ReadTypeOK' /\ BatchSize \in Nat \ {0}
    BY NextType, TypeParts, FeedAssumption DEF Next, TypeOK, ReadTypeOK
  <1>2. n \in Nat /\ m \in Nat
    BY <1>1, EventsFinite DEF ReadTypeOK
  <1>3. LoopSteps(i) = Distance(pc[i], n) /\ LoopSteps(i)' = Distance(pc'[i], m)
    BY DEF LoopSteps
  <1>4. todo'[i] = todo[i] => m = n
    OBVIOUS
  <1>5. pc[i] = "advancing" /\ todo'[i] = todo[i] \ {Row(i)} =>
            m = n - 1 /\ n >= 1 /\ (pc'[i] = "handling" => m >= 1)
    <2> SUFFICES ASSUME pc[i] = "advancing", todo'[i] = todo[i] \ {Row(i)}
                 PROVE  m = n - 1 /\ n >= 1 /\ (pc'[i] = "handling" => m >= 1)
      OBVIOUS
    <2>1. Row(i) \in todo[i] /\ todo[i] \in SUBSET Event
      BY <1>1, RowIsLeast DEF InBatch, ReadTypeOK
    <2>2. m = n - 1 /\ n >= 1
      BY <1>2, <2>1, OneLess
    <2>3. pc'[i] = "handling" => m \in Nat \ {0}
      <3>1. pc'[i] = "handling" => todo'[i] # {} /\ todo'[i] \in SUBSET Event
        BY <1>1 DEF ReadTypeOK, InBatch
      <3> QED
        BY <3>1, OneLess
    <2> QED
      BY <1>2, <2>2, <2>3
  <1>6. pc[i] \in InBatch => n >= 1
    <2>1. pc[i] \in InBatch => todo[i] # {} /\ todo[i] \in SUBSET Event
      BY <1>1 DEF ReadTypeOK
    <2>2. ASSUME NEW e \in todo[i], todo[i] \in SUBSET Event PROVE n \in Nat \ {0}
      <3>1. \A S \in SUBSET Event : e \in S => Cardinality(S) \in Nat \ {0}
        BY OneLess
      <3> QED
        BY <2>2, <3>1
    <2> QED
      BY <1>2, <2>1, <2>2
  <1> HIDE DEF n, m
  <1>7. \/ pc[i] = "polling" /\ pc'[i] \in {"waiting", "handling"} /\ m <= BatchSize
        \/ pc[i] = "handling" /\ pc'[i] = "advancing" /\ m = n
        \/ pc[i] = "advancing" /\ pc'[i] = "top" /\ n >= 1
        \/ pc[i] = "advancing" /\ pc'[i] = "handling" /\ m = n - 1
        \/ pc[i] \in {"starting", "waiting"} /\ pc'[i] = "top"
        \/ pc[i] \in InBatch /\ pc'[i] = "top" /\ n >= 1
        \/ pc[i] = "polling" /\ pc'[i] = "waiting"
        \/ pc[i] \in Live \ {"polling"} /\ pc[i] \notin InBatch /\ pc'[i] = "stopped"
        \/ pc[i] \in Live /\ pc'[i] = "down" /\ (pc[i] \in InBatch => n >= 1)
    BY <1>1, <1>4, <1>5, <1>6, LoopMoves DEF m
  <1> QED
    BY <1>1, <1>2, <1>3, <1>7, Distances DEF Live, InBatch

\* What the steps of a relay do once the token is cancelled.
LEMMA RelayDescends ==
  ASSUME TypeOK, cancelled, NEW r \in Relay,
         RelayStep(r) \/ RelayError(r) \/ RelayCrash(r)
  PROVE  /\ RelaySteps(r)' < RelaySteps(r)
         /\ \A q \in Relay \ {r} : rpc'[q] = rpc[q] /\ relaying'[q] = relaying[q]
  <1> DEFINE n == Cardinality(relaying[r])
             m == Cardinality(relaying'[r])
  <1>1. RelayTypeOK
    BY TypeParts
  <1>2. n \in Nat
    BY <1>1, EventsFinite DEF RelayTypeOK
  <1>3. RelaySteps(r) = RelayDistance(rpc[r], n) /\ RelaySteps(r)' = RelayDistance(rpc'[r], m)
    BY DEF RelaySteps
  <1> HIDE DEF n, m
  <1>4. CASE RelayHandle(r)
    <2>1. PICK e \in relaying[r] :
             /\ relaying' = [relaying EXCEPT ![r] = @ \ {e}]
             /\ rpc' = [rpc EXCEPT ![r] = IF relaying[r] = {e} THEN "waiting" ELSE @]
             /\ rpc[r] = "handling"
      BY <1>4 DEF RelayHandle
    <2>2. relaying'[r] = relaying[r] \ {e} /\ relaying[r] \in SUBSET Event
      BY <1>1, <2>1 DEF RelayTypeOK
    <2>3. m = n - 1 /\ n \in Nat \ {0}
      BY <2>1, <2>2, OneLess DEF m, n
    <2>4. /\ rpc'[r] \in {"waiting", "handling"}
          /\ \A q \in Relay \ {r} : rpc'[q] = rpc[q] /\ relaying'[q] = relaying[q]
      BY <1>1, <2>1 DEF RelayTypeOK
    <2> QED
      BY <1>3, <2>1, <2>3, <2>4, Distances
  <1>5. CASE RelayWake(r) \/ RelayStop(r) \/ RelayCrash(r)
    <2>1. /\ \/ rpc[r] = "waiting" /\ rpc'[r] \in {"top", "stopped"}
             \/ rpc[r] = "top" /\ rpc'[r] = "stopped"
             \/ rpc[r] \in {"top", "handling", "waiting"} /\ rpc'[r] = "down"
          /\ \A q \in Relay \ {r} : rpc'[q] = rpc[q] /\ relaying'[q] = relaying[q]
      BY <1>1, <1>5 DEF RelayWake, RelayStop, RelayMoves, RelayCrash, RelayTypeOK
    <2> QED
      BY <1>2, <1>3, <2>1, Distances
  <1>6. ~RelayPoll(r) /\ ~RelayError(r)
    BY DEF RelayPoll, RelayError
  <1> QED
    BY <1>4, <1>5, <1>6 DEF RelayStep

\* What the steps of a loop's or a relay's own are not.
LEMMA ReadersStay ==
  ASSUME cancelled, [Next]_vars,
         ~\E i \in Loop : Advance(i) \/ LoopFault(i),
         ~\E r \in Relay : RelayStep(r) \/ RelayError(r) \/ RelayCrash(r)
  PROVE  cancelled' /\ UNCHANGED <<pc, todo, rpc, relaying>>
  <1>1. ASSUME NEW i \in Loop PROVE ~Restart(i)
    BY DEF Restart
  <1>2. ASSUME NEW r \in Relay PROVE ~RelayRestart(r)
    BY DEF RelayRestart
  <1>3. CASE UNCHANGED vars \/ PublishStep \/ ReapEvents \/ Shutdown
    BY <1>3 DEF vars, readVars, relayVars, PublishStep, ReapEvents, Shutdown
  <1>4. ASSUME NEW s \in Subscriber, NEW from \in 0..LastId, Replay(s, from)
        PROVE  cancelled' /\ UNCHANGED <<pc, todo, rpc, relaying>>
    BY <1>4 DEF Replay, relayVars
  <1> QED
    BY <1>1, <1>2, <1>3, <1>4 DEF Next

LEMMA DistanceNat ==
  ASSUME NEW n \in Nat
  PROVE  /\ \A place \in Live \union {"stopped", "down"} : Distance(place, n) \in Nat
         /\ \A place \in {"top", "handling", "waiting", "stopped", "down"} :
               RelayDistance(place, n) \in Nat
  BY Distances, FeedAssumption DEF Live, InBatch

\* A cancelled reader comes to rest after a bounded number of its own steps:
\* what ShutdownCompletes needs besides fairness (Subscriber::spawn,
\* Relay::spawn).
THEOREM ReadersDescendCorrect == Spec => ReadersDescend
  <1> DEFINE Descend ==
        cancelled =>
          /\ cancelled'
          /\ \A i \in Loop :
                /\ LoopSteps(i)' <= LoopSteps(i)
                /\ Advance(i) \/ LoopFault(i) => LoopSteps(i)' < LoopSteps(i)
          /\ \A r \in Relay :
                /\ RelaySteps(r)' <= RelaySteps(r)
                /\ RelayStep(r) \/ RelayError(r) \/ RelayCrash(r) =>
                       RelaySteps(r)' < RelaySteps(r)
  <1>1. TypeOK /\ [Next]_vars => Descend
    <2> SUFFICES ASSUME TypeOK, [Next]_vars, cancelled PROVE Descend
      BY DEF Descend
    <2>0. /\ \A i \in Loop : LoopSteps(i) \in Nat /\ LoopSteps(i)' \in Nat
          /\ \A r \in Relay : RelaySteps(r) \in Nat /\ RelaySteps(r)' \in Nat
      <3>1. ReadTypeOK /\ RelayTypeOK /\ ReadTypeOK' /\ RelayTypeOK'
        BY NextType, TypeParts DEF TypeOK, ReadTypeOK, RelayTypeOK
      <3>2. /\ \A i \in Loop : Cardinality(todo[i]) \in Nat /\ Cardinality(todo'[i]) \in Nat
            /\ \A r \in Relay : /\ Cardinality(relaying[r]) \in Nat
                                /\ Cardinality(relaying'[r]) \in Nat
        BY <3>1, EventsFinite DEF ReadTypeOK, RelayTypeOK
      <3> QED
        BY <3>1, <3>2, DistanceNat DEF ReadTypeOK, RelayTypeOK, LoopSteps, RelaySteps
    <2>1. ASSUME NEW i \in Loop PROVE Advance(i) \/ LoopFault(i) => LoopSteps(i)' < LoopSteps(i)
      BY LoopDescends
    <2>2. ASSUME NEW r \in Relay
          PROVE  RelayStep(r) \/ RelayError(r) \/ RelayCrash(r) =>
                     RelaySteps(r)' < RelaySteps(r)
      BY RelayDescends
    <2> DEFINE NoneBack == /\ cancelled'
                           /\ \A i \in Loop : LoopSteps(i)' <= LoopSteps(i)
                           /\ \A r \in Relay : RelaySteps(r)' <= RelaySteps(r)
    <2>3. NoneBack
      <3>1. ASSUME NEW i \in Loop, Advance(i) \/ LoopFault(i) PROVE NoneBack
        <4>1. UNCHANGED <<rpc, relaying, cancelled>>
          BY <3>1, LoopFrame DEF relayVars
        <4>2. \A j \in Loop \ {i} : pc'[j] = pc[j] /\ todo'[j] = todo[j]
          BY <3>1, LoopMoves, TypeParts
        <4>3. \A j \in Loop \ {i} : LoopSteps(j)' = LoopSteps(j)
          BY <4>2 DEF LoopSteps
        <4>4. \A r \in Relay : RelaySteps(r)' = RelaySteps(r)
          BY <4>1 DEF RelaySteps
        <4> QED
          BY <2>0, <2>1, <3>1, <4>1, <4>3, <4>4
      <3>2. ASSUME NEW r \in Relay, RelayStep(r) \/ RelayError(r) \/ RelayCrash(r)
            PROVE  NoneBack
        <4>1. UNCHANGED <<pc, todo, cancelled>>
          BY <3>2, RelayFrame DEF readVars
        <4>2. \A q \in Relay \ {r} : rpc'[q] = rpc[q] /\ relaying'[q] = relaying[q]
          BY <3>2, RelayDescends
        <4>3. \A q \in Relay \ {r} : RelaySteps(q)' = RelaySteps(q)
          BY <4>2 DEF RelaySteps
        <4>4. \A i \in Loop : LoopSteps(i)' = LoopSteps(i)
          BY <4>1 DEF LoopSteps
        <4> QED
          BY <2>0, <2>2, <3>2, <4>1, <4>3, <4>4
      <3>3. CASE /\ ~\E i \in Loop : Advance(i) \/ LoopFault(i)
                 /\ ~\E r \in Relay : RelayStep(r) \/ RelayError(r) \/ RelayCrash(r)
        <4>1. cancelled' /\ UNCHANGED <<pc, todo, rpc, relaying>>
          BY <3>3, ReadersStay
        <4>2. /\ \A i \in Loop : LoopSteps(i)' = LoopSteps(i)
              /\ \A r \in Relay : RelaySteps(r)' = RelaySteps(r)
          BY <4>1 DEF LoopSteps, RelaySteps
        <4> QED
          BY <2>0, <4>1, <4>2
      <3> QED
        BY <3>1, <3>2, <3>3
    <2> QED
      BY <2>1, <2>2, <2>3
  <1>2. TypeOK /\ [Next]_vars => [Descend]_vars
    BY <1>1
  <1> QED
    BY <1>2, TypeCorrect, PTL DEF Spec, ReadersDescend

\* The batches of the loops, like those of the relays, are within their limit.
LEMMA NextSmallBatches == TypeOK /\ SmallBatches /\ [Next]_vars => SmallBatches'
  <1> SUFFICES ASSUME TypeOK, SmallBatches, [Next]_vars,
                      NEW i \in Loop, todo'[i] # todo[i]
               PROVE  Cardinality(todo'[i]) <= BatchSize
    BY DEF SmallBatches
  <1>1. ReadTypeOK /\ ReadTypeOK'
    BY NextType, TypeParts DEF TypeOK, ReadTypeOK
  <1>2. ASSUME NEW j \in Loop, Advance(j) \/ LoopFault(j)
        PROVE  Cardinality(todo'[i]) <= BatchSize
    <2>1. j = i
      BY <1>1, <1>2, LoopMoves
    <2>2. \/ Cardinality(todo'[i]) <= BatchSize
          \/ todo'[i] \subseteq todo[i]
      BY <1>1, <1>2, <2>1, LoopMoves
    <2>3. CASE todo'[i] \subseteq todo[i]
      <3>1. IsFiniteSet(todo[i]) /\ Cardinality(todo[i]) \in Nat
            /\ Cardinality(todo'[i]) \in Nat
        BY <1>1, EventsFinite DEF ReadTypeOK
      <3>2. Cardinality(todo'[i]) <= Cardinality(todo[i])
        BY <2>3, <3>1, FS_Subset
      <3> QED
        BY <3>1, <3>2, FeedAssumption DEF SmallBatches
    <2> QED
      BY <2>2, <2>3
  <1>3. CASE ~\E j \in Loop : Advance(j) \/ LoopFault(j)
    <2>1. todo' = todo
      BY <1>3, RelayFrame DEF Next, vars, readVars, Restart, PublishStep, ReapEvents,
                              Shutdown, Replay
    <2> QED
      BY <2>1
  <1> QED
    BY <1>2, <1>3

\* A reader is never further from its end than one batch takes
\* (fetch_since_excluding, poll_pending).
THEOREM StepsBoundedCorrect == Spec => []StepsBounded
  <1>1. Init => SmallBatches
    BY FS_EmptySet, FeedAssumption DEF Init, SmallBatches
  <1>2. TypeOK /\ SmallBatches /\ RelayBatches => StepsBounded
    <2> SUFFICES ASSUME TypeOK, SmallBatches, RelayBatches PROVE StepsBounded
      OBVIOUS
    <2>1. ReadTypeOK /\ RelayTypeOK
      BY TypeParts
    <2>2. ASSUME NEW i \in Loop PROVE LoopSteps(i) \in 0..(2 * BatchSize + 2)
      <3> DEFINE n == Cardinality(todo[i])
      <3>1. n \in Nat /\ n <= BatchSize /\ pc[i] \in Live \union {"stopped", "down"}
        BY <2>1, EventsFinite DEF ReadTypeOK, SmallBatches
      <3> HIDE DEF n
      <3>2. Distance(pc[i], n) \in 0..(2 * BatchSize + 2)
        BY <3>1, Distances, FeedAssumption DEF Live, InBatch
      <3> QED
        BY <3>2 DEF LoopSteps, n
    <2>3. ASSUME NEW r \in Relay PROVE RelaySteps(r) \in 0..(RelayBatch + 2)
      <3> DEFINE n == Cardinality(relaying[r])
      <3>1. /\ n \in Nat /\ n <= RelayBatch
            /\ rpc[r] \in {"top", "handling", "waiting", "stopped", "down"}
        BY <2>1, EventsFinite DEF RelayTypeOK, RelayBatches
      <3> HIDE DEF n
      <3>2. RelayDistance(rpc[r], n) \in 0..(RelayBatch + 2)
        BY <3>1, Distances, FeedAssumption
      <3> QED
        BY <3>2 DEF RelaySteps, n
    <2> QED
      BY <2>2, <2>3 DEF StepsBounded
  <1> QED
    BY <1>1, <1>2, NextSmallBatches, RelayIsInvariant, TypeCorrect, PTL DEF Spec

=============================================================================
