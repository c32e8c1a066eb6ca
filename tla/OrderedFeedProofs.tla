------------------------- MODULE OrderedFeedProofs -------------------------
(***************************************************************************)
(* EventFeed implements OrderedFeed, and hands an event out again for a    *)
(* cause only, for all values of the constants.                            *)
(***************************************************************************)
EXTENDS EventFeedProofs

----------------------------------------------------------------------------
(* Only what was posted to a subscriber is in its batches, or handled. *)

BatchPosted == \A i \in Loop : todo[i] \subseteq PostedTo(SubscriberOf[i])
HandledPosted == \A s \in Subscriber : handled[s] \subseteq PostedTo(s)

LEMMA InitPosted == Init => BatchPosted /\ HandledPosted
  BY DEF Init, BatchPosted, HandledPosted

LEMMA PostedStays ==
  ASSUME Growth, NEW s \in Subscriber
  PROVE  PostedTo(s) \subseteq PostedTo(s)'
  BY DEF Growth, PostedTo, Published

LEMMA NextBatch == TypeOK /\ Growth /\ BatchPosted /\ [Next]_vars => BatchPosted'
  <1> SUFFICES ASSUME TypeOK, Growth, BatchPosted, [Next]_vars PROVE BatchPosted'
    OBVIOUS
  <1>1. ASSUME \A i \in Loop : todo'[i] \subseteq todo[i] PROVE BatchPosted'
    BY <1>1, PostedStays, FeedAssumption DEF BatchPosted
  <1>2. ASSUME NEW i \in Loop, Poll(i) PROVE BatchPosted'
    <2> DEFINE s == SubscriberOf[i]
               rows == First(EventsAfter(EntityType[s], base[i]), BatchSize)
    <2>1. rows \subseteq EventsAfter(EntityType[s], base[i])
      BY FirstWithin
    <2>2. EventsAfter(EntityType[s], base[i]) \subseteq PostedTo(s)
      BY DEF EventsAfter, Visible, PostedTo, Published
    <2>3. \A j \in Loop : todo'[j] = IF j = i THEN rows ELSE todo[j]
      BY <1>2 DEF Poll, TypeOK
    <2> HIDE DEF rows
    <2> QED
      BY <2>1, <2>2, <2>3, PostedStays, FeedAssumption DEF BatchPosted
  <1>3. ASSUME NEW i \in Loop, Advance(i) \/ LoopFault(i) \/ Restart(i), ~Poll(i)
        PROVE  \A j \in Loop : todo'[j] \subseteq todo[j]
    BY <1>3 DEF Advance, LoopFault, Register, ReadCursor, Stop, HandleOk, HandleErr,
                AdvanceCursor, Wake, RegisterError, ReadError, AdvanceError, Crash, Restart,
                Leave, TypeOK
  <1>4. ASSUME NEW r \in Relay,
               RelayStep(r) \/ RelayError(r) \/ RelayCrash(r) \/ RelayRestart(r)
        PROVE  todo' = todo
    BY <1>4, RelayFrame DEF readVars
  <1>5. CASE PublishStep \/ ReapEvents \/ Shutdown \/ UNCHANGED vars
    BY <1>1, <1>5 DEF PublishStep, ReapEvents, Shutdown, vars, readVars
  <1>6. ASSUME NEW s \in Subscriber, NEW from \in 0..LastId, Replay(s, from)
        PROVE  todo' = todo
    BY <1>6 DEF Replay
  <1> QED
    BY <1>1, <1>2, <1>3, <1>4, <1>5, <1>6 DEF Next

\* A loop writes the cursor and the history of its own subscriber.
LEMMA LoopWrites ==
  ASSUME TypeOK, NEW i \in Loop, Advance(i) \/ LoopFault(i) \/ Restart(i),
         NEW s \in Subscriber, s # SubscriberOf[i]
  PROVE  cursor'[s] = cursor[s] /\ handled'[s] = handled[s] /\ owed'[s] = owed[s]
  BY DEF Advance, LoopFault, Register, ReadCursor, Stop, Poll, HandleOk, HandleErr,
         AdvanceCursor, Wake, RegisterError, ReadError, AdvanceError, Crash, Restart,
         replayVars, TypeOK

LEMMA NextHandled ==
  TypeOK /\ Growth /\ BatchPosted /\ HandledPosted /\ [Next]_vars => HandledPosted'
  <1> SUFFICES ASSUME TypeOK, Growth, BatchPosted, HandledPosted, [Next]_vars PROVE HandledPosted'
    OBVIOUS
  <1>1. CASE handled' = handled
    BY <1>1, PostedStays DEF HandledPosted
  <1>2. ASSUME NEW i \in Loop, HandleOk(i) PROVE HandledPosted'
    <2> DEFINE s == SubscriberOf[i]
    <2>1. \A u \in Subscriber :
              handled'[u] = IF u = s THEN handled[u] \union {Row(i)} ELSE handled[u]
      BY <1>2 DEF HandleOk, TypeOK
    <2>2. Row(i) \in todo[i]
      BY <1>2, TypeParts, RowIsLeast DEF HandleOk, InBatch
    <2>3. Row(i) \in PostedTo(s)
      BY <2>2 DEF BatchPosted
    <2> QED
      BY <2>1, <2>3, PostedStays DEF HandledPosted
  <1>3. ASSUME NEW i \in Loop, Advance(i) \/ LoopFault(i) \/ Restart(i), ~HandleOk(i)
        PROVE  handled' = handled
    BY <1>3 DEF Advance, LoopFault, Register, ReadCursor, Stop, Poll, HandleErr, AdvanceCursor,
                Wake, RegisterError, ReadError, AdvanceError, Crash, Restart
  <1>4. ASSUME NEW r \in Relay,
               RelayStep(r) \/ RelayError(r) \/ RelayCrash(r) \/ RelayRestart(r)
        PROVE  handled' = handled
    BY <1>4, RelayFrame
  <1>5. ASSUME PublishStep \/ ReapEvents \/ Shutdown \/ UNCHANGED vars PROVE handled' = handled
    BY <1>5 DEF PublishStep, ReapEvents, Shutdown, vars
  <1>6. ASSUME NEW s \in Subscriber, NEW from \in 0..LastId, Replay(s, from)
        PROVE  handled' = handled
    BY <1>6 DEF Replay
  <1> QED
    BY <1>1, <1>2, <1>3, <1>4, <1>5, <1>6 DEF Next

\* Faults only add up.
LEMMA FaultsCount ==
  ASSUME TypeOK, NEW i \in Loop, Advance(i) \/ LoopFault(i) \/ Restart(i),
         crashes' + dbErrors' = 0
  PROVE  crashes + dbErrors = 0
  BY DEF Advance, LoopFault, Register, ReadCursor, Stop, Poll, HandleOk, HandleErr,
         AdvanceCursor, Wake, RegisterError, ReadError, AdvanceError, Crash, Restart,
         Refuse, DbError, CountCrash, faultVars, TypeOK

LEMMA RelayFaultsCount ==
  ASSUME TypeOK, NEW r \in Relay,
         RelayStep(r) \/ RelayError(r) \/ RelayCrash(r) \/ RelayRestart(r),
         crashes' + dbErrors' = 0
  PROVE  crashes + dbErrors = 0
  BY DEF RelayStep, RelayPoll, RelayHandle, RelayWake, RelayStop, RelayError, RelayCrash,
         RelayRestart, RelayMoves, DbError, CountCrash, faultVars, TypeOK

LEMMA AtMostOne ==
  ASSUME NEW S, \A x, y \in S : x = y
  PROVE  Cardinality(S) <= 1
  <1>1. CASE S = {}
    BY <1>1, FS_EmptySet
  <1>2. ASSUME NEW x \in S PROVE Cardinality(S) <= 1
    <2>1. S = {x}
      BY <1>2
    <2> QED
      BY <2>1, FS_Singleton
  <1> QED
    BY <1>1, <1>2

----------------------------------------------------------------------------
(* A lone loop acknowledges each event before it hands out the next. *)

\* The rows s can still be handed: those it can poll and those it has polled.
Rows(s) == {e \in Event : \/ e \in Feed(s)
                          \/ \E i \in Loop : SubscriberOf[i] = s /\ e \in todo[i]}

\* What s has handled and can be handed again, without a replay that asked for it.
Doubt(s) == {e \in handled[s] \intersect Rows(s) : cursor[s] < e} \ owed[s]

\* What the loops of s read or hand out is ahead of the cursor and leaves out no
\* row in between; no row in between comes before one in doubt; and only a fault
\* leaves in doubt anything but the row in turn.
Lone(s) ==
    /\ \A i \in Loop : SubscriberOf[i] = s =>
          /\ pc[i] = "polling" => base[i] = cursor[s]
          /\ \A x \in todo[i] : cursor[s] < x
          /\ \A x \in todo[i], f \in Feed(s) \ late : cursor[s] < f /\ f < x => f \in todo[i]
          /\ crashes + dbErrors = 0 => \A f \in Doubt(s) : pc[i] = "advancing" /\ f = Row(i)
    /\ \A u \in Doubt(s), f \in Rows(s) \ late : ~(cursor[s] < f /\ f < u)

LoneInv == \A s \in Alone \ raced : Lone(s)

LEMMA InitLone == Init => LoneInv
  BY DEF Init, LoneInv, Lone, Doubt

\* What the log shows anew comes after everything posted, or is late.
LEMMA NewsIsLast ==
  ASSUME Growth, NEW s \in Subscriber
  PROVE  /\ \A f \in (Feed(s) \ late)' :
                f \in Feed(s) \ late \/ \A x \in PostedTo(s) : ~(f < x)
         /\ \A f \in PostedTo(s) : f \in Feed(s)' => f \in Feed(s)
  <1>1. ASSUME NEW f \in (Feed(s) \ late)', f \in Published PROVE f \in Feed(s) \ late
    BY <1>1 DEF Growth, Feed
  <1>2. ASSUME NEW f \in (Feed(s) \ late)', f \notin Published, NEW x \in PostedTo(s)
        PROVE  ~(f < x)
    <2>1. f \in Visible' \ Published /\ TypeOf[entity'[f]] = EntityType[s] /\ f \notin late'
      BY <1>2 DEF Feed
    <2>2. x \in Published /\ TypeOf[entity[x]] = EntityType[s]
      BY DEF PostedTo
    <2>3. f \in Event /\ x \in Event
      BY <2>1, <2>2 DEF Published, Visible
    <2>4. f < x => x > f
      BY <2>3, EventIds
    <2> QED
      BY <2>1, <2>2, <2>4 DEF Growth
  <1> QED
    <2>1. \A f \in PostedTo(s) : f \in Feed(s)' => f \in Feed(s)
      BY DEF Growth, PostedTo, Feed
    <2> QED
      BY <1>1, <1>2, <2>1

\* Steps that move no cursor of s and hand nothing out to it.
LEMMA LoneStutter ==
  ASSUME Growth, BatchPosted, HandledPosted, NEW s \in Subscriber, Lone(s),
         cursor'[s] = cursor[s], handled'[s] = handled[s], owed'[s] = owed[s],
         \A i \in Loop : SubscriberOf[i] = s =>
             /\ todo'[i] = {} \/ todo'[i] = todo[i]
             /\ pc'[i] = "polling" => pc[i] = "polling" /\ base'[i] = base[i],
         crashes' + dbErrors' = 0 =>
             /\ crashes + dbErrors = 0
             /\ \A i \in Loop : SubscriberOf[i] = s /\ pc[i] = "advancing" =>
                    pc'[i] = "advancing" /\ todo'[i] = todo[i]
  PROVE  Lone(s)'
  <1>r. \A f \in Rows(s)' : f \in Feed(s)' \/ f \in Rows(s)
    BY DEF Rows
  <1>1. Doubt(s)' \subseteq Doubt(s)
    <2>1. \A e \in handled[s] : e \in Rows(s)' => e \in Rows(s)
      BY <1>r, NewsIsLast DEF HandledPosted, Rows, PostedTo, Published
    <2> QED
      BY <2>1 DEF Doubt
  <1>2. \A u \in Doubt(s) : u \in PostedTo(s)
    BY DEF Doubt, HandledPosted
  <1>3. \A f \in (Feed(s) \ late)' :
            f \in Feed(s) \ late \/ \A x \in PostedTo(s) : ~(f < x)
    BY NewsIsLast
  <1>4. \A u \in Doubt(s)', f \in (Rows(s) \ late)' : ~(cursor'[s] < f /\ f < u)
    <2>1. \A f \in (Rows(s) \ late)' :
              f \in Rows(s) \ late \/ \A x \in PostedTo(s) : ~(f < x)
      BY <1>r, <1>3 DEF Rows, Growth, Feed, Visible
    <2> QED
      BY <1>1, <1>2, <2>1 DEF Lone
  <1>5. ASSUME NEW i \in Loop, SubscriberOf[i] = s
        PROVE  /\ pc'[i] = "polling" => base'[i] = cursor'[s]
               /\ \A x \in todo'[i] : cursor'[s] < x
               /\ \A x \in todo'[i], f \in (Feed(s) \ late)' :
                      cursor'[s] < f /\ f < x => f \in todo'[i]
               /\ crashes' + dbErrors' = 0 =>
                      \A f \in Doubt(s)' : pc'[i] = "advancing" /\ f = Row(i)'
    <2>1. todo[i] \subseteq PostedTo(s)
      BY <1>5 DEF BatchPosted
    <2>2. /\ pc'[i] = "polling" => base'[i] = cursor'[s]
          /\ \A x \in todo'[i] : cursor'[s] < x
      BY <1>5 DEF Lone
    <2>3. \A x \in todo'[i], f \in (Feed(s) \ late)' :
              cursor'[s] < f /\ f < x => f \in todo'[i]
      BY <1>3, <1>5, <2>1 DEF Lone
    <2>4. ASSUME crashes' + dbErrors' = 0, NEW f \in Doubt(s)'
          PROVE  pc'[i] = "advancing" /\ f = Row(i)'
      <3>1. pc[i] = "advancing" /\ f = Row(i)
        BY <1>1, <1>5, <2>4 DEF Lone
      <3> QED
        BY <1>5, <2>4, <3>1 DEF Row
    <2> QED
      BY <2>2, <2>3, <2>4
  <1> QED
    BY <1>4, <1>5 DEF Lone

\* A step of the only loop of s.
LEMMA LoneLoop ==
  ASSUME TypeOK, Growth, BatchPosted, HandledPosted,
         NEW i \in Loop, Advance(i) \/ LoopFault(i) \/ Restart(i),
         SubscriberOf[i] \in Alone, Lone(SubscriberOf[i])
  PROVE  Lone(SubscriberOf[i])' /\ cursor'[SubscriberOf[i]] >= cursor[SubscriberOf[i]]
  <1> DEFINE s == SubscriberOf[i]
  <1>s. /\ s \in Subscriber /\ cursor \in [Subscriber -> 0..LastId]
        /\ base \in [Loop -> 0..LastId] /\ todo \in [Loop -> SUBSET Event]
        /\ {handled, owed} \subseteq [Subscriber -> SUBSET Event]
        /\ pc \in [Loop -> Live \union {"stopped", "down"}]
        /\ crashes \in Nat /\ dbErrors \in Nat
    BY FeedAssumption DEF TypeOK
  <1>c. cursor[s] \in Int
    <2>1. cursor[s] \in 0..LastId
      BY <1>s
    <2> QED
      BY <2>1
  <1>a. \A j \in Loop : SubscriberOf[j] = s => j = i
    BY DEF Alone
  <1>e. Event \subseteq Int
    BY EventIds
  <1>l. UNCHANGED <<Visible, Feed(s), late>>
    BY LoopFrame DEF logVars, Visible, Feed
  <1>1. CASE Register(i) \/ Stop(i) \/ HandleErr(i) \/ Wake(i) \/ Restart(i)
    <2>1. UNCHANGED <<cursor, handled, owed, crashes, dbErrors, base>>
      BY <1>1 DEF Register, Stop, HandleErr, Wake, Restart, Refuse, replayVars, faultVars
    <2>2. /\ todo'[i] = {} \/ todo'[i] = todo[i]
          /\ pc'[i] # "polling" /\ pc[i] # "advancing"
      BY <1>1, <1>s DEF Register, Stop, HandleErr, Wake, Restart, Leave, Goto
    <2> QED
      BY <1>s, <1>c, <1>a, <2>1, <2>2, LoneStutter
  <1>2. CASE RegisterError(i) \/ ReadError(i) \/ Crash(i)
    <2>1. UNCHANGED <<cursor, handled, owed, base>>
      BY <1>2 DEF RegisterError, ReadError, Crash, replayVars
    <2>2. todo'[i] = {} \/ todo'[i] = todo[i]
      BY <1>2, <1>s DEF RegisterError, ReadError, Crash, Leave
    <2>3. pc'[i] # "polling"
      BY <1>2, <1>s DEF RegisterError, ReadError, Crash, Leave, Goto
    <2>4. crashes' + dbErrors' # 0
      BY <1>2, <1>s DEF RegisterError, ReadError, Crash, DbError, CountCrash
    <2> QED
      BY <1>s, <1>c, <1>a, <2>1, <2>2, <2>3, <2>4, LoneStutter
  <1>3. CASE ReadCursor(i)
    <2>1. /\ pc[i] = "top" /\ base'[i] = cursor[s]
          /\ UNCHANGED <<cursor, todo, handled, owed, crashes, dbErrors>>
      BY <1>3, <1>s DEF ReadCursor, replayVars, faultVars
    <2>2. Rows(s)' = Rows(s) /\ Doubt(s)' = Doubt(s)
      BY <1>l, <2>1 DEF Rows, Doubt
    <2> QED
      BY <1>c, <1>a, <1>l, <2>1, <2>2 DEF Lone
  <1>4. CASE Poll(i)
    <2> DEFINE rows == First(EventsAfter(EntityType[s], base[i]), BatchSize)
    <2>1. /\ pc[i] = "polling" /\ pc'[i] # "polling" /\ todo'[i] = rows
          /\ UNCHANGED <<cursor, base, handled, owed, crashes, dbErrors>>
      BY <1>4, <1>s DEF Poll, Goto, replayVars, faultVars
    <2>2. base[i] = cursor[s]
      BY <2>1 DEF Lone
    <2>3. \A x \in rows : cursor[s] < x
      BY <1>e, <1>c, <2>2, FirstWithin DEF EventsAfter, Visible
    <2>4. ASSUME NEW x \in rows, NEW f \in Feed(s) \ late, cursor[s] < f, f < x
          PROVE  f \in rows
      <3>1. f \in EventsAfter(EntityType[s], base[i])
        BY <1>e, <1>c, <2>2, <2>4 DEF Feed, EventsAfter, Visible
      <3>2. EventsAfter(EntityType[s], base[i]) \in SUBSET Event
        BY DEF EventsAfter, Visible
      <3> QED
        BY <2>4, <3>1, <3>2, FirstIsPrefix, FeedAssumption
    <2>5. Rows(s)' \subseteq Rows(s)
      <3>1. rows \subseteq Feed(s)
        BY FirstWithin DEF EventsAfter, Feed
      <3> QED
        BY <1>a, <1>l, <2>1, <3>1 DEF Rows
    <2>6. Doubt(s)' \subseteq Doubt(s)
      BY <2>1, <2>5 DEF Doubt
    <2> HIDE DEF rows
    <2> QED
      BY <1>c, <1>a, <1>l, <2>1, <2>3, <2>4, <2>5, <2>6 DEF Lone
  <1>5. CASE HandleOk(i)
    <2>1. /\ pc[i] = "handling" /\ pc'[i] = "advancing"
          /\ handled'[s] = handled[s] \union {Row(i)} /\ owed'[s] = owed[s] \ {Row(i)}
          /\ UNCHANGED <<cursor, base, todo, crashes, dbErrors>>
      BY <1>5, <1>s DEF HandleOk, Goto, faultVars
    <2>2. Row(i) \in todo[i] /\ Row(i) \in Event /\ \A f \in todo[i] : Row(i) <= f
      BY <2>1, TypeParts, RowIsLeast DEF InBatch
    <2>3. Rows(s)' = Rows(s) /\ Row(i)' = Row(i)
      BY <1>l, <2>1 DEF Rows, Row
    <2>d. Doubt(s)' \subseteq Doubt(s) \union {Row(i)}
      BY <2>1, <2>3 DEF Doubt
    <2>4. ASSUME NEW f \in Rows(s) \ late, cursor[s] < f, f < Row(i) PROVE FALSE
      <3>1. f \in todo[i]
        BY <1>a, <2>2, <2>4 DEF Lone, Rows
      <3>2. f \in Int /\ Row(i) \in Int /\ Row(i) <= f
        BY <1>s, <1>e, <2>2, <3>1
      <3> QED
        BY <2>4, <3>2
    <2>5. \A u \in Doubt(s)', f \in Rows(s) \ late : ~(cursor[s] < f /\ f < u)
      BY <2>d, <2>4 DEF Lone
    <2>6. crashes + dbErrors = 0 => \A f \in Doubt(s)' : f = Row(i)
      BY <2>1, <2>d DEF Lone
    <2> QED
      BY <1>c, <1>a, <1>l, <2>1, <2>3, <2>5, <2>6 DEF Lone
  <1>6. CASE AdvanceCursor(i) \/ AdvanceError(i)
    <2>1. /\ pc[i] = "advancing" /\ pc'[i] # "polling"
          /\ UNCHANGED <<handled, owed>>
          /\ \/ cursor'[s] = Row(i) /\ todo'[i] = todo[i] \ {Row(i)}
             \/ cursor'[s] \in {cursor[s], Row(i)} /\ todo'[i] = {}
      BY <1>6, <1>s DEF AdvanceCursor, AdvanceError, Leave, Goto, replayVars
    <2>2. crashes' + dbErrors' = 0 => crashes + dbErrors = 0 /\ cursor'[s] = Row(i)
      BY <1>6, <1>s DEF AdvanceCursor, AdvanceError, DbError, faultVars
    <2>3. Row(i) \in todo[i] /\ Row(i) \in Event /\ \A f \in todo[i] : Row(i) <= f
      BY <2>1, TypeParts, RowIsLeast DEF InBatch
    <2>4. cursor[s] < Row(i) /\ Row(i) \in Int /\ cursor'[s] \in {cursor[s], Row(i)}
      BY <1>e, <2>1, <2>3 DEF Lone
    <2>5. cursor'[s] >= cursor[s] /\ cursor'[s] \in Int
      BY <1>c, <2>4
    <2>p. ASSUME NEW e \in Event, cursor'[s] < e PROVE cursor[s] < e
      <3>1. e \in Int
        BY <1>e
      <3> QED
        BY <1>c, <2>5, <2>p, <3>1
    <2>r. Rows(s)' \subseteq Rows(s)
      BY <1>a, <1>l, <2>1 DEF Rows
    <2>6. Doubt(s)' \subseteq {e \in Doubt(s) : cursor'[s] < e}
      BY <2>r, <2>1, <2>p DEF Doubt, Rows
    <2>7. \A u \in Doubt(s)', f \in Rows(s)' \ late : ~(cursor'[s] < f /\ f < u)
      BY <2>r, <2>6, <2>p DEF Lone, Rows
    <2>8. crashes' + dbErrors' = 0 => Doubt(s)' = {}
      <3>1. ~(Row(i) < Row(i))
        BY <2>4
      <3> QED
        BY <2>2, <2>6, <3>1 DEF Lone
    <2>9. ASSUME NEW x \in todo'[i]
          PROVE  /\ cursor'[s] < x
                 /\ \A f \in Feed(s) \ late : cursor'[s] < f /\ f < x => f \in todo'[i]
      <3>1. cursor'[s] = Row(i) /\ todo'[i] = todo[i] \ {Row(i)}
        BY <2>1, <2>9
      <3>2. x \in Int /\ Row(i) <= x /\ x # Row(i)
        BY <1>s, <1>e, <2>3, <3>1
      <3>3. ASSUME NEW f \in Feed(s) \ late, cursor'[s] < f, f < x PROVE f \in todo'[i]
        <4>1. cursor[s] < f
          BY <2>p, <3>3 DEF Feed, Visible
        <4>2. f # Row(i)
          BY <2>4, <3>1, <3>3
        <4>3. f \in todo[i]
          BY <3>1, <3>3, <4>1 DEF Lone
        <4> QED
          BY <3>1, <4>2, <4>3
      <3>4. Row(i) < x
        BY <2>4, <3>2
      <3> QED
        BY <3>1, <3>3, <3>4
    <2> QED
      BY <1>a, <1>l, <2>1, <2>5, <2>7, <2>8, <2>9 DEF Lone
  <1> QED
    BY <1>1, <1>2, <1>3, <1>4, <1>5, <1>6 DEF Advance, LoopFault

\* A replay, when no loop of s is under way.
LEMMA LoneReplay ==
  ASSUME TypeOK, HandledPosted, NEW s \in Subscriber, NEW from \in 0..LastId,
         Replay(s, from), ~UnderWay(s)
  PROVE  Lone(s)'
  <1>1. /\ UNCHANGED <<logVars, todo, pc, handled>>
        /\ cursor'[s] = from /\ owed'[s] = EventsAfter(EntityType[s], from)
    BY DEF Replay, TypeOK
  <1>2. \A i \in Loop : SubscriberOf[i] = s => pc'[i] # "polling" /\ todo'[i] = {}
    BY <1>1 DEF UnderWay, TypeOK
  <1>3. Doubt(s)' = {}
    BY <1>1, <1>2 DEF Doubt, Rows, Feed, EventsAfter, logVars, Visible
  <1> QED
    BY <1>2, <1>3 DEF Lone

LEMMA NextLone ==
  TypeOK /\ Growth /\ BatchPosted /\ HandledPosted /\ LoneInv /\ [Next]_vars => LoneInv'
  <1> SUFFICES ASSUME TypeOK, Growth, BatchPosted, HandledPosted, LoneInv, [Next]_vars,
                      NEW s \in Alone, s \notin raced'
               PROVE  Lone(s)'
    BY DEF LoneInv, Alone
  <1>s. s \in Subscriber /\ (s \notin raced => Lone(s))
    BY DEF Alone, LoneInv
  <1>1. CASE UNCHANGED <<readVars, replayVars, handled, crashes, dbErrors>>
    BY <1>s, <1>1, LoneStutter DEF readVars, replayVars
  <1>2. ASSUME NEW i \in Loop, Advance(i) \/ LoopFault(i) \/ Restart(i) PROVE Lone(s)'
    <2>1. raced' = raced
      BY <1>2 DEF Advance, LoopFault, Register, ReadCursor, Stop, Poll, HandleOk, HandleErr,
         AdvanceCursor, Wake, RegisterError, ReadError, AdvanceError, Crash, Restart, replayVars
    <2>2. CASE SubscriberOf[i] = s
      BY <1>s, <1>2, <2>1, <2>2, LoneLoop
    <2>3. CASE SubscriberOf[i] # s
      <3>1. cursor'[s] = cursor[s] /\ handled'[s] = handled[s] /\ owed'[s] = owed[s]
        BY <1>s, <1>2, <2>3, LoopWrites
      <3>2. \A j \in Loop : SubscriberOf[j] = s =>
                pc'[j] = pc[j] /\ todo'[j] = todo[j] /\ base'[j] = base[j]
        BY <1>2, <2>3 DEF Advance, LoopFault, Register, ReadCursor, Stop, Poll, HandleOk,
           HandleErr, AdvanceCursor, Wake, RegisterError, ReadError, AdvanceError, Crash,
           Restart, Leave, Goto, TypeOK
      <3>3. crashes' + dbErrors' = 0 => crashes + dbErrors = 0
        BY <1>2, FaultsCount
      <3> QED
        BY <1>s, <2>1, <3>1, <3>2, <3>3, LoneStutter
    <2> QED
      BY <2>2, <2>3
  <1>3. ASSUME NEW r \in Relay,
               RelayStep(r) \/ RelayError(r) \/ RelayCrash(r) \/ RelayRestart(r)
        PROVE  Lone(s)'
    <2>1. crashes' + dbErrors' = 0 => crashes + dbErrors = 0
      BY <1>3, RelayFaultsCount
    <2> QED
      BY <1>s, <1>3, <2>1, RelayFrame, LoneStutter DEF readVars, replayVars
  <1>4. CASE PublishStep \/ ReapEvents \/ Shutdown \/ UNCHANGED vars
    BY <1>1, <1>4 DEF PublishStep, ReapEvents, Shutdown, vars, faultVars
  <1>5. ASSUME NEW u \in Subscriber, NEW from \in 0..LastId, Replay(u, from) PROVE Lone(s)'
    <2>1. raced' = IF UnderWay(u) THEN raced \union {u} ELSE raced \ {u}
      BY <1>5 DEF Replay
    <2>2. CASE u = s
      BY <1>s, <1>5, <2>1, <2>2, LoneReplay
    <2>3. CASE u # s
      <3>1. s \notin raced
        BY <2>1, <2>3
      <3>2. cursor'[s] = cursor[s] /\ owed'[s] = owed[s]
        BY <1>s, <1>5, <2>3 DEF Replay, TypeOK
      <3>3. UNCHANGED <<handled, pc, todo, base, crashes, dbErrors>>
        BY <1>5 DEF Replay
      <3> QED
        BY <1>s, <3>1, <3>2, <3>3, LoneStutter
    <2> QED
      BY <2>2, <2>3
  <1> QED
    BY <1>2, <1>3, <1>4, <1>5 DEF Next

LEMMA LoneIsInvariant == Spec => [](TypeOK /\ BatchPosted /\ HandledPosted /\ LoneInv)
  BY InitType, InitIds, InitPosted, InitLone, NextType, NextGrowth, NextBatch, NextHandled,
     NextLone, PTL
  DEF Spec

\* A lone loop hands an event out again only after a crash or a failed statement,
\* and then one event at most, late ones apart: refusals, short batches, quiet
\* replays and shutdowns are no cause of redelivery (Subscriber::spawn).
THEOREM RedeliveryCorrect == Spec => []RedeliveryHasCause
  <1>1. TypeOK /\ BatchPosted /\ HandledPosted /\ LoneInv => RedeliveryHasCause
    <2> SUFFICES ASSUME TypeOK, BatchPosted, HandledPosted, LoneInv, NEW i \in Loop,
                        pc[i] = "handling", SubscriberOf[i] \in Alone \ raced
                 PROVE  /\ crashes + dbErrors = 0 => Again(i) = {}
                        /\ Cardinality(Again(i) \ late) <= 1
      BY DEF RedeliveryHasCause
    <2> DEFINE s == SubscriberOf[i]
    <2>1. Lone(s) /\ s \in Subscriber
      BY DEF LoneInv, Alone
    <2>2. todo[i] \in SUBSET Event /\ cursor[s] \in 0..LastId
      BY <2>1 DEF TypeOK
    <2>3. ASSUME NEW x \in Again(i)
          PROVE  x \in Doubt(s) /\ x \in Rows(s) /\ cursor[s] < x /\ x \in Int
      <3>1. x \in todo[i] /\ x \in handled[s] /\ x \notin owed[s] /\ x \in Event
        BY <2>2 DEF Again
      <3>2. cursor[s] < x
        BY <2>1, <3>1 DEF Lone
      <3>3. x \in Rows(s) /\ x \in Int
        BY <3>1, EventIds DEF Rows
      <3> QED
        BY <3>1, <3>2, <3>3 DEF Doubt
    <2>4. crashes + dbErrors = 0 => Again(i) = {}
      BY <2>1, <2>3 DEF Lone
    <2>5. \A x, y \in Again(i) \ late : x = y
      <3>1. \A x, y \in Again(i) \ late : ~(x < y)
        BY <2>1, <2>3 DEF Lone
      <3> QED
        BY <2>3, <3>1
    <2> QED
      BY <2>4, <2>5, AtMostOne
  <1> QED
    BY <1>1, LoneIsInvariant, PTL

\* The cursor a lone loop shares with nobody only moves forward, whatever crashes
\* or fails; a replay alone takes it back (Subscriber::advance_cursor).
CursorForward ==
    [][\A s \in Alone \ raced :
           cursor'[s] >= cursor[s] \/ \E from \in 0..LastId : Replay(s, from)]_vars

THEOREM CursorForwardCorrect == Spec => CursorForward
  <1>1. TypeOK /\ Growth /\ BatchPosted /\ HandledPosted /\ LoneInv /\ [Next]_vars
        => [\A s \in Alone \ raced :
               cursor'[s] >= cursor[s] \/ \E from \in 0..LastId : Replay(s, from)]_vars
    <2> SUFFICES ASSUME TypeOK, Growth, BatchPosted, HandledPosted, LoneInv, Next,
                        NEW s \in Alone \ raced, \A from \in 0..LastId : ~Replay(s, from)
                 PROVE  cursor'[s] >= cursor[s]
      OBVIOUS
    <2>0. s \in Subscriber /\ Lone(s) /\ cursor[s] \in Int
      <3>1. s \in Subscriber /\ Lone(s)
        BY DEF Alone, LoneInv
      <3>2. cursor[s] \in 0..LastId
        BY <3>1 DEF TypeOK
      <3> QED
        BY <3>1, <3>2
    <2>1. ASSUME NEW i \in Loop, Advance(i) \/ LoopFault(i) \/ Restart(i), SubscriberOf[i] = s
          PROVE  cursor'[s] >= cursor[s]
      BY <2>0, <2>1, LoneLoop
    <2>2. ASSUME cursor'[s] # cursor[s]
          PROVE  \E i \in Loop : SubscriberOf[i] = s /\ (Advance(i) \/ LoopFault(i) \/ Restart(i))
      <3>1. ASSUME NEW i \in Loop, Advance(i) \/ LoopFault(i) \/ Restart(i)
            PROVE  SubscriberOf[i] = s
        BY <2>0, <2>2, <3>1, LoopWrites
      <3>2. ASSUME NEW r \in Relay,
                   RelayStep(r) \/ RelayError(r) \/ RelayCrash(r) \/ RelayRestart(r)
            PROVE  FALSE
        BY <2>2, <3>2, RelayFrame DEF readVars
      <3>3. ASSUME PublishStep \/ ReapEvents \/ Shutdown PROVE FALSE
        BY <2>2, <3>3 DEF PublishStep, ReapEvents, Shutdown, readVars
      <3>4. ASSUME NEW u \in Subscriber, NEW from \in 0..LastId, Replay(u, from) PROVE FALSE
        BY <2>0, <2>2, <3>4 DEF Replay, TypeOK
      <3> QED
        BY <3>1, <3>2, <3>3, <3>4 DEF Next
    <2> QED
      BY <2>0, <2>1, <2>2
  <1> QED
    BY <1>1, LoneIsInvariant, FeedIsInvariant, NextGrowth, PTL DEF Spec, CursorForward

----------------------------------------------------------------------------
(* The refinement. *)

Excuses(s) == (late \intersect PostedTo(s)) \union waived[s]

LEMMA InitOrdered == Init => Ordered!Init
  BY DEF Init, LogInit, Ordered!Init, PostedTo, Feed, Published, Visible

\* Only what is published is late.
LateInv == late \subseteq Published

LEMMA NextLate == TypeOK /\ Growth /\ LateInv /\ [Next]_vars => LateInv'
  <1> SUFFICES ASSUME TypeOK, Growth, LateInv, [Next]_vars PROVE LateInv'
    OBVIOUS
  <1>1. CASE late' = late
    BY <1>1 DEF Growth, LateInv
  <1>2. ASSUME NEW p \in Publisher, Commit(p) PROVE LateInv'
    <2>1. /\ \A e \in Event : status'[e] = IF e \in tx[p] THEN "pending" ELSE status[e]
          /\ late' \subseteq late \union tx[p] /\ tx[p] \subseteq Event
      BY <1>2 DEF Commit, TypeOK, LogTypeOK
    <2>2. tx[p] \subseteq Published'
      BY <2>1 DEF Published
    <2> QED
      BY <2>1, <2>2 DEF Growth, LateInv
  <1>3. ASSUME NEW i \in Loop, Advance(i) \/ LoopFault(i) \/ Restart(i) PROVE late' = late
    BY <1>3, LoopFrame DEF logVars
  <1>4. ASSUME NEW r \in Relay,
               RelayStep(r) \/ RelayError(r) \/ RelayCrash(r) \/ RelayRestart(r)
        PROVE  late' = late
    BY <1>4, RelayFrame
  <1>5. ASSUME PublishStep, \A p \in Publisher : ~Commit(p) PROVE late' = late
    BY <1>5 DEF PublishStep, Publish, InsertEvent, UpsertSnapshot, Abort
  <1>6. ASSUME ReapEvents \/ Shutdown \/ UNCHANGED vars PROVE late' = late
    BY <1>6 DEF ReapEvents, Shutdown, vars, logVars
  <1>7. ASSUME NEW s \in Subscriber, NEW from \in 0..LastId, Replay(s, from)
        PROVE  late' = late
    BY <1>7 DEF Replay, logVars
  <1> QED
    BY <1>1, <1>2, <1>3, <1>4, <1>5, <1>6, <1>7 DEF Next

\* A step no feed shows.
LEMMA FeedsUnchanged ==
  ASSUME \A s \in Subscriber : /\ PostedTo(s)' = PostedTo(s) /\ Feed(s)' = Feed(s)
                               /\ Excuses(s)' = Excuses(s),
         handled' = handled
  PROVE  UNCHANGED Ordered!feedVars
  BY DEF Ordered!feedVars, Excuses

\* A step that leaves the log and what readers know of it alone.
LEMMA LogUnchanged ==
  ASSUME UNCHANGED <<status, entity, late, waived, handled>>
  PROVE  UNCHANGED Ordered!feedVars
  <1>1. Published' = Published /\ Visible' = Visible
    BY DEF Published, Visible
  <1> QED
    BY <1>1, FeedsUnchanged DEF PostedTo, Feed, Excuses

\* A row a relay marks stays where it was; a row the reaper takes is deleted.
LEMMA SetStatusOrdered ==
  ASSUME TypeOK, NEW S \in SUBSET Visible, NEW new \in {"delivered", "gone"},
         SetStatus(S, new), UNCHANGED <<entity, late, waived, handled>>
  PROVE  Ordered!Delete \/ UNCHANGED Ordered!feedVars
  <1>1. /\ \A e \in Event : status'[e] = IF e \in S THEN new ELSE status[e]
        /\ S \subseteq Event
    BY DEF SetStatus, Visible
  <1>2. Published' = Published
    BY <1>1 DEF Published, Visible
  <1>3. \A s \in Subscriber : PostedTo(s)' = PostedTo(s) /\ Excuses(s)' = Excuses(s)
    BY <1>2 DEF PostedTo, Excuses
  <1>4. CASE new = "delivered"
    <2>1. Visible' = Visible
      BY <1>1, <1>4 DEF Visible
    <2> QED
      BY <1>3, <2>1, FeedsUnchanged DEF Feed
  <1>5. CASE new = "gone"
    <2>1. Visible' = Visible \ S
      BY <1>1, <1>5 DEF Visible
    <2>2. \A s \in Subscriber : Feed(s)' = Feed(s) \ S
      BY <2>1 DEF Feed
    <2>3. \E old \in SUBSET Event :
             [s \in Subscriber |-> Feed(s)]' = [s \in Subscriber |-> Feed(s) \ old]
      BY <1>1, <2>2
    <2> QED
      BY <1>3, <2>3 DEF Ordered!Delete, Excuses
  <1> QED
    BY <1>4, <1>5

LEMMA CommitOrdered ==
  ASSUME TypeOK, Ids, LateInv,
         NEW p \in Publisher, Commit(p), UNCHANGED <<waived, handled>>
  PROVE  Ordered!Post
  <1> DEFINE new == [s \in Subscriber |-> {e \in tx[p] : TypeOf[entity[e]] = EntityType[s]}]
  <1>1. /\ \A e \in Event : status'[e] = IF e \in tx[p] THEN "pending" ELSE status[e]
        /\ late' = late \union {e \in tx[p] : \E f \in Published : f > e /\ SameType(e, f)}
        /\ UNCHANGED entity
    BY DEF Commit
  <1>2. tx[p] \subseteq Event /\ \A e \in tx[p] : status[e] = "absent"
    BY DEF Ids, TypeOK, LogTypeOK
  <1>3. Published' = Published \union tx[p] /\ Visible' = Visible \union tx[p]
    BY <1>1, <1>2 DEF Published, Visible
  <1>4. new \in [Subscriber -> SUBSET Event]
    BY <1>2
  <1>5. ASSUME NEW s \in Subscriber
        PROVE  /\ PostedTo(s)' = PostedTo(s) \union new[s]
               /\ Feed(s)' = Feed(s) \union new[s]
    BY <1>1, <1>3 DEF PostedTo, Feed
  <1>6. ASSUME NEW s \in Subscriber
        PROVE  Excuses(s)' = Excuses(s) \union {e \in new[s] : \E f \in PostedTo(s) : f > e}
    <2>1. ASSUME NEW e \in new[s]
          PROVE  e \in late' <=> e \in late \/ \E f \in PostedTo(s) : f > e
      BY <1>1, <2>1 DEF SameType, PostedTo
    <2>2. \A e \in PostedTo(s) : e \notin tx[p] /\ (e \in late' <=> e \in late)
      BY <1>1, <1>2 DEF PostedTo, Published
    <2>3. late \intersect new[s] = {}
      BY <1>2 DEF LateInv, Published
    <2> QED
      BY <1>5, <2>1, <2>2, <2>3 DEF Excuses
  <1> HIDE DEF new
  <1> QED
    BY <1>4, <1>5, <1>6 DEF Ordered!Post, Excuses

\* What comes before a lower bound of a set is not in the set.
LEMMA BelowIsOutside ==
  ASSUME NEW e \in Int, NEW f \in Int, f < e, NEW S, \A x \in S : e <= x
  PROVE  f \notin S
  OBVIOUS

\* A row is handed to a handler only after everything before it is settled.
LEMMA DeliverOrdered ==
  ASSUME TypeOK, FeedInv, BatchPosted, NEW i \in Loop, HandleOk(i)
  PROVE  \E s \in Subscriber, e \in Event : Ordered!Deliver(s, e)
  <1> DEFINE s == SubscriberOf[i]
             e == Row(i)
  <1>1. s \in Subscriber
    BY FeedAssumption
  <1>2. e \in todo[i] /\ e \in Event /\ \A f \in todo[i] : e <= f
    BY TypeParts, RowIsLeast DEF HandleOk, InBatch
  <1>3. e \in PostedTo(s)
    BY <1>2 DEF BatchPosted
  <1>4. ASSUME NEW f \in Feed(s), f < e PROVE f \in handled[s] \union Excuses(s)
    <2>1. f \in Event /\ f \in PostedTo(s)
      BY DEF Feed, Visible, PostedTo, Published
    <2>2. f \notin todo[i]
      <3> HIDE DEF e
      <3>1. e \in Int /\ f \in Int
        BY <1>2, <2>1, EventIds DEF Event
      <3>2. \A x \in todo[i] : e <= x
        BY <1>2
      <3> QED
        BY <1>4, <3>1, <3>2, BelowIsOutside
    <2>3. Settled(s, f)
      BY <1>2, <1>4, <2>1, <2>2 DEF FeedInv, BatchesInv
    <2> QED
      BY <2>1, <2>3 DEF Settled, Excused, Excuses
  <1>5. /\ handled' = [handled EXCEPT ![s] = handled[s] \union {e}]
        /\ UNCHANGED <<status, entity, late, waived>>
    BY DEF HandleOk, logVars
  <1>6. UNCHANGED <<PostedTo(s), Feed(s), Excuses(s)>> /\ Published' = Published /\ Visible' = Visible
    BY <1>5 DEF PostedTo, Feed, Excuses, Published, Visible
  <1>7. \A u \in Subscriber : /\ PostedTo(u)' = PostedTo(u) /\ Feed(u)' = Feed(u)
                              /\ Excuses(u)' = Excuses(u)
    BY <1>5, <1>6 DEF PostedTo, Feed, Excuses
  <1> HIDE DEF e, s
  <1>8. Ordered!Deliver(s, e)
    BY <1>1, <1>3, <1>4, <1>5, <1>7 DEF Ordered!Deliver, Excuses
  <1> QED
    BY <1>1, <1>2, <1>8

LEMMA ReplayOrdered ==
  ASSUME TypeOK, NEW s \in Subscriber, NEW from \in 0..LastId, Replay(s, from)
  PROVE  Ordered!Skip(s)
  <1> DEFINE S == {e \in Event : cursor[s] < e /\ e <= from}
  <1>1. waived' = [waived EXCEPT ![s] = waived[s] \union S] /\ waived \in [Subscriber -> SUBSET Event]
    BY DEF Replay, TypeOK
  <1>2. UNCHANGED <<status, entity, late, handled>>
    BY DEF Replay, logVars
  <1>3. Published' = Published /\ Visible' = Visible
    BY <1>2 DEF Published, Visible
  <1>4. \A u \in Subscriber : /\ PostedTo(u)' = PostedTo(u) /\ Feed(u)' = Feed(u)
                              /\ Excuses(u)' = IF u = s THEN Excuses(u) \union S ELSE Excuses(u)
    BY <1>1, <1>2, <1>3 DEF PostedTo, Feed, Excuses
  <1>5. S \in SUBSET Event
    OBVIOUS
  <1> HIDE DEF S
  <1> QED
    BY <1>2, <1>4, <1>5 DEF Ordered!Skip, Excuses

LEMMA StepOrdered ==
  ASSUME TypeOK, Ids, FeedInv, LateInv, BatchPosted, [Next]_vars
  PROVE  Ordered!Next \/ UNCHANGED Ordered!feedVars
  <1>1. CASE UNCHANGED vars
    BY <1>1, LogUnchanged DEF vars, logVars, replayVars
  <1>2. ASSUME NEW i \in Loop, Advance(i) \/ LoopFault(i) \/ Restart(i)
        PROVE  Ordered!Next \/ UNCHANGED Ordered!feedVars
    <2>1. CASE HandleOk(i)
      BY <2>1, DeliverOrdered DEF Ordered!Next
    <2>2. CASE ~HandleOk(i)
      <3>1. UNCHANGED <<waived, handled>>
        BY <1>2, <2>2 DEF Advance, LoopFault, Register, ReadCursor, Stop, Poll, HandleErr,
             AdvanceCursor, Wake, RegisterError, ReadError, AdvanceError, Crash, Restart,
             replayVars
      <3> QED
        BY <1>2, <3>1, LoopFrame, LogUnchanged DEF logVars
    <2> QED
      BY <2>1, <2>2
  <1>3. ASSUME NEW r \in Relay,
               RelayStep(r) \/ RelayError(r) \/ RelayCrash(r) \/ RelayRestart(r)
        PROVE  Ordered!Next \/ UNCHANGED Ordered!feedVars
    <2>1. UNCHANGED <<entity, late, waived, handled>>
      BY <1>3, RelayFrame DEF replayVars
    <2>2. status' = status \/ \E S \in SUBSET Visible : SetStatus(S, "delivered")
      <3>1. First(Pending, RelayBatch) \subseteq Visible
        BY FirstWithin DEF Pending, Visible
      <3> QED
        BY <1>3, <3>1 DEF RelayStep, RelayPoll, RelayHandle, RelayWake, RelayStop,
                          RelayError, RelayCrash, RelayRestart, RelayMoves, logVars
    <2> QED
      BY <2>1, <2>2, LogUnchanged, SetStatusOrdered DEF Ordered!Next
  <1>4. CASE PublishStep
    <2>1. PICK p \in Publisher : Publish(p)
      BY <1>4 DEF PublishStep
    <2>2. UNCHANGED <<waived, handled>>
      BY <1>4 DEF PublishStep, replayVars
    <2>3. CASE Commit(p)
      BY <2>2, <2>3, CommitOrdered DEF Ordered!Next
    <2>4. CASE InsertEvent(p)
      <3>1. UNCHANGED <<status, late>> /\ Published' = Published /\ Visible' = Visible
        BY <2>4 DEF InsertEvent, Published, Visible
      <3>2. \A e \in Published : entity'[e] = entity[e]
        <4>1. \A e \in Published : e # nextId
          BY LogAssumption DEF Ids, Published, Event, TypeOK, LogTypeOK
        <4> QED
          BY <2>4, <4>1 DEF InsertEvent, TypeOK, LogTypeOK, Published
      <3>3. \A s \in Subscriber : /\ PostedTo(s)' = PostedTo(s) /\ Feed(s)' = Feed(s)
                                  /\ Excuses(s)' = Excuses(s)
        BY <2>2, <3>1, <3>2 DEF PostedTo, Feed, Excuses, Visible, Published
      <3> QED
        BY <2>2, <3>3, FeedsUnchanged
    <2>5. CASE UpsertSnapshot(p) \/ Abort(p)
      BY <2>2, <2>5, LogUnchanged DEF UpsertSnapshot, Abort
    <2> QED
      BY <2>1, <2>3, <2>4, <2>5 DEF Publish
  <1>5. CASE ReapEvents
    <2>1. PICK S \in SUBSET {e \in Event : status[e] = "delivered"} : SetStatus(S, "gone")
      BY <1>5 DEF ReapEvents
    <2>2. S \in SUBSET Visible
      BY DEF Visible
    <2> QED
      BY <1>5, <2>1, <2>2, SetStatusOrdered DEF ReapEvents, replayVars, Ordered!Next
  <1>6. CASE Shutdown
    BY <1>6, LogUnchanged DEF Shutdown, logVars, replayVars
  <1>7. ASSUME NEW s \in Subscriber, NEW from \in 0..LastId, Replay(s, from)
        PROVE  Ordered!Next
    BY <1>7, ReplayOrdered DEF Ordered!Next
  <1> QED
    BY <1>1, <1>2, <1>3, <1>4, <1>5, <1>6, <1>7 DEF Next

\* Publishers, subscriber loops that share cursors, relays, the reaper and
\* replays implement the ordered feed.
THEOREM OrderKept == Spec => KeepsOrder
  <1>1. Init => LateInv /\ BatchPosted
    BY DEF Init, LogInit, LateInv, BatchPosted
  <1>2. Spec => [](LateInv /\ BatchPosted)
    BY <1>1, FeedIsInvariant, NextGrowth, NextLate, NextBatch, PTL DEF Spec
  <1>3. TypeOK /\ Ids /\ FeedInv /\ LateInv /\ BatchPosted /\ [Next]_vars
            => [Ordered!Next]_(Ordered!feedVars)
    BY StepOrdered
  <1> QED
    BY <1>2, <1>3, InitOrdered, FeedIsInvariant, PTL DEF Spec, KeepsOrder, Ordered!Spec

=============================================================================
