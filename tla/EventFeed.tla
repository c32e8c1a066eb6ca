------------------------------ MODULE EventFeed -----------------------------
(***************************************************************************)
(* The readers of EventLog:                                                *)
(*   - the loops of Subscriber::spawn (src/src/events.rs).  Loops of one   *)
(*     subscriber id, in several processes, share its cursor row;          *)
(*   - the loops of Relay::spawn (src/src/relay.rs);                       *)
(*   - the reaper's delete, as far as event rows are concerned;            *)
(*   - applications that replay a subscriber or shut the library down.     *)
(* The age a row must have to be reaped is left out: any time may pass     *)
(* between two steps.                                                      *)
(***************************************************************************)
EXTENDS EventLog

CONSTANTS
    Subscriber,    \* subscriber ids
    EntityType,    \* EntityType[s]: the type s subscribes to
    Loop,          \* subscriber loops
    SubscriberOf,  \* SubscriberOf[i]: the subscriber id of loop i
    BatchSize,     \* batch_size of the subscribers
    Relay,         \* relay loops
    RelayBatch,    \* relay_batch_size
    MaxCrashes,    \* bound: crashes of loops
    MaxDbErrors,   \* bound: statements that return an error
    MaxRefusals,   \* bound: handler calls that return Err
    MaxReplays,    \* bound: calls of replay_subscriber
    MayShutdown    \* whether an application may call shutdown

ASSUME FeedAssumption ==
    /\ SubscriberOf \in [Loop -> Subscriber]
    /\ BatchSize \in Nat \ {0}
    /\ RelayBatch \in Nat \ {0}
    /\ {MaxCrashes, MaxDbErrors, MaxRefusals, MaxReplays} \subseteq Nat
    /\ MayShutdown \in BOOLEAN

VARIABLES
    registered,  \* subscribers with a row in strunk_subscribers
    cursor,      \* cursor[s]: last_seen_id
    pc,          \* pc[i]: where loop i is
    base,        \* base[i]: the cursor loop i read
    todo,        \* todo[i]: the rest of the batch of loop i
    rpc,         \* rpc[r]: where relay r is
    relaying,    \* relaying[r]: rows relay r polled and has not handled
    cancelled,   \* the cancellation token
    handled,     \* history: handled[s] events a handler of s took with Ok
    waived,      \* history: waived[s] events a replay jumped over
    owed,        \* history: owed[s] events a replay asked for, not handled since
    raced,       \* history: subscribers replayed while a loop had a batch
    relayed,     \* history: relayed[e] calls of a relay handler for e
    crashes, dbErrors, refusals, replays  \* history: what happened so far

readVars == <<registered, cursor, pc, base, todo>>
relayVars == <<rpc, relaying, relayed>>
replayVars == <<waived, owed, raced>>
faultVars == <<crashes, dbErrors, refusals, replays>>
vars == <<logVars, readVars, relayVars, replayVars, cancelled, handled, faultVars>>

InBatch == {"handling", "advancing"}
Live == {"starting", "top", "polling", "waiting"} \union InBatch

TypeOK ==
    /\ LogTypeOK
    /\ registered \subseteq Subscriber
    /\ cursor \in [Subscriber -> 0..LastId]
    /\ pc \in [Loop -> Live \union {"stopped", "down"}]
    /\ base \in [Loop -> 0..LastId]
    /\ todo \in [Loop -> SUBSET Event]
    /\ \A i \in Loop : pc[i] \in InBatch <=> todo[i] # {}
    /\ relaying \in [Relay -> SUBSET Event]
    /\ rpc \in [Relay -> {"top", "handling", "waiting", "stopped", "down"}]
    /\ \A r \in Relay : rpc[r] = "handling" <=> relaying[r] # {}
    /\ relayed \in [Event -> Nat]
    /\ cancelled \in BOOLEAN
    /\ {handled, waived, owed} \subseteq [Subscriber -> SUBSET Event]
    /\ raced \subseteq Subscriber
    /\ {crashes, dbErrors, refusals, replays} \subseteq Nat

Init ==
    /\ LogInit
    /\ registered = {}
    /\ cursor = [s \in Subscriber |-> 0]
    /\ pc = [i \in Loop |-> "starting"]
    /\ base = [i \in Loop |-> 0]
    /\ todo = [i \in Loop |-> {}]
    /\ relaying = [r \in Relay |-> {}]
    /\ rpc = [r \in Relay |-> "top"]
    /\ relayed = [e \in Event |-> 0]
    /\ cancelled = FALSE
    /\ handled = [s \in Subscriber |-> {}]
    /\ waived = [s \in Subscriber |-> {}]
    /\ owed = [s \in Subscriber |-> {}]
    /\ raced = {}
    /\ crashes = 0 /\ dbErrors = 0 /\ refusals = 0 /\ replays = 0

----------------------------------------------------------------------------
(* The loop of Subscriber::spawn *)

Goto(i, place) == pc' = [pc EXCEPT ![i] = place]

\* (A mistake: the rest of the batch is not given up.)
LeaveWithBatch(i, place) == Goto(i, place) /\ UNCHANGED todo

Leave(i, place) ==
    /\ Goto(i, place)
    /\ todo' = [todo EXCEPT ![i] = {}]

DbError ==
    /\ dbErrors < MaxDbErrors
    /\ dbErrors' = dbErrors + 1
    /\ UNCHANGED <<crashes, refusals, replays>>

\* ON CONFLICT keeps the cursor.
Register(i) ==
    /\ pc[i] = "starting"
    /\ registered' = registered \union {SubscriberOf[i]}
    /\ Goto(i, "top")
    /\ UNCHANGED <<logVars, cursor, base, todo, relayVars, replayVars,
                   cancelled, handled, faultVars>>

\* A loop that cannot register returns.  As with every failing statement, it
\* may have been executed and only its answer lost.
RegisterError(i) ==
    /\ pc[i] = "starting"
    /\ DbError
    /\ registered' \in {registered, registered \union {SubscriberOf[i]}}
    /\ Goto(i, "stopped")
    /\ UNCHANGED <<logVars, cursor, base, todo, relayVars, replayVars,
                   cancelled, handled>>

\* (A mistake: the row is read once and the cursor kept in memory.)
ReadCursorOnce(i) ==
    /\ pc[i] = "top"
    /\ ~cancelled
    /\ base' = [base EXCEPT ![i] = IF @ = 0 THEN cursor[SubscriberOf[i]] ELSE @]
    /\ Goto(i, "polling")
    /\ UNCHANGED <<logVars, registered, cursor, todo, relayVars, replayVars,
                   cancelled, handled, faultVars>>

\* (A mistake: the token is not looked at.)
ReadCursorDeaf(i) ==
    /\ pc[i] = "top"
    /\ base' = [base EXCEPT ![i] = cursor[SubscriberOf[i]]]
    /\ Goto(i, "polling")
    /\ UNCHANGED <<logVars, registered, cursor, todo, relayVars, replayVars,
                   cancelled, handled, faultVars>>

\* The token is looked at, then last_seen_id read.
ReadCursor(i) ==
    /\ pc[i] = "top"
    /\ ~cancelled
    /\ base' = [base EXCEPT ![i] = cursor[SubscriberOf[i]]]
    /\ Goto(i, "polling")
    /\ UNCHANGED <<logVars, registered, cursor, todo, relayVars, replayVars,
                   cancelled, handled, faultVars>>

Stop(i) ==
    /\ pc[i] \in {"top", "waiting"}
    /\ cancelled
    /\ Goto(i, "stopped")
    /\ UNCHANGED <<logVars, registered, cursor, base, todo, relayVars, replayVars,
                   cancelled, handled, faultVars>>

Poll(i) ==
    /\ pc[i] = "polling"
    /\ LET rows == First(EventsAfter(EntityType[SubscriberOf[i]], base[i]), BatchSize)
       IN  /\ todo' = [todo EXCEPT ![i] = rows]
           /\ Goto(i, IF rows = {} THEN "waiting" ELSE "handling")
    /\ UNCHANGED <<logVars, registered, cursor, base, relayVars, replayVars,
                   cancelled, handled, faultVars>>

\* The cursor or the events cannot be read.
ReadError(i) ==
    /\ \/ pc[i] = "top" /\ ~cancelled
       \/ pc[i] = "polling"
    /\ DbError
    /\ Goto(i, "waiting")
    /\ UNCHANGED <<logVars, registered, cursor, base, todo, relayVars, replayVars,
                   cancelled, handled>>

\* The row of the batch in turn.
Row(i) == CHOOSE e \in todo[i] : \A f \in todo[i] : e <= f

HandleOk(i) ==
    /\ pc[i] = "handling"
    /\ handled' = [handled EXCEPT ![SubscriberOf[i]] = @ \union {Row(i)}]
    /\ owed' = [owed EXCEPT ![SubscriberOf[i]] = @ \ {Row(i)}]
    /\ Goto(i, "advancing")
    /\ UNCHANGED <<logVars, registered, cursor, base, todo, relayVars, waived, raced,
                   cancelled, faultVars>>

Refuse ==
    /\ refusals < MaxRefusals
    /\ refusals' = refusals + 1
    /\ UNCHANGED <<crashes, dbErrors, replays>>

\* (A mistake: continue for break, the rest of the batch goes on.)
HandleErrGoesOn(i) ==
    /\ pc[i] = "handling"
    /\ Refuse
    /\ todo' = [todo EXCEPT ![i] = @ \ {Row(i)}]
    /\ Goto(i, IF todo[i] = {Row(i)} THEN "top" ELSE "handling")
    /\ UNCHANGED <<logVars, registered, cursor, base, relayVars, replayVars,
                   cancelled, handled>>

\* The rest of the batch is given up and read again at once.
HandleErr(i) ==
    /\ pc[i] = "handling"
    /\ Refuse
    /\ Leave(i, "top")
    /\ UNCHANGED <<logVars, registered, cursor, base, relayVars, replayVars,
                   cancelled, handled>>

\* (A mistake: the cursor goes to the end of the batch.)
AdvanceToEnd(i) ==
    /\ pc[i] = "advancing"
    /\ cursor' = [cursor EXCEPT ![SubscriberOf[i]] =
                     CHOOSE e \in todo[i] : \A f \in todo[i] : f <= e]
    /\ todo' = [todo EXCEPT ![i] = @ \ {Row(i)}]
    /\ Goto(i, IF todo[i] = {Row(i)} THEN "top" ELSE "handling")
    /\ UNCHANGED <<logVars, registered, base, relayVars, replayVars,
                   cancelled, handled, faultVars>>

\* (A mistake: only the end of a batch is recorded.)
AdvanceAtEnd(i) ==
    /\ pc[i] = "advancing"
    /\ cursor' = [cursor EXCEPT ![SubscriberOf[i]] =
                     IF todo[i] = {Row(i)} THEN Row(i) ELSE @]
    /\ todo' = [todo EXCEPT ![i] = @ \ {Row(i)}]
    /\ Goto(i, IF todo[i] = {Row(i)} THEN "top" ELSE "handling")
    /\ UNCHANGED <<logVars, registered, base, relayVars, replayVars,
                   cancelled, handled, faultVars>>

\* Whatever the cursor says by now, it is set to the row just handled.
AdvanceCursor(i) ==
    /\ pc[i] = "advancing"
    /\ cursor' = [cursor EXCEPT ![SubscriberOf[i]] = Row(i)]
    /\ todo' = [todo EXCEPT ![i] = @ \ {Row(i)}]
    /\ Goto(i, IF todo[i] = {Row(i)} THEN "top" ELSE "handling")
    /\ UNCHANGED <<logVars, registered, base, relayVars, replayVars,
                   cancelled, handled, faultVars>>

AdvanceError(i) ==
    /\ pc[i] = "advancing"
    /\ DbError
    /\ cursor' \in {cursor, [cursor EXCEPT ![SubscriberOf[i]] = Row(i)]}
    /\ Leave(i, "top")
    /\ UNCHANGED <<logVars, registered, base, relayVars, replayVars,
                   cancelled, handled>>

\* A notification or the poll interval.
Wake(i) ==
    /\ pc[i] = "waiting"
    /\ Goto(i, "top")
    /\ UNCHANGED <<logVars, registered, cursor, base, todo, relayVars, replayVars,
                   cancelled, handled, faultVars>>

CountCrash ==
    /\ crashes < MaxCrashes
    /\ crashes' = crashes + 1
    /\ UNCHANGED <<dbErrors, refusals, replays>>

\* A panicking handler or the end of the process.
Crash(i) ==
    /\ pc[i] \in Live
    /\ CountCrash
    /\ Leave(i, "down")
    /\ UNCHANGED <<logVars, registered, cursor, base, relayVars, replayVars,
                   cancelled, handled>>

\* A supervisor restarts the process.
Restart(i) ==
    /\ pc[i] = "down"
    /\ ~cancelled
    /\ Goto(i, "starting")
    /\ UNCHANGED <<logVars, registered, cursor, base, todo, relayVars, replayVars,
                   cancelled, handled, faultVars>>

----------------------------------------------------------------------------
(* The loop of Relay::spawn, and the reaper *)

\* (A mistake: a row of the batch is left out.)
RelayHandleFirst(r) ==
    /\ rpc[r] = "handling"
    /\ \E e \in relaying[r] : relayed' = [relayed EXCEPT ![e] = @ + 1]
    /\ relaying' = [relaying EXCEPT ![r] = {}]
    /\ rpc' = [rpc EXCEPT ![r] = "waiting"]
    /\ UNCHANGED <<logVars, readVars, replayVars, cancelled, handled, faultVars>>

\* (A mistake: delivered rows are polled again.)
RelayPollVisible(r) ==
    /\ rpc[r] = "top"
    /\ ~cancelled
    /\ LET rows == First(Visible, RelayBatch)
       IN  /\ SetStatus(rows, "delivered")
           /\ relaying' = [relaying EXCEPT ![r] = rows]
           /\ rpc' = [rpc EXCEPT ![r] = IF rows = {} THEN "waiting" ELSE "handling"]
    /\ UNCHANGED <<nextId, entity, tx, writing, snapshot, late, readVars, relayed,
                   replayVars, cancelled, handled, faultVars>>

\* One statement: the rows are delivered before the handler sees them.
RelayPoll(r) ==
    /\ rpc[r] = "top"
    /\ ~cancelled
    /\ LET rows == First(Pending, RelayBatch)
       IN  /\ SetStatus(rows, "delivered")
           /\ relaying' = [relaying EXCEPT ![r] = rows]
           /\ rpc' = [rpc EXCEPT ![r] = IF rows = {} THEN "waiting" ELSE "handling"]
    /\ UNCHANGED <<nextId, entity, tx, writing, snapshot, late, readVars, relayed,
                   replayVars, cancelled, handled, faultVars>>

\* The statement fails, or only its answer is lost.
RelayError(r) ==
    /\ rpc[r] = "top"
    /\ ~cancelled
    /\ DbError
    /\ \E rows \in {{}, First(Pending, RelayBatch)} : SetStatus(rows, "delivered")
    /\ rpc' = [rpc EXCEPT ![r] = "waiting"]
    /\ UNCHANGED <<nextId, entity, tx, writing, snapshot, late, readVars, relaying,
                   relayed, replayVars, cancelled, handled>>

\* UPDATE ... RETURNING promises no order.
RelayHandle(r) ==
    /\ rpc[r] = "handling"
    /\ \E e \in relaying[r] :
        /\ relaying' = [relaying EXCEPT ![r] = @ \ {e}]
        /\ relayed' = [relayed EXCEPT ![e] = @ + 1]
        /\ rpc' = [rpc EXCEPT ![r] = IF relaying[r] = {e} THEN "waiting" ELSE @]
    /\ UNCHANGED <<logVars, readVars, replayVars, cancelled, handled, faultVars>>

RelayMoves(r, places, to) ==
    /\ rpc[r] \in places
    /\ rpc' = [rpc EXCEPT ![r] = to]
    /\ UNCHANGED <<logVars, readVars, relaying, relayed, replayVars, cancelled,
                   handled, faultVars>>

RelayWake(r) == RelayMoves(r, {"waiting"}, "top")
RelayStop(r) == cancelled /\ RelayMoves(r, {"top", "waiting"}, "stopped")
RelayRestart(r) == ~cancelled /\ RelayMoves(r, {"down"}, "top")

RelayCrash(r) ==
    /\ rpc[r] \in {"top", "handling", "waiting"}
    /\ CountCrash
    /\ rpc' = [rpc EXCEPT ![r] = "down"]
    /\ relaying' = [relaying EXCEPT ![r] = {}]
    /\ UNCHANGED <<logVars, readVars, relayed, replayVars, cancelled, handled>>

\* Delivered rows only, whatever the cursors of the subscribers.
ReapEvents ==
    /\ \E rows \in SUBSET {e \in Event : status[e] = "delivered"} :
           rows # {} /\ SetStatus(rows, "gone")
    /\ UNCHANGED <<nextId, entity, tx, writing, snapshot, late, readVars, relayVars,
                   replayVars, cancelled, handled, faultVars>>

----------------------------------------------------------------------------
(* Applications *)

\* A loop of s goes on from a cursor it has read before.
UnderWay(s) ==
    \E i \in Loop : SubscriberOf[i] = s /\ pc[i] \in {"polling"} \union InBatch

\* replay_subscriber, and reset_subscriber for from = 0; without a row of s
\* nothing happens.
Replay(s, from) ==
    /\ replays < MaxReplays
    /\ replays' = replays + 1
    /\ s \in registered
    /\ cursor' = [cursor EXCEPT ![s] = from]
    /\ waived' = [waived EXCEPT ![s] = @ \union {e \in Event : cursor[s] < e /\ e <= from}]
    /\ owed' = [owed EXCEPT ![s] = EventsAfter(EntityType[s], from)]
    /\ raced' = IF UnderWay(s) THEN raced \union {s} ELSE raced \ {s}
    /\ UNCHANGED <<logVars, registered, pc, base, todo, relayVars, cancelled, handled,
                   crashes, dbErrors, refusals>>

Shutdown ==
    /\ MayShutdown
    /\ ~cancelled
    /\ cancelled' = TRUE
    /\ UNCHANGED <<logVars, readVars, relayVars, replayVars, handled, faultVars>>

PublishStep ==
    /\ \E p \in Publisher : Publish(p)
    /\ UNCHANGED <<readVars, relayVars, replayVars, cancelled, handled, faultVars>>

----------------------------------------------------------------------------

Advance(i) ==
    \/ Register(i) \/ ReadCursor(i) \/ Stop(i) \/ Poll(i)
    \/ HandleOk(i) \/ HandleErr(i) \/ AdvanceCursor(i) \/ Wake(i)

LoopFault(i) ==
    RegisterError(i) \/ ReadError(i) \/ AdvanceError(i) \/ Crash(i)

RelayStep(r) == RelayPoll(r) \/ RelayHandle(r) \/ RelayWake(r) \/ RelayStop(r)

Next ==
    \/ \E i \in Loop : Advance(i) \/ LoopFault(i) \/ Restart(i)
    \/ \E r \in Relay : RelayStep(r) \/ RelayError(r) \/ RelayCrash(r) \/ RelayRestart(r)
    \/ PublishStep \/ ReapEvents \/ Shutdown
    \/ \E s \in Subscriber, from \in 0..LastId : Replay(s, from)

Spec == Init /\ [][Next]_vars

\* Loops, handlers and relays keep running and a supervisor restarts what
\* crashed.  Nobody has to publish, commit, replay, reap or stop.
Fairness ==
    /\ \A i \in Loop : WF_vars(Advance(i)) /\ WF_vars(Restart(i))
    /\ \A r \in Relay : WF_vars(RelayStep(r)) /\ WF_vars(RelayRestart(r))

FairSpec == Spec /\ Fairness

----------------------------------------------------------------------------
(* Safety *)

Feed(s) == {e \in Visible : TypeOf[entity[e]] = EntityType[s]}

\* No subscriber's cursor passes an event its handler has not taken, unless
\* the event committed after one of larger id, or a replay jumped over it:
\* whatever crashes or fails, and however many loops share the cursor.
NoSkip ==
    \A s \in Subscriber : \A e \in Feed(s) :
        e <= cursor[s] => e \in handled[s] \union late \union waived[s]

\* Handlers take events in the order of their ids: before one is taken, every
\* earlier one has been, redeliveries and the same exceptions apart.
InOrder ==
    \A s \in Subscriber : \A f \in handled[s], e \in Feed(s) :
        e < f => e \in handled[s] \union late \union waived[s]

EverPublished(x) == {e \in Published : entity[e] = x}

\* The snapshot of an entity is the last state published for it, unless
\* overlapping transactions committed out of the order of their ids.
SnapshotAgrees ==
    \A x \in Entity :
        /\ snapshot[x] # NoEvent => snapshot[x] \in EverPublished(x)
        /\ EverPublished(x) \intersect late = {} =>
              \A e \in EverPublished(x) : e <= snapshot[x]

\* Relays share the events: each one is in one hand at most, and given to a
\* relay handler at most once.
RelayedOnce ==
    \A e \in Event :
        relayed[e] + Cardinality({r \in Relay : e \in relaying[r]}) <= 1

\* Events the relays have marked delivered and will never give to a handler.
Unrelayed ==
    {e \in Event : /\ status[e] \in {"delivered", "gone"}
                   /\ relayed[e] = 0
                   /\ \A r \in Relay : e \notin relaying[r]}

\* A crash or a failed statement costs the relays one batch at most, whatever
\* part of it was handled, and nothing else loses an event.  The rows are marked
\* before the handler sees them, so this is all that holds: see RelayLosesNothing.
RelayKeeps == Cardinality(Unrelayed) <= RelayBatch * (crashes + dbErrors)

\* What the README says of the relay: if it stops, delivery stalls but no data
\* is lost.  Every event a relay has marked delivered gets to a handler.
RelayLosesNothing == Unrelayed = {}

\* What a replay of s asked for, and is not handled yet, is ahead of the cursor.
Honoured(s) == \A e \in owed[s] \intersect Visible : cursor[s] < e

\* A replay at a moment no loop of the subscriber is under way is honoured.
QuietReplayHonoured == \A s \in Subscriber \ raced : Honoured(s)

\* Subscribers with one loop.
Alone ==
    {s \in Subscriber : \A i, j \in Loop :
        SubscriberOf[i] = s /\ SubscriberOf[j] = s => i = j}

\* The rows loop i is about to hand out although its subscriber has handled them
\* and no replay asked for them.
Again(i) ==
    LET s == SubscriberOf[i] IN (todo[i] \intersect handled[s]) \ owed[s]

\* The handler of a lone loop gets an event again only after a crash or a failed
\* statement, and then one event at most, late ones apart: every row is
\* acknowledged before the next is handed out.  A batch that was cut short by a
\* refusal or taken up after a shutdown hands nothing out twice.
RedeliveryHasCause ==
    \A i \in Loop : pc[i] = "handling" /\ SubscriberOf[i] \in Alone \ raced =>
        /\ crashes + dbErrors = 0 => Again(i) = {}
        /\ Cardinality(Again(i) \ late) <= 1

\* What the README says of subscribers: no events are skipped.
NothingSkipped ==
    \A s \in Subscriber : \A e \in Feed(s) :
        e <= cursor[s] => e \in handled[s] \union waived[s]

----------------------------------------------------------------------------
(* Refinement *)

PostedTo(s) == {e \in Published : TypeOf[entity[e]] = EntityType[s]}

Ordered == INSTANCE OrderedFeed WITH
    posted <- [s \in Subscriber |-> PostedTo(s)],
    kept <- [s \in Subscriber |-> Feed(s)],
    excused <- [s \in Subscriber |-> (late \intersect PostedTo(s)) \union waived[s]],
    delivered <- handled

\* Transactions, cursors, batches and the loops that share them implement a
\* feed that delivers what was committed, in the order of the ids; only late
\* commits and replays excuse events.
KeepsOrder == Ordered!Spec

----------------------------------------------------------------------------
(* Liveness *)

Received(s, e) == e \in handled[s] \union late \union waived[s] \/ status[e] = "gone"

LoopsEnded(s) ==
    \A i \in Loop : SubscriberOf[i] = s =>
        pc[i] = "stopped" \/ (cancelled /\ pc[i] = "down")

\* A subscriber gets every event that is not late, not deleted and not jumped
\* over, as long as one of its loops has not returned.
Arrives ==
    \A s \in Subscriber, e \in Event :
        e \in Feed(s) /\ s \in registered ~> Received(s, e) \/ LoopsEnded(s)

\* A cancelled library comes to rest.
ShutdownCompletes ==
    cancelled ~> /\ \A i \in Loop : pc[i] \in {"stopped", "down"}
                 /\ \A r \in Relay : rpc[r] \in {"stopped", "down"}

=============================================================================
