------------------------------ MODULE EventLog ------------------------------
(***************************************************************************)
(* State events: the rows of kind 'event' in strunk_outbox, the rows of    *)
(* strunk_snapshots, and the transactions that publish them (EventPublish  *)
(* in src/src/events.rs).                                                  *)
(*                                                                         *)
(* An event's id comes from the sequence of the table when the row is      *)
(* inserted; the row is seen when its transaction commits.  An event       *)
(* stands for the state it publishes.                                      *)
(***************************************************************************)
EXTENDS Integers, FiniteSets

CONSTANTS
    Publisher,  \* application tasks, each with at most one transaction
    Entity,     \* entity ids with their type
    TypeOf,     \* TypeOf[x]: the entity_type of x
    NoEntity,   \* the entity of an id not yet drawn
    LastId      \* bound: ids the sequence hands out

ASSUME LogAssumption ==
    /\ NoEntity \notin Entity
    /\ LastId \in Nat

Event == 1..LastId
NoEvent == 0

VARIABLES
    nextId,    \* the next value of the sequence
    entity,    \* entity[e]: the entity whose state e publishes
    status,    \* status[e]; "absent" before the commit, "gone" after the delete
    tx,        \* tx[p]: the events inserted by p's open transaction
    writing,   \* writing[p]: the event of p whose snapshot is not written yet
    snapshot,  \* snapshot[x]: the event whose state strunk_snapshots shows
    late       \* history: events committed after an event of larger id and
               \* the same type

logVars == <<nextId, entity, status, tx, writing, snapshot, late>>

Published == {e \in Event : status[e] # "absent"}
Visible == {e \in Event : status[e] \in {"pending", "delivered"}}

SameType(e, f) == TypeOf[entity[e]] = TypeOf[entity[f]]

LogTypeOK ==
    /\ nextId \in 1..(LastId + 1)
    /\ entity \in [Event -> Entity \union {NoEntity}]
    /\ status \in [Event -> {"absent", "pending", "delivered", "gone"}]
    /\ tx \in [Publisher -> SUBSET Event]
    /\ writing \in [Publisher -> Event \union {NoEvent}]
    /\ snapshot \in [Entity -> Event \union {NoEvent}]
    /\ late \subseteq Event

LogInit ==
    /\ nextId = 1
    /\ entity = [e \in Event |-> NoEntity]
    /\ status = [e \in Event |-> "absent"]
    /\ tx = [p \in Publisher |-> {}]
    /\ writing = [p \in Publisher |-> NoEvent]
    /\ snapshot = [x \in Entity |-> NoEvent]
    /\ late = {}

----------------------------------------------------------------------------
(* A transaction: any number of publish calls, then its end *)

\* publish, first statement: the event row.
InsertEvent(p) ==
    /\ writing[p] = NoEvent
    /\ nextId <= LastId
    /\ \E x \in Entity : entity' = [entity EXCEPT ![nextId] = x]
    /\ nextId' = nextId + 1
    /\ tx' = [tx EXCEPT ![p] = @ \union {nextId}]
    /\ writing' = [writing EXCEPT ![p] = nextId]
    /\ UNCHANGED <<status, snapshot, late>>

\* The snapshot rows p's transaction has written and therefore locks.
Locked(p) == {entity[e] : e \in tx[p] \ {writing[p]}}

\* publish, second statement: the upsert of the snapshot row waits for every
\* other transaction that has written the row.
UpsertSnapshot(p) ==
    /\ writing[p] # NoEvent
    /\ \A q \in Publisher \ {p} : entity[writing[p]] \notin Locked(q)
    /\ writing' = [writing EXCEPT ![p] = NoEvent]
    /\ UNCHANGED <<nextId, entity, status, tx, snapshot, late>>

\* (A mistake: the first state of an entity stays, ON CONFLICT DO NOTHING.)
CommitFirstState(p) ==
    /\ tx[p] # {} /\ writing[p] = NoEvent
    /\ status' = [e \in Event |-> IF e \in tx[p] THEN "pending" ELSE status[e]]
    /\ snapshot' = [x \in Entity |->
           IF x \in Locked(p) /\ snapshot[x] = NoEvent
           THEN CHOOSE e \in tx[p] : entity[e] = x
           ELSE snapshot[x]]
    /\ late' = late \union {e \in tx[p] : \E f \in Published : f > e /\ SameType(e, f)}
    /\ tx' = [tx EXCEPT ![p] = {}]
    /\ UNCHANGED <<nextId, entity, writing>>

Commit(p) ==
    /\ tx[p] # {} /\ writing[p] = NoEvent
    /\ status' = [e \in Event |-> IF e \in tx[p] THEN "pending" ELSE status[e]]
    /\ snapshot' = [x \in Entity |->
           IF x \in Locked(p)
           THEN CHOOSE e \in tx[p] :
                    /\ entity[e] = x
                    /\ \A f \in tx[p] : entity[f] = x => f <= e
           ELSE snapshot[x]]
    /\ late' = late \union {e \in tx[p] : \E f \in Published : f > e /\ SameType(e, f)}
    /\ tx' = [tx EXCEPT ![p] = {}]
    /\ UNCHANGED <<nextId, entity, writing>>

\* A rollback, a failed statement, a lost connection, or the transaction
\* PostgreSQL picks to break a deadlock of two that wait for each other's
\* snapshot rows.  The ids drawn are not given back.
Abort(p) ==
    /\ tx[p] # {}
    /\ tx' = [tx EXCEPT ![p] = {}]
    /\ writing' = [writing EXCEPT ![p] = NoEvent]
    /\ UNCHANGED <<nextId, entity, status, snapshot, late>>

Publish(p) == InsertEvent(p) \/ UpsertSnapshot(p) \/ Commit(p) \/ Abort(p)

----------------------------------------------------------------------------
(* Statements of the loops *)

\* (A mistake: ORDER BY id DESC.)
FirstDescending(S, n) == {e \in S : Cardinality({f \in S : f > e}) < n}

\* ORDER BY id LIMIT n
First(S, n) == {e \in S : Cardinality({f \in S : f < e}) < n}

\* (A mistake: off by one.)
EventsAfterNext(k, after) ==
    {e \in Visible : TypeOf[entity[e]] = k /\ e > after + 1}

\* poll_events(after) of a subscriber of type k.
EventsAfter(k, after) == {e \in Visible : TypeOf[entity[e]] = k /\ e > after}

Pending == {e \in Event : status[e] = "pending"}

SetStatus(S, new) ==
    status' = [e \in Event |-> IF e \in S THEN new ELSE status[e]]

=============================================================================
