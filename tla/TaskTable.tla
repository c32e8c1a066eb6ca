----------------------------- MODULE TaskTable -----------------------------
(***************************************************************************)
(* The task rows of the table strunk_outbox (src/src/migrate.rs) and the   *)
(* SQL statements the task queue runs on them (src/src/task_queue.rs,      *)
(* relay.rs, reaper.rs, lib.rs).  Every statement commits by itself, so    *)
(* each is one atomic operator; the processes of TaskQueue call them.      *)
(*                                                                         *)
(* A row's timestamps are kept as the time left until they pass, in whole  *)
(* ticks of the database clock: that is all any statement compares.        *)
(***************************************************************************)
EXTENDS Integers

CONSTANTS
    Task,               \* row ids, drawn from the sequence of the table
    Queue,              \* Queue[t]: the queue (column key) of the row
    Priority,           \* Priority[t]: claimed highest first
    MaxRetries,         \* MaxRetries[t]: claims before a failure is final
    Delay,              \* Delay[t]: ticks between submission and visibility
    DedupKey,           \* DedupKey[t]: the deduplication key or NoKey
    NoKey,              \* the SQL NULL of dedup_key
    VisibilityTimeout,  \* ticks a claim hides its row
    RetentionDelivered, \* ticks a delivered row or an inbox row is kept
    RetentionDead       \* ticks a dead row is kept

ASSUME TaskAssumption == Task \subseteq Nat

ASSUME RowAssumption ==
    /\ Priority \in [Task -> Int]
    /\ MaxRetries \in [Task -> Int]
    /\ Delay \in [Task -> Nat]

ASSUME DurationAssumption ==
    /\ VisibilityTimeout \in Nat \ {0}
    /\ RetentionDelivered \in Nat
    /\ RetentionDead \in Nat

VARIABLES
    status,     \* status[t]; "absent" before the insert, "gone" after the delete
    attempts,   \* attempts[t]
    visibleIn,  \* ticks until visible_at of t
    keepFor     \* ticks until delivered_at of t is older than its retention

rowVars == <<status, attempts, visibleIn, keepFor>>

MessageStatus == {"pending", "claimed", "delivered", "dead"}
Active == {"pending", "claimed"}

RowsTypeOK ==
    /\ status \in [Task -> MessageStatus \union {"absent", "gone"}]
    /\ attempts \in [Task -> Nat]
    /\ visibleIn \in [Task -> Int]
    /\ keepFor \in [Task -> Nat]

RowsInit ==
    /\ status = [t \in Task |-> "absent"]
    /\ attempts = [t \in Task |-> 0]
    /\ visibleIn = [t \in Task |-> 0]
    /\ keepFor = [t \in Task |-> 0]

Monus(a, b) == IF a > b THEN a - b ELSE 0

Exists(t) == status[t] \in MessageStatus

\* (A mistake the model is tested with: the index covers pending rows only.)
KeyFreeAmongPending(t) ==
    \A u \in Task \ {t} :
        status[u] = "pending" => DedupKey[t] = NoKey \/ DedupKey[u] # DedupKey[t]

\* The partial unique index: no other active row has the key of t.
KeyFree(t) ==
    \A u \in Task \ {t} :
        status[u] \in Active => DedupKey[t] = NoKey \/ DedupKey[u] # DedupKey[t]

----------------------------------------------------------------------------
(* Statements *)

\* A transaction inserts the rows S and commits `elapsed` ticks after it began
\* (now() is its start).  A duplicate key aborts it: nothing is inserted.
InsertRows(S, elapsed) ==
    /\ S # {}
    /\ \A t \in S : status[t] = "absent" /\ KeyFree(t)
    /\ \A t, u \in S : t # u /\ DedupKey[t] # NoKey => DedupKey[t] # DedupKey[u]
    /\ status' = [t \in Task |-> IF t \in S THEN "pending" ELSE status[t]]
    /\ visibleIn' = [t \in Task |-> IF t \in S THEN Monus(Delay[t], elapsed)
                                               ELSE visibleIn[t]]
    /\ UNCHANGED <<attempts, keepFor>>

\* (Mistakes: visible_at, the claimed rows, or the status overlooked.)
ClaimableHidden(q) == {t \in Task : Queue[t] = q /\ status[t] \in Active}

ClaimablePending(q) ==
    {t \in Task : Queue[t] = q /\ status[t] = "pending" /\ visibleIn[t] <= 0}

ClaimableNotDead(q) ==
    {t \in Task : /\ Queue[t] = q /\ status[t] \in MessageStatus \ {"dead"}
                  /\ visibleIn[t] <= 0}

Claimable(q) ==
    {t \in Task : Queue[t] = q /\ status[t] \in Active /\ visibleIn[t] <= 0}

\* ORDER BY priority DESC, id
Before(t, u) == Priority[t] > Priority[u] \/ (Priority[t] = Priority[u] /\ t <= u)

\* The row a claim on q takes when SKIP LOCKED passes over the rows `locked`.
ClaimRow(q, locked, t) ==
    /\ t \in Claimable(q) \ locked
    /\ \A u \in Claimable(q) \ locked : Before(t, u)
    /\ status' = [status EXCEPT ![t] = "claimed"]
    /\ attempts' = [attempts EXCEPT ![t] = attempts[t] + 1]
    /\ visibleIn' = [visibleIn EXCEPT ![t] = VisibilityTimeout]
    /\ UNCHANGED keepFor

MarkDelivered(t) ==
    IF Exists(t)
    THEN /\ status' = [status EXCEPT ![t] = "delivered"]
         /\ keepFor' = [keepFor EXCEPT ![t] = RetentionDelivered]
         /\ UNCHANGED <<attempts, visibleIn>>
    ELSE UNCHANGED rowVars

Bury(t) ==
    /\ status' = [status EXCEPT ![t] = "dead"]
    /\ keepFor' = [keepFor EXCEPT ![t] = RetentionDead]
    /\ UNCHANGED <<attempts, visibleIn>>

\* 2^attempt seconds and a jitter below that, truncated to whole seconds.
Backoff(attempt) == 2^attempt .. 2 * 2^attempt - 1

Reschedule(t, attempt) ==
    /\ status' = [status EXCEPT ![t] = "pending"]
    /\ \E d \in Backoff(attempt) : visibleIn' = [visibleIn EXCEPT ![t] = d]
    /\ UNCHANGED <<attempts, keepFor>>

\* (Mistakes: off by one in the comparison with max_retries, either way.)
MarkFailedLate(t, attempt) ==
    \/ Exists(t) /\ attempt > MaxRetries[t] /\ Bury(t)
    \/ Exists(t) /\ attempt <= MaxRetries[t] /\ KeyFree(t) /\ Reschedule(t, attempt)
    \/ ~Exists(t) /\ UNCHANGED rowVars

MarkFailedEarly(t, attempt) ==
    \/ Exists(t) /\ attempt + 1 >= MaxRetries[t] /\ Bury(t)
    \/ Exists(t) /\ attempt + 1 < MaxRetries[t] /\ KeyFree(t) /\ Reschedule(t, attempt)
    \/ ~Exists(t) /\ UNCHANGED rowVars

\* (A mistake: the key is looked at when a task is submitted only.)
MarkFailedAnyKey(t, attempt) ==
    \/ Exists(t) /\ attempt >= MaxRetries[t] /\ Bury(t)
    \/ Exists(t) /\ attempt < MaxRetries[t] /\ Reschedule(t, attempt)
    \/ ~Exists(t) /\ UNCHANGED rowVars

\* `attempt` is the caller's copy of attempts.  The statements match the id
\* alone; the unique index may still refuse to make an inactive row pending.
MarkFailed(t, attempt) ==
    \/ Exists(t) /\ attempt >= MaxRetries[t] /\ Bury(t)
    \/ Exists(t) /\ attempt < MaxRetries[t] /\ KeyFree(t) /\ Reschedule(t, attempt)
    \/ /\ ~Exists(t) \/ (attempt < MaxRetries[t] /\ ~KeyFree(t))
       /\ UNCHANGED rowVars

\* Extends the claim on the row, whoever made it.
Heartbeat(t, extension) ==
    /\ visibleIn' = [visibleIn EXCEPT ![t] =
                        IF status[t] = "claimed" THEN extension ELSE @]
    /\ UNCHANGED <<status, attempts, keepFor>>

\* (A mistake: retry_dead also takes delivered rows.)
RetryFinished(t) ==
    /\ status[t] \in {"delivered", "dead"}
    /\ KeyFree(t)
    /\ status' = [status EXCEPT ![t] = "pending"]
    /\ attempts' = [attempts EXCEPT ![t] = 0]
    /\ visibleIn' = [visibleIn EXCEPT ![t] = 0]
    /\ UNCHANGED keepFor

RetryDead(t) ==
    /\ status[t] = "dead"
    /\ KeyFree(t)
    /\ status' = [status EXCEPT ![t] = "pending"]
    /\ attempts' = [attempts EXCEPT ![t] = 0]
    /\ visibleIn' = [visibleIn EXCEPT ![t] = 0]
    /\ UNCHANGED keepFor

\* (A mistake: the age alone decides.)
ReapableByAge == {t \in Task : Exists(t) /\ keepFor[t] = 0}

Reapable == {t \in Task : status[t] \in {"delivered", "dead"} /\ keepFor[t] = 0}

DeleteRows(S) ==
    /\ status' = [t \in Task |-> IF t \in S THEN "gone" ELSE status[t]]
    /\ UNCHANGED <<attempts, visibleIn, keepFor>>

\* One tick of the clock of the database.
AgeRows ==
    /\ visibleIn' = [t \in Task |-> Monus(visibleIn[t], 1)]
    /\ keepFor' = [t \in Task |-> Monus(keepFor[t], 1)]
    /\ UNCHANGED <<status, attempts>>

----------------------------------------------------------------------------

\* Two active rows never share a deduplication key: the index that refuses
\* the insert also covers the ways back to "pending" (mark_failed on a row
\* another call had finished, retry_dead).
DedupUnique ==
    \A t, u \in Task :
        /\ t # u
        /\ status[t] \in Active /\ status[u] \in Active
        /\ DedupKey[t] # NoKey
        => DedupKey[t] # DedupKey[u]

=============================================================================
