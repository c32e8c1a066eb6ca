----------------------------- MODULE TaskQueue -----------------------------
(***************************************************************************)
(* The processes of the task queue over the rows of TaskTable:             *)
(*   - the loops of Worker::spawn, one process per loop;                   *)
(*   - the loop of Reaper::spawn;                                          *)
(*   - applications that submit tasks, heartbeat from a handler, retry     *)
(*     dead tasks and shut the library down;                               *)
(*   - time, crashes and failing statements.                               *)
(* A loop's local variables are the task it holds and the copy of attempts *)
(* its claim returned; between two statements any other process may run.   *)
(***************************************************************************)
EXTENDS TaskTable, FiniteSets

CONSTANTS
    Worker,        \* worker loops (concurrency x processes)
    QueueOf,       \* QueueOf[w]: the queue loop w serves
    InboxWorker,   \* the loops built with Worker::inbox; one consumer id
    Extensions,    \* lengths a handler passes to heartbeat
    ReaperBatch,   \* batch_size of the reaper
    NoTask,        \* no task in hand
    LongestTx,     \* bound: ticks a submitting transaction stays open
    MaxCrashes,    \* bound: crashes (a panic in a handler, a killed process)
    MaxDbErrors,   \* bound: statements that return an error
    MaxOverruns,   \* bound: ticks that end the lease of a task still in hand
    MaxRevivals,   \* bound: calls of retry_dead that find a dead row
    MayShutdown    \* whether an application may call shutdown

ASSUME LoopAssumption ==
    /\ NoTask \notin Task
    /\ InboxWorker \subseteq Worker
    /\ Extensions \subseteq Nat \ {0}
    /\ ReaperBatch \in Nat \ {0}
    /\ LongestTx \in Nat
    /\ MayShutdown \in BOOLEAN

ASSUME BoundAssumption ==
    {MaxCrashes, MaxDbErrors, MaxOverruns, MaxRevivals} \subseteq Nat

VARIABLES
    pc,         \* pc[w]: where loop w is
    held,       \* held[w]: task_id of loop w
    token,      \* token[w]: attempts as the claim returned it
    inbox,      \* strunk_inbox rows of the consumer
    inboxKeep,  \* ticks until processed_at is older than the retention
    reaper,     \* where the reaper is
    cancelled,  \* the cancellation token
    okRuns,     \* history: okRuns[t] handler calls for t that returned Ok
    crashes, dbErrors, overruns, revivals  \* history: what went wrong so far

loopVars == <<pc, held, token>>
inboxVars == <<inbox, inboxKeep>>
faultVars == <<crashes, dbErrors, overruns, revivals>>
vars == <<rowVars, loopVars, inboxVars, reaper, cancelled, okRuns, faultVars>>

InHand == {"checking", "handling", "marking", "completing", "failing"}
Live == {"top", "polling", "waiting"} \union InHand
Busy(w) == pc[w] \in InHand

LoopsTypeOK ==
    /\ pc \in [Worker -> Live \union {"stopped", "down"}]
    /\ held \in [Worker -> Task \union {NoTask}]
    /\ token \in [Worker -> Nat]
    /\ \A w \in Worker : Busy(w) <=> held[w] \in Task

TypeOK ==
    /\ RowsTypeOK
    /\ LoopsTypeOK
    /\ inbox \subseteq Task
    /\ inboxKeep \in [Task -> Nat]
    /\ reaper \in {"resting", "reaping", "sweeping", "stopped"}
    /\ cancelled \in BOOLEAN
    /\ okRuns \in [Task -> Nat]
    /\ {crashes, dbErrors, overruns, revivals} \subseteq Nat

Init ==
    /\ RowsInit
    /\ pc = [w \in Worker |-> "top"]
    /\ held = [w \in Worker |-> NoTask]
    /\ token = [w \in Worker |-> 0]
    /\ inbox = {}
    /\ inboxKeep = [t \in Task |-> 0]
    /\ reaper = "resting"
    /\ cancelled = FALSE
    /\ okRuns = [t \in Task |-> 0]
    /\ crashes = 0 /\ dbErrors = 0 /\ overruns = 0 /\ revivals = 0

----------------------------------------------------------------------------
(* The loop of Worker::spawn *)

Goto(w, place) ==
    /\ pc' = [pc EXCEPT ![w] = place]
    /\ UNCHANGED <<held, token>>

Take(w, t) ==
    /\ pc' = [pc EXCEPT ![w] = IF w \in InboxWorker THEN "checking" ELSE "handling"]
    /\ held' = [held EXCEPT ![w] = t]
    /\ token' = [token EXCEPT ![w] = attempts[t] + 1]

\* (A mistake: the loop keeps its last task.)
DropNothing(w, place) == Goto(w, place)

Drop(w, place) ==
    /\ pc' = [pc EXCEPT ![w] = place]
    /\ held' = [held EXCEPT ![w] = NoTask]
    /\ token' = [token EXCEPT ![w] = 0]

DbError ==
    /\ dbErrors < MaxDbErrors
    /\ dbErrors' = dbErrors + 1
    /\ UNCHANGED <<crashes, overruns, revivals>>

\* Rows another loop may have a statement running on: SKIP LOCKED may pass
\* over them.
MaybeLocked(w) == {held[v] : v \in {v \in Worker \ {w} : Busy(v)}}

\* (A mistake: the token is not looked at.)
LoopTopDeaf(w) ==
    /\ pc[w] = "top"
    /\ Goto(w, "polling")
    /\ UNCHANGED <<rowVars, inboxVars, reaper, cancelled, okRuns, faultVars>>

LoopTop(w) ==
    /\ pc[w] = "top"
    /\ Goto(w, IF cancelled THEN "stopped" ELSE "polling")
    /\ UNCHANGED <<rowVars, inboxVars, reaper, cancelled, okRuns, faultVars>>

Claim(w) ==
    /\ pc[w] = "polling"
    /\ \E locked \in SUBSET MaybeLocked(w), t \in Task :
        /\ ClaimRow(QueueOf[w], locked, t)
        /\ Take(w, t)
    /\ UNCHANGED <<inboxVars, reaper, cancelled, okRuns, faultVars>>

ClaimNothing(w) ==
    /\ pc[w] = "polling"
    /\ Claimable(QueueOf[w]) \subseteq MaybeLocked(w)
    /\ Goto(w, "waiting")
    /\ UNCHANGED <<rowVars, inboxVars, reaper, cancelled, okRuns, faultVars>>

\* The statement fails, or it commits and only its answer is lost.
ClaimError(w) ==
    /\ pc[w] = "polling"
    /\ \/ UNCHANGED rowVars
       \/ \E locked \in SUBSET MaybeLocked(w), t \in Task :
              ClaimRow(QueueOf[w], locked, t)
    /\ DbError
    /\ Goto(w, "waiting")
    /\ UNCHANGED <<inboxVars, reaper, cancelled, okRuns>>

\* A notification or the poll interval; or the token, when it is cancelled.
Wake(w) ==
    /\ pc[w] = "waiting"
    /\ \/ Goto(w, "top")
       \/ cancelled /\ Goto(w, "stopped")
    /\ UNCHANGED <<rowVars, inboxVars, reaper, cancelled, okRuns, faultVars>>

\* (A mistake: the answer is ignored.)
CheckInboxBlind(w) ==
    /\ pc[w] = "checking"
    /\ Goto(w, "handling")
    /\ UNCHANGED <<rowVars, inboxVars, reaper, cancelled, okRuns, faultVars>>

CheckInbox(w) ==
    /\ pc[w] = "checking"
    /\ Goto(w, IF held[w] \in inbox THEN "completing" ELSE "handling")
    /\ UNCHANGED <<rowVars, inboxVars, reaper, cancelled, okRuns, faultVars>>

\* (A mistake: unwrap_or(true).)
CheckInboxErrorSkips(w) ==
    /\ pc[w] = "checking"
    /\ DbError
    /\ Goto(w, "completing")
    /\ UNCHANGED <<rowVars, inboxVars, reaper, cancelled, okRuns>>

\* unwrap_or(false): an inbox that cannot be read does not know the task.
CheckInboxError(w) ==
    /\ pc[w] = "checking"
    /\ DbError
    /\ Goto(w, "handling")
    /\ UNCHANGED <<rowVars, inboxVars, reaper, cancelled, okRuns>>

\* The handler is the application's: it may heartbeat and returns Ok or Err.
Beat(w) ==
    /\ pc[w] = "handling"
    /\ \E extension \in Extensions : Heartbeat(held[w], extension)
    /\ UNCHANGED <<loopVars, inboxVars, reaper, cancelled, okRuns, faultVars>>

HandlerOk(w) ==
    /\ pc[w] = "handling"
    /\ okRuns' = [okRuns EXCEPT ![held[w]] = @ + 1]
    /\ Goto(w, IF w \in InboxWorker THEN "marking" ELSE "completing")
    /\ UNCHANGED <<rowVars, inboxVars, reaper, cancelled, faultVars>>

\* (Mistakes: the failure is not recorded, ever or once cancelled.)
HandlerErrForgets(w) ==
    /\ pc[w] = "handling"
    /\ Drop(w, "top")
    /\ UNCHANGED <<rowVars, inboxVars, reaper, cancelled, okRuns, faultVars>>

HandlerErrCancelled(w) ==
    /\ pc[w] = "handling"
    /\ IF cancelled THEN Drop(w, "stopped") ELSE Goto(w, "failing")
    /\ UNCHANGED <<rowVars, inboxVars, reaper, cancelled, okRuns, faultVars>>

HandlerErr(w) ==
    /\ pc[w] = "handling"
    /\ Goto(w, "failing")
    /\ UNCHANGED <<rowVars, inboxVars, reaper, cancelled, okRuns, faultVars>>

\* ON CONFLICT DO NOTHING: a row already there keeps its processed_at.
MarkInbox(w) ==
    /\ pc[w] = "marking"
    /\ inbox' = inbox \union {held[w]}
    /\ inboxKeep' = [inboxKeep EXCEPT ![held[w]] =
                        IF held[w] \in inbox THEN @ ELSE RetentionDelivered]
    /\ Goto(w, "completing")
    /\ UNCHANGED <<rowVars, reaper, cancelled, okRuns, faultVars>>

\* The error is logged and the task completed all the same.
MarkInboxError(w) ==
    /\ pc[w] = "marking"
    /\ DbError
    /\ Goto(w, "completing")
    /\ UNCHANGED <<rowVars, inboxVars, reaper, cancelled, okRuns>>

Complete(w) ==
    /\ pc[w] = "completing"
    /\ MarkDelivered(held[w])
    /\ Drop(w, "top")
    /\ UNCHANGED <<inboxVars, reaper, cancelled, okRuns, faultVars>>

Fail(w) ==
    /\ pc[w] = "failing"
    /\ MarkFailed(held[w], token[w])
    /\ Drop(w, "top")
    /\ UNCHANGED <<inboxVars, reaper, cancelled, okRuns, faultVars>>

\* (A mistake: the error ends the loop.)
FinishErrorEnds(w) ==
    /\ pc[w] \in {"completing", "failing"}
    /\ DbError
    /\ Drop(w, "stopped")
    /\ UNCHANGED <<rowVars, inboxVars, reaper, cancelled, okRuns>>

\* complete or fail returns an error: it is logged and the loop goes on.
FinishError(w) ==
    /\ pc[w] \in {"completing", "failing"}
    /\ DbError
    /\ Drop(w, "top")
    /\ UNCHANGED <<rowVars, inboxVars, reaper, cancelled, okRuns>>

\* A panicking handler ends the spawned loop; so does the end of the process.
Crash(w) ==
    /\ pc[w] \in Live
    /\ crashes < MaxCrashes
    /\ crashes' = crashes + 1
    /\ Drop(w, "down")
    /\ UNCHANGED <<rowVars, inboxVars, reaper, cancelled, okRuns,
                   dbErrors, overruns, revivals>>

\* The library never restarts a loop; a supervisor restarts the process.
Restart(w) ==
    /\ pc[w] = "down"
    /\ ~cancelled
    /\ Goto(w, "top")
    /\ UNCHANGED <<rowVars, inboxVars, reaper, cancelled, okRuns, faultVars>>

----------------------------------------------------------------------------
(* The loop of Reaper::spawn *)

ReaperWake ==
    /\ reaper = "resting"
    /\ reaper' = IF cancelled THEN "stopped" ELSE "reaping"
    /\ UNCHANGED <<rowVars, loopVars, inboxVars, cancelled, okRuns, faultVars>>

\* One batch.  Only a full one is followed by another: the token is not
\* looked at in between.
ReapBatch ==
    /\ reaper = "reaping"
    /\ \E S \in SUBSET Reapable :
        /\ IsFiniteSet(S) /\ Cardinality(S) <= ReaperBatch
        /\ \/ Cardinality(S) = ReaperBatch
           \/ Reapable \ S \subseteq {held[w] : w \in {w \in Worker : Busy(w)}}
        /\ DeleteRows(S)
        /\ reaper' = IF Cardinality(S) < ReaperBatch THEN "sweeping" ELSE "reaping"
    /\ UNCHANGED <<loopVars, inboxVars, cancelled, okRuns, faultVars>>

ReapInbox ==
    /\ reaper = "sweeping"
    /\ inbox' = {t \in inbox : inboxKeep[t] > 0}
    /\ reaper' = "resting"
    /\ UNCHANGED <<rowVars, loopVars, inboxKeep, cancelled, okRuns, faultVars>>

ReaperError ==
    /\ reaper \in {"reaping", "sweeping"}
    /\ DbError
    /\ reaper' = "resting"
    /\ UNCHANGED <<rowVars, loopVars, inboxVars, cancelled, okRuns>>

----------------------------------------------------------------------------
(* Applications and time *)

Submit ==
    /\ \E S \in SUBSET Task, elapsed \in 0..LongestTx : InsertRows(S, elapsed)
    /\ UNCHANGED <<loopVars, inboxVars, reaper, cancelled, okRuns, faultVars>>

Revive ==
    /\ revivals < MaxRevivals
    /\ revivals' = revivals + 1
    /\ \E t \in Task : RetryDead(t)
    /\ UNCHANGED <<loopVars, inboxVars, reaper, cancelled, okRuns,
                   crashes, dbErrors, overruns>>

Shutdown ==
    /\ MayShutdown
    /\ ~cancelled
    /\ cancelled' = TRUE
    /\ UNCHANGED <<rowVars, loopVars, inboxVars, reaper, okRuns, faultVars>>

TimerRuns ==
    \E t \in Task : visibleIn[t] > 0 \/ keepFor[t] > 0 \/ inboxKeep[t] > 0

\* The next tick makes a row claimable while a loop still has it in hand.
LeaseEnds == \E w \in Worker : Busy(w) /\ visibleIn[held[w]] = 1

Tick ==
    /\ TimerRuns
    /\ IF LeaseEnds
       THEN overruns < MaxOverruns /\ overruns' = overruns + 1
       ELSE UNCHANGED overruns
    /\ AgeRows
    /\ inboxKeep' = [t \in Task |-> Monus(inboxKeep[t], 1)]
    /\ UNCHANGED <<loopVars, inbox, reaper, cancelled, okRuns,
                   crashes, dbErrors, revivals>>

----------------------------------------------------------------------------

Advance(w) ==
    \/ LoopTop(w) \/ Claim(w) \/ ClaimNothing(w) \/ Wake(w) \/ CheckInbox(w)
    \/ HandlerOk(w) \/ HandlerErr(w) \/ MarkInbox(w) \/ Complete(w) \/ Fail(w)

WorkerFault(w) ==
    ClaimError(w) \/ CheckInboxError(w) \/ MarkInboxError(w) \/ FinishError(w) \/ Crash(w)

Reap == ReaperWake \/ ReapBatch \/ ReapInbox

Next ==
    \/ \E w \in Worker : Advance(w) \/ Beat(w) \/ WorkerFault(w) \/ Restart(w)
    \/ Reap \/ ReaperError
    \/ Submit \/ Revive \/ Shutdown \/ Tick

Spec == Init /\ [][Next]_vars

\* Loops, handlers and the reaper keep running, a supervisor restarts what
\* crashed, and time passes.  Nobody has to submit, heartbeat, retry or stop.
Fairness ==
    /\ \A w \in Worker : WF_vars(Advance(w)) /\ WF_vars(Restart(w))
    /\ WF_vars(Reap)
    /\ WF_vars(Tick)

FairSpec == Spec /\ Fairness

----------------------------------------------------------------------------
(* Safety *)

Faults == crashes + dbErrors

\* Claims max_retries allows: a task is claimed before attempts is looked at.
ClaimsAllowed(t) == IF MaxRetries[t] > 1 THEN MaxRetries[t] ELSE 1

\* No task is lost: whatever crashes, errs or overruns, a row is delivered
\* only after a handler returned Ok for it, the inbox included.
AtLeastOnce == \A t \in Task : status[t] = "delivered" => okRuns[t] > 0

\* Claimed rows that the last loop to claim them no longer has in hand.
Orphans ==
    {t \in Task : /\ status[t] = "claimed"
                  /\ ~\E w \in Worker : held[w] = t /\ token[w] = attempts[t]}

\* A crash or a failed statement strands one task at most, and nothing else
\* strands any: with the cancellation checked only at the loop's top and while
\* it waits, a shutdown does not, nor does a report that comes after the lease.
OrphansNeedFaults == Cardinality(Orphans) <= Faults

\* While nobody overruns a lease, a task in hand is claimed, hidden from the
\* other loops, and in one hand, whose copy of attempts is the row's.
Lease ==
    overruns = 0 =>
        /\ \A w \in Worker : Busy(w) =>
              /\ status[held[w]] = "claimed"
              /\ visibleIn[held[w]] > 0
              /\ token[w] = attempts[held[w]]
        /\ \A v, w \in Worker : Busy(v) /\ held[v] = held[w] => v = w

\* max_retries bounds the claims of a task since its last retry, up to one for
\* each crash, failed statement or overrun lease: claim itself does not look at
\* max_retries, and a stale failure reopens a row that was settled.
AttemptsBounded ==
    \A t \in Task : attempts[t] <= ClaimsAllowed(t) + Faults + overruns

\* A task is buried only when its retries are used up, unless an overrun
\* lease outlives a call of retry_dead that reset the count.
DeadOnlyWhenExhausted ==
    overruns = 0 \/ revivals = 0 =>
        \A t \in Task : status[t] = "dead" => attempts[t] >= MaxRetries[t]

\* A task is processed again only because a crash or a failed statement lost
\* the record of a run, or a lease was overrun: each costs one more run of a
\* handler at most, although an overrun lease lets two loops report on the row
\* and either report may reopen it.  Retries of dead rows cost nothing.  This
\* is all that holds for loops with an inbox, too: see InboxSkipsHandled.
RepeatsNeedFaults ==
    \A t \in Task : okRuns[t] <= 1 + Faults + overruns

\* What the README says of the inbox: when a worker crashes after processing and
\* before completing, the next one checks whether the task was already handled
\* and skips it.  No loop with an inbox processes what a handler has taken with
\* Ok.  (The row is written after the handler returned, by a statement of its own.)
InboxSkipsHandled ==
    \A w \in InboxWorker : pc[w] = "handling" => okRuns[held[w]] = 0

\* A task in the inbox is in no inbox worker's handler, while no lease is
\* overrun and no statement fails.
InboxShields ==
    overruns = 0 /\ dbErrors = 0 =>
        \A w \in InboxWorker : pc[w] = "handling" => held[w] \notin inbox

----------------------------------------------------------------------------
(* Action properties *)

StaysDelivered ==
    \A t \in Task : status[t] = "delivered" => status'[t] \in {"delivered", "gone"}

\* A completed task never comes back (mark_failed matches the id alone), while
\* no lease is overrun.
DeliveredIsFinalInTime == [][overruns = 0 => StaysDelivered]_vars

----------------------------------------------------------------------------
(* Refinement *)

\* Where a task is, for those who do not look at its row.
Place(t) == IF status[t] \in Active THEN "open" ELSE status[t]

Promised == INSTANCE LeasedQueue WITH
    place <- [t \in Task |-> Place(t)],
    hand <- held,
    worked <- {t \in Task : okRuns[t] > 0},
    late <- overruns > 0

\* The statements on rows, with their leases, copies of attempts, inbox and
\* faults, keep the promises of a queue that hands out open tasks one hand at
\* a time.  A claim whose answer is lost, and every step on attempts,
\* timestamps and the inbox alone, changes nothing there.
KeepsPromises == Promised!Spec

----------------------------------------------------------------------------
(* Liveness *)

\* Every task is eventually settled for good unless the library is shut down:
\* no crash, failed statement, overrun lease or lost wakeup leaves it pending
\* or claimed for ever.
Settles == \A t \in Task : <>[](status[t] \notin Active \/ cancelled)

\* A cancelled library comes to rest.
ShutdownCompletes ==
    cancelled ~> /\ \A w \in Worker : pc[w] \in {"stopped", "down"}
                 /\ reaper = "stopped"

=============================================================================
