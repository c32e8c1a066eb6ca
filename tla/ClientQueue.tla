---------------------------- MODULE ClientQueue ----------------------------
(***************************************************************************)
(* Applications that drive the task queue themselves, through the calls of *)
(* Strunk (src/src/lib.rs, task_queue.rs), and the operator's commands     *)
(* (src/src/bin/cli.rs), over the rows of TaskTable:                       *)
(*   - a client claims a task, reports progress, extends its lease, and    *)
(*     completes the task, with or without a result, or fails it;          *)
(*   - a handler that completes its task with a result does so inside a    *)
(*     worker loop, which completes or fails the task once more;           *)
(*   - retry-all, purge and the reaper run meanwhile.                      *)
(* complete_with_result and retry-all are several statements, and any      *)
(* other process may run between two of them.                              *)
(***************************************************************************)
EXTENDS TaskTable, FiniteSets

CONSTANTS
    Client,       \* processes that claim tasks
    Handler,      \* those that are handlers of a worker loop
    QueueOf,      \* QueueOf[c]: the queue client c claims from
    Extensions,   \* lengths passed to heartbeat
    Reports,      \* values passed to set_progress
    NoTask,       \* no task in hand
    NoReport,     \* no progress reported by this run
    ListLimit,    \* rows retry-all lists
    MaxFaults,    \* bound: crashes, statements that return an error, and ticks
                  \* that end the lease of a claim still in hand
    MaxCommands   \* bound: calls of retry-all and purge

ASSUME ClientAssumption ==
    /\ NoTask \notin Task
    /\ Handler \subseteq Client
    /\ Extensions \subseteq Nat \ {0}
    /\ Reports \subseteq Int
    /\ NoReport \notin Int
    /\ ListLimit \in Nat
    /\ {MaxFaults, MaxCommands} \subseteq Nat

VARIABLES
    pc,          \* pc[c]: where client c is
    held,        \* held[c]: the task it claimed
    token,       \* token[c]: attempts as the claim returned it
    run,         \* history: run[c], which claim of the task that was
    said,        \* history: said[c], the last progress this run reported
    progress,    \* progress[t]: the column
    result,      \* strunk_results: the run whose result is stored, 0 if none
    runs,        \* history: runs[t] claims of t so far
    finishedBy,  \* history: the last run whose complete_with_result delivered t, or 0
    command,     \* what the operator's retry-all is doing
    listed,      \* rows it has listed and not yet retried
    asleep,      \* history: rows it listed that have been dead ever since
    crashes, dbErrors, overruns, purges, commands  \* history: faults so far

clientVars == <<pc, held, token, run, said>>
resultVars == <<progress, result, runs, finishedBy>>
commandVars == <<command, listed, asleep>>
faultVars == <<crashes, dbErrors, overruns, purges, commands>>
vars == <<rowVars, clientVars, resultVars, commandVars, faultVars>>

Place == {"idle", "working", "stored", "returning", "down"}
Holding(c) == pc[c] \in {"working", "stored", "returning"}

TypeOK ==
    /\ RowsTypeOK
    /\ pc \in [Client -> Place]
    /\ held \in [Client -> Task \union {NoTask}]
    /\ token \in [Client -> Nat] /\ run \in [Client -> Nat]
    /\ said \in [Client -> 0..100 \union {NoReport}]
    /\ \A c \in Client : Holding(c) <=> held[c] \in Task
    /\ progress \in [Task -> 0..100]
    /\ result \in [Task -> Nat] /\ runs \in [Task -> Nat]
    /\ finishedBy \in [Task -> Nat]
    /\ command \in {"none", "retrying", "done", "failed"}
    /\ listed \subseteq Task /\ asleep \subseteq Task
    /\ {crashes, dbErrors, overruns, purges, commands} \subseteq Nat

Init ==
    /\ RowsInit
    /\ pc = [c \in Client |-> "idle"]
    /\ held = [c \in Client |-> NoTask]
    /\ token = [c \in Client |-> 0]
    /\ run = [c \in Client |-> 0]
    /\ said = [c \in Client |-> NoReport]
    /\ progress = [t \in Task |-> 0]
    /\ result = [t \in Task |-> 0]
    /\ runs = [t \in Task |-> 0]
    /\ finishedBy = [t \in Task |-> 0]
    /\ command = "none" /\ listed = {} /\ asleep = {}
    /\ crashes = 0 /\ dbErrors = 0 /\ overruns = 0 /\ purges = 0 /\ commands = 0

----------------------------------------------------------------------------
(* A client and its calls *)

\* The client goes on with its task; what it reported is in the past.
Goto(c, place) ==
    /\ pc' = [pc EXCEPT ![c] = place]
    /\ said' = [said EXCEPT ![c] = NoReport]
    /\ UNCHANGED <<held, token, run>>

\* (A mistake: the client keeps its task.)
LetGoKeeps(c, place) == Goto(c, place)

LetGo(c, place) ==
    /\ pc' = [pc EXCEPT ![c] = place]
    /\ held' = [held EXCEPT ![c] = NoTask]
    /\ token' = [token EXCEPT ![c] = 0]
    /\ run' = [run EXCEPT ![c] = 0]
    /\ said' = [said EXCEPT ![c] = NoReport]

Count(fault) == fault' = fault + 1

MayFail == crashes + dbErrors + overruns < MaxFaults

\* Rows other clients may have a statement running on.
MaybeLocked(c) == {held[d] : d \in {d \in Client \ {c} : Holding(d)}}

ClaimOne(c, t) ==
    /\ \E locked \in SUBSET MaybeLocked(c) : ClaimRow(QueueOf[c], locked, t)
    /\ runs' = [runs EXCEPT ![t] = runs[t] + 1]
    /\ UNCHANGED <<progress, result, finishedBy>>

Claim(c) ==
    /\ pc[c] = "idle"
    /\ \E t \in Task :
        /\ ClaimOne(c, t)
        /\ pc' = [pc EXCEPT ![c] = "working"]
        /\ held' = [held EXCEPT ![c] = t]
        /\ token' = [token EXCEPT ![c] = attempts[t] + 1]
        /\ run' = [run EXCEPT ![c] = runs[t] + 1]
        /\ UNCHANGED said
    /\ UNCHANGED faultVars

Clamp(p) == IF p < 0 THEN 0 ELSE IF p > 100 THEN 100 ELSE p

\* (A mistake: progress never goes back, not even for a new run.)
WriteGreatest(t, p) ==
    progress' = [progress EXCEPT ![t] =
                    IF status[t] = "claimed" /\ Clamp(p) > @ THEN Clamp(p) ELSE @]

WriteProgress(t, p) ==
    progress' = [progress EXCEPT ![t] = IF status[t] = "claimed" THEN Clamp(p) ELSE @]

SetProgress(c) ==
    /\ pc[c] = "working"
    /\ \E p \in Reports :
        /\ WriteProgress(held[c], p)
        /\ said' = [said EXCEPT ![c] = Clamp(p)]
    /\ UNCHANGED <<rowVars, pc, held, token, run, result, runs, finishedBy, faultVars>>

Beat(c) ==
    /\ pc[c] = "working"
    /\ \E extension \in Extensions : Heartbeat(held[c], extension)
    /\ UNCHANGED <<clientVars, resultVars, faultVars>>

\* (A mistake: ON CONFLICT DO NOTHING.)
WriteFirstResult(t, r) ==
    /\ result' = [result EXCEPT ![t] = IF @ = 0 THEN r ELSE @]
    /\ UNCHANGED <<progress, runs, finishedBy>>

WriteResult(t, r) ==
    /\ result' = [result EXCEPT ![t] = r]
    /\ UNCHANGED <<progress, runs, finishedBy>>

\* (A mistake: the second statement is left to somebody else.)
StoreResultOnly(c) ==
    /\ pc[c] = "working"
    /\ WriteResult(held[c], run[c])
    /\ LetGo(c, "idle")
    /\ UNCHANGED <<rowVars, faultVars>>

\* complete_with_result: the INSERT ...
StoreResult(c) ==
    /\ pc[c] = "working"
    /\ WriteResult(held[c], run[c])
    /\ Goto(c, "stored")
    /\ UNCHANGED <<rowVars, faultVars>>

\* ... and the UPDATE.
DeliverWithResult(c) ==
    /\ MarkDelivered(held[c])
    /\ finishedBy' = [finishedBy EXCEPT ![held[c]] = IF Exists(held[c]) THEN run[c] ELSE @]
    /\ UNCHANGED <<progress, result, runs>>

\* A handler goes back to its loop, any other client is done.
Answered(c) == IF c \in Handler THEN Goto(c, "returning") ELSE LetGo(c, "idle")

Finish(c) ==
    /\ pc[c] = "stored"
    /\ DeliverWithResult(c)
    /\ Answered(c)
    /\ UNCHANGED faultVars

Complete(c) ==
    /\ pc[c] \in {"working", "returning"}
    /\ MarkDelivered(held[c])
    /\ LetGo(c, "idle")
    /\ UNCHANGED <<resultVars, faultVars>>

\* A handler that has completed its task may still return an error.
Fail(c) ==
    /\ pc[c] \in {"working", "returning"}
    /\ MarkFailed(held[c], token[c])
    /\ LetGo(c, "idle")
    /\ UNCHANGED <<resultVars, faultVars>>

\* A statement returns an error, whether or not it committed.  The client
\* gives the task up, as a worker loop does.
ClaimError(c) ==
    /\ pc[c] = "idle"
    /\ \E t \in Task : ClaimOne(c, t)
    /\ UNCHANGED clientVars

EndError(c) ==
    /\ pc[c] \in {"working", "returning"}
    /\ \/ UNCHANGED rowVars
       \/ MarkDelivered(held[c])
       \/ MarkFailed(held[c], token[c])
    /\ LetGo(c, "idle")
    /\ UNCHANGED resultVars

ResultError(c) ==
    /\ \/ pc[c] = "working" /\ WriteResult(held[c], run[c]) /\ UNCHANGED rowVars
       \/ pc[c] = "stored" /\ DeliverWithResult(c)
       \/ pc[c] \in {"working", "stored"} /\ UNCHANGED <<rowVars, resultVars>>
    /\ Answered(c)

\* The client goes on after a report or a heartbeat it knows nothing of.
ReportError(c) ==
    /\ pc[c] = "working"
    /\ \E p \in Reports : WriteProgress(held[c], p) \/ UNCHANGED progress
    /\ said' = [said EXCEPT ![c] = NoReport]
    /\ UNCHANGED <<rowVars, pc, held, token, run, result, runs, finishedBy>>

BeatError(c) ==
    /\ pc[c] = "working"
    /\ \E extension \in Extensions : Heartbeat(held[c], extension) \/ UNCHANGED rowVars
    /\ UNCHANGED <<clientVars, resultVars>>

CallError(c) ==
    /\ MayFail
    /\ Count(dbErrors)
    /\ ClaimError(c) \/ EndError(c) \/ ResultError(c) \/ ReportError(c) \/ BeatError(c)
    /\ UNCHANGED <<crashes, overruns, purges, commands>>

Crash(c) ==
    /\ Holding(c)
    /\ MayFail
    /\ Count(crashes)
    /\ LetGo(c, "down")
    /\ UNCHANGED <<rowVars, resultVars, dbErrors, overruns, purges, commands>>

Restart(c) ==
    /\ pc[c] = "down"
    /\ Goto(c, "idle")
    /\ UNCHANGED <<rowVars, resultVars, faultVars>>

Call(c) ==
    \/ Claim(c) \/ SetProgress(c) \/ Beat(c) \/ StoreResult(c) \/ Finish(c)
    \/ Complete(c) \/ Fail(c) \/ CallError(c) \/ Crash(c) \/ Restart(c)

----------------------------------------------------------------------------
(* The operator's commands, the reaper, submissions and time *)

DeadRows(q) == {t \in Task : Queue[t] = q /\ status[t] = "dead"}

\* dead_letters: the newest rows, up to the limit; which those are is left open.
ListDead ==
    /\ command # "retrying"
    /\ commands < MaxCommands
    /\ Count(commands)
    /\ \E q \in {Queue[t] : t \in Task} : \E S \in SUBSET DeadRows(q) :
        /\ S = DeadRows(q) \/ Cardinality(S) = ListLimit
        /\ Cardinality(S) <= ListLimit
        /\ listed' = S /\ asleep' = S
    /\ command' = "retrying"
    /\ UNCHANGED <<rowVars, crashes, dbErrors, overruns, purges>>

\* (A mistake: a refused row is skipped and counted all the same.)
RetryListedAnyway(t) ==
    /\ command = "retrying" /\ t \in listed
    /\ RetryDead(t) \/ ((status[t] # "dead" \/ ~KeyFree(t)) /\ UNCHANGED rowVars)
    /\ listed' = listed \ {t}
    /\ UNCHANGED <<command, faultVars>>

\* retry_dead on a listed row: a row no longer dead is passed over, and the
\* unique index may refuse the update, which ends the command.
RetryListed(t) ==
    /\ command = "retrying" /\ t \in listed
    /\ \/ RetryDead(t) /\ listed' = listed \ {t} /\ UNCHANGED command
       \/ /\ status[t] # "dead"
          /\ listed' = listed \ {t}
          /\ UNCHANGED <<rowVars, command>>
       \/ /\ status[t] = "dead" /\ ~KeyFree(t)
          /\ command' = "failed"
          /\ UNCHANGED <<rowVars, listed>>
    /\ UNCHANGED faultVars

RetryEnds ==
    /\ command = "retrying" /\ listed = {}
    /\ command' = "done"
    /\ UNCHANGED <<rowVars, listed, faultVars>>

RetryError ==
    /\ command = "retrying" /\ MayFail
    /\ Count(dbErrors)
    /\ UNCHANGED rowVars \/ \E t \in listed : RetryDead(t)
    /\ command' = "failed"
    /\ UNCHANGED <<listed, crashes, overruns, purges, commands>>

\* Any status is accepted; a purge takes every row of the queue that has it.
Purge ==
    /\ commands < MaxCommands
    /\ \E st \in MessageStatus, q \in {Queue[t] : t \in Task} :
        DeleteRows({t \in Task : Queue[t] = q /\ status[t] = st})
    /\ Count(commands) /\ Count(purges)
    /\ UNCHANGED <<command, listed, crashes, dbErrors, overruns>>

\* Results are not reaped.
Reap ==
    /\ \E S \in SUBSET Reapable : S # {} /\ DeleteRows(S)
    /\ UNCHANGED <<command, listed, faultVars>>

Submit ==
    /\ \E S \in SUBSET Task : InsertRows(S, 0)
    /\ UNCHANGED <<command, listed, faultVars>>

TimerRuns == \E t \in Task : visibleIn[t] > 0 \/ keepFor[t] > 0

\* The next tick makes a claimed row claimable while a client has it in hand.
LeaseEnds ==
    \E c \in Client : Holding(c) /\ status[held[c]] = "claimed" /\ visibleIn[held[c]] = 1

Tick ==
    /\ TimerRuns
    /\ IF LeaseEnds
       THEN MayFail /\ Count(overruns)
       ELSE UNCHANGED overruns
    /\ AgeRows
    /\ UNCHANGED <<command, listed, crashes, dbErrors, purges, commands>>

Environment ==
    \/ \E t \in Task : RetryListed(t)
    \/ RetryEnds \/ RetryError \/ Purge \/ Reap \/ Submit \/ Tick

\* The rows of the command that are still dead.
Observe == asleep' = {t \in asleep : status'[t] = "dead"}

Next ==
    \/ ListDead /\ UNCHANGED <<clientVars, resultVars>>
    \/ Environment /\ Observe /\ UNCHANGED <<clientVars, resultVars>>
    \/ \E c \in Client : Call(c) /\ Observe /\ UNCHANGED <<command, listed>>

Spec == Init /\ [][Next]_vars

----------------------------------------------------------------------------
(* Safety *)

Faults == crashes + dbErrors + overruns + purges

\* While no lease is overrun and nothing is purged, tasks of one deduplication
\* key are never worked on at the same time, although their rows come and go
\* (submit, retry-all, mark_failed on a row its own handler had delivered).
OneRunPerKey ==
    overruns = 0 /\ purges = 0 =>
        \A c, d \in Client :
            /\ c # d
            /\ {pc[c], pc[d]} \subseteq {"working", "stored"}
            /\ DedupKey[held[c]] # NoKey
            => DedupKey[held[c]] # DedupKey[held[d]]

\* The result of a task whose last run completed it with a result is that
\* run's, whatever an earlier run that crashed in between had stored, while no
\* lease is overrun (the upsert of complete_with_result).
ResultCurrent ==
    overruns = 0 =>
        \A t \in Task :
            status[t] = "delivered" /\ finishedBy[t] > 0 /\ finishedBy[t] = runs[t]
                => result[t] = runs[t]

\* Without a fault a stored result is that of a run that went on to deliver
\* the task: only between the two statements of complete_with_result, or after
\* a fault there, does get_result show the result of a task still to be done.
ResultEarned ==
    Faults = 0 =>
        \A t \in Task :
            \/ result[t] = finishedBy[t]
            \/ \E c \in Client : pc[c] = "stored" /\ held[c] = t /\ run[c] = result[t]

\* While no lease is overrun, get_progress shows what the run under way said
\* last: no report of an earlier run, clamped or not, comes in after it.
ProgressCurrent ==
    overruns = 0 =>
        \A c \in Client :
            pc[c] = "working" /\ said[c] # NoReport /\ status[held[c]] = "claimed"
                => progress[held[c]] = said[c]

\* When retry-all reports success, each row it listed has been out of the dead
\* letters since, although it may be delivered, reaped or dead again by now.
RetryAllTruthful == command = "done" => asleep = {}

=============================================================================
