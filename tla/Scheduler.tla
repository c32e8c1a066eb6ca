----------------------------- MODULE Scheduler -----------------------------
(***************************************************************************)
(* The loops of Scheduler::spawn (src/src/scheduler.rs) over the table     *)
(* strunk_schedules, and the applications that register, enable, disable   *)
(* and remove schedules meanwhile.  Of the tasks the loops insert only the *)
(* deduplication key is kept: a schedule and a minute of the clock.        *)
(*                                                                         *)
(* A statement commits by itself.  The row locks of SELECT ... FOR UPDATE  *)
(* end with it, so between the SELECT of a tick and the INSERT and the     *)
(* UPDATE of one of its rows everybody else may run.  The computers share  *)
(* one clock; a loop reads it at some moment after its last statement.     *)
(***************************************************************************)
EXTENDS Integers, Sequences, FiniteSets

CONSTANTS
    Schedule,     \* schedule ids
    Loop,         \* scheduler loops, in any number of processes
    Expression,   \* expressions applications register, as sequences of words
    Duration,     \* Duration[d]: ticks of the duration text d ("30s", "5 m")
    Shorthand,    \* Shorthand[w]: ticks of "@hourly", "@daily", ...
    OneHour,      \* ticks of the interval for a row whose expression is no good
    Minute,       \* Minute[t]: the minute of the wall clock at tick t
    LastTick,     \* bound: ticks of the clock
    TickLimit,    \* the LIMIT of a tick
    MaxCommands,  \* bound: calls of an application
    MaxFaults,    \* bound: crashes of loops and statements that return an error
    MayShutdown,  \* whether an application may call shutdown
    None          \* no row in hand

ASSUME ScheduleAssumption ==
    /\ \A d \in DOMAIN Duration : Duration[d] \in Nat \ {0}
    /\ \A w \in DOMAIN Shorthand : Shorthand[w] \in Nat \ {0}
    /\ OneHour \in Nat \ {0}

ASSUME ClockAssumption ==
    /\ LastTick \in Nat
    /\ Minute \in [0..LastTick -> Nat]
    /\ \A t, u \in 0..LastTick : t <= u => Minute[t] <= Minute[u]

ASSUME BoundAssumption ==
    /\ TickLimit \in Nat \ {0}
    /\ {MaxCommands, MaxFaults} \subseteq Nat
    /\ MayShutdown \in BOOLEAN

VARIABLES
    now,       \* the clock
    state,     \* state[s]: whether the row of s exists and is enabled
    cron,      \* cron[s]: its expression
    nextFire,  \* nextFire[s]
    active,    \* deduplication keys of the pending and claimed tasks
    pc,        \* pc[l]: where loop l is
    since,     \* since[l]: when the last statement of loop l committed
    todo,      \* todo[l]: the rows loop l selected and has not inserted for
    hand,      \* hand[l]: the row it has inserted for and not moved, or None
    cancelled, \* the cancellation token
    inserted,  \* history: deduplication keys of all tasks so far
    served,    \* history: <<s, d>> when a task was inserted for due time d
    repeated,  \* history: schedules with two tasks for one due time
    contended, \* history: schedules selected while another loop had them
    passed,    \* history: <<s, d>> when a loop moved s on from due time d
    late,      \* history: <<s, l>> when l inserted for s, which was not enabled
    tooLate,   \* history: the same, when it did so again
    commands, faults  \* history: what happened so far

rowVars == <<state, cron, nextFire>>
taskVars == <<active, inserted, served, repeated, late, tooLate>>
loopVars == <<pc, since, todo, hand>>
vars == <<now, rowVars, taskVars, loopVars, cancelled, contended, passed,
          commands, faults>>

Key == Schedule \X Nat

\* A row as a tick selects it; the code has no use for `due`, history has.
Text == Expression \union {<<>>}
Row == [id : Schedule, cron : Text, due : 0..LastTick]

ASSUME NoneAssumption == None \notin Row

Live == {"top", "inserting", "moving", "waiting"}

TypeOK ==
    /\ now \in 0..LastTick
    /\ state \in [Schedule -> {"absent", "enabled", "disabled"}]
    /\ cron \in [Schedule -> Text]
    /\ nextFire \in [Schedule -> Nat]
    /\ active \subseteq inserted
    /\ inserted \subseteq Key
    /\ pc \in [Loop -> Live \union {"stopped", "down"}]
    /\ since \in [Loop -> 0..LastTick]
    /\ \A l \in Loop : since[l] <= now
    /\ todo \in [Loop -> SUBSET Row]
    /\ hand \in [Loop -> Row \union {None}]
    /\ \A l \in Loop : pc[l] = "moving" <=> hand[l] # None
    /\ \A l \in Loop : todo[l] # {} => pc[l] \in {"inserting", "moving"}
    /\ \A l \in Loop : pc[l] = "inserting" => todo[l] # {}
    /\ cancelled \in BOOLEAN
    /\ {served, passed} \subseteq SUBSET (Schedule \X (0..LastTick))
    /\ {repeated, contended} \subseteq SUBSET Schedule
    /\ {late, tooLate} \subseteq SUBSET (Schedule \X Loop)
    /\ {commands, faults} \subseteq Nat

Init ==
    /\ now = 0
    /\ state = [s \in Schedule |-> "absent"]
    /\ cron = [s \in Schedule |-> <<>>]
    /\ nextFire = [s \in Schedule |-> 0]
    /\ active = {} /\ inserted = {}
    /\ pc = [l \in Loop |-> "top"]
    /\ since = [l \in Loop |-> 0]
    /\ todo = [l \in Loop |-> {}]
    /\ hand = [l \in Loop |-> None]
    /\ cancelled = FALSE
    /\ served = {} /\ repeated = {} /\ contended = {} /\ passed = {}
    /\ late = {} /\ tooLate = {}
    /\ commands = 0 /\ faults = 0

----------------------------------------------------------------------------
(* Expressions.  Each operator is the set of its Ok results: {} is Err. *)

Ok(table, text) == IF text \in DOMAIN table THEN {table[text]} ELSE {}

\* The expression is not empty: nothing else asks for a first word.
ParseSimpleInterval(c) ==
    IF Head(c) \in {"every", "@every"} /\ Len(c) > 1 THEN Ok(Duration, Tail(c))
    ELSE IF Head(c) \in DOMAIN Shorthand /\ Len(c) = 1 THEN Ok(Shorthand, Head(c))
    ELSE Ok(Duration, c)

NextFireFromCron(c, t) ==
    IF Len(c) < 2 THEN {} ELSE {t + i : i \in ParseSimpleInterval(c)}

\* The tick's own fallback.
NextFireOrHour(c, t) ==
    IF NextFireFromCron(c, t) = {} THEN {t + OneHour} ELSE NextFireFromCron(c, t)

----------------------------------------------------------------------------
(* The application *)

Command ==
    /\ commands < MaxCommands
    /\ commands' = commands + 1
    /\ UNCHANGED <<now, active, inserted, served, repeated, tooLate, loopVars,
                   cancelled, contended, passed, faults>>

Forget(s) == late' = late \ ({s} \X Loop)

\* ScheduleBuilder::register.  A row that exists keeps its next_fire.
Register(s, c) ==
    /\ Command
    /\ \E next \in NextFireFromCron(c, now) :
          nextFire' = [nextFire EXCEPT ![s] = IF state[s] = "absent" THEN next ELSE @]
    /\ state' = [state EXCEPT ![s] = "enabled"]
    /\ cron' = [cron EXCEPT ![s] = c]
    /\ Forget(s)

\* register returns Err: a shorthand among the others, since its one word is
\* counted before it is looked up.
RegisterRefused(c) ==
    /\ Command
    /\ NextFireFromCron(c, now) = {}
    /\ UNCHANGED <<rowVars, late>>

Disable(s) ==
    /\ Command
    /\ state[s] = "enabled"
    /\ state' = [state EXCEPT ![s] = "disabled"]
    /\ UNCHANGED <<cron, nextFire, late>>

Enable(s) ==
    /\ Command
    /\ state[s] = "disabled"
    /\ state' = [state EXCEPT ![s] = "enabled"]
    /\ Forget(s)
    /\ UNCHANGED <<cron, nextFire>>

Remove(s) ==
    /\ Command
    /\ state[s] # "absent"
    /\ state' = [state EXCEPT ![s] = "absent"]
    /\ cron' = [cron EXCEPT ![s] = <<>>]
    /\ nextFire' = [nextFire EXCEPT ![s] = 0]
    /\ UNCHANGED late

Applications ==
    \/ \E s \in Schedule : Disable(s) \/ Enable(s) \/ Remove(s)
    \/ \E s \in Schedule, c \in Expression : Register(s, c)
    \/ \E c \in Expression : RegisterRefused(c)

Shutdown ==
    /\ MayShutdown /\ ~cancelled
    /\ cancelled' = TRUE
    /\ UNCHANGED <<now, rowVars, taskVars, loopVars, contended, passed,
                   commands, faults>>

----------------------------------------------------------------------------
(* One tick: SELECT, then INSERT and UPDATE for each of its rows *)

Goto(l, place) == pc' = [pc EXCEPT ![l] = place]

Commit(l) == since' = [since EXCEPT ![l] = now]

\* (A mistake: the row in hand is kept.)
EndTickKeepsHand(l, place) ==
    /\ Goto(l, place)
    /\ todo' = [todo EXCEPT ![l] = {}]
    /\ UNCHANGED hand

\* The tick is over, or given up: its rows are forgotten.
EndTick(l, place) ==
    /\ Goto(l, place)
    /\ todo' = [todo EXCEPT ![l] = {}]
    /\ hand' = [hand EXCEPT ![l] = None]

NextRow(l) == Goto(l, IF todo[l] = {} THEN "waiting" ELSE "inserting")

Answered == UNCHANGED faults
Fault == faults < MaxFaults /\ faults' = faults + 1

Has(l, s) == (\E r \in todo[l] : r.id = s) \/ (hand[l] # None /\ hand[l].id = s)

\* (A mistake: enabled is not looked at.)
DueUnlessAbsent == {s \in Schedule : state[s] # "absent" /\ nextFire[s] <= now}

Due == {s \in Schedule : state[s] = "enabled" /\ nextFire[s] <= now}

\* A statement of another loop may hold the lock of a row it selected.
MaybeLocked(l) == {s \in Schedule : \E k \in Loop \ {l} : Has(k, s)}

\* ORDER BY next_fire LIMIT 100: the TickLimit rows that are due the longest.
Oldest(D, S) ==
    /\ S \subseteq D
    /\ \A s \in S, u \in D \ S : nextFire[s] <= nextFire[u]
    /\ IsFiniteSet(S)
    /\ Cardinality(S) = TickLimit \/ (S = D /\ Cardinality(S) < TickLimit)

RowOf(s) == [id |-> s, cron |-> cron[s], due |-> nextFire[s]]

Select(l) ==
    /\ pc[l] = "top" /\ ~cancelled
    /\ \E locked \in SUBSET MaybeLocked(l) : \E S \in SUBSET Due :
          /\ Oldest(Due \ locked, S)
          /\ todo' = [todo EXCEPT ![l] = {RowOf(s) : s \in S}]
          /\ contended' = contended \union (S \intersect MaybeLocked(l))
          /\ Goto(l, IF S = {} THEN "waiting" ELSE "inserting")
    /\ Commit(l)
    /\ UNCHANGED <<now, rowVars, taskVars, hand, cancelled, passed,
                   commands, faults>>

\* The tick takes its rows in the order of the SELECT.
FirstRow(l, r) == r \in todo[l] /\ \A q \in todo[l] : r.due <= q.due

\* ON CONFLICT DO NOTHING: no task is inserted while one with the key is active.
InsertTask(l, r, key) ==
    IF key \in active THEN UNCHANGED taskVars
    ELSE /\ active' = active \union {key}
         /\ inserted' = inserted \union {key}
         /\ served' = served \union {<<r.id, r.due>>}
         /\ repeated' = IF <<r.id, r.due>> \in served THEN repeated \union {r.id}
                                                       ELSE repeated
         /\ late' = IF state[r.id] = "enabled" THEN late
                                              ELSE late \union {<<r.id, l>>}
         /\ tooLate' = IF state[r.id] # "enabled" /\ <<r.id, l>> \in late
                       THEN tooLate \union {<<r.id, l>>} ELSE tooLate

\* (A mistake: a row whose task is refused as a duplicate is passed over.)
InsertPassesOver(l) ==
    /\ pc[l] = "inserting"
    /\ \E r \in todo[l], t \in since[l]..now :
          /\ FirstRow(l, r)
          /\ InsertTask(l, r, <<r.id, Minute[t]>>)
          /\ todo' = [todo EXCEPT ![l] = @ \ {r}]
          /\ IF <<r.id, Minute[t]>> \in active
             THEN Goto(l, IF todo[l] = {r} THEN "waiting" ELSE "inserting") /\ UNCHANGED hand
             ELSE Goto(l, "moving") /\ hand' = [hand EXCEPT ![l] = r]
    /\ Answered /\ Commit(l)
    /\ UNCHANGED <<now, rowVars, cancelled, contended, passed, commands>>

\* The key has the minute of the loop's clock as it was before the statement.
Insert(l) ==
    /\ pc[l] = "inserting"
    /\ \E r \in todo[l] :
          /\ FirstRow(l, r)
          /\ \E t \in since[l]..now : InsertTask(l, r, <<r.id, Minute[t]>>)
          /\ \/ /\ Answered
                /\ Goto(l, "moving")
                /\ todo' = [todo EXCEPT ![l] = @ \ {r}]
                /\ hand' = [hand EXCEPT ![l] = r]
             \/ Fault /\ EndTick(l, "waiting")
    /\ Commit(l)
    /\ UNCHANGED <<now, rowVars, cancelled, contended, passed, commands>>

\* (A mistake: the UPDATE takes enabled rows only.)
SetNextFireEnabled(r, next) ==
    /\ nextFire' = [nextFire EXCEPT ![r.id] = IF state[r.id] = "enabled" THEN next ELSE @]
    /\ UNCHANGED <<state, cron>>

\* The UPDATE matches the id alone, whatever became of the row meanwhile.
SetNextFire(r, next) ==
    /\ nextFire' = [nextFire EXCEPT ![r.id] = IF state[r.id] = "absent" THEN @ ELSE next]
    /\ UNCHANGED <<state, cron>>

Move(l) ==
    /\ pc[l] = "moving"
    /\ \E t \in since[l]..now : \E next \in NextFireOrHour(hand[l].cron, t) :
          SetNextFire(hand[l], next)
    /\ passed' = passed \union {<<hand[l].id, hand[l].due>>}
    /\ \/ /\ Answered
          /\ NextRow(l)
          /\ hand' = [hand EXCEPT ![l] = None]
          /\ UNCHANGED todo
       \/ Fault /\ EndTick(l, "waiting")
    /\ Commit(l)
    /\ UNCHANGED <<now, taskVars, cancelled, contended, commands>>

\* (A mistake: a failed INSERT is logged and the tick goes on.)
TickErrorGoesOn(l) ==
    /\ pc[l] = "inserting" /\ Fault
    /\ \E r \in todo[l] :
          /\ FirstRow(l, r)
          /\ todo' = [todo EXCEPT ![l] = @ \ {r}]
          /\ hand' = [hand EXCEPT ![l] = r]
    /\ Goto(l, "moving") /\ Commit(l)
    /\ UNCHANGED <<now, rowVars, taskVars, cancelled, contended, passed,
                   commands>>

\* A statement that fails ends the tick; the error is logged.
TickError(l) ==
    /\ pc[l] = "inserting" \/ pc[l] = "moving" \/ (pc[l] = "top" /\ ~cancelled)
    /\ Fault
    /\ EndTick(l, "waiting")
    /\ Commit(l)
    /\ UNCHANGED <<now, rowVars, taskVars, cancelled, contended, passed,
                   commands>>

Wake(l) ==
    /\ pc[l] = "waiting"
    /\ Goto(l, "top") \/ (cancelled /\ Goto(l, "stopped"))
    /\ UNCHANGED <<now, rowVars, taskVars, since, todo, hand, cancelled, contended,
                   passed, commands, faults>>

Stop(l) ==
    /\ pc[l] = "top" /\ cancelled
    /\ Goto(l, "stopped")
    /\ UNCHANGED <<now, rowVars, taskVars, since, todo, hand, cancelled, contended,
                   passed, commands, faults>>

Advance(l) == Select(l) \/ Insert(l) \/ Move(l) \/ Wake(l) \/ Stop(l)

----------------------------------------------------------------------------
(* Around the loops *)

Crash(l) ==
    /\ Fault
    /\ pc[l] \in Live
    /\ EndTick(l, "down")
    /\ UNCHANGED <<now, rowVars, taskVars, since, cancelled, contended, passed, commands>>

Restart(l) ==
    /\ pc[l] = "down" /\ ~cancelled
    /\ Goto(l, "top")
    /\ UNCHANGED <<now, rowVars, taskVars, since, todo, hand, cancelled, contended,
                   passed, commands, faults>>

\* A worker completes or buries the task: its key is free.
FinishTask(key) ==
    /\ active' = active \ {key}
    /\ UNCHANGED <<now, rowVars, loopVars, cancelled, inserted, served, repeated,
                   late, tooLate, contended, passed, commands, faults>>

Tick ==
    /\ now < LastTick
    /\ now' = now + 1
    /\ UNCHANGED <<rowVars, taskVars, loopVars, cancelled, contended, passed, commands, faults>>

Next ==
    \/ Applications \/ Shutdown \/ Tick
    \/ \E l \in Loop : Advance(l) \/ TickError(l) \/ Crash(l) \/ Restart(l)
    \/ \E key \in active : FinishTask(key)

Spec == Init /\ [][Next]_vars

\* The runtime keeps a loop running, a supervisor restarts a process that ended.
FairSpec ==
    /\ Spec
    /\ \A l \in Loop : WF_vars(Advance(l)) /\ WF_vars(Restart(l))

----------------------------------------------------------------------------
(* What the scheduler promises *)

\* A schedule gets two tasks for one due time (tick's missing lock between the
\* SELECT and the UPDATE) only if a loop selected it while another loop had it
\* in hand; or if it was the row between INSERT and UPDATE at a crash or a failed
\* statement, which is one schedule for each of those.
RepeatsNeedContention == Cardinality(repeated \ contended) <= faults

\* No due time is dropped: next_fire moves on only after a task of the schedule
\* was in the outbox for a minute that is not before the due time.
PassedWithTask ==
    \A s \in Schedule, d \in 0..LastTick :
        <<s, d>> \in passed =>
            \E key \in inserted : key[1] = s /\ key[2] >= Minute[d]

\* disable and remove stop a schedule but for the rows already in hand: each
\* loop inserts at most one more task for it.
DisabledRunsOut == tooLate = {}

\* A due time does not stand for ever: while s stays enabled and the library up,
\* some tick moves it on, whatever crashes or fails in between.
DueFires ==
    \A s \in Schedule, d \in 0..LastTick :
        (state[s] = "enabled" /\ nextFire[s] = d /\ d <= now)
            ~> (state[s] # "enabled" \/ nextFire[s] # d \/ cancelled)

\* README: deduplication prevents double-firing across multiple instances.
NoDoubleFire == repeated = {}

=============================================================================
