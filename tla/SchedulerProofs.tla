-------------------------- MODULE SchedulerProofs --------------------------
(***************************************************************************)
(* Proofs about Scheduler, for every value of its constants.  An invariant *)
(* is split into parts that are inductive one after the other: the types,  *)
(* then what a loop has in hand, then what each promise needs beyond that. *)
(***************************************************************************)
EXTENDS Scheduler, FiniteSetTheorems, TLAPS

\* An interval is positive, so a time computed at tick t lies after t.
LEMMA NextIsLater ==
    ASSUME NEW c, NEW t \in Nat
    PROVE  /\ \A next \in NextFireFromCron(c, t) : next \in Nat /\ next > t
           /\ \A next \in NextFireOrHour(c, t) : next \in Nat /\ next > t
<1>1. \A i \in ParseSimpleInterval(c) : i \in Nat \ {0}
  BY ScheduleAssumption DEF ParseSimpleInterval, Ok
<1>2. \A next \in NextFireFromCron(c, t) : next \in Nat /\ next > t
  BY <1>1 DEF NextFireFromCron
<1> QED
  BY <1>2, ScheduleAssumption DEF NextFireOrHour

----------------------------------------------------------------------------
(* Types *)

LEMMA TypeInit == Init => TypeOK
<1> SUFFICES ASSUME Init PROVE TypeOK
  OBVIOUS
<1> USE DEF Init
<1>1. now \in 0..LastTick /\ since \in [Loop -> 0..LastTick] /\ \A l \in Loop : since[l] <= now
  BY ClockAssumption
<1>2. /\ state \in [Schedule -> {"absent", "enabled", "disabled"}]
      /\ cron \in [Schedule -> Text] /\ nextFire \in [Schedule -> Nat]
  BY DEF Text
<1>3. /\ pc \in [Loop -> Live \union {"stopped", "down"}]
      /\ todo \in [Loop -> SUBSET Row]
      /\ hand \in [Loop -> Row \union {None}]
      /\ \A l \in Loop : pc[l] = "moving" <=> hand[l] # None
      /\ \A l \in Loop : todo[l] # {} => pc[l] \in {"inserting", "moving"}
      /\ \A l \in Loop : pc[l] = "inserting" => todo[l] # {}
  BY DEF Live
<1>4. {commands, faults} \subseteq Nat
  OBVIOUS
<1>6. cancelled \in BOOLEAN
  OBVIOUS
<1>5. /\ active \subseteq inserted /\ inserted \subseteq Key
      /\ {served, passed} \subseteq SUBSET (Schedule \X (0..LastTick))
      /\ {repeated, contended} \subseteq SUBSET Schedule
      /\ {late, tooLate} \subseteq SUBSET (Schedule \X Loop)
  OBVIOUS
<1> HIDE DEF Init
<1> QED
  BY <1>1, <1>2, <1>3, <1>4, <1>5, <1>6 DEF TypeOK

LEMMA TypeCommand ==
    ASSUME TypeOK, Applications
    PROVE  TypeOK'
<1> USE DEF TypeOK
<1>0. now \in Nat
  BY ClockAssumption
<1>1. ASSUME NEW s \in Schedule, Disable(s) \/ Enable(s) PROVE TypeOK'
  BY <1>1 DEF Disable, Enable, Command, loopVars, Forget
<1>2. ASSUME NEW s \in Schedule, Remove(s) PROVE TypeOK'
  BY <1>2 DEF Remove, Command, loopVars, Text
<1>3. ASSUME NEW s \in Schedule, NEW c \in Expression, Register(s, c) PROVE TypeOK'
  <2>1. PICK next \in NextFireFromCron(c, now) :
            nextFire' = [nextFire EXCEPT ![s] = IF state[s] = "absent" THEN next ELSE @]
    BY <1>3 DEF Register
  <2>2. next \in Nat
    BY <1>0, NextIsLater
  <2> QED
    BY <1>3, <2>1, <2>2 DEF Register, Command, loopVars, Forget, Text
<1>4. ASSUME NEW c \in Expression, RegisterRefused(c) PROVE TypeOK'
  BY <1>4 DEF RegisterRefused, Command, loopVars, rowVars
<1> QED
  BY <1>1, <1>2, <1>3, <1>4 DEF Applications

LEMMA TypeSelect ==
    ASSUME TypeOK, NEW l \in Loop, Select(l)
    PROVE  TypeOK'
<1> USE DEF TypeOK
<1>1. PICK S \in SUBSET Due :
          /\ todo' = [todo EXCEPT ![l] = {RowOf(s) : s \in S}]
          /\ contended' = contended \union (S \intersect MaybeLocked(l))
          /\ Goto(l, IF S = {} THEN "waiting" ELSE "inserting")
  BY DEF Select
<1>2. \A s \in S : s \in Schedule /\ RowOf(s) \in Row
  BY ClockAssumption DEF Due, RowOf, Row
<1>3. {RowOf(s) : s \in S} \in SUBSET Row /\ (S = {} <=> {RowOf(s) : s \in S} = {})
  BY <1>2
<1>4. hand[l] = None
  BY DEF Select
<1>5. contended' \subseteq Schedule
  BY <1>1, <1>2
<1>6. since' \in [Loop -> 0..LastTick] /\ \A k \in Loop : since'[k] <= now
  BY ClockAssumption DEF Select, Commit
<1>7. /\ pc' \in [Loop -> Live \union {"stopped", "down"}]
      /\ todo' \in [Loop -> SUBSET Row]
      /\ \A k \in Loop : pc'[k] = "moving" <=> hand[k] # None
      /\ \A k \in Loop : todo'[k] # {} => pc'[k] \in {"inserting", "moving"}
      /\ \A k \in Loop : pc'[k] = "inserting" => todo'[k] # {}
  <2> DEFINE R == {RowOf(s) : s \in S}
  <2>1. R \in SUBSET Row /\ (S = {} <=> R = {}) /\ todo' = [todo EXCEPT ![l] = R]
    BY <1>1, <1>3
  <2> HIDE DEF R
  <2> QED
    BY <1>1, <1>4, <2>1 DEF Goto, Live
<1> QED
  BY <1>4, <1>5, <1>6, <1>7 DEF Select, rowVars, taskVars

LEMMA TypeInsert ==
    ASSUME TypeOK, NEW l \in Loop, Insert(l)
    PROVE  TypeOK'
<1> USE DEF TypeOK
<1>1. PICK r \in todo[l], t \in since[l]..now :
          /\ InsertTask(l, r, <<r.id, Minute[t]>>)
          /\ \/ /\ Answered
                /\ Goto(l, "moving")
                /\ todo' = [todo EXCEPT ![l] = @ \ {r}]
                /\ hand' = [hand EXCEPT ![l] = r]
             \/ Fault /\ EndTick(l, "waiting")
  BY DEF Insert
<1>2. r \in Row /\ r.id \in Schedule /\ r.due \in 0..LastTick /\ r # None
  BY NoneAssumption DEF Row
<1>3. <<r.id, Minute[t]>> \in Key
  BY <1>2, ClockAssumption DEF Key
<1>4. /\ active' \subseteq inserted' /\ inserted' \subseteq Key
      /\ served' \subseteq Schedule \X (0..LastTick) /\ repeated' \subseteq Schedule
      /\ {late', tooLate'} \subseteq SUBSET (Schedule \X Loop)
  BY <1>1, <1>2, <1>3 DEF InsertTask, taskVars
<1>5. since' \in [Loop -> 0..LastTick] /\ \A k \in Loop : since'[k] <= now
  BY ClockAssumption DEF Insert, Commit
<1>6. /\ pc' \in [Loop -> Live \union {"stopped", "down"}]
      /\ todo' \in [Loop -> SUBSET Row]
      /\ hand' \in [Loop -> Row \union {None}]
      /\ \A k \in Loop : pc'[k] = "moving" <=> hand'[k] # None
      /\ \A k \in Loop : todo'[k] # {} => pc'[k] \in {"inserting", "moving"}
      /\ \A k \in Loop : pc'[k] = "inserting" => todo'[k] # {}
      /\ faults' \in Nat
  BY <1>1, <1>2, BoundAssumption DEF Insert, Goto, EndTick, Fault, Answered, Live
<1> QED
  BY <1>4, <1>5, <1>6 DEF Insert, rowVars

LEMMA TypeMove ==
    ASSUME TypeOK, NEW l \in Loop, Move(l)
    PROVE  TypeOK'
<1> USE DEF TypeOK
<1>1. hand[l] \in Row /\ hand[l].id \in Schedule /\ hand[l].due \in 0..LastTick
  BY DEF Move, Row
<1>2. PICK t \in since[l]..now :
          \E next \in NextFireOrHour(hand[l].cron, t) : SetNextFire(hand[l], next)
  BY DEF Move
<1>3. PICK next \in NextFireOrHour(hand[l].cron, t) : SetNextFire(hand[l], next)
  BY <1>2
<1>3x. next \in Nat
  BY ClockAssumption, NextIsLater
<1>4. nextFire' \in [Schedule -> Nat]
  BY <1>3, <1>3x, <1>1 DEF SetNextFire
<1>5. since' \in [Loop -> 0..LastTick] /\ \A k \in Loop : since'[k] <= now
  BY ClockAssumption DEF Move, Commit
<1>6. /\ pc' \in [Loop -> Live \union {"stopped", "down"}]
      /\ todo' \in [Loop -> SUBSET Row]
      /\ hand' \in [Loop -> Row \union {None}]
      /\ \A k \in Loop : pc'[k] = "moving" <=> hand'[k] # None
      /\ \A k \in Loop : todo'[k] # {} => pc'[k] \in {"inserting", "moving"}
      /\ \A k \in Loop : pc'[k] = "inserting" => todo'[k] # {}
      /\ faults' \in Nat
  BY BoundAssumption DEF Move, Goto, NextRow, EndTick, Fault, Answered, Live
<1>7. passed' \in SUBSET (Schedule \X (0..LastTick))
  BY <1>1 DEF Move
<1> QED
  BY <1>3, <1>4, <1>5, <1>6, <1>7 DEF Move, taskVars, SetNextFire

LEMMA TypeRest ==
    ASSUME TypeOK,
           \/ Shutdown \/ Tick
           \/ \E l \in Loop : TickError(l) \/ Wake(l) \/ Stop(l) \/ Crash(l) \/ Restart(l)
           \/ \E key \in active : FinishTask(key)
           \/ UNCHANGED vars
    PROVE  TypeOK'
<1> USE DEF TypeOK
<1>1. CASE Shutdown \/ UNCHANGED vars
  BY <1>1 DEF Shutdown, vars, rowVars, taskVars, loopVars
<1>2. CASE Tick
  <2>1. now' \in 0..LastTick /\ \A l \in Loop : since[l] <= now'
    BY <1>2, ClockAssumption DEF Tick
  <2> QED
    BY <1>2, <2>1 DEF Tick, rowVars, taskVars, loopVars
<1>3. ASSUME NEW l \in Loop, TickError(l) PROVE TypeOK'
  <2>1. since' \in [Loop -> 0..LastTick] /\ \A k \in Loop : since'[k] <= now
    BY <1>3, ClockAssumption DEF TickError, Commit
  <2>2. /\ pc' \in [Loop -> Live \union {"stopped", "down"}]
        /\ todo' \in [Loop -> SUBSET Row]
        /\ hand' \in [Loop -> Row \union {None}]
        /\ \A k \in Loop : pc'[k] = "moving" <=> hand'[k] # None
        /\ \A k \in Loop : todo'[k] # {} => pc'[k] \in {"inserting", "moving"}
        /\ \A k \in Loop : pc'[k] = "inserting" => todo'[k] # {}
        /\ faults' \in Nat
    BY <1>3, BoundAssumption DEF TickError, EndTick, Goto, Fault, Live
  <2> QED
    BY <1>3, <2>1, <2>2 DEF TickError, rowVars, taskVars
<1>4. ASSUME NEW l \in Loop, Wake(l) \/ Stop(l) \/ Restart(l) PROVE TypeOK'
  BY <1>4 DEF Wake, Stop, Restart, Goto, rowVars, taskVars, Live
<1>5. ASSUME NEW l \in Loop, Crash(l) PROVE TypeOK'
  BY <1>5, BoundAssumption DEF Crash, EndTick, Goto, Fault, rowVars, taskVars, Live
<1>6. ASSUME NEW key \in active, FinishTask(key) PROVE TypeOK'
  BY <1>6 DEF FinishTask, rowVars, loopVars
<1> QED
  BY <1>1, <1>2, <1>3, <1>4, <1>5, <1>6

LEMMA TypeNext == TypeOK /\ [Next]_vars => TypeOK'
BY TypeCommand, TypeSelect, TypeInsert, TypeMove, TypeRest DEF Next, Advance

\* Every variable keeps its type; a loop has a row in hand exactly between the
\* INSERT and the UPDATE of a tick, and rows left only inside a tick.
THEOREM TypeCorrect == Spec => []TypeOK
BY TypeInit, TypeNext, PTL DEF Spec

----------------------------------------------------------------------------
(* What a loop has in hand *)

\* A loop has a schedule at most once, and selected it after its due time.
HandInv ==
    /\ \A l \in Loop : \A r, q \in todo[l] : r.id = q.id => r = q
    /\ \A l \in Loop : hand[l] # None => \A r \in todo[l] : r.id # hand[l].id
    /\ \A l \in Loop : \A r \in todo[l] : r.due <= since[l]

\* The steps that change no row in hand and nothing the promises speak of.
Idle ==
    /\ UNCHANGED <<todo, hand, since, state, nextFire, inserted, served, repeated,
                   late, tooLate, contended, passed, faults>>
    /\ now <= now'

\* The steps of loop l that give up its tick.
GivesUp(l) ==
    /\ todo' = [todo EXCEPT ![l] = {}]
    /\ hand' = [hand EXCEPT ![l] = None]
    /\ UNCHANGED <<now, state, nextFire, inserted, served, repeated, late, tooLate,
                   contended, passed>>
    /\ since' \in {since, [since EXCEPT ![l] = now]}
    /\ faults' = faults + 1

LEMMA StepCases ==
    ASSUME TypeOK, [Next]_vars
    PROVE  \/ Idle \/ Applications
           \/ \E l \in Loop : GivesUp(l) \/ Select(l) \/ Insert(l) \/ Move(l)
<1> USE DEF Idle
<1>0. now \in Nat /\ faults \in Nat
  BY ClockAssumption DEF TypeOK
<1>1. CASE Shutdown \/ Tick \/ UNCHANGED vars
  BY <1>0, <1>1 DEF Shutdown, Tick, vars, rowVars, taskVars, loopVars
<1>2. ASSUME NEW l \in Loop, Wake(l) \/ Stop(l) \/ Restart(l) PROVE Idle
  BY <1>0, <1>2 DEF Wake, Stop, Restart, rowVars, taskVars
<1>3. ASSUME NEW l \in Loop, TickError(l) \/ Crash(l) PROVE GivesUp(l)
  BY <1>0, <1>3 DEF TickError, Crash, GivesUp, EndTick, Fault, Commit, rowVars, taskVars
<1>4. ASSUME NEW key \in active, FinishTask(key) PROVE Idle
  BY <1>0, <1>4 DEF FinishTask, rowVars, loopVars
<1> QED
  BY <1>1, <1>2, <1>3, <1>4 DEF Next, Advance

LEMMA CommandKeeps ==
    ASSUME Applications
    PROVE  UNCHANGED <<now, todo, hand, since, inserted, served, repeated, tooLate,
                       contended, passed, faults>>
BY DEF Applications, Disable, Enable, Remove, Register, RegisterRefused, Command, loopVars

\* The rows a SELECT puts in hand.
LEMMA SelectTakes ==
    ASSUME TypeOK, NEW l \in Loop, Select(l)
    PROVE  /\ hand[l] = None
           /\ \A r \in todo'[l] :
                  /\ r.id \in Due /\ r = RowOf(r.id)
                  /\ r.id \in MaybeLocked(l) => r.id \in contended'
           /\ \A k \in Loop \ {l} : todo'[k] = todo[k] /\ since'[k] = since[k]
           /\ contended \subseteq contended' /\ since'[l] = now
           /\ UNCHANGED <<now, state, nextFire, hand, inserted, served, repeated, late,
                          tooLate, passed, faults>>
<1>1. PICK S \in SUBSET Due :
          /\ todo' = [todo EXCEPT ![l] = {RowOf(s) : s \in S}]
          /\ contended' = contended \union (S \intersect MaybeLocked(l))
  BY DEF Select
<1>2. \A r \in todo'[l] : r.id \in S /\ r = RowOf(r.id)
  BY <1>1 DEF TypeOK, RowOf
<1>3. hand[l] = None /\ since'[l] = now /\ \A k \in Loop \ {l} : since'[k] = since[k]
  BY DEF Select, TypeOK, Commit
<1>4. \A k \in Loop \ {l} : todo'[k] = todo[k]
  BY <1>1 DEF TypeOK
<1> QED
  BY <1>1, <1>2, <1>3, <1>4 DEF Select, rowVars, taskVars

\* The row an INSERT is for, and where it goes.
LEMMA InsertTakes ==
    ASSUME TypeOK, NEW l \in Loop, Insert(l)
    PROVE  \E r \in todo[l], t \in since[l]..now :
             /\ InsertTask(l, r, <<r.id, Minute[t]>>)
             /\ hand[l] = None
             /\ \/ todo'[l] = todo[l] \ {r} /\ hand'[l] = r /\ faults' = faults
                \/ todo'[l] = {} /\ hand'[l] = None /\ faults' = faults + 1
             /\ \A k \in Loop \ {l} : /\ todo'[k] = todo[k] /\ hand'[k] = hand[k]
                                      /\ since'[k] = since[k]
             /\ since'[l] = now
             /\ UNCHANGED <<now, state, nextFire, contended, passed>>
<1>1. PICK r \in todo[l], t \in since[l]..now :
          /\ InsertTask(l, r, <<r.id, Minute[t]>>)
          /\ \/ /\ Answered
                /\ todo' = [todo EXCEPT ![l] = @ \ {r}]
                /\ hand' = [hand EXCEPT ![l] = r]
             \/ Fault /\ EndTick(l, "waiting")
  BY DEF Insert
<1>2. hand[l] = None /\ since'[l] = now /\ \A k \in Loop \ {l} : since'[k] = since[k]
  BY DEF Insert, TypeOK, Commit
<1>3. /\ \/ todo'[l] = todo[l] \ {r} /\ hand'[l] = r /\ faults' = faults
         \/ todo'[l] = {} /\ hand'[l] = None /\ faults' = faults + 1
      /\ \A k \in Loop \ {l} : todo'[k] = todo[k] /\ hand'[k] = hand[k]
  BY <1>1 DEF TypeOK, Answered, Fault, EndTick
<1> QED
  BY <1>1, <1>2, <1>3 DEF Insert, rowVars

\* The time an UPDATE writes, and what it leaves in hand.
LEMMA MoveTakes ==
    ASSUME TypeOK, NEW l \in Loop, Move(l)
    PROVE  /\ hand[l] \in Row
           /\ \E t \in since[l]..now : \E next \in NextFireOrHour(hand[l].cron, t) :
                  SetNextFire(hand[l], next)
           /\ todo'[l] \subseteq todo[l] /\ hand'[l] = None
           /\ \A k \in Loop \ {l} : /\ todo'[k] = todo[k] /\ hand'[k] = hand[k]
                                    /\ since'[k] = since[k]
           /\ since'[l] = now
           /\ passed' = passed \union {<<hand[l].id, hand[l].due>>}
           /\ faults' \in {faults, faults + 1}
           /\ UNCHANGED <<now, inserted, served, repeated, late, tooLate, contended>>
<1>1. hand[l] \in Row
  BY DEF Move, TypeOK
<1>2. since'[l] = now /\ \A k \in Loop \ {l} : since'[k] = since[k]
  BY DEF Move, TypeOK, Commit
<1>3. /\ todo'[l] \subseteq todo[l] /\ hand'[l] = None
      /\ \A k \in Loop \ {l} : todo'[k] = todo[k] /\ hand'[k] = hand[k]
      /\ faults' \in {faults, faults + 1}
  BY DEF Move, TypeOK, Answered, Fault, EndTick
<1> QED
  BY <1>1, <1>2, <1>3 DEF Move, taskVars

LEMMA HandInit == Init => HandInv
BY DEF Init, HandInv

LEMMA HandNext == TypeOK /\ HandInv /\ [Next]_vars => HandInv'
<1> SUFFICES ASSUME TypeOK, HandInv, [Next]_vars PROVE HandInv'
  OBVIOUS
<1> USE DEF HandInv
<1>0. /\ now \in Nat /\ \A l \in Loop : since[l] \in Nat /\ since[l] <= now
      /\ \A l \in Loop : \A r \in todo[l] : r.due \in Nat
  BY ClockAssumption DEF TypeOK, Row
<1>1. CASE Idle
  BY <1>1 DEF Idle
<1>2. CASE Applications
  BY <1>2, CommandKeeps
<1>3. ASSUME NEW l \in Loop, GivesUp(l) PROVE HandInv'
  BY <1>0, <1>3 DEF GivesUp, TypeOK
<1>4. ASSUME NEW l \in Loop, Select(l) PROVE HandInv'
  <2>1. \A r \in todo'[l] : r.due <= now
    BY <1>4, SelectTakes DEF Due, RowOf
  <2> QED
    BY <1>4, <2>1, SelectTakes
<1>5. ASSUME NEW l \in Loop, Insert(l) PROVE HandInv'
  <2>1. PICK r \in todo[l] :
            /\ \/ todo'[l] = todo[l] \ {r} /\ hand'[l] = r
               \/ todo'[l] = {} /\ hand'[l] = None
            /\ \A k \in Loop \ {l} : /\ todo'[k] = todo[k] /\ hand'[k] = hand[k]
                                     /\ since'[k] = since[k]
            /\ since'[l] = now
    BY <1>5, InsertTakes
  <2>2. \A k \in Loop : todo'[k] \subseteq todo[k] /\ since[k] <= since'[k]
    BY <1>0, <2>1
  <2>3. \A q \in todo'[l] : hand'[l] # None => q.id # hand'[l].id
    BY <2>1
  <2> QED
    BY <1>0, <2>1, <2>2, <2>3
<1>6. ASSUME NEW l \in Loop, Move(l) PROVE HandInv'
  BY <1>0, <1>6, MoveTakes
<1> QED
  BY <1>1, <1>2, <1>3, <1>4, <1>5, <1>6, StepCases

LEMMA Safe == Spec => [](TypeOK /\ HandInv)
<1>1. Init => TypeOK /\ HandInv
  BY TypeInit, HandInit
<1>2. TypeOK /\ HandInv /\ [Next]_vars => (TypeOK /\ HandInv)'
  BY TypeNext, HandNext
<1> QED
  BY <1>1, <1>2, PTL DEF Spec

----------------------------------------------------------------------------
(* No due time is dropped *)

Covered(s, d) == \E key \in inserted : key[1] = s /\ key[2] >= Minute[d]

\* Before the UPDATE moves a row on, a task covers its due time.
PassedInv ==
    /\ PassedWithTask
    /\ \A l \in Loop : hand[l] # None => Covered(hand[l].id, hand[l].due)

LEMMA PassedInit == Init => PassedInv
BY DEF Init, PassedInv, PassedWithTask

LEMMA PassedNext == TypeOK /\ HandInv /\ PassedInv /\ [Next]_vars => PassedInv'
<1> SUFFICES ASSUME TypeOK, HandInv, PassedInv, [Next]_vars PROVE PassedInv'
  OBVIOUS
<1> USE DEF PassedInv, PassedWithTask, Covered
<1>1. CASE Idle
  BY <1>1 DEF Idle
<1>2. CASE Applications
  BY <1>2, CommandKeeps
<1>3. ASSUME NEW l \in Loop, GivesUp(l) PROVE PassedInv'
  BY <1>3 DEF GivesUp, TypeOK
<1>4. ASSUME NEW l \in Loop, Select(l) PROVE PassedInv'
  BY <1>4, SelectTakes
<1>5. ASSUME NEW l \in Loop, Insert(l) PROVE PassedInv'
  <2>1. PICK r \in todo[l], t \in since[l]..now :
            /\ InsertTask(l, r, <<r.id, Minute[t]>>)
            /\ hand'[l] \in {r, None}
            /\ \A k \in Loop \ {l} : hand'[k] = hand[k]
            /\ UNCHANGED passed
    BY <1>5, InsertTakes
  <2>2. <<r.id, Minute[t]>> \in inserted' /\ inserted \subseteq inserted'
    BY <2>1 DEF InsertTask, taskVars, TypeOK
  <2>3. r.due \in 0..LastTick /\ t \in 0..LastTick /\ r.due <= t
    BY ClockAssumption DEF HandInv, TypeOK, Row
  <2>4. Minute[t] >= Minute[r.due]
    BY <2>3, ClockAssumption
  <2>5. \E key \in inserted' : key[1] = r.id /\ key[2] >= Minute[r.due]
    BY <2>2, <2>4
  <2>6. ASSUME NEW k \in Loop, hand'[k] # None
        PROVE  \E key \in inserted' :
                    key[1] = hand'[k].id /\ key[2] >= Minute[hand'[k].due]
    <3>1. CASE k = l
      BY <2>1, <2>5, <2>6, <3>1
    <3>2. CASE k # l
      BY <2>1, <2>2, <2>6, <3>2
    <3> QED
      BY <3>1, <3>2
  <2> QED
    BY <2>1, <2>2, <2>6
<1>6. ASSUME NEW l \in Loop, Move(l) PROVE PassedInv'
  <2>1. hand[l] # None /\ Covered(hand[l].id, hand[l].due)
    BY <1>6, NoneAssumption, MoveTakes
  <2> QED
    BY <1>6, <2>1, MoveTakes
<1> QED
  BY <1>1, <1>2, <1>3, <1>4, <1>5, <1>6, StepCases

\* No due time is dropped: a tick moves next_fire on only after a task of the
\* schedule was in the outbox for a minute not before the due time.
THEOREM PassedCorrect == Spec => []PassedWithTask
<1>1. PassedInv => PassedWithTask
  BY DEF PassedInv
<1> QED
  BY <1>1, PassedInit, PassedNext, Safe, PTL DEF Spec

----------------------------------------------------------------------------
(* No task is early *)

\* A task is for a due time that has come, in a minute between the due time and
\* the present.
NeverEarly ==
    \A key \in inserted : \E d \in 0..now :
        <<key[1], d>> \in served /\ Minute[d] <= key[2] /\ key[2] <= Minute[now]

LEMMA EarlyNext ==
    TypeOK /\ HandInv /\ NeverEarly /\ [Next]_vars => NeverEarly'
<1> SUFFICES ASSUME TypeOK, HandInv, NeverEarly, [Next]_vars, NEW key \in inserted'
             PROVE  \E d \in 0..now' : /\ <<key[1], d>> \in served'
                                       /\ Minute[d] <= key[2] /\ key[2] <= Minute[now']
  BY DEF NeverEarly
<1>0. /\ now \in 0..LastTick /\ now' \in 0..LastTick
      /\ \A t \in 0..LastTick : Minute[t] \in Nat
      /\ LastTick \in Nat
  <2>1. TypeOK'
    BY TypeNext
  <2> QED
    BY <2>1, ClockAssumption DEF TypeOK
<1>1. ASSUME key \in inserted, served \subseteq served', now <= now'
      PROVE  \E d \in 0..now' : /\ <<key[1], d>> \in served'
                                /\ Minute[d] <= key[2] /\ key[2] <= Minute[now']
  <2>1. PICK d \in 0..now : <<key[1], d>> \in served /\ Minute[d] <= key[2] /\ key[2] <= Minute[now]
    BY <1>1 DEF NeverEarly
  <2>2. d \in 0..now' /\ Minute[now] <= Minute[now']
    BY <1>0, <1>1, ClockAssumption
  <2>3. key[2] \in Nat
    BY <1>1 DEF TypeOK, Key
  <2>4. Minute[now] \in Nat /\ Minute[now'] \in Nat
    BY <1>0
  <2>5. key[2] <= Minute[now']
    BY <2>1, <2>2, <2>3, <2>4
  <2> QED
    BY <1>1, <2>1, <2>2, <2>5
<1>n. now \in Nat
  BY <1>0
<1>2. CASE Idle
  BY <1>1, <1>2 DEF Idle
<1>3. CASE Applications
  BY <1>1, <1>3, <1>n, CommandKeeps
<1>4. ASSUME NEW l \in Loop, GivesUp(l) \/ Select(l) \/ Move(l)
      PROVE  UNCHANGED <<inserted, served, now>>
  BY <1>4, SelectTakes, MoveTakes DEF GivesUp
<1>5. ASSUME NEW l \in Loop, Insert(l)
      PROVE  \E d \in 0..now' : /\ <<key[1], d>> \in served'
                                /\ Minute[d] <= key[2] /\ key[2] <= Minute[now']
  <2>1. PICK r \in todo[l], t \in since[l]..now :
            InsertTask(l, r, <<r.id, Minute[t]>>) /\ now' = now
    BY <1>5, InsertTakes
  <2>2. served \subseteq served' /\ inserted' \subseteq inserted \union {<<r.id, Minute[t]>>}
    BY <2>1 DEF InsertTask, taskVars
  <2>3. CASE key \in inserted
    BY <1>1, <1>n, <2>1, <2>2, <2>3
  <2>4. CASE key \notin inserted
    <3>1. key = <<r.id, Minute[t]>> /\ <<r.id, r.due>> \in served'
      BY <2>1, <2>2, <2>4 DEF InsertTask, taskVars
    <3>2. r.due \in 0..LastTick /\ t \in 0..LastTick /\ r.due <= t /\ t <= now
      BY <1>0, ClockAssumption DEF HandInv, TypeOK, Row
    <3>3. Minute[r.due] <= Minute[t] /\ Minute[t] <= Minute[now] /\ r.due \in 0..now
      BY <1>0, <3>2, ClockAssumption
    <3> QED
      BY <2>1, <3>1, <3>3
  <2> QED
    BY <2>3, <2>4
<1> QED
  BY <1>1, <1>2, <1>3, <1>4, <1>5, <1>n, StepCases

\* No task is inserted before its time, whatever loops wait between the SELECT
\* and the INSERT and in whatever order (Scheduler::tick).
THEOREM NeverEarlyCorrect == Spec => []NeverEarly
<1>1. Init => NeverEarly
  BY DEF Init, NeverEarly
<1>2. TypeOK /\ HandInv /\ NeverEarly /\ [Next]_vars => NeverEarly'
  BY EarlyNext
<1> QED
  BY <1>1, <1>2, Safe, PTL DEF Spec

----------------------------------------------------------------------------
(* Disabled and removed schedules run out *)

\* A loop that fired a schedule late does not have it in hand again.
DisabledInv ==
    /\ DisabledRunsOut
    /\ \A s \in Schedule, l \in Loop : <<s, l>> \in late =>
            state[s] # "enabled" /\ \A r \in todo[l] : r.id # s

LEMMA DisabledInit == Init => DisabledInv
BY DEF Init, DisabledInv, DisabledRunsOut

LEMMA DisabledNext == TypeOK /\ HandInv /\ DisabledInv /\ [Next]_vars => DisabledInv'
<1> SUFFICES ASSUME TypeOK, HandInv, DisabledInv, [Next]_vars PROVE DisabledInv'
  OBVIOUS
<1> USE DEF DisabledInv, DisabledRunsOut
<1>1. CASE Idle
  BY <1>1 DEF Idle
<1>2. CASE Applications
  <2>0. UNCHANGED <<todo, tooLate>>
    BY <1>2, CommandKeeps
  <2>1. ASSUME NEW s \in Schedule, Disable(s) \/ Remove(s) PROVE DisabledInv'
    BY <2>0, <2>1 DEF Disable, Remove, TypeOK
  <2>2. ASSUME NEW s \in Schedule, \/ Enable(s)
                                  \/ \E c \in Expression : Register(s, c)
        PROVE  DisabledInv'
    <3>1. /\ state' = [state EXCEPT ![s] = "enabled"]
          /\ late' = late \ ({s} \X Loop)
      BY <2>2 DEF Enable, Register, Forget
    <3> QED
      BY <2>0, <3>1 DEF TypeOK
  <2>3. ASSUME NEW c \in Expression, RegisterRefused(c) PROVE DisabledInv'
    BY <2>0, <2>3 DEF RegisterRefused, rowVars
  <2> QED
    BY <1>2, <2>1, <2>2, <2>3 DEF Applications
<1>3. ASSUME NEW l \in Loop, GivesUp(l) PROVE DisabledInv'
  BY <1>3 DEF GivesUp, TypeOK
<1>4. ASSUME NEW l \in Loop, Select(l) PROVE DisabledInv'
  BY <1>4, SelectTakes DEF Due
<1>5. ASSUME NEW l \in Loop, Insert(l) PROVE DisabledInv'
  <2>1. PICK r \in todo[l], t \in since[l]..now :
            /\ InsertTask(l, r, <<r.id, Minute[t]>>)
            /\ todo'[l] = todo[l] \ {r} \/ todo'[l] = {}
            /\ \A k \in Loop \ {l} : todo'[k] = todo[k]
            /\ UNCHANGED state
    BY <1>5, InsertTakes
  <2>2. \A q \in todo'[l] : q.id # r.id
    BY <2>1 DEF HandInv
  <2>3. <<r.id, l>> \notin late
    BY DEF TypeOK, Row
  <2>4. late' \subseteq late \union {<<r.id, l>>} /\ tooLate' = tooLate
    BY <2>1, <2>3 DEF InsertTask, taskVars
  <2>5. <<r.id, l>> \in late' => state[r.id] # "enabled"
    BY <2>1, <2>3 DEF InsertTask, taskVars
  <2> QED
    BY <2>1, <2>2, <2>4, <2>5
<1>6. ASSUME NEW l \in Loop, Move(l) PROVE DisabledInv'
  <2>1. UNCHANGED state
    BY <1>6, MoveTakes DEF SetNextFire
  <2> QED
    BY <1>6, <2>1, MoveTakes
<1> QED
  BY <1>1, <1>2, <1>3, <1>4, <1>5, <1>6, StepCases

\* disable and remove stop a schedule but for the rows already in hand: each
\* loop inserts at most one more task for it until it is enabled again.
THEOREM DisabledCorrect == Spec => []DisabledRunsOut
<1>1. DisabledInv => DisabledRunsOut
  BY DEF DisabledInv
<1> QED
  BY <1>1, DisabledInit, DisabledNext, Safe, PTL DEF Spec

----------------------------------------------------------------------------
(* Repeated tasks for one due time *)

Holds(l, s) == hand[l] # None /\ hand[l].id = s

Served(s) == {d \in 0..LastTick : <<s, d>> \in served}

OneHand(s) == \A l, k \in Loop : Has(l, s) /\ Has(k, s) => l = k

\* A row that waits for its INSERT is due for a time that was not served.
Fresh(s) == \A l \in Loop : \A r \in todo[l] : r.id = s => r.due \notin Served(s)

\* The UPDATE of a row writes a time after every one that was served.
Known(s) == \A l \in Loop : Holds(l, s) => \A d \in Served(s) : d <= since[l]

\* A served time is behind next_fire, or the loop that served it has yet to
\* move it.
Moved(s) == state[s] # "absent" =>
                (\A d \in Served(s) : d < nextFire[s]) \/ \E l \in Loop : Holds(l, s)

Orderly(s) == s \notin repeated /\ Fresh(s) /\ Known(s) /\ Moved(s)

\* The schedules that have two tasks for a due time, or may get them, though no
\* two loops ever had them in hand.
Disorderly == {s \in Schedule \ contended : ~Orderly(s)}

InTime == \A s \in Schedule : \A d \in Served(s) : d <= now
OwnHand == \A s \in Schedule \ contended : OneHand(s)

\* Each fault disturbs one schedule at most.
RepeatInv ==
    /\ InTime /\ OwnHand
    /\ IsFiniteSet(Disorderly) /\ Cardinality(Disorderly) <= faults

LEMMA RepeatInit == Init => RepeatInv
<1> SUFFICES ASSUME Init PROVE RepeatInv
  OBVIOUS
<1>1. InTime /\ OwnHand
  BY DEF Init, InTime, OwnHand, OneHand, Has, Served
<1>2. Disorderly = {}
  BY DEF Init, Disorderly, Orderly, Fresh, Known, Moved, Served, Holds
<1> QED
  BY <1>1, <1>2, FS_EmptySet DEF RepeatInv, Init

\* The steps after which no schedule is disorderly that was not.
KeepsOrder ==
    /\ contended \subseteq contended'
    /\ faults' \in {faults, faults + 1}
    /\ \A s \in Schedule \ contended' : Orderly(s) => Orderly(s)'

\* The steps that may disturb one schedule.
Disturbs(s) ==
    /\ contended \subseteq contended'
    /\ faults' = faults + 1
    /\ \A u \in Schedule \ contended' : u # s /\ Orderly(u) => Orderly(u)'

LEMMA RepeatCommand ==
    ASSUME TypeOK, InTime, OwnHand, Applications
    PROVE  InTime' /\ OwnHand' /\ KeepsOrder
<1> USE CommandKeeps
<1>0. now \in Nat /\ \A s \in Schedule : \A d \in Served(s) : d \in Nat /\ d <= now
  BY ClockAssumption DEF TypeOK, InTime, Served
<1>1. /\ \A s \in Schedule : Served(s)' = Served(s)
      /\ \A s \in Schedule, l \in Loop : Holds(l, s)' = Holds(l, s) /\ Has(l, s)' = Has(l, s)
  BY DEF Served, Holds, Has
<1>2. InTime' /\ OwnHand'
  BY <1>1 DEF InTime, OwnHand, OneHand
<1>3. ASSUME NEW s \in Schedule, state'[s] # "absent"
      PROVE  \/ state[s] # "absent" /\ nextFire'[s] = nextFire[s]
             \/ nextFire'[s] \in Nat /\ nextFire'[s] > now
  <2>1. ASSUME NEW u \in Schedule, Disable(u) \/ Enable(u)
        PROVE  state[s] # "absent" /\ nextFire'[s] = nextFire[s]
    BY <1>3, <2>1 DEF Disable, Enable, TypeOK
  <2>2. ASSUME NEW u \in Schedule, Remove(u)
        PROVE  state[s] # "absent" /\ nextFire'[s] = nextFire[s]
    BY <1>3, <2>2 DEF Remove, TypeOK
  <2>3. ASSUME NEW u \in Schedule, NEW c \in Expression, Register(u, c)
        PROVE  \/ state[s] # "absent" /\ nextFire'[s] = nextFire[s]
               \/ nextFire'[s] \in Nat /\ nextFire'[s] > now
    <3>1. PICK next \in NextFireFromCron(c, now) :
             nextFire' = [nextFire EXCEPT ![u] = IF state[u] = "absent" THEN next ELSE @]
      BY <2>3 DEF Register
    <3>2. next \in Nat /\ next > now
      BY <1>0, NextIsLater
    <3>3. state' = [state EXCEPT ![u] = "enabled"]
      BY <2>3 DEF Register
    <3> QED
      BY <1>3, <3>1, <3>2, <3>3 DEF TypeOK
  <2>4. ASSUME NEW c \in Expression, RegisterRefused(c)
        PROVE  state[s] # "absent" /\ nextFire'[s] = nextFire[s]
    BY <1>3, <2>4 DEF RegisterRefused, rowVars
  <2> QED
    BY <2>1, <2>2, <2>3, <2>4 DEF Applications
<1>4. ASSUME NEW s \in Schedule, Orderly(s) PROVE Orderly(s)'
  <2>1. s \notin repeated' /\ Fresh(s)' /\ Known(s)'
    BY <1>1, <1>4 DEF Orderly, Fresh, Known
  <2>2. ASSUME state'[s] # "absent"
        PROVE  (\A d \in Served(s) : d < nextFire'[s]) \/ \E l \in Loop : Holds(l, s)
    <3>1. CASE state[s] # "absent" /\ nextFire'[s] = nextFire[s]
      BY <1>4, <3>1 DEF Orderly, Moved
    <3>2. CASE nextFire'[s] \in Nat /\ nextFire'[s] > now
      BY <1>0, <3>2
    <3> QED
      BY <1>3, <2>2, <3>1, <3>2
  <2> QED
    BY <1>1, <2>1, <2>2 DEF Orderly, Moved
<1> QED
  BY <1>2, <1>4 DEF KeepsOrder

LEMMA RepeatSelect ==
    ASSUME TypeOK, InTime, OwnHand, NEW l \in Loop, Select(l)
    PROVE  InTime' /\ OwnHand' /\ KeepsOrder
<1> USE SelectTakes
<1>0. \A s \in Schedule : Served(s)' = Served(s)
  BY DEF Served
<1>1. InTime'
  BY <1>0 DEF InTime
<1>2. ASSUME NEW r \in todo'[l], r.id \notin contended'
      PROVE  /\ r.id \in Schedule /\ state[r.id] # "absent" /\ r.due = nextFire[r.id]
             /\ \A k \in Loop : ~Has(k, r.id) \/ k = l
             /\ \A k \in Loop : ~Holds(k, r.id)
  BY <1>2 DEF Due, RowOf, MaybeLocked, Has, Holds
<1>3. ASSUME NEW s \in Schedule, NEW k \in Loop, Has(k, s)', k # l PROVE Has(k, s)
  BY <1>3 DEF Has
<1>4. ASSUME NEW s \in Schedule, Has(l, s)' PROVE \E r \in todo'[l] : r.id = s
  BY <1>4 DEF Has
<1>5. OwnHand'
  BY <1>2, <1>3, <1>4 DEF OwnHand, OneHand
<1>6. ASSUME NEW s \in Schedule \ contended', Orderly(s) PROVE Orderly(s)'
  <2>1. Fresh(s)'
    <3>1. ASSUME NEW r \in todo'[l], r.id = s PROVE r.due \notin Served(s)'
      <4>1. r.due = nextFire[s] /\ nextFire[s] \in Nat /\ state[s] # "absent"
        BY <1>2, <3>1 DEF TypeOK
      <4>2. \A d \in Served(s) : d < nextFire[s]
        BY <1>2, <1>6, <3>1, <4>1 DEF Orderly, Moved
      <4> QED
        BY <1>0, <4>1, <4>2
    <3>2. ASSUME NEW k \in Loop \ {l}, NEW r \in todo'[k], r.id = s
          PROVE  r.due \notin Served(s)'
      BY <1>0, <1>6, <3>2 DEF Orderly, Fresh
    <3> QED
      BY <3>1, <3>2 DEF Fresh
  <2>2. Known(s)'
    <3>1. \A k \in Loop : Holds(k, s)' => Holds(k, s) /\ since'[k] = since[k]
      BY DEF Holds
    <3> QED
      BY <1>0, <1>6, <3>1 DEF Orderly, Known
  <2>3. Moved(s)' /\ s \notin repeated'
    BY <1>0, <1>6 DEF Orderly, Moved, Holds
  <2> QED
    BY <2>1, <2>2, <2>3 DEF Orderly
<1> QED
  BY <1>1, <1>5, <1>6 DEF KeepsOrder

LEMMA RepeatInsert ==
    ASSUME TypeOK, HandInv, InTime, OwnHand, NEW l \in Loop, Insert(l)
    PROVE  InTime' /\ OwnHand' /\ (KeepsOrder \/ \E s \in Schedule : Disturbs(s))
<1>1. PICK r \in todo[l], t \in since[l]..now :
          /\ InsertTask(l, r, <<r.id, Minute[t]>>)
          /\ hand[l] = None
          /\ \/ todo'[l] = todo[l] \ {r} /\ hand'[l] = r /\ faults' = faults
             \/ todo'[l] = {} /\ hand'[l] = None /\ faults' = faults + 1
          /\ \A k \in Loop \ {l} : /\ todo'[k] = todo[k] /\ hand'[k] = hand[k]
                                   /\ since'[k] = since[k]
          /\ since'[l] = now
          /\ UNCHANGED <<now, state, nextFire, contended, passed>>
  BY InsertTakes
<1>2. /\ r \in Row /\ r.id \in Schedule /\ r.due \in 0..LastTick /\ r # None
      /\ r.due <= now /\ now \in Nat
  BY NoneAssumption, ClockAssumption DEF TypeOK, HandInv, Row
<1>3. /\ \A s \in Schedule \ {r.id} : Served(s)' = Served(s)
      /\ Served(r.id)' \subseteq Served(r.id) \union {r.due}
  BY <1>1 DEF InsertTask, Served, taskVars
<1>4. InTime'
  BY <1>1, <1>2, <1>3 DEF InTime
<1>5. \A s \in Schedule, k \in Loop : Has(k, s)' => Has(k, s)
  BY <1>1 DEF Has
<1>6. OwnHand'
  BY <1>1, <1>5 DEF OwnHand, OneHand
<1>7. ASSUME NEW s \in Schedule, s # r.id, Orderly(s) PROVE Orderly(s)'
  <2>1. Served(s)' = Served(s) /\ repeated' \subseteq repeated \union {r.id}
    BY <1>1, <1>3, <1>7 DEF InsertTask, taskVars
  <2>2. /\ \A k \in Loop : todo'[k] \subseteq todo[k]
        /\ \A k \in Loop : Holds(k, s)' <=> Holds(k, s)
        /\ \A k \in Loop : Holds(k, s) => since'[k] = since[k]
    BY <1>1, <1>7 DEF Holds
  <2> QED
    BY <1>1, <1>7, <2>1, <2>2 DEF Orderly, Fresh, Known, Moved
<1>8. CASE faults' = faults + 1
  BY <1>1, <1>2, <1>4, <1>6, <1>7, <1>8 DEF Disturbs
<1>9. CASE todo'[l] = todo[l] \ {r} /\ hand'[l] = r /\ faults' = faults
  <2> DEFINE s == r.id
  <2>1. ASSUME s \notin contended, Orderly(s) PROVE Orderly(s)'
    <3>1. Has(l, s) /\ Holds(l, s)'
      BY <1>2, <1>9 DEF Has, Holds
    <3>2. \A k \in Loop : Has(k, s) => k = l
      BY <1>2, <2>1, <3>1 DEF OwnHand, OneHand
    <3>3. \A k \in Loop : \A q \in todo'[k] : q.id # s
      <4>1. ASSUME NEW q \in todo'[l], q.id = s PROVE FALSE
        BY <1>9, <4>1 DEF HandInv
      <4>2. ASSUME NEW k \in Loop \ {l}, NEW q \in todo'[k], q.id = s PROVE FALSE
        BY <1>1, <3>2, <4>2 DEF Has
      <4> QED
        BY <4>1, <4>2
    <3>4. s \notin repeated'
      <4>1. r.due \notin Served(s) /\ s \notin repeated
        BY <2>1 DEF Orderly, Fresh
      <4>2. <<s, r.due>> \notin served
        BY <1>2, <4>1 DEF Served
      <4> QED
        BY <1>1, <4>1, <4>2 DEF InsertTask, taskVars
    <3>5. Known(s)'
      <4>1. \A k \in Loop : Holds(k, s)' => k = l
        BY <1>1, <3>2 DEF Holds, Has
      <4>2. \A d \in Served(s)' : d <= since'[l]
        BY <1>1, <1>2, <1>4 DEF InTime
      <4> QED
        BY <4>1, <4>2 DEF Known
    <3>6. Fresh(s)' /\ Moved(s)'
      BY <3>1, <3>3 DEF Fresh, Moved
    <3> QED
      BY <3>4, <3>5, <3>6 DEF Orderly
  <2> QED
    BY <1>1, <1>4, <1>6, <1>7, <1>9, <2>1 DEF KeepsOrder
<1> QED
  BY <1>1, <1>8, <1>9

LEMMA RepeatMove ==
    ASSUME TypeOK, HandInv, InTime, OwnHand, NEW l \in Loop, Move(l)
    PROVE  InTime' /\ OwnHand' /\ KeepsOrder
<1> DEFINE h == hand[l]
<1>1. h \in Row /\ h # None /\ h.id \in Schedule /\ Holds(l, h.id)
  BY NoneAssumption, MoveTakes DEF Row, Holds
<1>2. PICK t \in since[l]..now :
          \E next \in NextFireOrHour(h.cron, t) : SetNextFire(h, next)
  BY MoveTakes
<1>3. PICK next \in NextFireOrHour(h.cron, t) : SetNextFire(h, next)
  BY <1>2
<1>4. t \in Nat /\ since[l] <= t /\ since[l] \in Nat /\ next \in Nat /\ next > t
  <2>1. t \in Nat /\ since[l] <= t /\ since[l] \in Nat
    BY ClockAssumption DEF TypeOK
  <2> QED
    BY <2>1, NextIsLater
<1>5. /\ nextFire' = [nextFire EXCEPT ![h.id] = IF state[h.id] = "absent" THEN @ ELSE next]
      /\ UNCHANGED state
  BY <1>3 DEF SetNextFire
<1>6. \A s \in Schedule : Served(s)' = Served(s) /\ \A d \in Served(s) : d \in Nat
  BY MoveTakes DEF Served
<1>7. InTime'
  BY <1>6, MoveTakes DEF InTime
<1>8. \A s \in Schedule, k \in Loop : /\ Has(k, s)' => Has(k, s)
                                      /\ Holds(k, s)' => Holds(k, s) /\ k # l
  BY MoveTakes DEF Has, Holds
<1>9. OwnHand'
  BY <1>8, MoveTakes DEF OwnHand, OneHand
<1>10. ASSUME NEW s \in Schedule, Orderly(s) PROVE Orderly(s)'
  <2>1. Fresh(s)' /\ s \notin repeated'
    <3>1. \A k \in Loop : todo'[k] \subseteq todo[k]
      BY MoveTakes
    <3> QED
      BY <1>6, <1>10, <3>1, MoveTakes DEF Orderly, Fresh
  <2>2. Known(s)'
    <3>1. \A k \in Loop \ {l} : since'[k] = since[k]
      BY MoveTakes
    <3> QED
      BY <1>6, <1>8, <1>10, <3>1 DEF Orderly, Known
  <2>3. CASE s = h.id
    <3>1. \A d \in Served(s) : d <= since[l]
      BY <1>1, <1>10, <2>3 DEF Orderly, Known
    <3>2. state'[s] # "absent" => nextFire'[s] = next
      BY <1>5, <2>3 DEF TypeOK
    <3>3. \A d \in Served(s) : d < next
      <4> HIDE DEF h
      <4> QED
        BY <1>4, <1>6, <3>1
    <3> QED
      BY <1>6, <2>1, <2>2, <3>2, <3>3 DEF Orderly, Moved
  <2>4. CASE s # h.id
    <3>1. nextFire'[s] = nextFire[s] /\ state'[s] = state[s]
      BY <1>5, <2>4 DEF TypeOK
    <3>2. \A k \in Loop : Holds(k, s) => Holds(k, s)'
      BY <2>4, MoveTakes DEF Holds
    <3> QED
      BY <1>6, <1>10, <2>1, <2>2, <3>1, <3>2 DEF Orderly, Moved
  <2> QED
    BY <2>3, <2>4
<1> QED
  BY <1>7, <1>9, <1>10, MoveTakes DEF KeepsOrder

\* A tick that is given up disturbs the row it had between INSERT and UPDATE.
LEMMA RepeatGivesUp ==
    ASSUME TypeOK, InTime, OwnHand, NEW l \in Loop, GivesUp(l)
    PROVE  InTime' /\ OwnHand' /\ (KeepsOrder \/ \E s \in Schedule : Disturbs(s))
<1>1. /\ \A k \in Loop : todo'[k] = IF k = l THEN {} ELSE todo[k]
      /\ \A k \in Loop : hand'[k] = IF k = l THEN None ELSE hand[k]
      /\ \A k \in Loop \ {l} : since'[k] = since[k]
  BY DEF GivesUp, TypeOK
<1>2. \A s \in Schedule : Served(s)' = Served(s)
  BY DEF GivesUp, Served
<1>3. InTime' /\ OwnHand'
  BY <1>1, <1>2 DEF GivesUp, InTime, OwnHand, OneHand, Has
<1>4. ASSUME NEW s \in Schedule, ~Holds(l, s), Orderly(s) PROVE Orderly(s)'
  <2>1. \A k \in Loop : /\ Holds(k, s)' <=> Holds(k, s)
                        /\ Holds(k, s) => since'[k] = since[k]
                        /\ todo'[k] \subseteq todo[k]
    BY <1>1, <1>4 DEF Holds
  <2> QED
    BY <1>2, <1>4, <2>1 DEF GivesUp, Orderly, Fresh, Known, Moved
<1>5. CASE hand[l] = None
  BY <1>3, <1>4, <1>5 DEF Holds, KeepsOrder, GivesUp
<1>6. CASE hand[l] # None
  <2>1. hand[l].id \in Schedule
    BY <1>6 DEF TypeOK, Row
  <2>2. \A s \in Schedule : s # hand[l].id => ~Holds(l, s)
    BY DEF Holds
  <2>3. Disturbs(hand[l].id)
    BY <1>4, <2>2 DEF Disturbs, GivesUp
  <2> QED
    BY <1>3, <2>1, <2>3
<1> QED
  BY <1>5, <1>6

\* What a step disturbs, its fault pays for.
LEMMA FaultsPay ==
    ASSUME TypeOK, IsFiniteSet(Disorderly), Cardinality(Disorderly) <= faults,
           KeepsOrder \/ \E s \in Schedule : Disturbs(s)
    PROVE  IsFiniteSet(Disorderly') /\ Cardinality(Disorderly') <= faults'
<1>0. faults \in Nat /\ Cardinality(Disorderly) \in Nat
  BY FS_CardinalityType DEF TypeOK
<1>1. CASE KeepsOrder
  <2>1. Disorderly' \in SUBSET Disorderly
    BY <1>1 DEF KeepsOrder, Disorderly
  <2>2. /\ IsFiniteSet(Disorderly') /\ Cardinality(Disorderly') <= Cardinality(Disorderly)
        /\ Cardinality(Disorderly') \in Nat
    BY <2>1, FS_Subset, FS_CardinalityType
  <2> QED
    BY <1>0, <1>1, <2>2 DEF KeepsOrder
<1>2. ASSUME NEW s \in Schedule, Disturbs(s)
      PROVE  IsFiniteSet(Disorderly') /\ Cardinality(Disorderly') <= faults'
  <2>1. Disorderly' \in SUBSET (Disorderly \union {s})
    BY <1>2 DEF Disturbs, Disorderly
  <2>2. /\ IsFiniteSet(Disorderly \union {s})
        /\ Cardinality(Disorderly \union {s})
             = IF s \in Disorderly THEN Cardinality(Disorderly) ELSE Cardinality(Disorderly) + 1
    BY FS_AddElement
  <2>3. /\ IsFiniteSet(Disorderly')
        /\ Cardinality(Disorderly') <= Cardinality(Disorderly \union {s})
        /\ Cardinality(Disorderly') \in Nat
    BY <2>1, <2>2, FS_Subset, FS_CardinalityType
  <2>4. faults' = faults + 1
    BY <1>2 DEF Disturbs
  <2> QED
    BY <1>0, <2>2, <2>3, <2>4
<1> QED
  BY <1>1, <1>2

LEMMA RepeatNext == TypeOK /\ HandInv /\ RepeatInv /\ [Next]_vars => RepeatInv'
<1> SUFFICES ASSUME TypeOK, HandInv, RepeatInv, [Next]_vars PROVE RepeatInv'
  OBVIOUS
<1> USE DEF RepeatInv
<1>1. CASE Idle
  <2>0. TypeOK'
    BY TypeNext
  <2>1. now \in Nat /\ now' \in Nat /\ now <= now'
    BY <1>1, <2>0, ClockAssumption DEF TypeOK, Idle
  <2>2. \A s \in Schedule : Served(s)' = Served(s) /\ \A d \in Served(s) : d \in Nat
    BY <1>1 DEF Served, Idle
  <2>3. InTime'
    BY <2>1, <2>2 DEF InTime
  <2>4. OwnHand' /\ Disorderly' = Disorderly /\ faults' = faults
    BY <1>1, <2>2 DEF Idle, OwnHand, OneHand, Has, Disorderly, Orderly, Fresh, Known, Moved, Holds
  <2> QED
    BY <2>3, <2>4
<1>2. CASE Applications
  BY <1>2, RepeatCommand, FaultsPay
<1>3. ASSUME NEW l \in Loop, GivesUp(l) \/ Select(l) \/ Insert(l) \/ Move(l) PROVE RepeatInv'
  BY <1>3, RepeatGivesUp, RepeatSelect, RepeatInsert, RepeatMove, FaultsPay
<1> QED
  BY <1>1, <1>2, <1>3, StepCases

\* A schedule gets two tasks for one due time only if a loop selected it while
\* another loop had it in hand; each crash or failed statement adds one schedule
\* at most, whatever the numbers of loops and schedules (Scheduler::tick).
THEOREM RepeatsCorrect == Spec => []RepeatsNeedContention
<1>1. TypeOK /\ RepeatInv => RepeatsNeedContention
  <2> SUFFICES ASSUME TypeOK, RepeatInv PROVE RepeatsNeedContention
    OBVIOUS
  <2>1. repeated \ contended \in SUBSET Disorderly
    BY DEF TypeOK, Disorderly, Orderly
  <2>2. /\ Cardinality(repeated \ contended) <= Cardinality(Disorderly)
        /\ Cardinality(repeated \ contended) \in Nat /\ Cardinality(Disorderly) \in Nat
    BY <2>1, FS_Subset, FS_CardinalityType DEF RepeatInv
  <2> QED
    BY <2>2 DEF RepeatInv, RepeatsNeedContention, TypeOK
<1> QED
  BY <1>1, RepeatInit, RepeatNext, Safe, PTL DEF Spec

----------------------------------------------------------------------------
(* Shutdown *)

\* How many of its own steps a cancelled loop may still take at place, with n
\* rows of its tick left: the tick does not look at the token, so each of the
\* rows has its INSERT and its UPDATE before the loop stops.
Distance(place, n) ==
    CASE place \in {"stopped", "down"} -> 0
      [] place = "top" -> 1
      [] place = "waiting" -> 2
      [] place = "inserting" -> 2 * n + 2
      [] place = "moving" -> 2 * n + 3

LoopSteps(l) == Distance(pc[l], Cardinality(todo[l]))

\* That is two steps for each row of one tick, and two more, at most.
StepsBounded == \A l \in Loop : LoopSteps(l) \in 0..(2 * TickLimit + 2)

\* Once cancelled, whatever a loop does and whatever fails under it brings it
\* closer to its end: it selects nothing any more, and nobody sends it back.
TicksRunOut ==
    [][cancelled =>
        /\ cancelled'
        /\ \A l \in Loop :
              /\ LoopSteps(l)' <= LoopSteps(l)
              /\ Advance(l) \/ TickError(l) \/ Crash(l) => LoopSteps(l)' < LoopSteps(l)]_vars

LEMMA Distances ==
    ASSUME NEW n
    PROVE  /\ Distance("stopped", n) = 0 /\ Distance("down", n) = 0
           /\ Distance("top", n) = 1 /\ Distance("waiting", n) = 2
           /\ Distance("inserting", n) = 2 * n + 2
           /\ Distance("moving", n) = 2 * n + 3
BY DEF Distance

\* The LIMIT of the SELECT holds for the whole tick; the row in hand counts.
TickInv ==
    \A l \in Loop :
        /\ IsFiniteSet(todo[l])
        /\ Cardinality(todo[l]) <= IF pc[l] = "moving" THEN TickLimit - 1 ELSE TickLimit

\* The place and the rows of a loop after a step that is not its own.
Untouched(l) == pc'[l] = pc[l] /\ todo'[l] = todo[l]

\* A SELECT takes TickLimit schedules at most, a row for each.
LEMMA SelectBounded ==
    ASSUME TypeOK, NEW l \in Loop, Select(l)
    PROVE  /\ IsFiniteSet(todo'[l]) /\ Cardinality(todo'[l]) <= TickLimit
           /\ pc[l] = "top" /\ ~cancelled /\ pc'[l] \in {"waiting", "inserting"}
           /\ \A k \in Loop \ {l} : Untouched(k)
<1>1. PICK locked \in SUBSET MaybeLocked(l), S \in SUBSET Due :
          /\ Oldest(Due \ locked, S)
          /\ todo' = [todo EXCEPT ![l] = {RowOf(s) : s \in S}]
          /\ Goto(l, IF S = {} THEN "waiting" ELSE "inserting")
          /\ pc[l] = "top" /\ ~cancelled
  BY DEF Select
<1>2. IsFiniteSet(S) /\ Cardinality(S) <= TickLimit
  <2>1. IsFiniteSet(S) /\ (Cardinality(S) = TickLimit \/ Cardinality(S) < TickLimit)
    BY <1>1 DEF Oldest
  <2> QED
    BY <2>1, FS_CardinalityType, BoundAssumption
<1>3. /\ IsFiniteSet({RowOf(s) : s \in S})
      /\ Cardinality({RowOf(s) : s \in S}) <= Cardinality(S)
  <2> DEFINE Rows == {RowOf(s) : s \in S}
             f == [s \in S |-> RowOf(s)]
  <2>1. f \in Surjection(S, Rows)
    BY DEF Surjection
  <2> QED
    BY <1>2, <2>1, FS_Surjection
<1>4. todo'[l] = {RowOf(s) : s \in S} /\ \A k \in Loop \ {l} : todo'[k] = todo[k]
  BY <1>1 DEF TypeOK
<1>5. pc'[l] \in {"waiting", "inserting"} /\ \A k \in Loop \ {l} : pc'[k] = pc[k]
  BY <1>1 DEF TypeOK, Goto
<1>6. Cardinality({RowOf(s) : s \in S}) \in Nat /\ Cardinality(S) \in Nat
  BY <1>2, <1>3, FS_CardinalityType
<1> QED
  BY <1>1, <1>2, <1>3, <1>4, <1>5, <1>6, BoundAssumption DEF Untouched

\* The other steps of a loop, and how they shorten its tick.
LEMMA TickMoves ==
    ASSUME TypeOK, NEW l \in Loop, Advance(l) \/ TickError(l) \/ Crash(l), ~Select(l)
    PROVE  /\ \A k \in Loop \ {l} : Untouched(k)
           /\ \/ /\ pc[l] = "inserting" /\ pc'[l] = "moving"
                 /\ \E r \in todo[l] : todo'[l] = todo[l] \ {r}
              \/ pc[l] = "moving" /\ pc'[l] = "inserting" /\ todo'[l] = todo[l]
              \/ pc[l] \in {"inserting", "moving"} /\ pc'[l] = "waiting" /\ todo'[l] = {}
              \/ pc[l] = "top" /\ ~cancelled /\ pc'[l] = "waiting" /\ todo'[l] = {}
              \/ pc[l] = "waiting" /\ pc'[l] \in {"top", "stopped"} /\ todo'[l] = {}
              \/ pc[l] = "top" /\ pc'[l] = "stopped" /\ todo'[l] = {}
              \/ pc[l] \in Live /\ pc'[l] = "down" /\ todo'[l] = {}
<1>1. CASE Insert(l)
  BY <1>1 DEF Insert, Goto, EndTick, TypeOK, Untouched
<1>2. CASE Move(l)
  BY <1>2 DEF Move, Goto, NextRow, EndTick, TypeOK, Untouched
<1>3. CASE Wake(l) \/ Stop(l)
  BY <1>3 DEF Wake, Stop, Goto, TypeOK, Untouched
<1>4. CASE TickError(l) \/ Crash(l)
  BY <1>4 DEF TickError, Crash, Goto, EndTick, TypeOK, Untouched
<1> QED
  BY <1>1, <1>2, <1>3, <1>4 DEF Advance

LEMMA LoopsStay ==
    ASSUME TypeOK, [Next]_vars, ~\E l \in Loop : Advance(l) \/ TickError(l) \/ Crash(l)
    PROVE  /\ todo' = todo
           /\ \A l \in Loop : pc'[l] = pc[l] \/ Restart(l)
           /\ cancelled => cancelled' /\ pc' = pc
<1>1. CASE Shutdown \/ Tick \/ UNCHANGED vars
  BY <1>1 DEF Shutdown, Tick, vars, loopVars
<1>2. CASE Applications
  BY <1>2 DEF Applications, Disable, Enable, Remove, Register, RegisterRefused, Command,
              loopVars
<1>3. ASSUME NEW key \in active, FinishTask(key)
      PROVE  UNCHANGED <<todo, pc, cancelled>>
  BY <1>3 DEF FinishTask, loopVars
<1>4. ASSUME NEW l \in Loop, Restart(l)
      PROVE  /\ todo' = todo /\ ~cancelled
             /\ \A k \in Loop : pc'[k] = pc[k] \/ Restart(k)
  BY <1>4 DEF Restart, Goto, TypeOK
<1> QED
  BY <1>1, <1>2, <1>3, <1>4 DEF Next

\* A row that is taken off a tick makes it shorter by one.
LEMMA OneLess ==
    ASSUME NEW S, IsFiniteSet(S), NEW r \in S
    PROVE  /\ IsFiniteSet(S \ {r})
           /\ Cardinality(S \ {r}) = Cardinality(S) - 1
           /\ Cardinality(S) \in Nat \ {0}
<1>1. Cardinality(S) \in Nat /\ Cardinality(S) # 0
  BY FS_CardinalityType, FS_EmptySet
<1> QED
  BY <1>1, FS_RemoveElement

LEMMA TickNext == TypeOK /\ TickInv /\ [Next]_vars => TickInv'
<1> SUFFICES ASSUME TypeOK, TickInv, [Next]_vars, NEW k \in Loop
             PROVE  /\ IsFiniteSet(todo'[k])
                    /\ Cardinality(todo'[k])
                           <= IF pc'[k] = "moving" THEN TickLimit - 1 ELSE TickLimit
  BY DEF TickInv
<1>0. /\ TickLimit \in Nat \ {0} /\ Cardinality(todo[k]) \in Nat
      /\ IsFiniteSet(todo[k])
      /\ Cardinality(todo[k]) <= IF pc[k] = "moving" THEN TickLimit - 1 ELSE TickLimit
  BY BoundAssumption, FS_CardinalityType DEF TickInv
<1>1. IsFiniteSet({}) /\ Cardinality({}) = 0
  BY FS_EmptySet
<1>2. ASSUME NEW l \in Loop, Select(l)
      PROVE  /\ IsFiniteSet(todo'[k])
             /\ Cardinality(todo'[k])
                    <= IF pc'[k] = "moving" THEN TickLimit - 1 ELSE TickLimit
  BY <1>0, <1>2, SelectBounded DEF Untouched
<1>3. ASSUME NEW l \in Loop, Advance(l) \/ TickError(l) \/ Crash(l), ~Select(l)
      PROVE  /\ IsFiniteSet(todo'[k])
             /\ Cardinality(todo'[k])
                    <= IF pc'[k] = "moving" THEN TickLimit - 1 ELSE TickLimit
  <2>1. CASE k # l
    BY <1>0, <1>3, <2>1, TickMoves DEF Untouched
  <2>2. ASSUME k = l, NEW r \in todo[l], todo'[l] = todo[l] \ {r}, pc[l] = "inserting"
        PROVE  IsFiniteSet(todo'[k]) /\ Cardinality(todo'[k]) <= TickLimit - 1
    BY <1>0, <2>2, OneLess
  <2>3. CASE k = l /\ todo'[l] = {}
    BY <1>0, <1>1, <2>3
  <2>4. CASE k = l /\ pc[l] = "moving" /\ todo'[l] = todo[l]
    BY <1>0, <2>4
  <2> QED
    BY <1>0, <1>3, <2>1, <2>2, <2>3, <2>4, TickMoves
<1>4. CASE ~\E l \in Loop : Advance(l) \/ TickError(l) \/ Crash(l)
  <2>1. todo' = todo /\ (pc'[k] = pc[k] \/ Restart(k))
    BY <1>4, LoopsStay
  <2>2. Restart(k) => pc[k] # "moving" /\ pc'[k] # "moving"
    BY DEF Restart, Goto, TypeOK
  <2> QED
    BY <1>0, <2>1, <2>2
<1> QED
  BY <1>2, <1>3, <1>4

LEMMA DistanceNat ==
    ASSUME NEW n \in Nat, NEW place \in Live \union {"stopped", "down"}
    PROVE  Distance(place, n) \in Nat
BY Distances DEF Live

LEMMA TickDescends ==
    ASSUME TypeOK, TickInv, cancelled, NEW l \in Loop,
           Advance(l) \/ TickError(l) \/ Crash(l)
    PROVE  /\ LoopSteps(l)' < LoopSteps(l)
           /\ \A k \in Loop \ {l} : Untouched(k)
<1> DEFINE n == Cardinality(todo[l])
           m == Cardinality(todo'[l])
<1>0. ~Select(l)
  BY DEF Select
<1>1. n \in Nat /\ IsFiniteSet(todo[l])
  BY FS_CardinalityType DEF TickInv
<1>2. LoopSteps(l) = Distance(pc[l], n) /\ LoopSteps(l)' = Distance(pc'[l], m)
  BY DEF LoopSteps
<1>3. \A r \in todo[l] : todo'[l] = todo[l] \ {r} => m = n - 1
  BY <1>1, OneLess
<1>4. todo'[l] = todo[l] => m = n
  OBVIOUS
<1>e. pc[l] = "inserting" => n # 0
  BY <1>1, FS_EmptySet DEF TypeOK
<1> HIDE DEF n, m
<1>5. \/ pc[l] = "inserting" /\ pc'[l] = "moving" /\ m = n - 1
      \/ pc[l] = "moving" /\ pc'[l] = "inserting" /\ m = n
      \/ pc[l] \in {"inserting", "moving"} /\ pc'[l] = "waiting"
      \/ pc[l] = "waiting" /\ pc'[l] \in {"top", "stopped"}
      \/ pc[l] = "top" /\ pc'[l] = "stopped"
      \/ pc[l] \in Live /\ pc'[l] = "down"
  BY <1>0, <1>3, <1>4, TickMoves
<1>6. LoopSteps(l)' < LoopSteps(l)
  BY <1>1, <1>2, <1>5, <1>e, Distances DEF Live
<1> QED
  BY <1>0, <1>6, TickMoves

LEMMA TickIsInvariant == Spec => [](TypeOK /\ TickInv)
<1>1. Init => TickInv
  BY FS_EmptySet, BoundAssumption DEF Init, TickInv
<1> QED
  BY <1>1, TickNext, TypeInit, TypeNext, PTL DEF Spec

\* A loop is never further from its end than one tick takes (LIMIT in
\* Scheduler::tick).
THEOREM StepsBoundedCorrect == Spec => []StepsBounded
<1>1. TypeOK /\ TickInv => StepsBounded
  <2> SUFFICES ASSUME TypeOK, TickInv, NEW l \in Loop
               PROVE  LoopSteps(l) \in 0..(2 * TickLimit + 2)
    BY DEF StepsBounded
  <2> DEFINE n == Cardinality(todo[l])
  <2>1. /\ n \in Nat /\ pc[l] \in Live \union {"stopped", "down"}
        /\ n <= IF pc[l] = "moving" THEN TickLimit - 1 ELSE TickLimit
    BY FS_CardinalityType DEF TypeOK, TickInv
  <2>2. LoopSteps(l) = Distance(pc[l], n)
    BY DEF LoopSteps
  <2> HIDE DEF n
  <2> QED
    BY <2>1, <2>2, Distances, BoundAssumption DEF Live
<1> QED
  BY <1>1, TickIsInvariant, PTL

\* A cancelled loop comes to rest after a bounded number of its own steps
\* (Scheduler::spawn looks at the token between two ticks only).
THEOREM TicksRunOutCorrect == Spec => TicksRunOut
<1> DEFINE RunOut ==
      cancelled =>
        /\ cancelled'
        /\ \A l \in Loop :
              /\ LoopSteps(l)' <= LoopSteps(l)
              /\ Advance(l) \/ TickError(l) \/ Crash(l) => LoopSteps(l)' < LoopSteps(l)
<1>1. TypeOK /\ TickInv /\ [Next]_vars => RunOut
  <2> SUFFICES ASSUME TypeOK, TickInv, [Next]_vars, cancelled PROVE RunOut
    BY DEF RunOut
  <2>0. \A l \in Loop : LoopSteps(l) \in Nat /\ LoopSteps(l)' \in Nat
    <3>1. \A l \in Loop : /\ Cardinality(todo[l]) \in Nat /\ Cardinality(todo'[l]) \in Nat
                          /\ pc[l] \in Live \union {"stopped", "down"}
                          /\ pc'[l] \in Live \union {"stopped", "down"}
      BY TickNext, TypeNext, FS_CardinalityType DEF TypeOK, TickInv
    <3> QED
      BY <3>1, DistanceNat DEF LoopSteps
  <2>1. ASSUME NEW l \in Loop
        PROVE  Advance(l) \/ TickError(l) \/ Crash(l) => LoopSteps(l)' < LoopSteps(l)
    BY TickDescends
  <2>2. \A l \in Loop : Untouched(l) => LoopSteps(l)' = LoopSteps(l)
    BY DEF Untouched, LoopSteps
  <2>3. cancelled' /\ \A l \in Loop : LoopSteps(l)' <= LoopSteps(l)
    <3>1. ASSUME NEW l \in Loop, Advance(l) \/ TickError(l) \/ Crash(l)
          PROVE  cancelled' /\ \A k \in Loop : LoopSteps(k)' <= LoopSteps(k)
      <4>1. cancelled'
        BY <3>1 DEF Advance, Select, Insert, Move, Wake, Stop, TickError, Crash
      <4>2. \A k \in Loop \ {l} : Untouched(k)
        BY <3>1, TickDescends
      <4> QED
        BY <2>0, <2>1, <2>2, <3>1, <4>1, <4>2
    <3>2. CASE ~\E l \in Loop : Advance(l) \/ TickError(l) \/ Crash(l)
      <4>1. cancelled' /\ todo' = todo /\ pc' = pc
        BY <3>2, LoopsStay
      <4> QED
        BY <2>0, <2>2, <4>1 DEF Untouched
    <3> QED
      BY <3>1, <3>2
  <2> QED
    BY <2>1, <2>3
<1>2. TypeOK /\ TickInv /\ [Next]_vars => [RunOut]_vars
  BY <1>1
<1> QED
  BY <1>2, TickIsInvariant, PTL DEF Spec, TicksRunOut

=============================================================================
