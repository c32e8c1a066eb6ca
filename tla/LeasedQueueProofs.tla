------------------------- MODULE LeasedQueueProofs -------------------------
(***************************************************************************)
(* TaskQueue implements LeasedQueue, for all values of the constants: each *)
(* step of a loop, the reaper, an application or the clock is one step of  *)
(* the abstract queue or changes nothing there.                            *)
(***************************************************************************)
EXTENDS TaskQueueProofs

Worked == {t \in Task : okRuns[t] > 0}

\* What nobody sees from outside.
Quiet == /\ \A t \in Task : Place(t)' = Place(t)
         /\ held' = held
         /\ okRuns' = okRuns
         /\ overruns' = overruns

LEMMA QuietStutters == Quiet => UNCHANGED Promised!leasedVars
  BY DEF Quiet, Promised!leasedVars

LEMMA InitPromised == Init => Promised!Init
  BY DEF Init, RowsInit, Place, Active, Promised!Init

\* A statement that moves the rows S to p, seen from outside.
LEMMA MoveAllPromised ==
  ASSUME NEW S \in SUBSET Task, NEW p,
         \A t \in Task : Place(t)' = IF t \in S THEN p ELSE Place(t)
  PROVE  Promised!MoveAll(S, p)
  BY DEF Promised!MoveAll

LEMMA ClaimKeepsPlaces ==
  ASSUME TypeOK, NEW q, NEW locked, NEW t \in Task, ClaimRow(q, locked, t)
  PROVE  /\ Place(t) = "open"
         /\ \A u \in Task : Place(u)' = Place(u)
  BY DEF ClaimRow, Claimable, Place, Active, TypeOK, RowsTypeOK

LEMMA ClaimPromised ==
  ASSUME TypeOK, Lease, NEW w \in Worker, Claim(w)
  PROVE  \E t \in Task : Promised!Take(w, t)
  <1>1. PICK locked \in SUBSET MaybeLocked(w), t \in Task :
              ClaimRow(QueueOf[w], locked, t) /\ Take(w, t)
    BY DEF Claim
  <1>2. held[w] = NoTask
    BY DEF Claim, Busy, InHand, TypeOK, LoopsTypeOK
  <1>3. Place(t) = "open" /\ \A u \in Task : Place(u)' = Place(u)
    BY <1>1, ClaimKeepsPlaces
  \* A task in hand is hidden until its lease is overrun.
  <1>4. overruns > 0 \/ \A v \in Worker : held[v] # t
    <2>1. SUFFICES ASSUME overruns = 0, NEW v \in Worker, held[v] = t PROVE FALSE
      BY DEF TypeOK
    <2>2. Busy(v)
      BY <2>1 DEF TypeOK, LoopsTypeOK
    <2>3. visibleIn[t] > 0
      BY <2>1, <2>2 DEF Lease
    <2>4. visibleIn[t] <= 0 /\ visibleIn[t] \in Int
      BY <1>1 DEF ClaimRow, Claimable, TypeOK, RowsTypeOK
    <2> QED
      BY <2>3, <2>4
  <1>5. held' = [held EXCEPT ![w] = t] /\ okRuns' = okRuns /\ overruns' = overruns
    BY <1>1 DEF Claim, Take, faultVars
  <1> QED
    BY <1>2, <1>3, <1>4, <1>5 DEF Promised!Take

LEMMA WorkPromised ==
  ASSUME TypeOK, NEW w \in Worker, HandlerOk(w)
  PROVE  Promised!Work(w)
  <1>1. held[w] \in Task /\ held[w] # NoTask
    BY LoopAssumption DEF HandlerOk, Busy, InHand, TypeOK, LoopsTypeOK
  <1>2. \A t \in Task : okRuns'[t] > 0 <=> okRuns[t] > 0 \/ t = held[w]
    BY <1>1 DEF HandlerOk, TypeOK
  <1>3. Worked' = Worked \union {held[w]}
    BY <1>1, <1>2 DEF Worked
  <1>4. held' = held /\ status' = status /\ overruns' = overruns
    BY DEF HandlerOk, Goto, rowVars, faultVars
  <1>5. \A t \in Task : Place(t)' = Place(t)
    BY <1>4 DEF Place
  <1> QED
    BY <1>1, <1>3, <1>4, <1>5 DEF Promised!Work, Worked

\* A task in hand is open while no lease is overrun.
LEMMA HandOpen ==
  ASSUME TypeOK, Lease, NEW w \in Worker, Busy(w)
  PROVE  overruns > 0 \/ Place(held[w]) = "open"
  BY DEF TypeOK, Lease, Place, Active

LEMMA SettlePromised ==
  ASSUME TypeOK, Lease, Evidence, NEW w \in Worker, Complete(w) \/ Fail(w)
  PROVE  \/ Promised!LetGo(w)
         \/ \E p \in {"open", "delivered", "dead"} : Promised!Settle(w, p)
  <1>1. Busy(w) /\ held[w] \in Task /\ held[w] # NoTask
    BY LoopAssumption DEF Complete, Fail, Busy, InHand, TypeOK, LoopsTypeOK
  <1>2. held' = [held EXCEPT ![w] = NoTask] /\ okRuns' = okRuns /\ overruns' = overruns
    BY DEF Complete, Fail, Drop, faultVars
  <1>a. ASSUME UNCHANGED rowVars PROVE Promised!LetGo(w)
    <2>1. \A t \in Task : Place(t)' = Place(t)
      BY <1>a DEF rowVars, Place
    <2> QED
      BY <1>1, <1>2, <2>1 DEF Promised!LetGo
  <1>b. ASSUME NEW p \in {"open", "delivered", "dead"},
               Exists(held[w]), p = "delivered" => pc[w] = "completing",
               \A t \in Task : Place(t)' = IF t = held[w] THEN p ELSE Place(t)
        PROVE  Promised!Settle(w, p)
    <2>1. Place(held[w]) # "gone"
      BY <1>b DEF Exists, MessageStatus, Place, Active
    <2>2. overruns > 0 \/ Place(held[w]) = "open"
      BY <1>1, HandOpen
    <2>3. p = "delivered" => held[w] \in Worked
      BY <1>1, <1>b DEF Evidence, Worked
    <2>4. Promised!MoveAll({held[w]}, p)
      BY <1>1, <1>b, MoveAllPromised
    <2> QED
      BY <1>1, <1>2, <2>1, <2>2, <2>3, <2>4 DEF Promised!Settle, Worked
  <1>3. CASE Complete(w)
    <2>1. CASE Exists(held[w])
      <3>1. \A t \in Task : Place(t)' = IF t = held[w] THEN "delivered" ELSE Place(t)
        BY <1>1, <1>3, <2>1 DEF Complete, MarkDelivered, Place, Active, TypeOK, RowsTypeOK
      <3> QED
        BY <1>b, <1>3, <2>1, <3>1 DEF Complete
    <2>2. CASE ~Exists(held[w])
      BY <1>a, <1>3, <2>2 DEF Complete, MarkDelivered
    <2> QED
      BY <2>1, <2>2
  <1>4. CASE Fail(w)
    <2>1. CASE Exists(held[w]) /\ Bury(held[w])
      <3>1. \A t \in Task : Place(t)' = IF t = held[w] THEN "dead" ELSE Place(t)
        BY <1>1, <2>1 DEF Bury, Place, Active, TypeOK, RowsTypeOK
      <3> QED
        BY <1>b, <2>1, <3>1
    <2>2. CASE Exists(held[w]) /\ Reschedule(held[w], token[w])
      <3>1. \A t \in Task : Place(t)' = IF t = held[w] THEN "open" ELSE Place(t)
        BY <1>1, <2>2 DEF Reschedule, Place, Active, TypeOK, RowsTypeOK
      <3> QED
        BY <1>b, <2>2, <3>1
    <2>3. CASE UNCHANGED rowVars
      BY <1>a, <2>3
    <2> QED
      BY <1>4, <2>1, <2>2, <2>3 DEF Fail, MarkFailed
  <1> QED
    BY <1>3, <1>4

LEMMA LetGoPromised ==
  ASSUME TypeOK, NEW w \in Worker, FinishError(w) \/ Crash(w)
  PROVE  Promised!LetGo(w) \/ Quiet
  <1>1. held' = [held EXCEPT ![w] = NoTask] /\ okRuns' = okRuns /\ overruns' = overruns
    BY DEF FinishError, Crash, Drop, DbError
  <1>2. \A t \in Task : Place(t)' = Place(t)
    BY DEF FinishError, Crash, rowVars, Place
  <1>3. CASE held[w] = NoTask
    <2>1. held' = held
      BY <1>1, <1>3 DEF TypeOK, LoopsTypeOK
    <2> QED
      BY <1>1, <1>2, <2>1 DEF Quiet
  <1> QED
    BY <1>1, <1>2, <1>3 DEF Promised!LetGo

\* The other steps of a loop.
LEMMA LoopQuiet ==
  ASSUME TypeOK, NEW w \in Worker,
         \/ LoopTop(w) \/ ClaimNothing(w) \/ ClaimError(w) \/ Wake(w) \/ Restart(w)
         \/ CheckInbox(w) \/ CheckInboxError(w) \/ Beat(w) \/ HandlerErr(w)
         \/ MarkInbox(w) \/ MarkInboxError(w)
  PROVE  Quiet
  <1>1. held' = held /\ okRuns' = okRuns /\ overruns' = overruns
    BY DEF LoopTop, ClaimNothing, ClaimError, Wake, Restart, CheckInbox, CheckInboxError,
           Beat, HandlerErr, MarkInbox, MarkInboxError, Goto, loopVars, faultVars, DbError
  <1>2. CASE \E locked \in SUBSET MaybeLocked(w), t \in Task :
                 ClaimRow(QueueOf[w], locked, t)
    BY <1>1, <1>2, ClaimKeepsPlaces DEF Quiet
  <1>3. CASE status' = status
    BY <1>1, <1>3 DEF Quiet, Place
  <1> QED
    BY <1>2, <1>3 DEF LoopTop, ClaimNothing, ClaimError, Wake, Restart, CheckInbox,
       CheckInboxError, Beat, Heartbeat, HandlerErr, MarkInbox, MarkInboxError, rowVars

LEMMA ReapPromised ==
  ASSUME TypeOK, Reap \/ ReaperError
  PROVE  Promised!Delete \/ Quiet
  <1>1. held' = held /\ okRuns' = okRuns /\ overruns' = overruns
    BY DEF Reap, ReaperWake, ReapBatch, ReapInbox, ReaperError, DbError, loopVars, faultVars
  <1>2. CASE ReapBatch
    <2>1. PICK S \in SUBSET Reapable : DeleteRows(S)
      BY <1>2 DEF ReapBatch
    <2>2. \A t \in Task : Place(t)' = IF t \in S THEN "gone" ELSE Place(t)
      BY <2>1 DEF DeleteRows, Place, Active
    <2>3. S \subseteq {t \in Task : Place(t) = "delivered"} \union
                      {t \in Task : Place(t) = "dead"}
      BY <2>1 DEF Reapable, Place, Active
    <2>4. Promised!MoveAll(S, "gone")
      BY <2>1, <2>2, MoveAllPromised DEF Reapable
    <2> QED
      BY <1>1, <2>3, <2>4 DEF Promised!Delete, Promised!InPlace
  <1>3. CASE ~ReapBatch
    <2>1. status' = status
      BY <1>3 DEF Reap, ReaperWake, ReapInbox, ReaperError, rowVars
    <2> QED
      BY <1>1, <2>1 DEF Quiet, Place
  <1> QED
    BY <1>2, <1>3

LEMMA ApplicationsPromised ==
  ASSUME TypeOK, Submit \/ Revive \/ Shutdown \/ Tick
  PROVE  \/ Promised!Submit \/ Promised!RunLate \/ Quiet
         \/ \E t \in Task : Promised!Revive(t)
  <1>1. CASE Submit
    <2>1. PICK S \in SUBSET Task, elapsed \in 0..LongestTx : InsertRows(S, elapsed)
      BY <1>1 DEF Submit
    <2>2. \A t \in Task : Place(t)' = IF t \in S THEN "open" ELSE Place(t)
      BY <2>1 DEF InsertRows, Place, Active
    <2>3. S \subseteq {t \in Task : Place(t) = "absent"}
      BY <2>1 DEF InsertRows, Place, Active
    <2>4. Promised!MoveAll(S, "open")
      BY <2>1, <2>2, MoveAllPromised
    <2>5. held' = held /\ okRuns' = okRuns /\ overruns' = overruns
      BY <1>1 DEF Submit, loopVars, faultVars
    <2> QED
      BY <2>3, <2>4, <2>5 DEF Promised!Submit, Promised!InPlace
  <1>2. CASE Revive
    <2>1. PICK t \in Task : RetryDead(t)
      BY <1>2 DEF Revive
    <2>2. \A u \in Task : Place(u)' = IF u \in {t} THEN "open" ELSE Place(u)
      BY <2>1 DEF RetryDead, Place, Active, TypeOK, RowsTypeOK
    <2>3. Promised!MoveAll({t}, "open")
      BY <2>1, <2>2, MoveAllPromised
    <2>4. held' = held /\ okRuns' = okRuns /\ overruns' = overruns /\ Place(t) = "dead"
      BY <1>2, <2>1 DEF Revive, RetryDead, loopVars, Place, Active
    <2> QED
      BY <2>1, <2>3, <2>4 DEF Promised!Revive
  <1>3. CASE Shutdown
    BY <1>3 DEF Shutdown, rowVars, loopVars, faultVars, Quiet, Place
  <1>4. CASE Tick
    <2>1. held' = held /\ okRuns' = okRuns /\ status' = status
      BY <1>4 DEF Tick, AgeRows, loopVars
    <2>2. \A t \in Task : Place(t)' = Place(t)
      BY <2>1 DEF Place
    <2>3. overruns' = overruns \/ overruns' > 0
      BY <1>4 DEF Tick, TypeOK
    <2>4. CASE overruns' = overruns
      BY <2>1, <2>2, <2>4 DEF Quiet
    <2>5. CASE overruns' > 0
      BY <2>1, <2>2, <2>5 DEF Promised!RunLate
    <2> QED
      BY <2>3, <2>4, <2>5
  <1> QED
    BY <1>1, <1>2, <1>3, <1>4

LEMMA StepPromised ==
  TypeOK /\ Lease /\ Evidence /\ [Next]_vars => [Promised!Next]_(Promised!leasedVars)
  <1> SUFFICES ASSUME TypeOK, Lease, Evidence, [Next]_vars
               PROVE  Promised!Next \/ Quiet
    BY QuietStutters
  <1>1. CASE UNCHANGED vars
    BY <1>1 DEF vars, rowVars, loopVars, faultVars, Quiet, Place
  <1>2. ASSUME NEW w \in Worker, Advance(w) \/ Beat(w) \/ WorkerFault(w) \/ Restart(w)
        PROVE  Promised!Next \/ Quiet
    BY <1>2, ClaimPromised, WorkPromised, SettlePromised, LetGoPromised, LoopQuiet
    DEF Advance, WorkerFault, Promised!Next
  <1>3. CASE Reap \/ ReaperError
    BY <1>3, ReapPromised DEF Promised!Next
  <1>4. CASE Submit \/ Revive \/ Shutdown \/ Tick
    BY <1>4, ApplicationsPromised DEF Promised!Next
  <1> QED
    BY <1>1, <1>2, <1>3, <1>4 DEF Next

\* The loops over rows implement the abstract queue: open tasks only are taken,
\* by one hand while no lease is overrun, settled once in that hand, delivered
\* only when worked on, and never lost.
THEOREM PromisesKept == Spec => KeepsPromises
  <1>1. Init => Evidence
    BY DEF Init, RowsInit, Evidence, AtLeastOnce
  <1>2. Spec => []Evidence
    BY <1>1, TypeCorrect, EvidenceStep, PTL DEF Spec
  <1> QED
    BY <1>2, InitPromised, StepPromised, TypeCorrect, LeaseCorrect, PTL
    DEF Spec, KeepsPromises, Promised!Spec

=============================================================================
