-------------------------- MODULE TaskQueueProofs --------------------------
(***************************************************************************)
(* Theorems about TaskQueue, for all values of its constants.              *)
(***************************************************************************)
EXTENDS TaskQueue, TaskTableProofs, FiniteSetTheorems

----------------------------------------------------------------------------
(* Type correctness. *)

LEMMA GotoType ==
  ASSUME LoopsTypeOK, NEW w \in Worker, NEW place \in Live \union {"stopped", "down"},
         Busy(w) <=> place \in InHand, Goto(w, place)
  PROVE  LoopsTypeOK'
  BY DEF Goto, LoopsTypeOK, Busy

LEMMA TakeType ==
  ASSUME LoopsTypeOK, RowsTypeOK, NEW w \in Worker, NEW t \in Task, Take(w, t)
  PROVE  LoopsTypeOK'
  BY DEF Take, LoopsTypeOK, RowsTypeOK, Busy, Live, InHand

LEMMA DropType ==
  ASSUME LoopsTypeOK, NEW w \in Worker, NEW place \in {"top", "waiting", "down"},
         Drop(w, place)
  PROVE  LoopsTypeOK'
  <1>1. /\ pc' \in [Worker -> Live \union {"stopped", "down"}]
        /\ held' \in [Worker -> Task \union {NoTask}]
        /\ token' \in [Worker -> Nat]
    BY DEF Drop, LoopsTypeOK, Live
  <1>2. ASSUME NEW v \in Worker PROVE Busy(v)' <=> held'[v] \in Task
    <2>1. CASE v = w
      BY <2>1, LoopAssumption DEF Drop, LoopsTypeOK, Busy, InHand
    <2>2. CASE v # w
      BY <2>2 DEF Drop, LoopsTypeOK, Busy
    <2> QED
      BY <2>1, <2>2
  <1> QED
    BY <1>1, <1>2 DEF LoopsTypeOK, Busy

FaultsTypeOK == {crashes, dbErrors, overruns, revivals} \subseteq Nat

LEMMA DbErrorType == FaultsTypeOK /\ DbError => FaultsTypeOK'
  BY DEF FaultsTypeOK, DbError

LEMMA InitType == Init => TypeOK
  <1> SUFFICES ASSUME Init PROVE TypeOK
    OBVIOUS
  <1>1. RowsTypeOK
    BY DEF Init, RowsInit, RowsTypeOK
  <1>2. LoopsTypeOK
    BY LoopAssumption DEF Init, LoopsTypeOK, Busy, Live, InHand
  <1>3. inbox \subseteq Task /\ inboxKeep \in [Task -> Nat] /\ okRuns \in [Task -> Nat]
    BY DEF Init
  <1>4. {crashes, dbErrors, overruns, revivals} \subseteq Nat
    BY DEF Init
  <1> QED
    BY <1>1, <1>2, <1>3, <1>4 DEF Init, TypeOK

LEMMA NextType == TypeOK /\ [Next]_vars => TypeOK'
  <1> SUFFICES ASSUME TypeOK, [Next]_vars PROVE TypeOK'
    OBVIOUS
  <1> USE DEF FaultsTypeOK
  <1>1. CASE UNCHANGED vars
    <2>1. RowsTypeOK' /\ LoopsTypeOK'
      BY <1>1 DEF vars, rowVars, loopVars, TypeOK, RowsTypeOK, LoopsTypeOK, Busy
    <2> QED
      BY <1>1, <2>1 DEF vars, inboxVars, faultVars, TypeOK
  <1>2. ASSUME NEW w \in Worker, LoopTop(w) \/ ClaimNothing(w) \/ Wake(w) PROVE TypeOK'
    <2>1. \E place \in {"top", "polling", "waiting", "stopped"} : Goto(w, place)
      BY <1>2 DEF LoopTop, ClaimNothing, Wake
    <2>2. ~Busy(w)
      BY <1>2 DEF LoopTop, ClaimNothing, Wake, Busy, InHand
    <2>3. LoopsTypeOK'
      BY <2>1, <2>2, GotoType DEF TypeOK, Live, InHand
    <2> QED
      BY <1>2, <2>3 DEF LoopTop, ClaimNothing, Wake, TypeOK, RowsTypeOK,
                        rowVars, inboxVars, faultVars
  <1>3. ASSUME NEW w \in Worker, Claim(w) PROVE TypeOK'
    <2>1. PICK locked \in SUBSET MaybeLocked(w), t \in Task :
                ClaimRow(QueueOf[w], locked, t) /\ Take(w, t)
      BY <1>3 DEF Claim
    <2>2. RowsTypeOK' /\ LoopsTypeOK'
      BY <2>1, ClaimRowType, TakeType DEF TypeOK
    <2> QED
      BY <1>3, <2>2 DEF Claim, TypeOK, inboxVars, faultVars
  <1>4. ASSUME NEW w \in Worker, CheckInbox(w) \/ CheckInboxError(w) PROVE TypeOK'
    <2>1. \E place \in {"completing", "handling"} : Goto(w, place)
      BY <1>4 DEF CheckInbox, CheckInboxError
    <2>2. Busy(w)
      BY <1>4 DEF CheckInbox, CheckInboxError, Busy, InHand
    <2>3. LoopsTypeOK'
      BY <2>1, <2>2, GotoType DEF TypeOK, Live, InHand
    <2>4. FaultsTypeOK'
      BY <1>4, DbErrorType DEF CheckInbox, CheckInboxError, TypeOK, faultVars
    <2> QED
      BY <1>4, <2>3, <2>4 DEF CheckInbox, CheckInboxError, TypeOK, RowsTypeOK,
                              rowVars, inboxVars
  <1>5. ASSUME NEW w \in Worker, Beat(w) PROVE TypeOK'
    <2>1. held[w] \in Task
      BY <1>5 DEF Beat, TypeOK, LoopsTypeOK, Busy, InHand
    <2>2. RowsTypeOK'
      BY <1>5, <2>1, HeartbeatType, LoopAssumption DEF Beat, TypeOK
    <2> QED
      BY <1>5, <2>2 DEF Beat, TypeOK, LoopsTypeOK, Busy, loopVars, inboxVars, faultVars
  <1>6. ASSUME NEW w \in Worker, HandlerOk(w) \/ HandlerErr(w) PROVE TypeOK'
    <2>1. \E place \in {"marking", "completing", "failing"} : Goto(w, place)
      BY <1>6 DEF HandlerOk, HandlerErr
    <2>2. Busy(w) /\ held[w] \in Task
      BY <1>6 DEF HandlerOk, HandlerErr, Busy, InHand, TypeOK, LoopsTypeOK
    <2>3. LoopsTypeOK'
      BY <2>1, <2>2, GotoType DEF TypeOK, Live, InHand
    <2>4. okRuns' \in [Task -> Nat]
      BY <1>6, <2>2 DEF HandlerOk, HandlerErr, TypeOK
    <2> QED
      BY <1>6, <2>3, <2>4 DEF HandlerOk, HandlerErr, TypeOK, RowsTypeOK,
                              rowVars, inboxVars, faultVars
  <1>7. ASSUME NEW w \in Worker, MarkInbox(w) \/ MarkInboxError(w) PROVE TypeOK'
    <2>1. Goto(w, "completing") /\ Busy(w) /\ held[w] \in Task
      BY <1>7 DEF MarkInbox, MarkInboxError, Busy, InHand, TypeOK, LoopsTypeOK
    <2>2. LoopsTypeOK'
      BY <2>1, GotoType DEF TypeOK, Live, InHand
    <2>3. inbox' \subseteq Task /\ inboxKeep' \in [Task -> Nat]
      BY <1>7, <2>1, DurationAssumption DEF MarkInbox, MarkInboxError, inboxVars, TypeOK
    <2>4. FaultsTypeOK'
      BY <1>7, DbErrorType DEF MarkInbox, MarkInboxError, TypeOK, faultVars
    <2> QED
      BY <1>7, <2>2, <2>3, <2>4 DEF MarkInbox, MarkInboxError, TypeOK, RowsTypeOK, rowVars
  <1>8. ASSUME NEW w \in Worker, Complete(w) \/ Fail(w) PROVE TypeOK'
    <2>1. Drop(w, "top") /\ held[w] \in Task /\ token[w] \in Nat
      BY <1>8 DEF Complete, Fail, Busy, InHand, TypeOK, LoopsTypeOK
    <2>2. LoopsTypeOK'
      BY <2>1, DropType DEF TypeOK
    <2>3. RowsTypeOK'
      BY <1>8, <2>1, MarkDeliveredType, MarkFailedType DEF Complete, Fail, TypeOK
    <2> QED
      BY <1>8, <2>2, <2>3 DEF Complete, Fail, TypeOK, inboxVars, faultVars
  <1>9. ASSUME NEW w \in Worker, FinishError(w) \/ Crash(w) PROVE TypeOK'
    <2>1. \E place \in {"top", "down"} : Drop(w, place)
      BY <1>9 DEF FinishError, Crash
    <2>2. LoopsTypeOK'
      BY <2>1, DropType DEF TypeOK
    <2>3. FaultsTypeOK'
      BY <1>9, DbErrorType DEF FinishError, Crash, TypeOK
    <2> QED
      BY <1>9, <2>2, <2>3 DEF FinishError, Crash, TypeOK, RowsTypeOK, rowVars, inboxVars
  <1>10. ASSUME NEW w \in Worker, ClaimError(w) PROVE TypeOK'
    <2>1. Goto(w, "waiting") /\ ~Busy(w)
      BY <1>10 DEF ClaimError, Busy, InHand
    <2>2. LoopsTypeOK'
      BY <2>1, GotoType DEF TypeOK, Live, InHand
    <2>3. RowsTypeOK'
      <3>1. CASE UNCHANGED rowVars
        BY <3>1 DEF TypeOK, RowsTypeOK, rowVars
      <3>2. CASE \E locked \in SUBSET MaybeLocked(w), t \in Task :
                    ClaimRow(QueueOf[w], locked, t)
        BY <3>2, ClaimRowType DEF TypeOK
      <3> QED
        BY <1>10, <3>1, <3>2 DEF ClaimError
    <2>4. FaultsTypeOK'
      BY <1>10, DbErrorType DEF ClaimError, TypeOK
    <2> QED
      BY <1>10, <2>2, <2>3, <2>4 DEF ClaimError, TypeOK, inboxVars
  <1>11. ASSUME NEW w \in Worker, Restart(w) PROVE TypeOK'
    <2>1. LoopsTypeOK'
      BY <1>11, GotoType DEF Restart, TypeOK, Busy, Live, InHand
    <2> QED
      BY <1>11, <2>1 DEF Restart, TypeOK, RowsTypeOK, rowVars, inboxVars, faultVars
  <1>12. CASE ReaperWake \/ ReapInbox \/ ReaperError
    <2>1. FaultsTypeOK'
      BY <1>12, DbErrorType DEF ReaperWake, ReapInbox, ReaperError, TypeOK, faultVars
    <2> QED
      BY <1>12, <2>1 DEF ReaperWake, ReapInbox, ReaperError, TypeOK, RowsTypeOK,
                         LoopsTypeOK, Busy, rowVars, loopVars, inboxVars
  <1>13. CASE ReapBatch
    <2>1. RowsTypeOK' /\ reaper' \in {"sweeping", "reaping"}
      BY <1>13, DeleteRowsType DEF ReapBatch, TypeOK
    <2> QED
      BY <1>13, <2>1 DEF ReapBatch, TypeOK, LoopsTypeOK, Busy, loopVars, inboxVars, faultVars
  <1>14. CASE Submit
    <2>1. RowsTypeOK'
      BY <1>14, InsertRowsType DEF Submit, TypeOK
    <2> QED
      BY <1>14, <2>1 DEF Submit, TypeOK, LoopsTypeOK, Busy, loopVars, inboxVars, faultVars
  <1>15. CASE Revive
    <2>1. RowsTypeOK'
      BY <1>15, RetryDeadType DEF Revive, TypeOK
    <2> QED
      BY <1>15, <2>1 DEF Revive, TypeOK, LoopsTypeOK, Busy, loopVars, inboxVars
  <1>16. CASE Shutdown
    BY <1>16 DEF Shutdown, TypeOK, RowsTypeOK, LoopsTypeOK, Busy, rowVars, loopVars,
                 inboxVars, faultVars
  <1>17. CASE Tick
    <2>1. RowsTypeOK'
      BY <1>17, AgeRowsType DEF Tick, TypeOK
    <2>2. inboxKeep' \in [Task -> Nat]
      BY <1>17 DEF Tick, TypeOK, Monus
    <2>3. FaultsTypeOK'
      BY <1>17 DEF Tick, TypeOK
    <2> QED
      BY <1>17, <2>1, <2>2, <2>3 DEF Tick, TypeOK, LoopsTypeOK, Busy, loopVars
  <1> QED
    BY <1>1, <1>2, <1>3, <1>4, <1>5, <1>6, <1>7, <1>8, <1>9, <1>10, <1>11, <1>12,
       <1>13, <1>14, <1>15, <1>16, <1>17
    DEF Next, Advance, WorkerFault, Reap

\* Every variable stays in its type, and a loop has a task in hand exactly
\* between its claim and the statement that settles it.
THEOREM TypeCorrect == Spec => []TypeOK
  BY InitType, NextType, PTL DEF Spec

----------------------------------------------------------------------------
(* What a step does to the rows. *)

LEMMA RowSteps ==
  ASSUME [Next]_vars
  PROVE  \/ UNCHANGED rowVars
         \/ \E w \in Worker : \E locked \in SUBSET MaybeLocked(w), t \in Task :
                ClaimRow(QueueOf[w], locked, t)
         \/ \E w \in Worker : Beat(w) \/ Complete(w) \/ Fail(w)
         \/ \E S \in SUBSET Reapable : DeleteRows(S)
         \/ Submit \/ Revive \/ Tick
  <1>1. CASE UNCHANGED vars
    BY <1>1 DEF vars
  <1>2. ASSUME NEW w \in Worker, Advance(w) \/ WorkerFault(w) \/ Restart(w)
        PROVE  \/ UNCHANGED rowVars
               \/ \E locked \in SUBSET MaybeLocked(w), t \in Task :
                      ClaimRow(QueueOf[w], locked, t)
               \/ Complete(w) \/ Fail(w)
    BY <1>2 DEF Advance, WorkerFault, LoopTop, Claim, ClaimNothing, Wake, CheckInbox,
                HandlerOk, HandlerErr, MarkInbox, ClaimError, CheckInboxError,
                MarkInboxError, FinishError, Crash, Restart
  <1>3. CASE Reap \/ ReaperError \/ Shutdown
    BY <1>3 DEF Reap, ReaperWake, ReapBatch, ReapInbox, ReaperError, Shutdown
  <1> QED
    BY <1>1, <1>2, <1>3 DEF Next

\* The history of what went wrong only grows.
LEMMA CountersGrow ==
  ASSUME TypeOK, [Next]_vars
  PROVE  /\ overruns' = 0 => overruns = 0
         /\ revivals' = 0 => revivals = 0
         /\ dbErrors' = 0 => dbErrors = 0
         /\ Faults' \in Nat /\ Faults \in Nat /\ Faults' >= Faults
  <1>0. /\ crashes \in Nat /\ dbErrors \in Nat /\ overruns \in Nat /\ revivals \in Nat
        /\ Faults \in Nat
    BY DEF TypeOK, Faults
  <1>1. CASE UNCHANGED vars
    BY <1>0, <1>1 DEF vars, faultVars, Faults
  <1>2. ASSUME NEW w \in Worker,
               Advance(w) \/ Beat(w) \/ Restart(w)
        PROVE  UNCHANGED faultVars
    BY <1>2 DEF Advance, LoopTop, Claim, ClaimNothing, Wake, CheckInbox, Beat, HandlerOk,
                HandlerErr, MarkInbox, Complete, Fail, Restart
  <1>3. ASSUME NEW w \in Worker, WorkerFault(w)
        PROVE  /\ UNCHANGED <<overruns, revivals>>
               /\ \/ crashes' = crashes + 1 /\ dbErrors' = dbErrors
                  \/ crashes' = crashes /\ dbErrors' = dbErrors + 1
    BY <1>3 DEF WorkerFault, ClaimError, CheckInboxError, MarkInboxError, FinishError,
                Crash, DbError
  <1>4. CASE Reap \/ Submit \/ Shutdown
    BY <1>0, <1>4 DEF Reap, ReaperWake, ReapBatch, ReapInbox, Submit, Shutdown,
                      faultVars, Faults
  <1>5. CASE ReaperError \/ Revive \/ Tick
    BY <1>0, <1>5 DEF ReaperError, DbError, Revive, Tick, Faults
  <1> QED
    BY <1>0, <1>1, <1>2, <1>3, <1>4, <1>5 DEF Next, faultVars, Faults

----------------------------------------------------------------------------
(* The deduplication key. *)

\* Every step is a statement on the rows.
LEMMA DedupStep == TypeOK /\ DedupUnique /\ [Next]_vars => DedupUnique'
  <1> SUFFICES ASSUME TypeOK, DedupUnique, [Next]_vars PROVE DedupUnique'
    OBVIOUS
  <1>1. ASSUME NEW w \in Worker, Beat(w) \/ Complete(w) \/ Fail(w) PROVE Statement
    <2>1. held[w] \in Task /\ token[w] \in Nat
      BY <1>1 DEF Beat, Complete, Fail, TypeOK, LoopsTypeOK, Busy, InHand
    <2> QED
      BY <1>1, <2>1, LoopAssumption DEF Beat, Complete, Fail, Statement
  <1>2. ASSUME Submit PROVE Statement
    <2>1. PICK S \in SUBSET Task, elapsed \in 0..LongestTx : InsertRows(S, elapsed)
      BY <1>2 DEF Submit
    <2>2. elapsed \in Nat
      OBVIOUS
    <2> QED
      BY <2>1, <2>2 DEF Statement
  <1>3. ASSUME NEW S \in SUBSET Reapable, DeleteRows(S) PROVE Statement
    <2>1. S \in SUBSET Task
      BY DEF Reapable
    <2> QED
      BY <1>3, <2>1 DEF Statement
  <1>4. ASSUME Revive \/ Tick PROVE Statement
    BY <1>4 DEF Revive, Tick, Statement
  <1> QED
    BY <1>1, <1>2, <1>3, <1>4, RowSteps, StatementKeys DEF Statement, TypeOK

\* No sequence of submissions, stale failures and retries of dead rows makes
\* two active rows share a key.
THEOREM DedupCorrect == Spec => []DedupUnique
  <1>1. Init => DedupUnique
    BY NoRows DEF Init
  <1> QED
    BY <1>1, TypeCorrect, DedupStep, PTL DEF Spec

----------------------------------------------------------------------------
(* At least once. *)

\* The evidence behind AtLeastOnce: what lets a loop complete a task, its own
\* handler call or a row of the inbox, comes from a handler that returned Ok.
Evidence ==
    /\ AtLeastOnce
    /\ \A t \in inbox : okRuns[t] > 0
    /\ \A w \in Worker : pc[w] \in {"marking", "completing"} => okRuns[held[w]] > 0

LEMMA EvidenceStep == TypeOK /\ Evidence /\ [Next]_vars => Evidence'
  <1> SUFFICES ASSUME TypeOK, Evidence, [Next]_vars PROVE Evidence'
    OBVIOUS
  <1> DEFINE Done(w) == pc[w] \in {"marking", "completing"}
  <1>a. ASSUME inbox' \subseteq inbox,
               okRuns' \in [Task -> Nat], \A t \in Task : okRuns'[t] >= okRuns[t],
               \A t \in Task : status'[t] = "delivered" => status[t] = "delivered",
               \A w \in Worker : Done(w)' => /\ held'[w] = held[w] /\ held[w] \in Task
                                             /\ okRuns'[held[w]] > 0
        PROVE  Evidence'
    BY <1>a DEF Evidence, AtLeastOnce, TypeOK
  <1>b. ASSUME UNCHANGED <<inbox, okRuns>>,
               \A t \in Task : status'[t] = "delivered" => status[t] = "delivered",
               \A w \in Worker : Done(w)' => Done(w) /\ held'[w] = held[w]
        PROVE  Evidence'
    BY <1>b DEF Evidence, AtLeastOnce, TypeOK
  <1>1. CASE UNCHANGED vars
    BY <1>1, <1>b DEF vars, rowVars, loopVars, inboxVars
  <1>2. ASSUME NEW w \in Worker,
               \/ LoopTop(w) \/ ClaimNothing(w) \/ Wake(w) \/ CheckInboxError(w)
               \/ HandlerErr(w) \/ Restart(w)
        PROVE  Evidence'
    BY <1>2, <1>b DEF LoopTop, ClaimNothing, Wake, CheckInboxError, HandlerErr, Restart,
                      Goto, rowVars, inboxVars, TypeOK, LoopsTypeOK
  <1>3. ASSUME NEW w \in Worker, Claim(w) \/ ClaimError(w) PROVE Evidence'
    <2>1. \A t \in Task : status'[t] = "delivered" => status[t] = "delivered"
      BY <1>3 DEF Claim, ClaimError, ClaimRow, rowVars, TypeOK, RowsTypeOK
    <2>2. \A v \in Worker : Done(v)' => Done(v) /\ held'[v] = held[v]
      BY <1>3 DEF Claim, ClaimError, Take, Goto, TypeOK, LoopsTypeOK
    <2>3. UNCHANGED <<inbox, okRuns>>
      BY <1>3 DEF Claim, ClaimError, inboxVars
    <2> QED
      BY <2>1, <2>2, <2>3, <1>b
  <1>4. ASSUME NEW w \in Worker, CheckInbox(w) PROVE Evidence'
    <2>1. /\ held' = held /\ UNCHANGED <<inbox, okRuns, status>>
          /\ \A v \in Worker : Done(v)' => Done(v) \/ held[v] \in inbox
      BY <1>4 DEF CheckInbox, Goto, rowVars, inboxVars, TypeOK, LoopsTypeOK
    <2> QED
      BY <2>1 DEF Evidence, AtLeastOnce
  <1>5. ASSUME NEW w \in Worker, Beat(w) PROVE Evidence'
    BY <1>5, <1>b DEF Beat, Heartbeat, loopVars, inboxVars
  <1>6. ASSUME NEW w \in Worker, HandlerOk(w) PROVE Evidence'
    <2>1. held[w] \in Task
      BY <1>6 DEF HandlerOk, TypeOK, LoopsTypeOK, Busy, InHand
    <2>2. /\ okRuns' \in [Task -> Nat] /\ \A t \in Task : okRuns'[t] >= okRuns[t]
          /\ okRuns'[held[w]] > 0
      BY <1>6, <2>1 DEF HandlerOk, TypeOK
    <2>3. ASSUME NEW v \in Worker, Done(v)'
          PROVE  held'[v] = held[v] /\ held[v] \in Task /\ okRuns'[held[v]] > 0
      <3>1. held'[v] = held[v]
        BY <1>6 DEF HandlerOk, Goto
      <3>2. CASE v = w
        BY <2>1, <2>2, <3>1, <3>2
      <3>3. CASE v # w
        <4>1. Done(v)
          BY <1>6, <2>3, <3>3 DEF HandlerOk, Goto, TypeOK, LoopsTypeOK
        <4>2. held[v] \in Task /\ okRuns[held[v]] > 0
          BY <4>1 DEF Evidence, TypeOK, LoopsTypeOK, Busy, InHand
        <4> QED
          BY <2>2, <3>1, <4>2 DEF TypeOK
      <3> QED
        BY <3>2, <3>3
    <2> QED
      BY <1>6, <1>a, <2>2, <2>3 DEF HandlerOk, rowVars, inboxVars
  <1>7. ASSUME NEW w \in Worker, MarkInbox(w) \/ MarkInboxError(w) PROVE Evidence'
    <2>1. Done(w)
      BY <1>7 DEF MarkInbox, MarkInboxError
    <2>2. /\ held' = held /\ UNCHANGED <<okRuns, status>>
          /\ inbox' \subseteq inbox \union {held[w]}
          /\ \A v \in Worker : Done(v)' => Done(v)
      BY <1>7 DEF MarkInbox, MarkInboxError, Goto, rowVars, inboxVars, TypeOK, LoopsTypeOK
    <2> QED
      BY <2>1, <2>2 DEF Evidence, AtLeastOnce
  <1>8. ASSUME NEW w \in Worker, Complete(w) PROVE Evidence'
    <2>1. held[w] \in Task /\ okRuns[held[w]] > 0
      BY <1>8 DEF Complete, TypeOK, LoopsTypeOK, Busy, InHand, Evidence
    <2>2. \A t \in Task : status'[t] = "delivered" => status[t] = "delivered" \/ t = held[w]
      BY <1>8 DEF Complete, MarkDelivered, rowVars, TypeOK, RowsTypeOK
    <2>3. /\ UNCHANGED <<inbox, okRuns>>
          /\ \A v \in Worker : Done(v)' => Done(v) /\ held'[v] = held[v]
      BY <1>8 DEF Complete, Drop, inboxVars, TypeOK, LoopsTypeOK
    <2> QED
      BY <2>1, <2>2, <2>3 DEF Evidence, AtLeastOnce
  <1>9. ASSUME NEW w \in Worker, Fail(w) \/ FinishError(w) \/ Crash(w) PROVE Evidence'
    <2>1. \A t \in Task : status'[t] = "delivered" => status[t] = "delivered"
      BY <1>9 DEF Fail, FinishError, Crash, MarkFailed, Bury, Reschedule, rowVars,
                  TypeOK, RowsTypeOK
    <2>2. /\ UNCHANGED <<inbox, okRuns>>
          /\ \A v \in Worker : Done(v)' => Done(v) /\ held'[v] = held[v]
      BY <1>9 DEF Fail, FinishError, Crash, Drop, inboxVars, TypeOK, LoopsTypeOK
    <2> QED
      BY <2>1, <2>2, <1>b
  <1>10. CASE ReaperWake \/ ReapInbox \/ ReaperError \/ Shutdown \/ Tick
    BY <1>10 DEF ReaperWake, ReapInbox, ReaperError, Shutdown, Tick, AgeRows,
                 rowVars, loopVars, inboxVars, Evidence, AtLeastOnce
  <1>11. CASE ReapBatch \/ Submit \/ Revive
    <2>1. \A t \in Task : status'[t] = "delivered" => status[t] = "delivered"
      BY <1>11 DEF ReapBatch, DeleteRows, Submit, InsertRows, Revive, RetryDead,
                   TypeOK, RowsTypeOK
    <2>2. UNCHANGED <<inbox, okRuns, pc, held>>
      BY <1>11 DEF ReapBatch, Submit, Revive, loopVars, inboxVars
    <2> QED
      BY <2>1, <2>2, <1>b
  <1> QED
    BY <1>1, <1>2, <1>3, <1>4, <1>5, <1>6, <1>7, <1>8, <1>9, <1>10, <1>11
    DEF Next, Advance, WorkerFault, Reap

\* A delivered row has been through a handler that returned Ok, whatever
\* crashes, failing statements and overrun leases came in between.
THEOREM AtLeastOnceCorrect == Spec => []AtLeastOnce
  <1>1. Init => Evidence
    BY DEF Init, RowsInit, Evidence, AtLeastOnce
  <1>2. Evidence => AtLeastOnce
    BY DEF Evidence
  <1> QED
    BY <1>1, <1>2, TypeCorrect, EvidenceStep, PTL DEF Spec

----------------------------------------------------------------------------
(* Leases. *)

\* What Lease says of the task loop w has in hand.
Leased(w) ==
    /\ status[held[w]] = "claimed"
    /\ visibleIn[held[w]] > 0
    /\ token[w] = attempts[held[w]]

OneHand == \A v, w \in Worker : Busy(v) /\ held[v] = held[w] => v = w

LEMMA LeaseParts == Lease <=> (overruns = 0 => /\ \A w \in Worker : Busy(w) => Leased(w)
                                               /\ OneHand)
  BY DEF Lease, Leased, OneHand

\* Nobody takes a task over: what is in hand afterwards was before.
LEMMA LeaseKept ==
  ASSUME TypeOK, TypeOK', OneHand,
         \A w \in Worker : Busy(w)' => /\ Busy(w) /\ held'[w] = held[w]
                                       /\ Leased(w)'
  PROVE  Lease'
  <1>1. ASSUME NEW v \in Worker, NEW w \in Worker, Busy(v)', held'[v] = held'[w]
        PROVE  v = w
    <2>1. Busy(w)'
      BY <1>1 DEF TypeOK, LoopsTypeOK
    <2> QED
      BY <1>1, <2>1 DEF OneHand
  <1> QED
    BY <1>1 DEF Lease, Leased

LEMMA LeaseStep == TypeOK /\ TypeOK' /\ Lease /\ [Next]_vars => Lease'
  <1> SUFFICES ASSUME TypeOK, TypeOK', Lease, [Next]_vars, overruns' = 0 PROVE Lease'
    BY DEF Lease
  <1>z. overruns = 0
    BY CountersGrow
  <1>i. OneHand /\ \A w \in Worker : Busy(w) => Leased(w)
    BY <1>z DEF Lease, Leased, OneHand
  <1>h. \A w \in Worker : Busy(w) => held[w] \in Task
    BY DEF TypeOK, LoopsTypeOK
  \* A step that leaves the rows in hand alone.
  <1>a. ASSUME \A w \in Worker : Busy(w)' =>
                  /\ Busy(w) /\ held'[w] = held[w] /\ token'[w] = token[w]
                  /\ status'[held[w]] = "claimed"
                  /\ attempts'[held[w]] = attempts[held[w]]
                  /\ visibleIn'[held[w]] > 0
        PROVE  Lease'
    <2>1. ASSUME NEW w \in Worker, Busy(w)'
          PROVE  Busy(w) /\ held'[w] = held[w] /\ Leased(w)'
      BY <1>a, <1>i, <2>1 DEF Leased
    <2> QED
      BY <1>i, <2>1, LeaseKept
  \* A step of one loop that leaves all rows alone and takes no task.
  <1>b. ASSUME UNCHANGED rowVars,
               \A w \in Worker : Busy(w)' => /\ Busy(w) /\ held'[w] = held[w]
                                             /\ token'[w] = token[w]
        PROVE  Lease'
    BY <1>a, <1>b, <1>i DEF rowVars, Leased
  <1>1. CASE UNCHANGED vars
    BY <1>1, <1>b DEF vars, loopVars, Busy
  <1>2. ASSUME NEW w \in Worker,
               \/ LoopTop(w) \/ ClaimNothing(w) \/ Wake(w) \/ Restart(w)
               \/ CheckInbox(w) \/ CheckInboxError(w) \/ HandlerOk(w) \/ HandlerErr(w)
               \/ MarkInbox(w) \/ MarkInboxError(w) \/ FinishError(w) \/ Crash(w)
        PROVE  Lease'
    <2>1. UNCHANGED rowVars
      BY <1>2 DEF LoopTop, ClaimNothing, Wake, Restart, CheckInbox, CheckInboxError,
                  HandlerOk, HandlerErr, MarkInbox, MarkInboxError, FinishError, Crash
    <2>2. ASSUME NEW v \in Worker, Busy(v)'
          PROVE  Busy(v) /\ held'[v] = held[v] /\ token'[v] = token[v]
      BY <1>2, <2>2 DEF LoopTop, ClaimNothing, Wake, Restart, CheckInbox, CheckInboxError,
                  HandlerOk, HandlerErr, MarkInbox, MarkInboxError, FinishError, Crash,
                  Goto, Drop, Busy, InHand, TypeOK, LoopsTypeOK
    <2> QED
      BY <2>1, <2>2, <1>b
  \* The row a claim takes is in nobody's hand: it is not hidden.
  <1>c. ASSUME NEW t \in Task, NEW q, NEW locked, ClaimRow(q, locked, t)
        PROVE  \A v \in Worker : Busy(v) =>
                  /\ held[v] # t
                  /\ status'[held[v]] = status[held[v]]
                  /\ attempts'[held[v]] = attempts[held[v]]
                  /\ visibleIn'[held[v]] = visibleIn[held[v]]
    <2>1. visibleIn[t] <= 0 /\ visibleIn[t] \in Int
      BY <1>c DEF ClaimRow, Claimable, TypeOK, RowsTypeOK
    <2>2. ASSUME NEW v \in Worker, Busy(v) PROVE held[v] # t /\ held[v] \in Task
      BY <1>i, <1>h, <2>1, <2>2 DEF Leased
    <2> QED
      BY <1>c, <2>2 DEF ClaimRow, TypeOK, RowsTypeOK
  <1>3. ASSUME NEW w \in Worker, Claim(w) PROVE Lease'
    <2>1. PICK locked \in SUBSET MaybeLocked(w), t \in Task :
               ClaimRow(QueueOf[w], locked, t) /\ Take(w, t)
      BY <1>3 DEF Claim
    <2>2. /\ held'[w] = t /\ Leased(w)'
          /\ ~Busy(w)
      BY <1>3, <2>1, DurationAssumption
      DEF Claim, ClaimRow, Take, Leased, Busy, InHand, TypeOK, LoopsTypeOK, RowsTypeOK
    <2>3. ASSUME NEW v \in Worker, v # w, Busy(v)'
          PROVE  Busy(v) /\ held'[v] = held[v] /\ held[v] # t /\ Leased(v)'
      <3>1. Busy(v) /\ held'[v] = held[v] /\ token'[v] = token[v]
        BY <2>1, <2>3 DEF Take, Busy, TypeOK, LoopsTypeOK
      <3> QED
        BY <1>c, <1>i, <2>1, <3>1 DEF Leased
    <2>4. ASSUME NEW u \in Worker, NEW v \in Worker, Busy(u)', held'[u] = held'[v]
          PROVE  u = v
      <3>1. Busy(v)'
        BY <2>4 DEF TypeOK, LoopsTypeOK
      <3> QED
        BY <1>i, <2>2, <2>3, <2>4, <3>1 DEF OneHand
    <2> QED
      BY <2>2, <2>3, <2>4 DEF Lease, Leased
  <1>4. ASSUME NEW w \in Worker, ClaimError(w) PROVE Lease'
    <2>1. \A v \in Worker : Busy(v)' => /\ Busy(v) /\ held'[v] = held[v]
                                        /\ token'[v] = token[v]
      BY <1>4 DEF ClaimError, Goto, Busy, InHand, TypeOK, LoopsTypeOK
    <2>2. CASE UNCHANGED rowVars
      BY <2>1, <2>2, <1>b
    <2>3. CASE \E locked \in SUBSET MaybeLocked(w), t \in Task :
                  ClaimRow(QueueOf[w], locked, t)
      BY <2>1, <2>3, <1>a, <1>c, <1>i DEF Leased
    <2> QED
      BY <1>4, <2>2, <2>3 DEF ClaimError
  <1>5. ASSUME NEW w \in Worker, Beat(w) PROVE Lease'
    <2>1. PICK e \in Extensions : Heartbeat(held[w], e)
      BY <1>5 DEF Beat
    <2>2. e > 0 /\ e \in Nat
      BY LoopAssumption
    <2>3. ASSUME NEW v \in Worker, Busy(v)'
          PROVE  /\ Busy(v) /\ held'[v] = held[v] /\ token'[v] = token[v]
                 /\ UNCHANGED <<status, attempts>>
                 /\ visibleIn'[held[v]] > 0
      <3>1. Busy(v) /\ held' = held /\ token' = token
        BY <1>5, <2>3 DEF Beat, loopVars, Busy
      <3>2. visibleIn[held[v]] > 0 /\ held[v] \in Task
        BY <1>i, <1>h, <3>1 DEF Leased
      <3> QED
        BY <2>1, <2>2, <3>1, <3>2 DEF Heartbeat, TypeOK, RowsTypeOK
    <2> QED
      BY <2>3, <1>a, <1>i DEF Leased
  <1>6. ASSUME NEW w \in Worker, Complete(w) \/ Fail(w) PROVE Lease'
    <2>1. Drop(w, "top") /\ Busy(w) /\ held[w] \in Task
      BY <1>6, <1>h DEF Complete, Fail, Busy, InHand
    <2>2. \A t \in Task \ {held[w]} : /\ status'[t] = status[t]
                                      /\ attempts'[t] = attempts[t]
                                      /\ visibleIn'[t] = visibleIn[t]
      BY <1>6 DEF Complete, Fail, MarkDelivered, MarkFailed, Bury, Reschedule, rowVars,
                  TypeOK, RowsTypeOK
    <2>3. ASSUME NEW v \in Worker, Busy(v)'
          PROVE  /\ v # w /\ Busy(v) /\ held'[v] = held[v] /\ token'[v] = token[v]
                 /\ held[v] \in Task \ {held[w]}
      <3>1. v # w /\ Busy(v) /\ held'[v] = held[v] /\ token'[v] = token[v]
        BY <2>1, <2>3 DEF Drop, Busy, InHand, TypeOK, LoopsTypeOK
      <3> QED
        BY <1>i, <1>h, <3>1 DEF OneHand
    <2> QED
      BY <2>2, <2>3, <1>a, <1>i DEF Leased
  <1>7. CASE ReaperWake \/ ReapInbox \/ ReaperError \/ Shutdown
    BY <1>7, <1>b DEF ReaperWake, ReapInbox, ReaperError, Shutdown, loopVars, Busy
  \* The reaper, submissions and retries touch no claimed row.
  <1>8. CASE ReapBatch \/ Submit \/ Revive
    <2>1. UNCHANGED loopVars
      BY <1>8 DEF ReapBatch, Submit, Revive
    <2>2. \A t \in Task : status[t] = "claimed" => /\ status'[t] = "claimed"
                                                   /\ attempts'[t] = attempts[t]
                                                   /\ visibleIn'[t] = visibleIn[t]
      BY <1>8 DEF ReapBatch, Reapable, DeleteRows, Submit, InsertRows, Revive, RetryDead,
                  TypeOK, RowsTypeOK
    <2> QED
      BY <2>1, <2>2, <1>a, <1>i, <1>h DEF loopVars, Busy, Leased
  <1>9. CASE Tick
    <2>1. /\ UNCHANGED loopVars /\ UNCHANGED <<status, attempts>>
          /\ visibleIn' = [t \in Task |-> Monus(visibleIn[t], 1)]
          /\ ~LeaseEnds
      BY <1>9, <1>z DEF Tick, AgeRows
    <2>2. ASSUME NEW v \in Worker, Busy(v) PROVE visibleIn'[held[v]] > 0
      <3>1. visibleIn[held[v]] \in Int /\ visibleIn[held[v]] > 0 /\ visibleIn[held[v]] # 1
        BY <1>i, <1>h, <2>1, <2>2 DEF Leased, LeaseEnds, TypeOK, RowsTypeOK
      <3> QED
        BY <1>h, <2>1, <2>2, <3>1 DEF Monus
    <2> QED
      BY <2>1, <2>2, <1>a, <1>i DEF loopVars, Busy, Leased
  <1> QED
    BY <1>1, <1>2, <1>3, <1>4, <1>5, <1>6, <1>7, <1>8, <1>9
    DEF Next, Advance, WorkerFault, Reap

\* While no lease is overrun, a task in hand is claimed, hidden, and in one
\* hand, and the loop's copy of attempts is the row's.
THEOREM LeaseCorrect == Spec => []Lease
  <1>1. Init => Lease
    BY DEF Init, Lease, Busy, InHand
  <1> QED
    BY <1>1, TypeCorrect, LeaseStep, PTL DEF Spec

----------------------------------------------------------------------------
(* A delivered row stays delivered. *)

LEMMA FinalStep == TypeOK /\ Lease /\ [Next]_vars => (overruns = 0 => StaysDelivered)
  <1> SUFFICES ASSUME TypeOK, Lease, [Next]_vars, overruns = 0,
                      NEW t \in Task, status[t] = "delivered"
               PROVE  status'[t] \in {"delivered", "gone"}
    BY DEF StaysDelivered
  <1>1. ASSUME NEW w \in Worker, Complete(w) \/ Fail(w)
        PROVE  status'[t] = "delivered"
    <2>1. held[w] \in Task /\ held[w] # t
      BY <1>1 DEF Complete, Fail, Busy, InHand, Lease, TypeOK, LoopsTypeOK
    <2> QED
      BY <1>1, <2>1 DEF Complete, Fail, MarkDelivered, MarkFailed, Bury, Reschedule,
                        rowVars, TypeOK, RowsTypeOK
  <1>2. ASSUME NEW q, NEW locked, NEW u \in Task, ClaimRow(q, locked, u)
        PROVE  status'[t] = "delivered"
    BY <1>2 DEF ClaimRow, Claimable, Active, TypeOK, RowsTypeOK
  <1>3. ASSUME NEW S \in SUBSET Reapable, DeleteRows(S)
        PROVE  status'[t] \in {"delivered", "gone"}
    BY <1>3 DEF DeleteRows
  <1>4. CASE UNCHANGED rowVars
    BY <1>4 DEF rowVars
  <1>5. ASSUME NEW w \in Worker, Beat(w) PROVE status' = status
    BY <1>5 DEF Beat, Heartbeat
  <1>6. CASE Submit \/ Revive \/ Tick
    BY <1>6 DEF Submit, InsertRows, Revive, RetryDead, Tick, AgeRows, TypeOK, RowsTypeOK
  <1> QED
    BY <1>1, <1>2, <1>3, <1>4, <1>5, <1>6, RowSteps

\* While no lease is overrun, a delivered row stays so until it is reaped.
THEOREM DeliveredCorrect == Spec => DeliveredIsFinalInTime
  <1>1. TypeOK /\ Lease /\ [Next]_vars => [overruns = 0 => StaysDelivered]_vars
    BY FinalStep
  <1> QED
    BY <1>1, TypeCorrect, LeaseCorrect, PTL DEF Spec, DeliveredIsFinalInTime

----------------------------------------------------------------------------
(* What each fault costs.  For one task, its loops and its row form an      *)
(* account: every loop that may still ask for another claim or run, and a  *)
(* row that offers one, is a debt.  Loops and statements only move debts   *)
(* about; a crash, a failed statement or an overrun lease adds one.        *)

Hands(t) == {w \in Worker : held[w] = t}

\* A claim may take the row, now or when its time comes.
Open(t) == \/ status[t] \in {"absent", "pending"}
           \/ status[t] = "claimed" /\ (visibleIn[t] <= 0 \/ Hands(t) = {})

\* ... or after a call of retry_dead.
Reopens(t) == Open(t) \/ status[t] = "dead"

\* The handler has not returned Ok: the loop may still report a failure.
Unrun(w) == pc[w] \in {"checking", "handling", "failing"}

\* What a step keeps of loop v's part in t.
Same(v, t) ==
    /\ held'[v] = t <=> held[v] = t
    /\ held[v] = t => token'[v] = token[v] /\ (Unrun(v)' => Unrun(v))

\* The steps, as the account of t sees them.
Idle(t) ==
    /\ \A v \in Worker : Same(v, t)
    /\ attempts'[t] = attempts[t] /\ okRuns'[t] = okRuns[t]
    /\ Open(t)' => Open(t)
    /\ Reopens(t)' => Reopens(t)

Runs(w, t) ==
    /\ \A v \in Worker : Same(v, t)
    /\ held[w] = t /\ Unrun(w) /\ ~Unrun(w)'
    /\ attempts'[t] = attempts[t] /\ okRuns'[t] = okRuns[t] + 1
    /\ Open(t)' => Open(t)
    /\ Reopens(t)' => Reopens(t)

Lapses(t) ==
    /\ \A v \in Worker : Same(v, t)
    /\ attempts'[t] = attempts[t] /\ okRuns'[t] = okRuns[t]
    /\ overruns' = overruns + 1

Takes(w, t) ==
    /\ \A v \in Worker \ {w} : Same(v, t)
    /\ held[w] # t /\ held'[w] = t /\ token'[w] = attempts[t] + 1
    /\ attempts'[t] = attempts[t] + 1 /\ okRuns'[t] = okRuns[t]
    /\ Open(t) /\ ~Reopens(t)'

LosesClaim(t) ==
    /\ \A v \in Worker : Same(v, t)
    /\ attempts'[t] = attempts[t] + 1 /\ okRuns'[t] = okRuns[t]
    /\ Open(t)
    /\ Faults' = Faults + 1

LetsGo(w, t) ==
    /\ \A v \in Worker \ {w} : Same(v, t)
    /\ held[w] = t /\ held'[w] # t
    /\ attempts'[t] = attempts[t] /\ okRuns'[t] = okRuns[t]

Crashes(w, t) == LetsGo(w, t) /\ Faults' = Faults + 1

Reports(w, t) ==
    /\ LetsGo(w, t)
    /\ Unrun(w) \/ (Reopens(t)' => Reopens(t))
    /\ Open(t)' => Open(t) \/ token[w] < MaxRetries[t]

Revives(t) ==
    /\ \A v \in Worker : Same(v, t)
    /\ status[t] = "dead"
    /\ attempts'[t] = 0 /\ okRuns'[t] = okRuns[t]

Accounted(t) ==
    \/ Idle(t) \/ Lapses(t) \/ LosesClaim(t) \/ Revives(t)
    \/ \E w \in Worker : Runs(w, t) \/ Takes(w, t) \/ Crashes(w, t) \/ Reports(w, t)

LEMMA AccountStep ==
  ASSUME TypeOK, TypeOK', [Next]_vars, NEW t \in Task
  PROVE  Accounted(t)
  <1>h. \A v \in Worker : Busy(v) <=> held[v] \in Task
    BY DEF TypeOK, LoopsTypeOK
  <1>u. UNCHANGED pc => \A v \in Worker : Unrun(v)' <=> Unrun(v)
    BY DEF Unrun
  \* Neither the row nor who has it in hand changes.
  <1>a. ASSUME UNCHANGED rowVars, UNCHANGED <<held, token>>, okRuns'[t] = okRuns[t],
               \A v \in Worker : Unrun(v)' => Unrun(v) \/ held[v] # t
        PROVE  Idle(t)
    BY <1>a DEF rowVars, Idle, Same, Open, Reopens, Hands
  <1>1. CASE UNCHANGED vars
    BY <1>1, <1>a DEF vars, loopVars, Unrun, Accounted
  <1>2. ASSUME NEW w \in Worker,
               \/ LoopTop(w) \/ ClaimNothing(w) \/ Wake(w) \/ Restart(w)
               \/ CheckInbox(w) \/ CheckInboxError(w) \/ HandlerErr(w)
               \/ MarkInbox(w) \/ MarkInboxError(w)
        PROVE  Idle(t)
    <2>1. UNCHANGED rowVars /\ UNCHANGED <<held, token, okRuns>>
      BY <1>2 DEF LoopTop, ClaimNothing, Wake, Restart, CheckInbox, CheckInboxError,
                  HandlerErr, MarkInbox, MarkInboxError, Goto
    <2>2. \A v \in Worker : Unrun(v)' => Unrun(v)
      BY <1>2 DEF LoopTop, ClaimNothing, Wake, Restart, CheckInbox, CheckInboxError,
                  HandlerErr, MarkInbox, MarkInboxError, Goto, Unrun, TypeOK, LoopsTypeOK
    <2> QED
      BY <2>1, <2>2, <1>a
  <1>3. ASSUME NEW w \in Worker, HandlerOk(w) PROVE Idle(t) \/ Runs(w, t)
    <2>1. /\ UNCHANGED rowVars /\ UNCHANGED <<held, token>>
          /\ okRuns' = [okRuns EXCEPT ![held[w]] = @ + 1]
          /\ Unrun(w) /\ ~Unrun(w)'
          /\ \A v \in Worker : Unrun(v)' => Unrun(v)
      BY <1>3 DEF HandlerOk, Goto, Unrun, TypeOK, LoopsTypeOK
    <2>2. CASE held[w] # t
      BY <2>1, <2>2, <1>a DEF TypeOK
    <2>3. CASE held[w] = t
      BY <2>1, <2>3 DEF Runs, Same, Open, Reopens, Hands, rowVars, TypeOK
    <2> QED
      BY <2>2, <2>3
  \* A claim of another row.
  <1>c. ASSUME NEW q, NEW locked, NEW u \in Task, ClaimRow(q, locked, u)
        PROVE  /\ t # u => /\ status'[t] = status[t] /\ attempts'[t] = attempts[t]
                           /\ visibleIn'[t] = visibleIn[t]
               /\ t = u => /\ status'[t] = "claimed" /\ attempts'[t] = attempts[t] + 1
                           /\ visibleIn'[t] > 0 /\ Open(t)
    BY <1>c, DurationAssumption DEF ClaimRow, Claimable, Active, Open, TypeOK, RowsTypeOK
  <1>4. ASSUME NEW w \in Worker, Claim(w) PROVE Idle(t) \/ Takes(w, t)
    <2>1. PICK locked \in SUBSET MaybeLocked(w), u \in Task :
               ClaimRow(QueueOf[w], locked, u) /\ Take(w, u)
      BY <1>4 DEF Claim
    <2>2. /\ held[w] \notin Task /\ okRuns' = okRuns
          /\ held'[w] = u /\ token'[w] = attempts[u] + 1
          /\ \A v \in Worker \ {w} : /\ held'[v] = held[v] /\ token'[v] = token[v]
                                     /\ Unrun(v)' <=> Unrun(v)
      BY <1>4, <2>1 DEF Claim, Take, Unrun, TypeOK, LoopsTypeOK, Busy, InHand
    <2>3. CASE t = u
      <3>1. w \in Hands(t)'
        BY <2>2, <2>3 DEF Hands
      <3>2. ~Reopens(t)'
        BY <2>1, <2>3, <3>1, <1>c DEF Reopens, Open, TypeOK, RowsTypeOK
      <3> QED
        BY <2>1, <2>2, <2>3, <3>2, <1>c DEF Takes, Same
    <2>4. CASE t # u
      <3>1. \A v \in Worker : Same(v, t) /\ (held'[v] = t <=> held[v] = t)
        BY <2>2, <2>4 DEF Same
      <3>2. Hands(t)' = Hands(t)
        BY <3>1 DEF Hands
      <3> QED
        BY <2>1, <2>2, <2>4, <3>1, <3>2, <1>c DEF Idle, Open, Reopens
    <2> QED
      BY <2>3, <2>4
  <1>5. ASSUME NEW w \in Worker, ClaimError(w) PROVE Idle(t) \/ LosesClaim(t)
    <2>1. /\ UNCHANGED <<held, token, okRuns>> /\ Faults' = Faults + 1
          /\ \A v \in Worker : Unrun(v)' => Unrun(v)
      BY <1>5 DEF ClaimError, DbError, Goto, Faults, Unrun, TypeOK, LoopsTypeOK
    <2>2. CASE UNCHANGED rowVars
      BY <2>1, <2>2, <1>a
    <2>3. ASSUME NEW locked \in SUBSET MaybeLocked(w), NEW u \in Task,
                 ClaimRow(QueueOf[w], locked, u)
          PROVE  Idle(t) \/ LosesClaim(t)
      <3>1. CASE t = u
        BY <2>1, <2>3, <3>1, <1>c DEF LosesClaim, Same
      <3>2. CASE t # u
        BY <2>1, <2>3, <3>2, <1>c DEF Idle, Same, Open, Reopens, Hands
      <3> QED
        BY <3>1, <3>2
    <2> QED
      BY <1>5, <2>2, <2>3 DEF ClaimError
  \* A heartbeat hides the row of a loop that has it in hand.
  <1>6. ASSUME NEW w \in Worker, Beat(w) PROVE Idle(t)
    <2>1. PICK e \in Extensions : Heartbeat(held[w], e)
      BY <1>6 DEF Beat
    <2>2. e > 0 /\ e \in Nat /\ held[w] \in Task
      BY <1>6, <1>h, LoopAssumption DEF Beat, Busy, InHand
    <2>3. UNCHANGED <<held, token, pc, okRuns, status, attempts>>
      BY <1>6, <2>1 DEF Beat, Heartbeat, loopVars
    <2>4. Open(t)' => Open(t)
      <3>1. CASE t = held[w]
        <4>1. Hands(t) # {} /\ Hands(t)' = Hands(t)
          BY <2>3, <3>1 DEF Hands
        <4>2. status[t] = "claimed" => visibleIn'[t] > 0
          BY <2>1, <2>2, <3>1 DEF Heartbeat, TypeOK, RowsTypeOK
        <4>3. visibleIn'[t] \in Int
          BY DEF TypeOK, RowsTypeOK
        <4> QED
          BY <2>3, <4>1, <4>2, <4>3 DEF Open
      <3>2. CASE t # held[w]
        BY <2>1, <2>2, <2>3, <3>2 DEF Heartbeat, Open, Hands, TypeOK, RowsTypeOK
      <3> QED
        BY <3>1, <3>2
    <2> QED
      BY <2>3, <2>4 DEF Idle, Same, Reopens, Unrun
  \* Loop w gives up another task.
  <1>d. ASSUME NEW w \in Worker, held[w] # t, okRuns' = okRuns,
               held'[w] = NoTask,
               \A v \in Worker \ {w} : /\ held'[v] = held[v] /\ token'[v] = token[v]
                                       /\ Unrun(v)' <=> Unrun(v),
               status'[t] = status[t], attempts'[t] = attempts[t],
               visibleIn'[t] = visibleIn[t]
        PROVE  Idle(t)
    <2>1. \A v \in Worker : Same(v, t)
      BY <1>d, LoopAssumption DEF Same
    <2>2. Hands(t)' = Hands(t)
      BY <2>1 DEF Hands, Same
    <2> QED
      BY <2>1, <2>2, <1>d DEF Idle, Open, Reopens
  <1>e. ASSUME NEW w \in Worker, NEW place, Drop(w, place)
        PROVE  /\ held'[w] = NoTask /\ held'[w] # t
               /\ \A v \in Worker \ {w} : /\ held'[v] = held[v] /\ token'[v] = token[v]
                                          /\ Unrun(v)' <=> Unrun(v)
    BY <1>e, LoopAssumption DEF Drop, Unrun, TypeOK, LoopsTypeOK
  <1>7. ASSUME NEW w \in Worker, Complete(w) \/ Fail(w) PROVE Idle(t) \/ Reports(w, t)
    <2>1. Drop(w, "top") /\ okRuns' = okRuns /\ held[w] \in Task
      BY <1>7, <1>h DEF Complete, Fail, Busy, InHand
    <2>2. attempts' = attempts /\ visibleIn'[t] \in Int
      BY <1>7 DEF Complete, Fail, MarkDelivered, MarkFailed, Bury, Reschedule, rowVars,
                  TypeOK, RowsTypeOK
    <2>3. CASE held[w] # t
      <3>1. status'[t] = status[t] /\ visibleIn'[t] = visibleIn[t]
        BY <1>7, <2>3 DEF Complete, Fail, MarkDelivered, MarkFailed, Bury, Reschedule,
                          rowVars, TypeOK, RowsTypeOK
      <3> QED
        BY <2>1, <2>2, <2>3, <3>1, <1>d, <1>e
    <2>4. CASE held[w] = t
      <3>1. LetsGo(w, t)
        BY <2>1, <2>2, <2>4, <1>e DEF LetsGo, Same
      <3>2. Open(t)' => Open(t) \/ token[w] < MaxRetries[t]
        <4>1. CASE Complete(w)
          BY <2>1, <2>4, <4>1 DEF Complete, MarkDelivered, Exists, MessageStatus, Open,
                                  rowVars, TypeOK, RowsTypeOK
        <4>2. CASE Fail(w)
          <5>1. CASE Bury(t)
            BY <5>1 DEF Bury, Open, TypeOK, RowsTypeOK
          <5>2. CASE ~Exists(t) /\ UNCHANGED rowVars
            BY <5>2 DEF Exists, MessageStatus, Open, rowVars
          <5> QED
            BY <2>4, <4>2, <5>1, <5>2 DEF Fail, MarkFailed
        <4> QED
          BY <1>7, <4>1, <4>2
      <3>3. Unrun(w) \/ (Reopens(t)' => Reopens(t))
        <4>1. ASSUME Complete(w) PROVE Reopens(t)' => Reopens(t)
          BY <2>1, <2>4, <4>1 DEF Complete, MarkDelivered, Exists, MessageStatus, Reopens,
                                  Open, rowVars, TypeOK, RowsTypeOK
        <4>2. ASSUME Fail(w) PROVE Unrun(w)
          BY <4>2 DEF Fail, Unrun
        <4> QED
          BY <1>7, <4>1, <4>2
      <3> QED
        BY <3>1, <3>2, <3>3 DEF Reports
    <2> QED
      BY <2>3, <2>4
  <1>8. ASSUME NEW w \in Worker, FinishError(w) \/ Crash(w) PROVE Idle(t) \/ Crashes(w, t)
    <2>1. /\ \E place : Drop(w, place)
          /\ UNCHANGED rowVars /\ okRuns' = okRuns /\ Faults' = Faults + 1
      BY <1>8 DEF FinishError, Crash, DbError, Faults, TypeOK
    <2>2. CASE held[w] # t
      BY <2>1, <2>2, <1>d, <1>e DEF rowVars
    <2>3. CASE held[w] = t
      BY <2>1, <2>3, <1>e DEF Crashes, LetsGo, Same, rowVars
    <2> QED
      BY <2>2, <2>3
  <1>9. ASSUME ReaperWake \/ ReapInbox \/ ReaperError \/ Shutdown PROVE Idle(t)
    BY <1>9, <1>a, <1>u DEF ReaperWake, ReapInbox, ReaperError, Shutdown, loopVars
  <1>10. ASSUME ReapBatch \/ Submit PROVE Idle(t)
    <2>1. UNCHANGED <<pc, held, token, okRuns, attempts>>
      BY <1>10 DEF ReapBatch, DeleteRows, Submit, InsertRows, loopVars
    <2>2. \/ status'[t] = status[t] /\ visibleIn'[t] = visibleIn[t]
          \/ status'[t] = "gone"
          \/ status[t] = "absent" /\ status'[t] = "pending"
      BY <1>10 DEF ReapBatch, DeleteRows, Submit, InsertRows, TypeOK, RowsTypeOK
    <2> QED
      BY <2>1, <2>2, <1>u DEF Idle, Same, Open, Reopens, Hands
  <1>11. ASSUME Revive PROVE Idle(t) \/ Revives(t)
    <2>1. PICK u \in Task : RetryDead(u)
      BY <1>11 DEF Revive
    <2>2. UNCHANGED <<pc, held, token, okRuns>>
      BY <1>11 DEF Revive, loopVars
    <2>3. CASE t = u
      BY <2>1, <2>2, <2>3, <1>u DEF RetryDead, Revives, Same, TypeOK, RowsTypeOK
    <2>4. CASE t # u
      BY <2>1, <2>2, <2>4, <1>u DEF RetryDead, Idle, Same, Open, Reopens, Hands,
                                    TypeOK, RowsTypeOK
    <2> QED
      BY <2>3, <2>4
  <1>12. ASSUME Tick PROVE Idle(t) \/ Lapses(t)
    <2>1. UNCHANGED <<pc, held, token, okRuns, status, attempts>>
      BY <1>12 DEF Tick, AgeRows, loopVars
    <2>2. visibleIn[t] \in Int /\ visibleIn'[t] = Monus(visibleIn[t], 1)
      BY <1>12 DEF Tick, AgeRows, TypeOK, RowsTypeOK
    <2>3. CASE LeaseEnds
      BY <1>12, <2>1, <2>3, <1>u DEF Tick, Lapses, Same
    <2>4. CASE ~LeaseEnds
      <3>1. visibleIn[t] = 1 => Hands(t) = {}
        BY <2>4, <1>h DEF LeaseEnds, Hands
      <3>2. Open(t)' => Open(t)
        <4>1. visibleIn'[t] <= 0 => visibleIn[t] <= 1
          BY <2>2 DEF Monus
        <4> QED
          BY <2>1, <2>2, <3>1, <4>1 DEF Open, Hands
      <3> QED
        BY <2>1, <3>2, <1>u DEF Idle, Same, Reopens
    <2> QED
      BY <2>3, <2>4
  <1> QED
    BY <1>1, <1>2, <1>3, <1>4, <1>5, <1>6, <1>7, <1>8, <1>9, <1>10, <1>11, <1>12
    DEF Next, Advance, WorkerFault, Reap, Accounted

\* How a set of loops grows and shrinks.
LEMMA OneMore ==
  ASSUME NEW S, NEW T, NEW x, IsFiniteSet(S), T \subseteq S \union {x}
  PROVE  /\ IsFiniteSet(T) /\ Cardinality(T) \in Nat /\ Cardinality(S) \in Nat
         /\ Cardinality(T) <= Cardinality(S) + 1
  <1>0. Cardinality(S) \in Nat
    BY FS_CardinalityType
  <1>1. /\ IsFiniteSet(S \union {x})
        /\ Cardinality(S \union {x}) <= Cardinality(S) + 1
    BY <1>0, FS_AddElement
  <1>2. /\ IsFiniteSet(T) /\ Cardinality(T) <= Cardinality(S \union {x})
        /\ Cardinality(T) \in Nat /\ Cardinality(S \union {x}) \in Nat
    BY <1>1, FS_Subset, FS_CardinalityType
  <1> QED
    BY <1>0, <1>1, <1>2

LEMMA NoMore ==
  ASSUME NEW S, NEW T, IsFiniteSet(S), T \subseteq S
  PROVE  /\ IsFiniteSet(T) /\ Cardinality(T) \in Nat /\ Cardinality(S) \in Nat
         /\ Cardinality(T) <= Cardinality(S)
  BY FS_Subset, FS_CardinalityType

LEMMA OneLess ==
  ASSUME NEW S, NEW T, NEW x, IsFiniteSet(S), x \in S, T \subseteq S \ {x}
  PROVE  /\ IsFiniteSet(T) /\ Cardinality(T) \in Nat /\ Cardinality(S) \in Nat
         /\ Cardinality(T) <= Cardinality(S) - 1
  <1>1. /\ IsFiniteSet(S \ {x}) /\ Cardinality(S) \in Nat
        /\ Cardinality(S \ {x}) = Cardinality(S) - 1
    BY FS_RemoveElement, FS_CardinalityType
  <1> QED
    BY <1>1, NoMore

\* The debts of t: a hand not yet empty, a claim to come.
Claims(t) == IF Open(t) THEN 1 ELSE 0
Chances(t) == IF Reopens(t) THEN 1 ELSE 0
\* The loops that may still report a failure, and those whose report reopens
\* the row because their copy of attempts is below max_retries.
Undecided(t) == {w \in Hands(t) : Unrun(w)}
Young(t) == {w \in Hands(t) : token[w] < ClaimsAllowed(t)}

\* n overrun leases put a task in n + 1 hands at most.
OverlapNeedsOverruns == \A t \in Task : Cardinality(Hands(t)) <= 1 + overruns

HandsInv == \A t \in Task : /\ IsFiniteSet(Hands(t))
                            /\ Cardinality(Hands(t)) + Chances(t) <= 1 + overruns

AttemptsInv ==
    \A t \in Task :
        (IF attempts[t] < ClaimsAllowed(t) THEN ClaimsAllowed(t) - 1 ELSE attempts[t])
            + Cardinality(Young(t)) + Claims(t)
        <= ClaimsAllowed(t) + Faults + overruns

RepeatsInv ==
    \A t \in Task :
        okRuns[t] + Cardinality(Undecided(t)) + Chances(t) <= 1 + Faults + overruns

LEMMA FaultsGrow ==
  ASSUME TypeOK, TypeOK', [Next]_vars
  PROVE  /\ Faults \in Nat /\ Faults' \in Nat /\ Faults' >= Faults
         /\ overruns \in Nat /\ overruns' \in Nat /\ overruns' >= overruns
  <1>1. overruns \in Nat /\ overruns' \in Nat
    BY DEF TypeOK
  <1>2. overruns' = overruns \/ overruns' = overruns + 1
    BY DEF Next, vars, faultVars, Advance, WorkerFault, Reap, LoopTop, Claim, ClaimNothing,
       Wake, CheckInbox, Beat, HandlerOk, HandlerErr, MarkInbox, Complete, Fail, Restart,
       ClaimError, CheckInboxError, MarkInboxError, FinishError, Crash, DbError, ReaperWake,
       ReapBatch, ReapInbox, ReaperError, Submit, Revive, Shutdown, Tick
  <1> QED
    BY <1>1, <1>2, CountersGrow

LEMMA HandsStep == TypeOK /\ TypeOK' /\ HandsInv /\ [Next]_vars => HandsInv'
  <1> SUFFICES ASSUME TypeOK, TypeOK', HandsInv, [Next]_vars, NEW t \in Task
               PROVE  /\ IsFiniteSet(Hands(t)')
                      /\ Cardinality(Hands(t)') + Chances(t)' <= 1 + overruns'
    BY DEF HandsInv
  <1> DEFINE Good == /\ IsFiniteSet(Hands(t)')
                     /\ Cardinality(Hands(t)') + Chances(t)' <= 1 + overruns'
  <1>0. /\ overruns \in Nat /\ overruns' \in Nat /\ overruns' >= overruns
        /\ Chances(t) \in {0, 1} /\ Chances(t)' \in {0, 1}
        /\ Reopens(t) => Chances(t) = 1
        /\ ~Reopens(t)' => Chances(t)' = 0
    BY FaultsGrow DEF Chances
  <1>g. /\ IsFiniteSet(Hands(t)) /\ Cardinality(Hands(t)) \in Nat
        /\ Cardinality(Hands(t)) + Chances(t) <= 1 + overruns
    BY FS_CardinalityType DEF HandsInv
  <1>s. ASSUME \A v \in Worker : Same(v, t)
        PROVE  IsFiniteSet(Hands(t)') /\ Cardinality(Hands(t)') = Cardinality(Hands(t))
    <2>1. Hands(t)' = Hands(t)
      BY <1>s DEF Hands, Same
    <2> QED
      BY <2>1, <1>g
  <1>1. CASE Idle(t) \/ \E w \in Worker : Runs(w, t)
    <2>1. (\A v \in Worker : Same(v, t)) /\ Chances(t)' <= Chances(t)
      BY <1>1 DEF Idle, Runs, Chances
    <2> QED
      BY <2>1, <1>s, <1>0, <1>g
  <1>2. CASE Lapses(t)
    BY <1>2, <1>s, <1>0, <1>g DEF Lapses
  <1>3. CASE LosesClaim(t) \/ Revives(t)
    <2>1. (\A v \in Worker : Same(v, t)) /\ Reopens(t)
      BY <1>3 DEF LosesClaim, Revives, Reopens
    <2> QED
      BY <2>1, <1>s, <1>0, <1>g
  <1>4. ASSUME NEW w \in Worker, Takes(w, t) PROVE Good
    <2>1. Hands(t)' \subseteq Hands(t) \union {w}
      BY <1>4 DEF Takes, Same, Hands
    <2>2. Reopens(t) /\ ~Reopens(t)'
      BY <1>4 DEF Takes, Reopens
    <2>3. IsFiniteSet(Hands(t)') /\ Cardinality(Hands(t)') \in Nat
          /\ Cardinality(Hands(t)') <= Cardinality(Hands(t)) + 1
      BY <2>1, <1>g, OneMore
    <2> QED
      BY <2>2, <2>3, <1>0, <1>g
  <1>5. ASSUME NEW w \in Worker, LetsGo(w, t) PROVE Good
    <2>1. w \in Hands(t) /\ Hands(t)' \subseteq Hands(t) \ {w}
      BY <1>5 DEF LetsGo, Same, Hands
    <2>2. IsFiniteSet(Hands(t)') /\ Cardinality(Hands(t)') \in Nat
          /\ Cardinality(Hands(t)') <= Cardinality(Hands(t)) - 1
      BY <2>1, <1>g, OneLess
    <2> QED
      BY <2>2, <1>0, <1>g
  <1> QED
    BY <1>1, <1>2, <1>3, <1>4, <1>5, AccountStep DEF Accounted, Crashes, Reports

LEMMA HandsInit == Init => HandsInv
  <1> SUFFICES ASSUME Init, NEW t \in Task
               PROVE  /\ IsFiniteSet(Hands(t))
                      /\ Cardinality(Hands(t)) + Chances(t) <= 1 + overruns
    BY DEF HandsInv
  <1>1. Hands(t) = {} /\ overruns = 0 /\ Chances(t) \in {0, 1}
    BY LoopAssumption DEF Init, Hands, Chances
  <1> QED
    BY <1>1, FS_EmptySet

LEMMA HandsCorrect == Spec => []HandsInv
  BY HandsInit, TypeCorrect, HandsStep, PTL DEF Spec

\* A task is in as many hands at once as leases were overrun, and one more.
THEOREM OverlapCorrect == Spec => []OverlapNeedsOverruns
  <1>1. TypeOK /\ HandsInv => OverlapNeedsOverruns
    <2> SUFFICES ASSUME TypeOK, HandsInv, NEW t \in Task
                 PROVE  Cardinality(Hands(t)) <= 1 + overruns
      BY DEF OverlapNeedsOverruns
    <2>1. /\ Cardinality(Hands(t)) \in Nat /\ Chances(t) \in {0, 1} /\ overruns \in Nat
          /\ Cardinality(Hands(t)) + Chances(t) <= 1 + overruns
      BY FS_CardinalityType DEF HandsInv, Chances, TypeOK
    <2> QED
      BY <2>1
  <1> QED
    BY <1>1, TypeCorrect, HandsCorrect, PTL

LEMMA AttemptsStep ==
  TypeOK /\ TypeOK' /\ HandsInv /\ AttemptsInv /\ [Next]_vars => AttemptsInv'
  <1> SUFFICES ASSUME TypeOK, TypeOK', HandsInv, AttemptsInv, [Next]_vars, NEW t \in Task
               PROVE  (IF attempts'[t] < ClaimsAllowed(t) THEN ClaimsAllowed(t) - 1
                                                          ELSE attempts'[t])
                          + Cardinality(Young(t)') + Claims(t)'
                      <= ClaimsAllowed(t) + Faults' + overruns'
    BY DEF AttemptsInv, ClaimsAllowed
  <1> DEFINE M == ClaimsAllowed(t)
             Used == IF attempts[t] < M THEN M - 1 ELSE attempts[t]
             Good == (IF attempts'[t] < M THEN M - 1 ELSE attempts'[t])
                         + Cardinality(Young(t)') + Claims(t)'
                     <= M + Faults' + overruns'
  <1>0. /\ Faults \in Nat /\ Faults' \in Nat /\ Faults' >= Faults
        /\ overruns \in Nat /\ overruns' \in Nat /\ overruns' >= overruns
        /\ Claims(t) \in {0, 1} /\ Claims(t)' \in {0, 1}
        /\ Open(t) => Claims(t) = 1
        /\ ~Open(t)' => Claims(t)' = 0
    BY FaultsGrow DEF Claims
  <1>m. /\ M \in Nat /\ M >= 1 /\ attempts[t] \in Nat /\ attempts'[t] \in Nat
        /\ MaxRetries[t] \in Int /\ MaxRetries[t] <= M
        /\ Used \in Nat
    BY RowAssumption DEF ClaimsAllowed, TypeOK, RowsTypeOK
  <1>f. /\ IsFiniteSet(Hands(t)) /\ IsFiniteSet(Young(t))
        /\ Cardinality(Young(t)) \in Nat /\ Cardinality(Young(t)) <= Cardinality(Hands(t))
        /\ Cardinality(Hands(t)) \in Nat
    <2>1. Young(t) \subseteq Hands(t)
      BY DEF Young
    <2> QED
      BY <2>1, NoMore DEF HandsInv
  <1>g. Used + Cardinality(Young(t)) + Claims(t) <= M + Faults + overruns
    BY DEF AttemptsInv
  <1>s. ASSUME \A v \in Worker : Same(v, t)
        PROVE  Cardinality(Young(t)') = Cardinality(Young(t))
    <2>1. Young(t)' = Young(t)
      BY <1>s DEF Young, Hands, Same, ClaimsAllowed
    <2> QED
      BY <2>1
  <1>1. CASE Idle(t) \/ \E w \in Worker : Runs(w, t)
    <2>1. /\ \A v \in Worker : Same(v, t)
          /\ attempts'[t] = attempts[t]
          /\ Claims(t)' <= Claims(t)
      BY <1>1 DEF Idle, Runs, Claims
    <2> QED
      BY <2>1, <1>s, <1>0, <1>m, <1>f, <1>g
  <1>2. CASE Lapses(t)
    BY <1>2, <1>s, <1>0, <1>m, <1>f, <1>g DEF Lapses
  <1>3. CASE LosesClaim(t)
    BY <1>3, <1>s, <1>0, <1>m, <1>f, <1>g DEF LosesClaim
  \* The loops whose reports the new count forgets are paid for by overruns.
  <1>4. CASE Revives(t)
    <2>1. attempts'[t] = 0 /\ Cardinality(Young(t)') = Cardinality(Young(t)) /\ Reopens(t)
      BY <1>4, <1>s DEF Revives, Reopens
    <2>2. Cardinality(Hands(t)) + 1 <= 1 + overruns
      BY <2>1 DEF HandsInv, Chances
    <2> QED
      BY <2>1, <2>2, <1>0, <1>m, <1>f
  <1>5. ASSUME NEW w \in Worker, Takes(w, t) PROVE Good
    <2>1. /\ attempts'[t] = attempts[t] + 1 /\ token'[w] = attempts[t] + 1
          /\ Open(t) /\ ~Open(t)'
      BY <1>5 DEF Takes, Reopens
    <2>2. CASE attempts[t] + 1 < M
      <3>1. Young(t)' \subseteq Young(t) \union {w}
        BY <1>5 DEF Takes, Same, Young, Hands, ClaimsAllowed
      <3>2. Cardinality(Young(t)') \in Nat
            /\ Cardinality(Young(t)') <= Cardinality(Young(t)) + 1
        BY <3>1, <1>f, OneMore
      <3> QED
        BY <2>1, <2>2, <3>2, <1>0, <1>m, <1>f, <1>g
    <2>3. CASE ~(attempts[t] + 1 < M)
      <3>1. Young(t)' \subseteq Young(t)
        BY <1>5, <2>1, <2>3 DEF Takes, Same, Young, Hands, ClaimsAllowed
      <3>2. Cardinality(Young(t)') \in Nat
            /\ Cardinality(Young(t)') <= Cardinality(Young(t))
        BY <3>1, <1>f, NoMore
      <3> QED
        BY <2>1, <2>3, <3>2, <1>0, <1>m, <1>f, <1>g
    <2> QED
      BY <2>2, <2>3
  <1>l. ASSUME NEW w \in Worker, LetsGo(w, t)
        PROVE  /\ Cardinality(Young(t)') \in Nat
               /\ Cardinality(Young(t)') <= Cardinality(Young(t))
               /\ token[w] < M => Cardinality(Young(t)') <= Cardinality(Young(t)) - 1
    <2>1. Young(t)' \subseteq Young(t) \ {w}
      BY <1>l DEF LetsGo, Same, Young, Hands, ClaimsAllowed
    <2>2. token[w] < M => w \in Young(t)
      BY <1>l DEF LetsGo, Young, Hands
    <2>3. Young(t)' \subseteq Young(t)
      BY <2>1
    <2> QED
      BY <2>1, <2>2, <2>3, <1>f, NoMore, OneLess
  <1>6. ASSUME NEW w \in Worker, Crashes(w, t) PROVE Good
    <2>1. Faults' = Faults + 1 /\ attempts'[t] = attempts[t] /\ LetsGo(w, t)
      BY <1>6 DEF Crashes, LetsGo
    <2> QED
      BY <2>1, <1>l, <1>0, <1>m, <1>f, <1>g
  <1>7. ASSUME NEW w \in Worker, Reports(w, t) PROVE Good
    <2>1. attempts'[t] = attempts[t] /\ LetsGo(w, t)
      BY <1>7 DEF Reports, LetsGo
    <2>2. CASE Open(t)' => Open(t)
      <3>1. Claims(t)' <= Claims(t)
        BY <2>2 DEF Claims
      <3> QED
        BY <2>1, <3>1, <1>l, <1>0, <1>m, <1>f, <1>g
    <2>3. CASE token[w] < MaxRetries[t]
      <3>1. token[w] \in Nat
        BY DEF TypeOK, LoopsTypeOK
      <3>2. token[w] < M
        BY <2>3, <3>1, <1>m
      <3> QED
        BY <2>1, <3>2, <1>l, <1>0, <1>m, <1>f, <1>g
    <2> QED
      BY <1>7, <2>2, <2>3 DEF Reports
  <1> QED
    BY <1>1, <1>2, <1>3, <1>4, <1>5, <1>6, <1>7, AccountStep DEF Accounted

\* Since its last retry a task is claimed no more often than max_retries, or
\* once if that is less, plus once for each crash, failed statement and overrun
\* lease there has been.
THEOREM AttemptsCorrect == Spec => []AttemptsBounded
  <1>1. Init => AttemptsInv
    <2> SUFFICES ASSUME Init, NEW t \in Task
                 PROVE  (IF attempts[t] < ClaimsAllowed(t) THEN ClaimsAllowed(t) - 1
                                                           ELSE attempts[t])
                            + Cardinality(Young(t)) + Claims(t)
                        <= ClaimsAllowed(t) + Faults + overruns
      BY DEF AttemptsInv
    <2>1. Young(t) = {} /\ attempts[t] = 0 /\ Faults = 0 /\ overruns = 0 /\ Claims(t) \in {0, 1}
      BY LoopAssumption DEF Init, RowsInit, Young, Hands, Faults, Claims
    <2>2. ClaimsAllowed(t) \in Nat /\ ClaimsAllowed(t) >= 1
      BY RowAssumption DEF ClaimsAllowed
    <2> QED
      BY <2>1, <2>2, FS_EmptySet
  <1>2. TypeOK /\ HandsInv /\ AttemptsInv => AttemptsBounded
    <2> SUFFICES ASSUME TypeOK, HandsInv, AttemptsInv, NEW t \in Task
                 PROVE  attempts[t] <= ClaimsAllowed(t) + Faults + overruns
      BY DEF AttemptsBounded
    <2>1. /\ attempts[t] \in Nat /\ ClaimsAllowed(t) \in Nat /\ Claims(t) \in {0, 1}
          /\ Faults \in Nat /\ overruns \in Nat
      BY RowAssumption DEF ClaimsAllowed, Claims, TypeOK, RowsTypeOK, Faults
    <2>2. Cardinality(Young(t)) \in Nat
      <3>1. Young(t) \subseteq Hands(t)
        BY DEF Young
      <3> QED
        BY <3>1, NoMore DEF HandsInv
    <2> QED
      BY <2>1, <2>2 DEF AttemptsInv
  <1> QED
    BY <1>1, <1>2, TypeCorrect, HandsCorrect, AttemptsStep, PTL DEF Spec

LEMMA RepeatsStep ==
  TypeOK /\ TypeOK' /\ HandsInv /\ RepeatsInv /\ [Next]_vars => RepeatsInv'
  <1> SUFFICES ASSUME TypeOK, TypeOK', HandsInv, RepeatsInv, [Next]_vars, NEW t \in Task
               PROVE  okRuns'[t] + Cardinality(Undecided(t)') + Chances(t)'
                      <= 1 + Faults' + overruns'
    BY DEF RepeatsInv
  <1> DEFINE Good == okRuns'[t] + Cardinality(Undecided(t)') + Chances(t)'
                     <= 1 + Faults' + overruns'
  <1>0. /\ Faults \in Nat /\ Faults' \in Nat /\ Faults' >= Faults
        /\ overruns \in Nat /\ overruns' \in Nat /\ overruns' >= overruns
        /\ okRuns[t] \in Nat /\ okRuns'[t] \in Nat
        /\ Chances(t) \in {0, 1} /\ Chances(t)' \in {0, 1}
        /\ Reopens(t) => Chances(t) = 1
        /\ ~Reopens(t)' => Chances(t)' = 0
    BY FaultsGrow DEF Chances, TypeOK
  <1>f. IsFiniteSet(Undecided(t)) /\ Cardinality(Undecided(t)) \in Nat
    <2>1. Undecided(t) \subseteq Hands(t)
      BY DEF Undecided
    <2> QED
      BY <2>1, NoMore DEF HandsInv
  <1>g. okRuns[t] + Cardinality(Undecided(t)) + Chances(t) <= 1 + Faults + overruns
    BY DEF RepeatsInv
  <1>s. ASSUME \A v \in Worker : Same(v, t)
        PROVE  /\ Cardinality(Undecided(t)') \in Nat
               /\ Cardinality(Undecided(t)') <= Cardinality(Undecided(t))
    <2>1. Undecided(t)' \subseteq Undecided(t)
      BY <1>s DEF Undecided, Hands, Same
    <2> QED
      BY <2>1, <1>f, NoMore
  <1>1. CASE Idle(t)
    <2>1. /\ \A v \in Worker : Same(v, t)
          /\ okRuns'[t] = okRuns[t]
          /\ Chances(t)' <= Chances(t)
      BY <1>1 DEF Idle, Chances
    <2> QED
      BY <2>1, <1>s, <1>0, <1>f, <1>g
  \* The run that returned Ok is the loop's own.
  <1>2. ASSUME NEW w \in Worker, Runs(w, t) PROVE Good
    <2>1. okRuns'[t] = okRuns[t] + 1 /\ Chances(t)' <= Chances(t)
      BY <1>2 DEF Runs, Chances
    <2>2. w \in Undecided(t) /\ Undecided(t)' \subseteq Undecided(t) \ {w}
      BY <1>2 DEF Runs, Undecided, Hands, Same
    <2>3. /\ Cardinality(Undecided(t)') \in Nat
          /\ Cardinality(Undecided(t)') <= Cardinality(Undecided(t)) - 1
      BY <2>2, <1>f, OneLess
    <2> QED
      BY <2>1, <2>3, <1>0, <1>f, <1>g
  <1>3. CASE Lapses(t)
    BY <1>3, <1>s, <1>0, <1>f, <1>g DEF Lapses
  <1>4. CASE LosesClaim(t)
    BY <1>4, <1>s, <1>0, <1>f, <1>g DEF LosesClaim
  <1>5. CASE Revives(t)
    <2>1. Reopens(t)
      BY <1>5 DEF Revives, Reopens
    <2> QED
      BY <2>1, <1>5, <1>s, <1>0, <1>f, <1>g DEF Revives
  <1>6. ASSUME NEW w \in Worker, Takes(w, t) PROVE Good
    <2>1. okRuns'[t] = okRuns[t] /\ Reopens(t) /\ ~Reopens(t)'
      BY <1>6 DEF Takes, Reopens
    <2>2. Undecided(t)' \subseteq Undecided(t) \union {w}
      BY <1>6 DEF Takes, Same, Undecided, Hands
    <2>3. /\ Cardinality(Undecided(t)') \in Nat
          /\ Cardinality(Undecided(t)') <= Cardinality(Undecided(t)) + 1
      BY <2>2, <1>f, OneMore
    <2> QED
      BY <2>1, <2>3, <1>0, <1>f, <1>g
  <1>l. ASSUME NEW w \in Worker, LetsGo(w, t)
        PROVE  /\ Cardinality(Undecided(t)') \in Nat
               /\ Cardinality(Undecided(t)') <= Cardinality(Undecided(t))
               /\ Unrun(w) => Cardinality(Undecided(t)') <= Cardinality(Undecided(t)) - 1
    <2>1. Undecided(t)' \subseteq Undecided(t) \ {w}
      BY <1>l DEF LetsGo, Same, Undecided, Hands
    <2>2. Unrun(w) => w \in Undecided(t)
      BY <1>l DEF LetsGo, Undecided, Hands
    <2>3. Undecided(t)' \subseteq Undecided(t)
      BY <2>1
    <2> QED
      BY <2>1, <2>2, <2>3, <1>f, NoMore, OneLess
  <1>7. ASSUME NEW w \in Worker, Crashes(w, t) PROVE Good
    <2>1. Faults' = Faults + 1 /\ okRuns'[t] = okRuns[t] /\ LetsGo(w, t)
      BY <1>7 DEF Crashes, LetsGo
    <2> QED
      BY <2>1, <1>l, <1>0, <1>f, <1>g
  \* Only a loop whose run failed reopens the row.
  <1>8. ASSUME NEW w \in Worker, Reports(w, t) PROVE Good
    <2>1. okRuns'[t] = okRuns[t] /\ LetsGo(w, t)
      BY <1>8 DEF Reports, LetsGo
    <2>2. Unrun(w) \/ (Reopens(t)' => Reopens(t))
      BY <1>8 DEF Reports
    <2>3. CASE Unrun(w)
      BY <2>1, <2>3, <1>l, <1>0, <1>f, <1>g
    <2>4. CASE Reopens(t)' => Reopens(t)
      <3>1. Chances(t)' <= Chances(t)
        BY <2>4 DEF Chances
      <3> QED
        BY <2>1, <3>1, <1>l, <1>0, <1>f, <1>g
    <2> QED
      BY <2>2, <2>3, <2>4
  <1> QED
    BY <1>1, <1>2, <1>3, <1>4, <1>5, <1>6, <1>7, <1>8, AccountStep DEF Accounted

\* Beyond the first, each run of a handler that returns Ok for a task is paid
\* for by a crash, a failed statement or an overrun lease of its own.
THEOREM RepeatsCorrect == Spec => []RepeatsNeedFaults
  <1>1. Init => RepeatsInv
    <2> SUFFICES ASSUME Init, NEW t \in Task
                 PROVE  okRuns[t] + Cardinality(Undecided(t)) + Chances(t)
                        <= 1 + Faults + overruns
      BY DEF RepeatsInv
    <2>1. /\ Undecided(t) = {} /\ okRuns[t] = 0 /\ Faults = 0 /\ overruns = 0
          /\ Chances(t) \in {0, 1}
      BY LoopAssumption DEF Init, Undecided, Hands, Faults, Chances
    <2> QED
      BY <2>1, FS_EmptySet
  <1>2. TypeOK /\ HandsInv /\ RepeatsInv => RepeatsNeedFaults
    <2> SUFFICES ASSUME TypeOK, HandsInv, RepeatsInv, NEW t \in Task
                 PROVE  okRuns[t] <= 1 + Faults + overruns
      BY DEF RepeatsNeedFaults
    <2>1. okRuns[t] \in Nat /\ Chances(t) \in {0, 1} /\ Faults \in Nat /\ overruns \in Nat
      BY DEF Chances, TypeOK, Faults
    <2>2. Cardinality(Undecided(t)) \in Nat
      <3>1. Undecided(t) \subseteq Hands(t)
        BY DEF Undecided
      <3> QED
        BY <3>1, NoMore DEF HandsInv
    <2> QED
      BY <2>1, <2>2 DEF RepeatsInv
  <1> QED
    BY <1>1, <1>2, TypeCorrect, HandsCorrect, RepeatsStep, PTL DEF Spec


----------------------------------------------------------------------------
(* No orphans. *)

\* The steps that neither touch a row's status or attempts nor a loop's hand.
Handless ==
    \/ \E w \in Worker : \/ LoopTop(w) \/ ClaimNothing(w) \/ Wake(w) \/ Restart(w)
                         \/ CheckInbox(w) \/ CheckInboxError(w) \/ Beat(w)
                         \/ HandlerOk(w) \/ HandlerErr(w)
                         \/ MarkInbox(w) \/ MarkInboxError(w)
    \/ ReaperWake \/ ReapInbox \/ ReaperError \/ Shutdown \/ Tick

LEMMA HandlessSteps == Handless => UNCHANGED <<status, attempts, held, token>>
  BY DEF Handless, LoopTop, ClaimNothing, Wake, Restart, CheckInbox, CheckInboxError,
         Beat, Heartbeat, HandlerOk, HandlerErr, MarkInbox, MarkInboxError, ReaperWake,
         ReapInbox, ReaperError, Shutdown, Tick, AgeRows, Goto, rowVars, loopVars

LEMMA OtherSteps ==
  ASSUME [Next]_vars
  PROVE  \/ UNCHANGED vars \/ Handless \/ ReapBatch \/ Submit \/ Revive
         \/ \E w \in Worker : \/ Claim(w) \/ ClaimError(w) \/ Complete(w) \/ Fail(w)
                              \/ FinishError(w) \/ Crash(w)
  BY DEF Next, Advance, WorkerFault, Reap, Handless

Owned(t) == \E w \in Worker : held[w] = t /\ token[w] = attempts[t]

\* A step orphans no row, or it is a fault and orphans one.
LEMMA OrphansGrow ==
  ASSUME TypeOK, TypeOK', DedupUnique, [Next]_vars
  PROVE  \/ Orphans' \subseteq Orphans
         \/ Faults' = Faults + 1 /\ \E u : Orphans' \subseteq Orphans \union {u}
  <1>k. ASSUME \A t \in Task : status'[t] = "claimed" /\ ~Owned(t)' =>
                                  status[t] = "claimed" /\ ~Owned(t)
        PROVE  Orphans' \subseteq Orphans
    BY <1>k DEF Orphans, Owned
  <1>f. ASSUME Faults' = Faults + 1, NEW u,
               \A t \in Task : /\ status'[t] = "claimed" /\ ~Owned(t)'
                               /\ t # u
                               => status[t] = "claimed" /\ ~Owned(t)
        PROVE  Faults' = Faults + 1 /\ \E x : Orphans' \subseteq Orphans \union {x}
    <2>1. Orphans' \subseteq Orphans \union {u}
      BY <1>f DEF Orphans, Owned
    <2> QED
      BY <2>1, <1>f
  <1>1. CASE UNCHANGED vars \/ Handless
    <2>1. UNCHANGED <<status, attempts, held, token>>
      BY <1>1, HandlessSteps DEF vars, rowVars, loopVars
    <2> QED
      BY <2>1, <1>k DEF Owned
  <1>2. ASSUME NEW w \in Worker, Claim(w) PROVE Orphans' \subseteq Orphans
    <2>1. PICK locked \in SUBSET MaybeLocked(w), u \in Task :
               ClaimRow(QueueOf[w], locked, u) /\ Take(w, u)
      BY <1>2 DEF Claim
    <2>2. /\ held[w] \notin Task /\ held'[w] = u /\ token'[w] = attempts[u] + 1
          /\ \A v \in Worker \ {w} : held'[v] = held[v] /\ token'[v] = token[v]
      BY <1>2, <2>1 DEF Claim, Take, TypeOK, LoopsTypeOK, Busy, InHand
    <2>3. /\ attempts'[u] = attempts[u] + 1
          /\ \A t \in Task \ {u} : status'[t] = status[t] /\ attempts'[t] = attempts[t]
      BY <2>1 DEF ClaimRow, TypeOK, RowsTypeOK
    <2>4. Owned(u)'
      BY <2>2, <2>3 DEF Owned
    <2>5. \A t \in Task : Owned(t) => Owned(t)' \/ t = u
      BY <2>2, <2>3 DEF Owned
    <2> QED
      BY <2>3, <2>4, <2>5, <1>k
  <1>3. ASSUME NEW w \in Worker, ClaimError(w) \/ FinishError(w) \/ Crash(w)
        PROVE  Faults' = Faults + 1 /\ \E u : Orphans' \subseteq Orphans \union {u}
    <2>1. Faults' = Faults + 1
      BY <1>3 DEF ClaimError, FinishError, Crash, DbError, Faults, TypeOK
    <2>2. CASE UNCHANGED rowVars /\ \E place : Goto(w, place) \/ Drop(w, place)
      <3>1. /\ UNCHANGED <<status, attempts>>
            /\ \A v \in Worker \ {w} : held'[v] = held[v] /\ token'[v] = token[v]
        BY <2>2 DEF Goto, Drop, rowVars, TypeOK, LoopsTypeOK
      <3>2. \A t \in Task : Owned(t) => Owned(t)' \/ t = held[w]
        BY <3>1 DEF Owned
      <3> QED
        BY <2>1, <3>1, <3>2, <1>f
    <2>3. ASSUME Goto(w, "waiting"), NEW q, NEW locked, NEW u \in Task, ClaimRow(q, locked, u)
          PROVE  Faults' = Faults + 1 /\ \E x : Orphans' \subseteq Orphans \union {x}
      <3>1. /\ UNCHANGED <<held, token>>
            /\ \A t \in Task \ {u} : status'[t] = status[t] /\ attempts'[t] = attempts[t]
        BY <2>3 DEF Goto, ClaimRow, TypeOK, RowsTypeOK
      <3>2. \A t \in Task : Owned(t) => Owned(t)' \/ t = u
        BY <3>1 DEF Owned
      <3> QED
        BY <2>1, <3>1, <3>2, <1>f
    <2> QED
      BY <1>3, <2>2, <2>3 DEF ClaimError, FinishError, Crash
  <1>4. ASSUME NEW w \in Worker, Complete(w) \/ Fail(w) PROVE Orphans' \subseteq Orphans
    <2>1. /\ held[w] \in Task /\ attempts' = attempts
          /\ \A v \in Worker \ {w} : held'[v] = held[v] /\ token'[v] = token[v]
      BY <1>4 DEF Complete, Fail, MarkDelivered, MarkFailed, Bury, Reschedule, rowVars,
                  Drop, TypeOK, LoopsTypeOK, Busy, InHand
    \* The key of a claimed row is its own, so failing it cannot be refused.
    <2>2. status'[held[w]] # "claimed"
      <3>1. CASE Complete(w)
        BY <2>1, <3>1 DEF Complete, MarkDelivered, Exists, MessageStatus, rowVars,
                          TypeOK, RowsTypeOK
      <3>2. CASE Fail(w)
        <4>1. status[held[w]] = "claimed" => KeyFree(held[w])
          BY <2>1 DEF DedupUnique, KeyFree, Active
        <4>2. CASE Bury(held[w]) \/ Reschedule(held[w], token[w])
          BY <2>1, <4>2 DEF Bury, Reschedule, TypeOK, RowsTypeOK
        <4> QED
          BY <2>1, <3>2, <4>1, <4>2 DEF Fail, MarkFailed, Exists, MessageStatus, rowVars
      <3> QED
        BY <1>4, <3>1, <3>2
    <2>3. \A t \in Task : t # held[w] => status'[t] = status[t]
      BY <1>4 DEF Complete, Fail, MarkDelivered, MarkFailed, Bury, Reschedule,
                  rowVars, TypeOK, RowsTypeOK
    <2>4. \A t \in Task : t # held[w] /\ Owned(t) => Owned(t)'
      BY <2>1 DEF Owned
    <2> QED
      BY <2>2, <2>3, <2>4, <1>k
  <1>5. CASE ReapBatch \/ Submit \/ Revive
    <2>1. /\ UNCHANGED loopVars
          /\ \A t \in Task : status'[t] = "claimed" =>
                status[t] = "claimed" /\ attempts'[t] = attempts[t]
      BY <1>5 DEF ReapBatch, DeleteRows, Submit, InsertRows, Revive, RetryDead,
                  TypeOK, RowsTypeOK
    <2> QED
      BY <2>1, <1>k DEF loopVars, Owned
  <1> QED
    BY <1>1, <1>2, <1>3, <1>4, <1>5, OtherSteps

\* The bound is that of a finite set.
OrphansInv == IsFiniteSet(Orphans) /\ OrphansNeedFaults

LEMMA OrphansStep ==
  TypeOK /\ TypeOK' /\ DedupUnique /\ OrphansInv /\ [Next]_vars => OrphansInv'
  <1> SUFFICES ASSUME TypeOK, TypeOK', DedupUnique, OrphansInv, [Next]_vars
               PROVE  OrphansInv'
    OBVIOUS
  <1>0. Faults \in Nat /\ Faults' \in Nat /\ Faults' >= Faults
    BY CountersGrow
  <1>1. /\ IsFiniteSet(Orphans) /\ Cardinality(Orphans) \in Nat
        /\ Cardinality(Orphans) <= Faults
    BY FS_CardinalityType DEF OrphansInv, OrphansNeedFaults
  <1>2. CASE Orphans' \subseteq Orphans
    <2>1. IsFiniteSet(Orphans') /\ Cardinality(Orphans') <= Cardinality(Orphans)
      BY <1>1, <1>2, FS_Subset
    <2>2. Cardinality(Orphans') \in Nat
      BY <2>1, FS_CardinalityType
    <2> QED
      BY <2>1, <2>2, <1>0, <1>1 DEF OrphansInv, OrphansNeedFaults
  <1>3. ASSUME Faults' = Faults + 1, NEW u, Orphans' \subseteq Orphans \union {u}
        PROVE  OrphansInv'
    <2>1. /\ IsFiniteSet(Orphans \union {u})
          /\ Cardinality(Orphans \union {u}) \in Nat
          /\ Cardinality(Orphans \union {u}) <= Faults + 1
      BY <1>0, <1>1, FS_AddElement, FS_CardinalityType
    <2>2. IsFiniteSet(Orphans') /\ Cardinality(Orphans') <= Cardinality(Orphans \union {u})
      BY <2>1, <1>3, FS_Subset
    <2>3. Cardinality(Orphans') \in Nat
      BY <2>2, FS_CardinalityType
    <2> QED
      BY <2>1, <2>2, <2>3, <1>0, <1>3 DEF OrphansInv, OrphansNeedFaults
  <1> QED
    BY <1>2, <1>3, OrphansGrow

\* Never more claimed rows out of every loop's hand than crashes and failed
\* statements so far, shutdown and overrun leases notwithstanding.
THEOREM OrphansCorrect == Spec => []OrphansNeedFaults
  <1>1. Init => OrphansInv
    <2> SUFFICES ASSUME Init PROVE OrphansInv
      OBVIOUS
    <2>1. Orphans = {} /\ Faults = 0
      BY DEF Init, RowsInit, Orphans, Faults
    <2> QED
      BY <2>1, FS_EmptySet DEF OrphansInv, OrphansNeedFaults
  <1>2. OrphansInv => OrphansNeedFaults
    BY DEF OrphansInv
  <1> QED
    BY <1>1, <1>2, TypeCorrect, DedupCorrect, OrphansStep, PTL DEF Spec

----------------------------------------------------------------------------
(* Dead rows. *)

\* A loop's copy of attempts lags behind the row's, until retry_dead resets it.
ExhaustedInv ==
    /\ DeadOnlyWhenExhausted
    /\ revivals = 0 => \A w \in Worker : Busy(w) => token[w] <= attempts[held[w]]

LEMMA AttemptsOnlyGrow ==
  ASSUME TypeOK, [Next]_vars, revivals' = 0, NEW t \in Task
  PROVE  attempts'[t] >= attempts[t]
  <1>1. ~Revive
    BY DEF Revive, TypeOK
  <1>2. ASSUME NEW q, NEW locked, NEW u \in Task, ClaimRow(q, locked, u)
        PROVE  attempts'[t] >= attempts[t]
    BY <1>2 DEF ClaimRow, TypeOK, RowsTypeOK
  <1>3. CASE attempts' = attempts
    BY <1>3 DEF TypeOK, RowsTypeOK
  <1>4. ASSUME \/ \E w \in Worker : Beat(w) \/ Complete(w) \/ Fail(w)
               \/ \E S \in SUBSET Reapable : DeleteRows(S)
               \/ Submit \/ Tick
        PROVE  attempts' = attempts
    BY <1>4 DEF Beat, Heartbeat, Complete, MarkDelivered, Fail, MarkFailed, Bury,
                Reschedule, DeleteRows, Submit, InsertRows, Tick, AgeRows, rowVars
  <1> QED
    BY <1>1, <1>2, <1>3, <1>4, RowSteps DEF rowVars

LEMMA ExhaustedStep ==
  TypeOK /\ TypeOK' /\ Lease /\ ExhaustedInv /\ [Next]_vars => ExhaustedInv'
  <1> SUFFICES ASSUME TypeOK, TypeOK', Lease, ExhaustedInv, [Next]_vars
               PROVE  ExhaustedInv'
    OBVIOUS
  <1>1. ASSUME revivals' = 0, NEW w \in Worker, Busy(w)'
        PROVE  token'[w] <= attempts'[held'[w]]
    <2>1. revivals = 0
      BY <1>1, CountersGrow
    <2>2. CASE Busy(w) /\ held'[w] = held[w] /\ token'[w] = token[w]
      <3>1. token[w] <= attempts[held[w]] /\ held[w] \in Task /\ token[w] \in Nat
        BY <2>1, <2>2 DEF ExhaustedInv, TypeOK, LoopsTypeOK
      <3>2. /\ attempts'[held[w]] >= attempts[held[w]]
            /\ attempts[held[w]] \in Nat /\ attempts'[held[w]] \in Nat
        BY <1>1, <3>1, AttemptsOnlyGrow DEF TypeOK, RowsTypeOK
      <3> QED
        BY <2>2, <3>1, <3>2
    <2>3. CASE Claim(w)
      <3>1. PICK locked \in SUBSET MaybeLocked(w), u \in Task :
                 ClaimRow(QueueOf[w], locked, u) /\ Take(w, u)
        BY <2>3 DEF Claim
      <3> QED
        BY <3>1 DEF ClaimRow, Take, TypeOK, RowsTypeOK, LoopsTypeOK
    <2>4. (Busy(w) /\ held'[w] = held[w] /\ token'[w] = token[w]) \/ Claim(w)
      <3>1. CASE UNCHANGED loopVars
        BY <1>1, <3>1 DEF loopVars, Busy
      <3>2. ASSUME NEW v \in Worker, v # w, Advance(v) \/ WorkerFault(v) \/ Restart(v)
            PROVE  Busy(w) /\ held'[w] = held[w] /\ token'[w] = token[w]
        <4>1. \/ \E place \in Live \union {"stopped", "down"} : Goto(v, place) \/ Drop(v, place)
              \/ \E t \in Task : Take(v, t)
          BY <3>2 DEF Advance, WorkerFault, LoopTop, Claim, ClaimNothing, Wake, CheckInbox,
             HandlerOk, HandlerErr, MarkInbox, Complete, Fail, ClaimError, CheckInboxError,
             MarkInboxError, FinishError, Crash, Restart, Live, InHand
        <4> QED
          BY <1>1, <3>2, <4>1 DEF Goto, Drop, Take, Busy, TypeOK, LoopsTypeOK
      <3>3. ASSUME Advance(w) \/ WorkerFault(w) \/ Restart(w), ~Claim(w)
            PROVE  Busy(w) /\ held'[w] = held[w] /\ token'[w] = token[w]
        BY <1>1, <3>3 DEF Advance, WorkerFault, LoopTop, ClaimNothing, Wake, CheckInbox,
           HandlerOk, HandlerErr, MarkInbox, Complete, Fail, ClaimError, CheckInboxError,
           MarkInboxError, FinishError, Crash, Restart, Goto, Drop, Busy, InHand,
           TypeOK, LoopsTypeOK
      <3>4. CASE \/ UNCHANGED vars \/ Reap \/ ReaperError \/ Submit \/ Revive \/ Shutdown
                 \/ Tick \/ \E v \in Worker : Beat(v)
        BY <3>1, <3>4 DEF vars, Reap, ReaperWake, ReapBatch, ReapInbox, ReaperError, Submit,
           Revive, Shutdown, Tick, Beat
      <3> QED
        BY <3>2, <3>3, <3>4 DEF Next
    <2> QED
      BY <2>2, <2>3, <2>4
  <1>2. ASSUME overruns' = 0 \/ revivals' = 0, NEW t \in Task, status'[t] = "dead"
        PROVE  attempts'[t] >= MaxRetries[t]
    <2>1. /\ overruns = 0 \/ revivals = 0
          /\ attempts[t] \in Nat /\ MaxRetries[t] \in Int
      BY <1>2, CountersGrow, RowAssumption DEF TypeOK, RowsTypeOK
    <2>2. CASE status[t] = "dead" /\ attempts'[t] = attempts[t]
      BY <2>1, <2>2 DEF ExhaustedInv, DeadOnlyWhenExhausted
    <2>3. CASE \E w \in Worker : Fail(w) /\ held[w] = t /\ Bury(t) /\ token[w] >= MaxRetries[t]
      <3>1. PICK w \in Worker : Fail(w) /\ held[w] = t /\ Bury(t) /\ token[w] >= MaxRetries[t]
        BY <2>3
      <3>2. token[w] <= attempts[t] /\ token[w] \in Nat
        BY <2>1, <3>1 DEF Fail, Busy, InHand, Lease, ExhaustedInv, TypeOK, LoopsTypeOK
      <3>3. attempts' = attempts
        BY <3>1 DEF Bury
      <3> QED
        BY <2>1, <3>1, <3>2, <3>3
    <2>4. \/ status[t] = "dead" /\ attempts'[t] = attempts[t]
          \/ \E w \in Worker : Fail(w) /\ held[w] = t /\ Bury(t) /\ token[w] >= MaxRetries[t]
      <3>1. ASSUME NEW w \in Worker, Fail(w)
            PROVE  \/ status[t] = "dead" /\ attempts'[t] = attempts[t]
                   \/ held[w] = t /\ Bury(t) /\ token[w] >= MaxRetries[t]
        BY <1>2, <3>1 DEF Fail, MarkFailed, Bury, Reschedule, rowVars, TypeOK, RowsTypeOK
      <3>2. ASSUME NEW w \in Worker, Complete(w) \/ Beat(w)
            PROVE  status[t] = "dead" /\ attempts'[t] = attempts[t]
        BY <1>2, <3>2 DEF Complete, MarkDelivered, Beat, Heartbeat, rowVars, TypeOK, RowsTypeOK
      <3>3. ASSUME NEW q, NEW locked, NEW u \in Task, ClaimRow(q, locked, u)
            PROVE  status[t] = "dead" /\ attempts'[t] = attempts[t]
        BY <1>2, <3>3 DEF ClaimRow, TypeOK, RowsTypeOK
      <3>4. CASE \/ UNCHANGED rowVars \/ Submit \/ Revive \/ Tick
                 \/ \E S \in SUBSET Reapable : DeleteRows(S)
        BY <1>2, <3>4 DEF rowVars, Submit, InsertRows, Revive, RetryDead, Tick, AgeRows,
                          DeleteRows, TypeOK, RowsTypeOK
      <3> QED
        BY <3>1, <3>2, <3>3, <3>4, RowSteps
    <2> QED
      BY <2>2, <2>3, <2>4
  <1> QED
    BY <1>1, <1>2 DEF ExhaustedInv, DeadOnlyWhenExhausted

\* A row is dead only after max_retries claims, unless both a lease was
\* overrun and retry_dead reset a count.
THEOREM ExhaustedCorrect == Spec => []DeadOnlyWhenExhausted
  <1>1. Init => ExhaustedInv
    BY DEF Init, RowsInit, ExhaustedInv, DeadOnlyWhenExhausted, Busy, InHand
  <1>2. ExhaustedInv => DeadOnlyWhenExhausted
    BY DEF ExhaustedInv
  <1> QED
    BY <1>1, <1>2, TypeCorrect, LeaseCorrect, ExhaustedStep, PTL DEF Spec

----------------------------------------------------------------------------
(* The inbox. *)

LEMMA ShieldStep ==
  TypeOK /\ TypeOK' /\ Lease /\ InboxShields /\ [Next]_vars => InboxShields'
  <1> SUFFICES ASSUME TypeOK, TypeOK', Lease, InboxShields, [Next]_vars,
                      overruns' = 0, dbErrors' = 0,
                      NEW w \in InboxWorker, pc'[w] = "handling"
               PROVE  held'[w] \notin inbox'
    BY DEF InboxShields
  <1>0. overruns = 0 /\ dbErrors = 0 /\ w \in Worker
    BY CountersGrow, LoopAssumption
  <1>e. ~DbError
    BY <1>0 DEF DbError
  <1>g. pc[w] = "handling" => held[w] \notin inbox
    BY <1>0 DEF InboxShields
  <1>1. CASE pc[w] = "handling" /\ held'[w] = held[w] /\ inbox' \subseteq inbox
    BY <1>1, <1>g
  <1>2. CASE CheckInbox(w)
    BY <1>2, <1>0 DEF CheckInbox, Goto, inboxVars, TypeOK, LoopsTypeOK
  \* Another loop cannot be marking the task this one handles.
  <1>3. ASSUME NEW v \in Worker, MarkInbox(v) PROVE held'[w] \notin inbox'
    <2>1. pc[w] = "handling" /\ held' = held /\ inbox' = inbox \union {held[v]} /\ v # w
      BY <1>0, <1>3 DEF MarkInbox, Goto, TypeOK, LoopsTypeOK
    <2>2. held[v] # held[w]
      BY <1>0, <1>3, <2>1 DEF MarkInbox, Lease, Busy, InHand
    <2> QED
      BY <2>1, <2>2, <1>g
  <1>4. ASSUME NEW v \in Worker,
               \/ Claim(v) \/ Complete(v) \/ Fail(v) \/ Crash(v)
               \/ LoopTop(v) \/ ClaimNothing(v) \/ Wake(v) \/ Restart(v) \/ Beat(v)
               \/ HandlerOk(v) \/ HandlerErr(v) \/ (CheckInbox(v) /\ v # w)
        PROVE  pc[w] = "handling" /\ held'[w] = held[w] /\ inbox' \subseteq inbox
    BY <1>0, <1>4 DEF Claim, Take, Complete, Fail, Crash, LoopTop, ClaimNothing, Wake,
       Restart, Beat, HandlerOk, HandlerErr, CheckInbox, Goto, Drop, loopVars, inboxVars,
       TypeOK, LoopsTypeOK
  <1>5. ASSUME NEW v \in Worker,
               ClaimError(v) \/ CheckInboxError(v) \/ MarkInboxError(v) \/ FinishError(v)
        PROVE  FALSE
    BY <1>5, <1>e DEF ClaimError, CheckInboxError, MarkInboxError, FinishError
  <1>6. CASE \/ UNCHANGED vars \/ Reap \/ Submit \/ Revive \/ Shutdown \/ Tick
    <2>1. UNCHANGED <<pc, held>> /\ inbox' \subseteq inbox
      BY <1>6 DEF vars, Reap, ReaperWake, ReapBatch, ReapInbox, Submit, Revive, Shutdown,
                  Tick, loopVars, inboxVars
    <2> QED
      BY <2>1, <1>1
  <1>7. ~ReaperError
    BY <1>e DEF ReaperError
  <1> QED
    BY <1>1, <1>2, <1>3, <1>4, <1>5, <1>6, <1>7 DEF Next, Advance, WorkerFault

\* While no lease is overrun and no statement fails, a task with an inbox row
\* is in no inbox worker's handler.
THEOREM ShieldCorrect == Spec => []InboxShields
  <1>1. Init => InboxShields
    BY LoopAssumption DEF Init, InboxShields
  <1> QED
    BY <1>1, TypeCorrect, LeaseCorrect, ShieldStep, PTL DEF Spec

----------------------------------------------------------------------------
(* How long a row stays hidden. *)

\* The waits the settings of a task name.
Waits(t) ==
    {VisibilityTimeout, Delay[t]} \union Extensions
        \union UNION {Backoff(attempt) : attempt \in 1..(MaxRetries[t] - 1)}

\* No row is hidden for longer than one of them: the backoff is never computed
\* for more attempts than max_retries allows (relay.rs has no cap of its own on
\* 2_i64.pow), however many claims crashes and overrun leases have added.
HiddenBounded ==
    \A t \in Task : visibleIn[t] <= 0 \/ \E d \in Waits(t) : visibleIn[t] <= d

\* A loop's copy of attempts counts its own claim.
Counted == \A w \in Worker : Busy(w) => token[w] >= 1

LEMMA CountedStep == TypeOK /\ Counted /\ [Next]_vars => Counted'
  <1> SUFFICES ASSUME TypeOK, Counted, [Next]_vars PROVE Counted'
    OBVIOUS
  <1>1. CASE \A w \in Worker : Busy(w)' => Busy(w) /\ token'[w] = token[w]
    BY <1>1 DEF Counted
  <1>2. ASSUME NEW w \in Worker, Claim(w) PROVE Counted'
    <2>1. PICK t \in Task : Take(w, t)
      BY <1>2 DEF Claim
    <2>2. token'[w] >= 1
      BY <2>1 DEF Take, TypeOK, LoopsTypeOK, RowsTypeOK
    <2>3. \A v \in Worker \ {w} : Busy(v)' => Busy(v) /\ token'[v] = token[v]
      BY <2>1 DEF Take, Busy, TypeOK, LoopsTypeOK
    <2> QED
      BY <2>2, <2>3 DEF Counted
  <1>3. ASSUME NEW w \in Worker,
               Advance(w) \/ Beat(w) \/ WorkerFault(w) \/ Restart(w), ~Claim(w)
        PROVE  \A v \in Worker : Busy(v)' => Busy(v) /\ token'[v] = token[v]
    <2>1. \/ UNCHANGED <<pc, token>>
          \/ \E place \in {"top", "down"} : Drop(w, place)
          \/ \E place \in {"top", "polling", "waiting", "stopped"} : Goto(w, place)
          \/ Busy(w) /\ \E place \in InHand : Goto(w, place)
      BY <1>3 DEF Advance, WorkerFault, LoopTop, ClaimNothing, Wake, CheckInbox, Beat,
                  HandlerOk, HandlerErr, MarkInbox, Complete, Fail, ClaimError,
                  CheckInboxError, MarkInboxError, FinishError, Crash, Restart,
                  loopVars, Busy, InHand
    <2> QED
      BY <2>1 DEF Goto, Drop, Busy, InHand, TypeOK, LoopsTypeOK
  <1>4. CASE Reap \/ ReaperError \/ Submit \/ Revive \/ Shutdown \/ Tick \/ UNCHANGED vars
    <2>1. UNCHANGED <<pc, token>>
      BY <1>4 DEF Reap, ReaperWake, ReapBatch, ReapInbox, ReaperError, Submit, Revive,
                  Shutdown, Tick, loopVars, vars
    <2> QED
      BY <2>1, <1>1 DEF Busy
  <1> QED
    BY <1>1, <1>2, <1>3, <1>4 DEF Next

LEMMA HiddenStep ==
    TypeOK /\ TypeOK' /\ Counted /\ HiddenBounded /\ [Next]_vars => HiddenBounded'
  <1> SUFFICES ASSUME TypeOK, TypeOK', Counted, HiddenBounded, [Next]_vars,
                      NEW t \in Task
               PROVE  visibleIn'[t] <= 0 \/ \E d \in Waits(t) : visibleIn'[t] <= d
    BY DEF HiddenBounded
  <1>t. visibleIn[t] \in Int /\ visibleIn'[t] \in Int
    BY DEF TypeOK, RowsTypeOK
  <1>w. Waits(t) \subseteq Int
    <2>1. Delay[t] \in Int /\ VisibilityTimeout \in Int /\ Extensions \subseteq Int
      BY RowAssumption, DurationAssumption, LoopAssumption
    <2>2. \A attempt : Backoff(attempt) \subseteq Int
      BY DEF Backoff
    <2> QED
      BY <2>1, <2>2 DEF Waits
  \* The row stays as hidden as it was, or less.
  <1>a. CASE visibleIn'[t] <= visibleIn[t] \/ visibleIn'[t] <= 0
    BY <1>a, <1>t, <1>w DEF HiddenBounded
  \* The statement names the wait.
  <1>b. CASE visibleIn'[t] \in Waits(t)
    BY <1>b, <1>t
  <1>1. CASE UNCHANGED rowVars
    BY <1>1, <1>a, <1>t DEF rowVars
  <1>2. ASSUME NEW q, NEW locked, NEW u \in Task, ClaimRow(q, locked, u)
        PROVE  visibleIn'[t] = visibleIn[t] \/ visibleIn'[t] \in Waits(t)
    BY <1>2 DEF ClaimRow, Waits, TypeOK, RowsTypeOK
  <1>3. ASSUME NEW w \in Worker, Beat(w)
        PROVE  visibleIn'[t] = visibleIn[t] \/ visibleIn'[t] \in Waits(t)
    <2>1. PICK e \in Extensions : Heartbeat(held[w], e)
      BY <1>3 DEF Beat
    <2> QED
      BY <2>1 DEF Heartbeat, Waits, TypeOK, RowsTypeOK
  <1>4. ASSUME NEW w \in Worker, Complete(w) PROVE visibleIn' = visibleIn
    BY <1>4 DEF Complete, MarkDelivered, rowVars
  <1>5. ASSUME NEW w \in Worker, Fail(w)
        PROVE  visibleIn'[t] = visibleIn[t] \/ visibleIn'[t] \in Waits(t)
    <2>1. held[w] \in Task /\ token[w] \in Nat /\ token[w] >= 1
      BY <1>5 DEF Fail, Busy, InHand, Counted, TypeOK, LoopsTypeOK
    <2>2. CASE token[w] < MaxRetries[held[w]] /\ Reschedule(held[w], token[w])
      <3>1. PICK d \in Backoff(token[w]) : visibleIn' = [visibleIn EXCEPT ![held[w]] = d]
        BY <2>2 DEF Reschedule
      <3>2. token[w] \in 1..(MaxRetries[held[w]] - 1)
        BY <2>1, <2>2, RowAssumption
      <3>3. d \in Waits(held[w])
        BY <3>1, <3>2 DEF Waits
      <3> QED
        BY <3>1, <3>3 DEF TypeOK, RowsTypeOK
    <2>3. CASE UNCHANGED visibleIn
      BY <2>3
    <2> QED
      BY <1>5, <2>2, <2>3 DEF Fail, MarkFailed, Bury, rowVars
  <1>6. ASSUME NEW S \in SUBSET Reapable, DeleteRows(S) PROVE visibleIn' = visibleIn
    BY <1>6 DEF DeleteRows
  <1>7. CASE Submit
    <2>1. PICK S \in SUBSET Task, elapsed \in 0..LongestTx : InsertRows(S, elapsed)
      BY <1>7 DEF Submit
    <2>2. visibleIn'[t] = visibleIn[t] \/ visibleIn'[t] = Monus(Delay[t], elapsed)
      BY <2>1 DEF InsertRows
    <2>3. Delay[t] \in Nat /\ Delay[t] \in Waits(t) /\ elapsed \in Nat
      BY RowAssumption DEF Waits
    <2>4. Monus(Delay[t], elapsed) <= Delay[t]
      BY <2>3 DEF Monus
    <2> QED
      BY <2>2, <2>3, <2>4, <1>a, <1>t
  <1>8. CASE Revive
    <2>1. visibleIn'[t] = visibleIn[t] \/ visibleIn'[t] = 0
      BY <1>8 DEF Revive, RetryDead, TypeOK, RowsTypeOK
    <2> QED
      BY <2>1, <1>a, <1>t
  <1>9. CASE Tick
    <2>1. visibleIn'[t] = Monus(visibleIn[t], 1)
      BY <1>9 DEF Tick, AgeRows
    <2>2. visibleIn'[t] <= visibleIn[t] \/ visibleIn'[t] <= 0
      BY <2>1, <1>t DEF Monus
    <2> QED
      BY <2>2, <1>a
  <1> QED
    BY <1>1, <1>2, <1>3, <1>4, <1>5, <1>6, <1>7, <1>8, <1>9, <1>a, <1>b, <1>t, RowSteps

\* Every hidden row comes back within a wait its settings name, so time alone
\* brings each task of a loop that died back to the others.
THEOREM HiddenCorrect == Spec => []HiddenBounded
  <1>1. Init => Counted /\ HiddenBounded
    BY DEF Init, RowsInit, Counted, HiddenBounded, Busy, InHand
  <1> QED
    BY <1>1, CountedStep, HiddenStep, TypeCorrect, PTL DEF Spec

----------------------------------------------------------------------------
(* Shutdown. *)

\* How far a cancelled loop is from its end: the task it is about to claim or
\* has in hand, and the way back to the top.
Distance(place) ==
    CASE place \in {"stopped", "down"} -> 0
      [] place = "top" -> 1
      [] place = "waiting" -> 2
      [] place \in {"completing", "failing"} -> 3
      [] place = "marking" -> 4
      [] place = "handling" -> 5
      [] place = "checking" -> 6
      [] place = "polling" -> 7

\* The same for the reaper.
ReaperDistance(place) ==
    CASE place = "stopped" -> 0
      [] place = "resting" -> 1
      [] place = "sweeping" -> 2
      [] place = "reaping" -> 3

\* A whole batch of settled rows is gone.
FullBatch ==
    \E S \in SUBSET Task :
        /\ Cardinality(S) = ReaperBatch
        /\ \A t \in S : status[t] \in {"delivered", "dead"} /\ status'[t] = "gone"

\* Once cancelled, whatever a loop does and whatever fails under it brings it
\* closer to its end, so it claims one more task at most (only if it was
\* polling already) and never begins another turn; no other step moves it, and
\* the reaper goes on only as long as it finds full batches.
ShutdownDescends ==
    [][cancelled =>
        /\ cancelled'
        /\ \A w \in Worker :
              /\ pc'[w] # pc[w] => Distance(pc'[w]) < Distance(pc[w])
              /\ Advance(w) \/ WorkerFault(w) => pc'[w] # pc[w]
        /\ reaper' # reaper => ReaperDistance(reaper') < ReaperDistance(reaper)
        /\ Reap \/ ReaperError => reaper' # reaper \/ FullBatch]_vars

LEMMA Distances ==
  /\ Distance("stopped") = 0 /\ Distance("down") = 0 /\ Distance("top") = 1
  /\ Distance("waiting") = 2 /\ Distance("completing") = 3 /\ Distance("failing") = 3
  /\ Distance("marking") = 4 /\ Distance("handling") = 5 /\ Distance("checking") = 6
  /\ Distance("polling") = 7
  /\ ReaperDistance("stopped") = 0 /\ ReaperDistance("resting") = 1
  /\ ReaperDistance("sweeping") = 2 /\ ReaperDistance("reaping") = 3
  BY DEF Distance, ReaperDistance

\* One loop's step, with the others and the reaper where they are.
LEMMA DescendsLoop ==
  ASSUME TypeOK, cancelled, NEW w \in Worker,
         Advance(w) \/ WorkerFault(w)
  PROVE  /\ cancelled'
         /\ Distance(pc'[w]) < Distance(pc[w])
         /\ \A v \in Worker \ {w} : pc'[v] = pc[v]
         /\ reaper' = reaper
  <1> DEFINE Moves(from, to) == pc[w] = from /\ pc' = [pc EXCEPT ![w] = to]
  <1>1. \/ \E to \in {"checking", "handling", "waiting"} : Moves("polling", to)
        \/ \E to \in {"top", "stopped"} : Moves("waiting", to)
        \/ Moves("top", "stopped")
        \/ \E to \in {"handling", "completing"} : Moves("checking", to)
        \/ \E to \in {"marking", "completing", "failing"} : Moves("handling", to)
        \/ Moves("marking", "completing")
        \/ \E from \in {"completing", "failing"} : Moves(from, "top")
        \/ \E from \in Live : Moves(from, "down")
    <2>1. CASE LoopTop(w) \/ Claim(w) \/ ClaimNothing(w) \/ ClaimError(w) \/ Wake(w)
      BY <2>1 DEF LoopTop, Claim, Take, ClaimNothing, ClaimError, Wake, Goto
    <2>2. CASE \/ CheckInbox(w) \/ CheckInboxError(w) \/ HandlerOk(w) \/ HandlerErr(w)
               \/ MarkInbox(w) \/ MarkInboxError(w)
      BY <2>2 DEF CheckInbox, CheckInboxError, HandlerOk, HandlerErr, MarkInbox,
                  MarkInboxError, Goto
    <2>3. CASE Complete(w) \/ Fail(w) \/ FinishError(w) \/ Crash(w)
      BY <2>3 DEF Complete, Fail, FinishError, Crash, Drop
    <2> QED
      BY <2>1, <2>2, <2>3 DEF Advance, WorkerFault
  <1>2. \A v \in Worker \ {w} : pc'[v] = pc[v]
    BY <1>1 DEF TypeOK, LoopsTypeOK
  <1>3. ASSUME NEW from, NEW to, Moves(from, to), Distance(to) < Distance(from)
        PROVE  Distance(pc'[w]) < Distance(pc[w])
    BY <1>3 DEF TypeOK, LoopsTypeOK
  <1>4. ASSUME NEW from \in Live PROVE Distance("down") < Distance(from)
    BY <1>4, Distances DEF Live, InHand
  <1>5. Distance(pc'[w]) < Distance(pc[w])
    BY <1>1, <1>3, <1>4, Distances
  <1>6. cancelled' /\ reaper' = reaper
    BY DEF Advance, WorkerFault, LoopTop, Claim, ClaimNothing, Wake, CheckInbox, HandlerOk,
           HandlerErr, MarkInbox, Complete, Fail, ClaimError, CheckInboxError,
           MarkInboxError, FinishError, Crash
  <1> QED
    BY <1>2, <1>5, <1>6

\* The reaper's step, with the loops where they are.
LEMMA DescendsReaper ==
  ASSUME TypeOK, cancelled, Reap \/ ReaperError
  PROVE  /\ cancelled' /\ pc' = pc
         /\ \/ ReaperDistance(reaper') < ReaperDistance(reaper) /\ reaper' # reaper
            \/ reaper' = reaper /\ FullBatch
  <1>1. CASE ReaperWake \/ ReapInbox \/ ReaperError
    <2>1. /\ \/ reaper = "resting" /\ reaper' = "stopped"
             \/ reaper = "sweeping" /\ reaper' = "resting"
             \/ reaper = "reaping" /\ reaper' = "resting"
          /\ cancelled' /\ pc' = pc
      BY <1>1 DEF ReaperWake, ReapInbox, ReaperError, loopVars
    <2> QED
      BY <2>1, Distances
  <1>2. CASE ReapBatch
    <2>1. PICK S \in SUBSET Reapable :
             /\ DeleteRows(S)
             /\ IsFiniteSet(S) /\ Cardinality(S) <= ReaperBatch
             /\ reaper' = IF Cardinality(S) < ReaperBatch THEN "sweeping" ELSE "reaping"
      BY <1>2 DEF ReapBatch
    <2>2. CASE Cardinality(S) < ReaperBatch
      BY <1>2, <2>1, <2>2, Distances DEF ReapBatch, loopVars
    <2>3. CASE Cardinality(S) = ReaperBatch
      <3>1. FullBatch
        BY <2>1, <2>3 DEF FullBatch, DeleteRows, Reapable
      <3>2. ~(Cardinality(S) < ReaperBatch)
        BY <2>3, LoopAssumption
      <3> QED
        BY <1>2, <2>1, <3>1, <3>2 DEF ReapBatch, loopVars
    <2> QED
      BY <2>1, <2>2, <2>3, FS_CardinalityType, LoopAssumption
  <1> QED
    BY <1>1, <1>2 DEF Reap

\* What the other steps leave where it is.
LEMMA DescendsOther ==
  ASSUME TypeOK, cancelled, [Next]_vars,
         ~\E w \in Worker : Advance(w) \/ WorkerFault(w), ~(Reap \/ ReaperError)
  PROVE  cancelled' /\ pc' = pc /\ reaper' = reaper
  <1>1. CASE UNCHANGED vars \/ Submit \/ Revive \/ Shutdown \/ Tick
    BY <1>1 DEF vars, loopVars, Submit, Revive, Shutdown, Tick
  <1>2. ASSUME NEW w \in Worker, Beat(w) \/ Restart(w)
        PROVE  cancelled' /\ pc' = pc /\ reaper' = reaper
    BY <1>2 DEF Beat, Restart, loopVars
  <1> QED
    BY <1>1, <1>2 DEF Next

\* A cancelled library comes to rest after a bounded number of its own steps,
\* in every loop: what ShutdownCompletes needs besides fairness.
THEOREM ShutdownCorrect == Spec => ShutdownDescends
  <1> DEFINE Descends ==
        cancelled =>
          /\ cancelled'
          /\ \A w \in Worker :
                /\ pc'[w] # pc[w] => Distance(pc'[w]) < Distance(pc[w])
                /\ Advance(w) \/ WorkerFault(w) => pc'[w] # pc[w]
          /\ reaper' # reaper => ReaperDistance(reaper') < ReaperDistance(reaper)
          /\ Reap \/ ReaperError => reaper' # reaper \/ FullBatch
  <1>n. ASSUME NEW w \in Worker, Distance(pc'[w]) < Distance(pc[w]), TypeOK
        PROVE  pc'[w] # pc[w]
    <2>1. Distance(pc[w]) \in Nat
      BY <1>n DEF Distance, TypeOK, LoopsTypeOK, Live, InHand
    <2> QED
      BY <1>n, <2>1
  <1>1. TypeOK /\ [Next]_vars => Descends
    <2> SUFFICES ASSUME TypeOK, [Next]_vars, cancelled PROVE Descends
      BY DEF Descends
    <2>1. ASSUME NEW w \in Worker, Advance(w) \/ WorkerFault(w) PROVE Descends
      <3>1. /\ cancelled' /\ Distance(pc'[w]) < Distance(pc[w]) /\ pc'[w] # pc[w]
            /\ \A v \in Worker \ {w} : pc'[v] = pc[v]
            /\ reaper' = reaper
        BY <2>1, DescendsLoop, <1>n
      <3>2. \A v \in Worker \ {w} : ~(Advance(v) \/ WorkerFault(v))
        BY <3>1, DescendsLoop, <1>n
      <3>3. ~(Reap \/ ReaperError)
        BY <3>1, DescendsReaper
      <3> QED
        BY <3>1, <3>2, <3>3
    <2>2. CASE Reap \/ ReaperError
      <3>1. cancelled' /\ pc' = pc
        BY <2>2, DescendsReaper
      <3>2. \A w \in Worker : ~(Advance(w) \/ WorkerFault(w))
        BY <3>1, DescendsLoop, <1>n
      <3>3. /\ reaper' # reaper => ReaperDistance(reaper') < ReaperDistance(reaper)
            /\ reaper' # reaper \/ FullBatch
        BY <2>2, DescendsReaper
      <3> QED
        BY <3>1, <3>2, <3>3
    <2>3. CASE ~(Reap \/ ReaperError) /\ ~\E w \in Worker : Advance(w) \/ WorkerFault(w)
      BY <2>3, DescendsOther
    <2> QED
      BY <2>1, <2>2, <2>3
  <1>2. TypeOK /\ [Next]_vars => [Descends]_vars
    BY <1>1
  <1> QED
    BY <1>2, TypeCorrect, PTL DEF Spec, ShutdownDescends

=============================================================================
