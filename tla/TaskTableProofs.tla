-------------------------- MODULE TaskTableProofs --------------------------
(***************************************************************************)
(* What every statement on the rows of TaskTable preserves, whoever runs   *)
(* it: the types, and one active row per deduplication key; and which row  *)
(* a claim takes.                                                          *)
(***************************************************************************)
EXTENDS TaskTable, WellFoundedInduction, FiniteSetTheorems, TLAPS

----------------------------------------------------------------------------
(* Types *)

\* Subtraction on the clock never goes below zero.
LEMMA MonusType == ASSUME NEW a \in Int, NEW b \in Int
                   PROVE  /\ Monus(a, b) \in Nat
                          /\ a > b => Monus(a, b) = a - b
  BY DEF Monus

\* A submission keeps the types of the rows.
LEMMA InsertRowsType ==
  ASSUME RowsTypeOK, NEW S, NEW elapsed \in Nat, InsertRows(S, elapsed)
  PROVE  RowsTypeOK'
  <1>1. elapsed \in Int
    OBVIOUS
  <1>2. \A t \in Task : Monus(Delay[t], elapsed) \in Int
    BY <1>1, MonusType, RowAssumption
  <1> QED
    BY <1>2 DEF InsertRows, RowsTypeOK, MessageStatus

\* claim keeps the types of the rows.
LEMMA ClaimRowType ==
  ASSUME RowsTypeOK, NEW q, NEW locked, NEW t \in Task, ClaimRow(q, locked, t)
  PROVE  RowsTypeOK'
  BY DurationAssumption DEF ClaimRow, RowsTypeOK, MessageStatus

\* mark_delivered keeps the types of the rows.
LEMMA MarkDeliveredType ==
  ASSUME RowsTypeOK, NEW t \in Task, MarkDelivered(t)
  PROVE  RowsTypeOK'
  BY DurationAssumption DEF MarkDelivered, RowsTypeOK, MessageStatus, rowVars

\* mark_failed keeps the types of the rows.
LEMMA MarkFailedType ==
  ASSUME RowsTypeOK, NEW t \in Task, NEW a \in Nat, MarkFailed(t, a)
  PROVE  RowsTypeOK'
  <1>1. CASE Bury(t)
    BY <1>1, DurationAssumption DEF Bury, RowsTypeOK, MessageStatus
  <1>2. CASE Reschedule(t, a)
    BY <1>2 DEF Reschedule, Backoff, RowsTypeOK, MessageStatus
  <1>3. CASE UNCHANGED rowVars
    BY <1>3 DEF rowVars, RowsTypeOK
  <1> QED
    BY <1>1, <1>2, <1>3 DEF MarkFailed

\* heartbeat keeps the types of the rows.
LEMMA HeartbeatType ==
  ASSUME RowsTypeOK, NEW t \in Task, NEW e \in Int, Heartbeat(t, e)
  PROVE  RowsTypeOK'
  BY DEF Heartbeat, RowsTypeOK

\* retry_dead keeps the types of the rows.
LEMMA RetryDeadType ==
  ASSUME RowsTypeOK, NEW t \in Task, RetryDead(t)
  PROVE  RowsTypeOK'
  BY DEF RetryDead, RowsTypeOK, MessageStatus

\* The reaper's or a purge's delete keeps the types of the rows.
LEMMA DeleteRowsType ==
  ASSUME RowsTypeOK, NEW S, DeleteRows(S)
  PROVE  RowsTypeOK'
  BY DEF DeleteRows, RowsTypeOK

\* The clock keeps the types of the rows.
LEMMA AgeRowsType ==
  ASSUME RowsTypeOK, AgeRows
  PROVE  RowsTypeOK'
  <1>1. \A t \in Task : Monus(visibleIn[t], 1) \in Nat /\ Monus(keepFor[t], 1) \in Nat
    BY DEF Monus, RowsTypeOK
  <1> QED
    BY <1>1 DEF AgeRows, RowsTypeOK

----------------------------------------------------------------------------
(* Any statement *)

Statement ==
    \/ UNCHANGED rowVars
    \/ \E t \in Task :
          \/ \E q, locked : ClaimRow(q, locked, t)
          \/ MarkDelivered(t) \/ (\E a \in Nat : MarkFailed(t, a)) \/ RetryDead(t)
          \/ \E extension \in Int : Heartbeat(t, extension)
    \/ \E S \in SUBSET Task, elapsed \in Nat : InsertRows(S, elapsed)
    \/ \E S \in SUBSET Task : DeleteRows(S)
    \/ AgeRows

\* No statement takes a row out of its types.
LEMMA StatementType == RowsTypeOK /\ Statement => RowsTypeOK'
  <1>1. RowsTypeOK /\ UNCHANGED rowVars => RowsTypeOK'
    BY DEF RowsTypeOK, rowVars
  <1> QED
    BY <1>1, InsertRowsType, ClaimRowType, MarkDeliveredType, MarkFailedType,
       HeartbeatType, RetryDeadType, DeleteRowsType, AgeRowsType DEF Statement

\* No statement makes a row active whose key another active row has: not the
\* insert, nor the ways back to "pending".
LEMMA StatementKeys == RowsTypeOK /\ DedupUnique /\ Statement => DedupUnique'
  <1> SUFFICES ASSUME RowsTypeOK, DedupUnique, Statement PROVE DedupUnique'
    OBVIOUS
  <1>1. CASE \A t \in Task : status'[t] \in Active => status[t] \in Active
    BY <1>1 DEF DedupUnique
  <1>2. CASE UNCHANGED status
    BY <1>2 DEF DedupUnique
  <1>3. ASSUME NEW t \in Task, KeyFree(t),
               \A u \in Task \ {t} : status'[u] = status[u]
        PROVE  DedupUnique'
    BY <1>3 DEF DedupUnique, KeyFree
  <1>4. ASSUME NEW q, NEW locked, NEW t \in Task, ClaimRow(q, locked, t)
        PROVE  DedupUnique'
    BY <1>1, <1>4 DEF ClaimRow, Claimable, Active, RowsTypeOK, MessageStatus
  <1>5. ASSUME NEW t \in Task, MarkDelivered(t) PROVE DedupUnique'
    BY <1>1, <1>2, <1>5 DEF MarkDelivered, Active, RowsTypeOK, MessageStatus, rowVars
  <1>6. ASSUME NEW t \in Task, NEW a \in Nat, MarkFailed(t, a) PROVE DedupUnique'
    <2>1. CASE Bury(t)
      BY <1>1, <2>1 DEF Bury, Active, RowsTypeOK, MessageStatus
    <2>2. CASE KeyFree(t) /\ Reschedule(t, a)
      BY <1>3, <2>2 DEF Reschedule, RowsTypeOK
    <2> QED
      BY <1>2, <1>6, <2>1, <2>2 DEF MarkFailed, rowVars
  <1>7. ASSUME NEW S \in SUBSET Task, DeleteRows(S) PROVE DedupUnique'
    BY <1>1, <1>7 DEF DeleteRows, Active, RowsTypeOK
  <1>8. ASSUME NEW S \in SUBSET Task, NEW elapsed \in Nat, InsertRows(S, elapsed)
        PROVE  DedupUnique'
    <2> SUFFICES ASSUME NEW t \in Task, NEW u \in Task, t # u, DedupKey[t] # NoKey,
                        status'[t] \in Active, status'[u] \in Active,
                        DedupKey[t] = DedupKey[u]
                 PROVE  FALSE
      BY DEF DedupUnique
    <2>1. CASE t \in S /\ u \in S
      BY <1>8, <2>1 DEF InsertRows
    <2>2. CASE t \in S /\ u \notin S
      BY <1>8, <2>2 DEF InsertRows, KeyFree
    <2>3. CASE t \notin S /\ u \in S
      BY <1>8, <2>3 DEF InsertRows, KeyFree
    <2>4. CASE t \notin S /\ u \notin S
      BY <1>8, <2>4 DEF InsertRows, DedupUnique
    <2> QED
      BY <2>1, <2>2, <2>3, <2>4
  <1>9. ASSUME NEW t \in Task, RetryDead(t) PROVE DedupUnique'
    BY <1>3, <1>9 DEF RetryDead, RowsTypeOK
  <1>10. CASE UNCHANGED rowVars \/ AgeRows
    BY <1>2, <1>10 DEF rowVars, AgeRows
  <1>11. ASSUME NEW t \in Task, NEW extension \in Int, Heartbeat(t, extension)
         PROVE  DedupUnique'
    BY <1>2, <1>11 DEF Heartbeat
  <1> QED
    BY <1>4, <1>5, <1>6, <1>7, <1>8, <1>9, <1>10, <1>11 DEF Statement

\* The empty table has no two active rows.
LEMMA NoRows == RowsInit => RowsTypeOK /\ DedupUnique
  BY DEF RowsInit, RowsTypeOK, DedupUnique, Active

----------------------------------------------------------------------------
(* The row a claim takes *)

\* The order of the claim is total: no two rows tie.
LEMMA BeforeIsOrder ==
  ASSUME NEW t \in Task, NEW u \in Task, NEW v \in Task
  PROVE  /\ Before(t, u) \/ Before(u, t)
         /\ Before(t, u) /\ Before(u, t) => t = u
         /\ Before(t, u) /\ Before(u, v) => Before(t, v)
  <1>1. /\ Priority[t] \in Int /\ Priority[u] \in Int /\ Priority[v] \in Int
        /\ t \in Int /\ u \in Int /\ v \in Int
    BY TaskAssumption, RowAssumption
  <1> QED
    BY <1>1 DEF Before

\* A claim (WorkerLoop::claim) that finds claimable rows no other claim has
\* locked takes one of them, and which one is settled by priority and id: of
\* finitely many rows the one with the fewest before it is the first.
THEOREM ClaimFinds ==
  ASSUME NEW q, NEW locked, IsFiniteSet(Claimable(q) \ locked),
         Claimable(q) \ locked # {}
  PROVE  \E t \in Claimable(q) \ locked :
            /\ \A u \in Claimable(q) \ locked : Before(t, u)
            /\ \A s \in Claimable(q) \ locked :
                  (\A u \in Claimable(q) \ locked : Before(s, u)) => s = t
  <1> DEFINE S == Claimable(q) \ locked
             Ahead(t) == {u \in S : Before(u, t) /\ u # t}
             T == {Ahead(t) : t \in S}
  <1>0. S \subseteq Task
    BY DEF Claimable
  <1>1. IsWellFoundedOn(StrictSubsetOrdering(S), FiniteSubsetsOf(S))
    BY FS_StrictSubsetOrderingWellFounded
  <1>2. T \subseteq FiniteSubsetsOf(S) /\ T # {}
    <2>1. \A t \in S : Ahead(t) \in SUBSET S
      OBVIOUS
    <2>2. IsFiniteSet(S) /\ S # {}
      OBVIOUS
    <2>3. FiniteSubsetsOf(S) = SUBSET S
      BY <2>2, FS_FiniteSubsetsOfFinite
    <2> HIDE DEF Ahead, S
    <2> QED
      BY <2>1, <2>2, <2>3
  <1>3. PICK A \in T : \A B \in T : <<B, A>> \notin StrictSubsetOrdering(S)
    <2> HIDE DEF T
    <2> QED
      BY <1>1, <1>2, WFMin
  <1>4. PICK t \in S : A = Ahead(t)
    BY <1>3
  <1> HIDE DEF S
  <1>5. ASSUME NEW u \in S, ~Before(t, u) PROVE FALSE
    <2>1. Before(u, t) /\ u # t
      BY <1>0, <1>5, BeforeIsOrder
    <2>2. Ahead(u) \subseteq Ahead(t)
      BY <1>0, <2>1, BeforeIsOrder
    <2>3. u \in Ahead(t) /\ u \notin Ahead(u)
      BY <2>1
    <2>4. Ahead(u) \in SUBSET S /\ Ahead(t) \in SUBSET S
      OBVIOUS
    <2>5. <<Ahead(u), A>> \in StrictSubsetOrdering(S)
      <3> HIDE DEF Ahead
      <3> QED
        BY <1>4, <2>2, <2>3, <2>4 DEF StrictSubsetOrdering
    <2> QED
      BY <1>3, <2>5
  <1>6. \A s \in S : (\A u \in S : Before(s, u)) => s = t
    BY <1>0, <1>5, BeforeIsOrder
  <1> QED
    BY <1>5, <1>6 DEF S

=============================================================================
