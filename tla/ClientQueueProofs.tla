-------------------------- MODULE ClientQueueProofs --------------------------
(***************************************************************************)
(* What the calls of applications and the operator's commands guarantee,   *)
(* for any tasks, clients and bounds.  While no lease is overrun a task in *)
(* hand is in one hand, and claimed until its holder has answered for it;  *)
(* what it stored and reported is then what the row shows.                 *)
(***************************************************************************)
EXTENDS ClientQueue, TaskTableProofs

----------------------------------------------------------------------------
(* Types *)

ClientsTypeOK ==
    /\ pc \in [Client -> Place]
    /\ held \in [Client -> Task \union {NoTask}]
    /\ token \in [Client -> Nat] /\ run \in [Client -> Nat]
    /\ said \in [Client -> 0..100 \union {NoReport}]
    /\ \A c \in Client : Holding(c) <=> held[c] \in Task

ResultsTypeOK ==
    /\ progress \in [Task -> 0..100]
    /\ result \in [Task -> Nat] /\ runs \in [Task -> Nat]
    /\ finishedBy \in [Task -> Nat]

CommandTypeOK ==
    /\ command \in {"none", "retrying", "done", "failed"}
    /\ listed \subseteq Task /\ asleep \subseteq Task

FaultsTypeOK == {crashes, dbErrors, overruns, purges, commands} \subseteq Nat

\* The type invariant, by what the actions leave alone together.
LEMMA TypeParts ==
    TypeOK <=> RowsTypeOK /\ ClientsTypeOK /\ ResultsTypeOK /\ CommandTypeOK /\ FaultsTypeOK
  BY DEF TypeOK, ClientsTypeOK, ResultsTypeOK, CommandTypeOK, FaultsTypeOK

\* A client that moves on without its task in hand changing.
LEMMA GotoType ==
  ASSUME ClientsTypeOK, NEW c \in Client, NEW place \in Place,
         Holding(c) <=> place \in {"working", "stored", "returning"}, Goto(c, place)
  PROVE  ClientsTypeOK'
  BY DEF Goto, ClientsTypeOK, Holding

\* A client that gives up its task.
LEMMA LetGoType ==
  ASSUME ClientsTypeOK, NEW c \in Client, NEW place \in {"idle", "down"}, LetGo(c, place)
  PROVE  ClientsTypeOK'
  <1>1. /\ pc' \in [Client -> Place]
        /\ held' \in [Client -> Task \union {NoTask}]
        /\ token' \in [Client -> Nat] /\ run' \in [Client -> Nat]
        /\ said' \in [Client -> 0..100 \union {NoReport}]
    BY DEF LetGo, ClientsTypeOK, Place
  <1>2. ASSUME NEW d \in Client PROVE Holding(d)' <=> held'[d] \in Task
    <2>1. CASE d = c
      BY <2>1, ClientAssumption DEF ClientAssumption, LetGo, ClientsTypeOK, Holding
    <2>2. CASE d # c
      BY <2>2 DEF LetGo, ClientsTypeOK, Holding
    <2> QED
      BY <2>1, <2>2
  <1> QED
    BY <1>1, <1>2 DEF ClientsTypeOK, Holding

\* A client that has answered: a handler returns, any other is done.
LEMMA AnsweredType ==
  ASSUME ClientsTypeOK, NEW c \in Client, Holding(c), Answered(c)
  PROVE  ClientsTypeOK'
  BY GotoType, LetGoType DEF Answered, Place

\* Progress is clamped into its range, whatever is reported.
LEMMA ClampType == \A p \in Int : Clamp(p) \in 0..100
  BY DEF Clamp

\* The value of a report is stored in the column or nowhere.
LEMMA WriteProgressType ==
  ASSUME ResultsTypeOK, NEW t \in Task, NEW p \in Reports, WriteProgress(t, p)
  PROVE  progress' \in [Task -> 0..100]
  <1>1. Clamp(p) \in 0..100
    BY ClampType, ClientAssumption DEF ClientAssumption
  <1> QED
    BY <1>1 DEF WriteProgress, ResultsTypeOK

\* The claimed task is counted.
LEMMA ClaimOneType ==
  ASSUME ResultsTypeOK, NEW c \in Client, NEW t \in Task, ClaimOne(c, t)
  PROVE  ResultsTypeOK'
  BY DEF ClaimOne, ResultsTypeOK

\* The result is that of a run.
LEMMA WriteResultType ==
  ASSUME ResultsTypeOK, NEW t \in Task, NEW r \in Nat, WriteResult(t, r)
  PROVE  ResultsTypeOK'
  BY DEF WriteResult, ResultsTypeOK

\* So is the delivery.
LEMMA DeliverType ==
  ASSUME ResultsTypeOK, ClientsTypeOK, NEW c \in Client, DeliverWithResult(c)
  PROVE  ResultsTypeOK'
  BY DEF DeliverWithResult, ResultsTypeOK, ClientsTypeOK

\* What a client has in hand.
LEMMA InHand ==
  ASSUME ClientsTypeOK, NEW c \in Client,
         pc[c] \in {"working", "stored", "returning"}
  PROVE  held[c] \in Task /\ token[c] \in Nat /\ run[c] \in Nat
  BY DEF ClientsTypeOK, Holding

----------------------------------------------------------------------------
(* What a step does to the rows *)

\* Every call is one statement on the rows, or none.
LEMMA CallStatement ==
  ASSUME TypeOK, NEW c \in Client, Call(c)
  PROVE  Statement
  <1>1. ClientsTypeOK
    BY TypeParts
  <1>2. ASSUME NEW t \in Task, ClaimOne(c, t) PROVE Statement
    BY <1>2 DEF ClaimOne, Statement
  <1>3. ASSUME pc[c] \in {"working", "stored", "returning"},
               MarkDelivered(held[c]) \/ MarkFailed(held[c], token[c])
        PROVE  Statement
    BY <1>1, <1>3, InHand DEF Statement
  <1>4. ASSUME pc[c] = "working", NEW extension \in Extensions, Heartbeat(held[c], extension)
        PROVE  Statement
    <2>1. extension \in Int /\ held[c] \in Task
      BY <1>1, <1>4, InHand, ClientAssumption DEF ClientAssumption
    <2> QED
      BY <1>4, <2>1 DEF Statement
  <1>5. ASSUME UNCHANGED rowVars PROVE Statement
    BY <1>5 DEF Statement
  <1>6. ASSUME CallError(c) PROVE Statement
    <2>1. ASSUME ClaimError(c) PROVE Statement
      BY <1>2, <2>1 DEF ClaimError
    <2>2. ASSUME EndError(c) PROVE Statement
      BY <1>3, <1>5, <2>2 DEF EndError
    <2>3. ASSUME ResultError(c) PROVE Statement
      BY <1>3, <1>5, <2>3 DEF ResultError, DeliverWithResult
    <2>4. ASSUME ReportError(c) PROVE Statement
      BY <1>5, <2>4 DEF ReportError
    <2>5. ASSUME BeatError(c) PROVE Statement
      BY <1>4, <1>5, <2>5 DEF BeatError
    <2> QED
      BY <1>6, <2>1, <2>2, <2>3, <2>4, <2>5 DEF CallError
  <1>7. ASSUME Claim(c) PROVE Statement
    BY <1>2, <1>7 DEF Claim
  <1>8. ASSUME Complete(c) \/ Fail(c) \/ Finish(c) PROVE Statement
    BY <1>3, <1>8 DEF Complete, Fail, Finish, DeliverWithResult
  <1>9. ASSUME Beat(c) PROVE Statement
    BY <1>4, <1>9 DEF Beat
  <1>10. ASSUME SetProgress(c) \/ StoreResult(c) \/ Crash(c) \/ Restart(c) PROVE Statement
    BY <1>5, <1>10 DEF SetProgress, StoreResult, Crash, Restart
  <1> QED
    BY <1>6, <1>7, <1>8, <1>9, <1>10 DEF Call

\* So is every step of the environment.
LEMMA EnvironmentStatement ==
  ASSUME TypeOK, Environment
  PROVE  Statement
  <1>1. ASSUME NEW S \in SUBSET Task, DeleteRows(S) PROVE Statement
    BY <1>1 DEF Statement
  <1>2. ASSUME NEW t \in Task, RetryDead(t) PROVE Statement
    BY <1>2 DEF Statement
  <1>3. ASSUME UNCHANGED rowVars PROVE Statement
    BY <1>3 DEF Statement
  <1>4. ASSUME NEW t \in Task, RetryListed(t) PROVE Statement
    BY <1>2, <1>3, <1>4 DEF RetryListed
  <1>5. ASSUME RetryEnds PROVE Statement
    BY <1>3, <1>5 DEF RetryEnds
  <1>6. ASSUME RetryError PROVE Statement
    <2>1. listed \subseteq Task
      BY DEF TypeOK
    <2> QED
      BY <1>2, <1>3, <1>6, <2>1 DEF RetryError
  <1>7. ASSUME Purge PROVE Statement
    <2>1. PICK st \in MessageStatus, q \in {Queue[t] : t \in Task} :
              DeleteRows({t \in Task : Queue[t] = q /\ status[t] = st})
      BY <1>7 DEF Purge
    <2> QED
      BY <1>1, <2>1
  <1>8. ASSUME Reap PROVE Statement
    <2>1. PICK S \in SUBSET Reapable : DeleteRows(S)
      BY <1>8 DEF Reap
    <2>2. S \in SUBSET Task
      BY DEF Reapable
    <2> QED
      BY <1>1, <2>1, <2>2
  <1>9. ASSUME Submit PROVE Statement
    <2>1. PICK S \in SUBSET Task : InsertRows(S, 0)
      BY <1>9 DEF Submit
    <2> QED
      BY <2>1 DEF Statement
  <1>10. ASSUME Tick PROVE Statement
    BY <1>10 DEF Tick, Statement
  <1> QED
    BY <1>4, <1>5, <1>6, <1>7, <1>8, <1>9, <1>10 DEF Environment

\* Every step is a statement on the rows, or leaves them alone.
LEMMA StepStatement == TypeOK /\ [Next]_vars => Statement
  <1>1. ASSUME ListDead \/ UNCHANGED vars PROVE Statement
    BY <1>1 DEF ListDead, vars, Statement
  <1> QED
    BY <1>1, CallStatement, EnvironmentStatement DEF Next

----------------------------------------------------------------------------
(* Type correctness *)

\* The clients and the results keep their types in every call.
LEMMA CallType ==
  ASSUME TypeOK, NEW c \in Client, Call(c)
  PROVE  ClientsTypeOK' /\ ResultsTypeOK'
  <1> USE DEF Place
  <1>1. ClientsTypeOK /\ ResultsTypeOK
    BY TypeParts
  <1>2. ASSUME UNCHANGED clientVars PROVE ClientsTypeOK'
    BY <1>1, <1>2 DEF clientVars, ClientsTypeOK, Holding
  <1>3. ASSUME UNCHANGED resultVars PROVE ResultsTypeOK'
    BY <1>1, <1>3 DEF resultVars, ResultsTypeOK
  <1>4. ASSUME Claim(c) PROVE ClientsTypeOK' /\ ResultsTypeOK'
    <2>1. PICK t \in Task :
              /\ ClaimOne(c, t)
              /\ pc' = [pc EXCEPT ![c] = "working"]
              /\ held' = [held EXCEPT ![c] = t]
              /\ token' = [token EXCEPT ![c] = attempts[t] + 1]
              /\ run' = [run EXCEPT ![c] = runs[t] + 1]
              /\ UNCHANGED said
      BY <1>4 DEF Claim
    <2>2. attempts[t] + 1 \in Nat /\ runs[t] + 1 \in Nat
      BY <1>1, TypeParts DEF RowsTypeOK, ResultsTypeOK
    <2>3. ClientsTypeOK'
      BY <1>1, <2>1, <2>2 DEF ClientsTypeOK, Holding
    <2> QED
      BY <1>1, <2>1, <2>3, ClaimOneType
  <1>5. ASSUME SetProgress(c) PROVE ClientsTypeOK' /\ ResultsTypeOK'
    <2>1. PICK p \in Reports :
              WriteProgress(held[c], p) /\ said' = [said EXCEPT ![c] = Clamp(p)]
      BY <1>5 DEF SetProgress
    <2>2. held[c] \in Task /\ Clamp(p) \in 0..100
      BY <1>1, <1>5, InHand, ClampType, ClientAssumption DEF SetProgress, ClientAssumption
    <2>3. progress' \in [Task -> 0..100]
      BY <1>1, <2>1, <2>2, WriteProgressType
    <2>4. said' \in [Client -> 0..100 \union {NoReport}]
      BY <1>1, <2>1, <2>2 DEF ClientsTypeOK
    <2> QED
      BY <1>1, <1>5, <2>3, <2>4 DEF SetProgress, ClientsTypeOK, ResultsTypeOK, Holding
  <1>6. ASSUME Beat(c) PROVE ClientsTypeOK' /\ ResultsTypeOK'
    BY <1>2, <1>3, <1>6 DEF Beat
  <1>7. ASSUME StoreResult(c) PROVE ClientsTypeOK' /\ ResultsTypeOK'
    BY <1>1, <1>7, InHand, GotoType, WriteResultType DEF StoreResult, Holding
  <1>8. ASSUME Finish(c) PROVE ClientsTypeOK' /\ ResultsTypeOK'
    BY <1>1, <1>8, AnsweredType, DeliverType DEF Finish, Holding
  <1>9. ASSUME Complete(c) \/ Fail(c) \/ Crash(c) PROVE ClientsTypeOK' /\ ResultsTypeOK'
    <2>1. \E place \in {"idle", "down"} : LetGo(c, place)
      BY <1>9 DEF Complete, Fail, Crash
    <2> QED
      BY <1>1, <1>3, <1>9, <2>1, LetGoType DEF Complete, Fail, Crash
  <1>10. ASSUME CallError(c) PROVE ClientsTypeOK' /\ ResultsTypeOK'
    <2>1. ASSUME ClaimError(c) PROVE ClientsTypeOK' /\ ResultsTypeOK'
      BY <1>1, <1>2, <2>1, ClaimOneType DEF ClaimError
    <2>2. ASSUME EndError(c) PROVE ClientsTypeOK' /\ ResultsTypeOK'
      BY <1>1, <1>3, <2>2, LetGoType DEF EndError
    <2>3. ASSUME ResultError(c) PROVE ClientsTypeOK' /\ ResultsTypeOK'
      <3>1. Holding(c) /\ held[c] \in Task /\ run[c] \in Nat
        BY <1>1, <2>3, InHand DEF ResultError, Holding
      <3> QED
        BY <1>1, <1>3, <2>3, <3>1, AnsweredType, WriteResultType, DeliverType
           DEF ResultError
    <2>4. ASSUME ReportError(c) PROVE ClientsTypeOK' /\ ResultsTypeOK'
      <3>1. held[c] \in Task
        BY <1>1, <2>4, InHand DEF ReportError
      <3>2. progress' \in [Task -> 0..100]
        BY <1>1, <2>4, <3>1, WriteProgressType DEF ReportError, ResultsTypeOK
      <3>3. said' \in [Client -> 0..100 \union {NoReport}]
        BY <1>1, <2>4 DEF ReportError, ClientsTypeOK
      <3> QED
        BY <1>1, <2>4, <3>2, <3>3 DEF ReportError, ClientsTypeOK, ResultsTypeOK, Holding
    <2>5. ASSUME BeatError(c) PROVE ClientsTypeOK' /\ ResultsTypeOK'
      BY <1>2, <1>3, <2>5 DEF BeatError
    <2> QED
      BY <1>10, <2>1, <2>2, <2>3, <2>4, <2>5 DEF CallError
  <1>11. ASSUME Restart(c) PROVE ClientsTypeOK' /\ ResultsTypeOK'
    BY <1>1, <1>3, <1>11, GotoType DEF Restart, Holding
  <1> QED
    BY <1>4, <1>5, <1>6, <1>7, <1>8, <1>9, <1>10, <1>11 DEF Call

\* The counts of what went wrong are numbers and only grow.
LEMMA CountersGrow ==
  ASSUME TypeOK, [Next]_vars
  PROVE  /\ FaultsTypeOK'
         /\ crashes' >= crashes /\ dbErrors' >= dbErrors
         /\ overruns' >= overruns /\ purges' >= purges
  <1>1. /\ crashes \in Nat /\ dbErrors \in Nat /\ overruns \in Nat
        /\ purges \in Nat /\ commands \in Nat
    BY DEF TypeOK
  <1>2. CASE UNCHANGED faultVars
    BY <1>1, <1>2 DEF FaultsTypeOK, faultVars
  <1>3. ASSUME NEW c \in Client, Call(c)
        PROVE  /\ crashes' \in {crashes, crashes + 1} /\ dbErrors' \in {dbErrors, dbErrors + 1}
               /\ UNCHANGED <<overruns, purges, commands>>
    BY <1>3 DEF Call, Claim, SetProgress, Beat, StoreResult, Finish, Complete, Fail,
                CallError, Crash, Restart, faultVars, Count
  <1>4. CASE ListDead
    BY <1>1, <1>4 DEF ListDead, FaultsTypeOK, Count
  <1>5. CASE Environment
    <2>1. ASSUME NEW t \in Task, RetryListed(t) PROVE UNCHANGED faultVars
      BY <2>1 DEF RetryListed
    <2>2. CASE RetryEnds \/ Reap \/ Submit
      BY <1>2, <2>2 DEF RetryEnds, Reap, Submit
    <2>3. CASE RetryError
      BY <1>1, <2>3 DEF RetryError, FaultsTypeOK, Count
    <2>4. CASE Purge
      BY <1>1, <2>4 DEF Purge, FaultsTypeOK, Count
    <2>5. CASE Tick
      BY <1>1, <2>5 DEF Tick, FaultsTypeOK, Count
    <2> QED
      BY <1>2, <1>5, <2>1, <2>2, <2>3, <2>4, <2>5 DEF Environment
  <1>6. CASE \E c \in Client : Call(c)
    BY <1>1, <1>3, <1>6 DEF FaultsTypeOK
  <1> QED
    BY <1>2, <1>4, <1>5, <1>6 DEF Next, vars, faultVars

\* Clients start idle.
LEMMA InitType == Init => TypeOK
  <1> SUFFICES ASSUME Init PROVE TypeOK
    OBVIOUS
  <1>1. RowsTypeOK
    BY NoRows DEF Init
  <1>2. ClientsTypeOK
    BY ClientAssumption DEF ClientAssumption, Init, ClientsTypeOK, Place, Holding
  <1>3. ResultsTypeOK
    BY DEF Init, ResultsTypeOK
  <1>4. CommandTypeOK /\ FaultsTypeOK
    BY DEF Init, CommandTypeOK, FaultsTypeOK
  <1> QED
    BY <1>1, <1>2, <1>3, <1>4, TypeParts

\* Every step keeps the types.
LEMMA StepType == TypeOK /\ [Next]_vars => TypeOK'
  <1> SUFFICES ASSUME TypeOK, [Next]_vars PROVE TypeOK'
    OBVIOUS
  <1>1. RowsTypeOK'
    BY StepStatement, StatementType, TypeParts
  <1>2. FaultsTypeOK'
    BY CountersGrow
  <1>3. ClientsTypeOK' /\ ResultsTypeOK'
    <2>1. CASE UNCHANGED <<clientVars, resultVars>>
      <3>1. ClientsTypeOK /\ ResultsTypeOK
        BY TypeParts
      <3> QED
        BY <2>1, <3>1 DEF clientVars, resultVars, ClientsTypeOK, ResultsTypeOK, Holding
    <2> QED
      BY <2>1, CallType DEF Next, vars
  <1>4. CommandTypeOK'
    <2>1. CommandTypeOK
      BY TypeParts
    <2>2. CASE ListDead
      <3>1. PICK S \in SUBSET Task : listed' = S /\ asleep' = S
        BY <2>2 DEF ListDead, DeadRows
      <3> QED
        BY <2>2, <3>1 DEF ListDead, CommandTypeOK
    <2>3. CASE Environment /\ Observe
      <3>1. listed' \subseteq listed
        BY <2>3 DEF Environment, RetryListed, RetryEnds, RetryError, Purge, Reap, Submit, Tick
      <3>2. command' \in {command, "done", "failed"}
        BY <2>3 DEF Environment, RetryListed, RetryEnds, RetryError, Purge, Reap, Submit, Tick
      <3> QED
        BY <2>1, <2>3, <3>1, <3>2 DEF Observe, CommandTypeOK
    <2>4. CASE Observe /\ UNCHANGED <<command, listed>>
      BY <2>1, <2>4 DEF Observe, CommandTypeOK
    <2>5. CASE UNCHANGED vars
      BY <2>1, <2>5 DEF vars, commandVars, CommandTypeOK
    <2>6. \/ ListDead \/ (Environment /\ Observe) \/ UNCHANGED vars
          \/ Observe /\ UNCHANGED <<command, listed>>
      BY Zenon DEF Next
    <2> QED
      BY <2>2, <2>3, <2>4, <2>5, <2>6, Zenon
  <1> QED
    BY <1>1, <1>2, <1>3, <1>4
       DEF TypeOK, ClientsTypeOK, ResultsTypeOK, CommandTypeOK, FaultsTypeOK

\* Every variable stays in its type, and a client has a task in hand exactly
\* from its claim to the call that answers for it.
THEOREM TypeCorrect == Spec => []TypeOK
  BY InitType, StepType, PTL DEF Spec

\* Two active rows never share a key, whatever clients and operators do.
THEOREM DedupCorrect == Spec => []DedupUnique
  <1>1. Init => DedupUnique
    BY NoRows DEF Init
  <1>2. TypeOK /\ DedupUnique /\ [Next]_vars => DedupUnique'
    BY StepStatement, StatementKeys, TypeParts
  <1> QED
    BY <1>1, <1>2, TypeCorrect, PTL DEF Spec

----------------------------------------------------------------------------
(* What a call leaves alone *)

\* Only client c and row t may change.
Frame(c, t) ==
    /\ \A d \in Client \ {c} : /\ pc'[d] = pc[d] /\ held'[d] = held[d]
                               /\ run'[d] = run[d] /\ said'[d] = said[d]
    /\ \A u \in Task \ {t} : /\ status'[u] = status[u] /\ visibleIn'[u] = visibleIn[u]
                             /\ progress'[u] = progress[u] /\ result'[u] = result[u]
                             /\ runs'[u] = runs[u] /\ finishedBy'[u] = finishedBy[u]
    /\ purges' = purges

ClientFrame(c) ==
    \A d \in Client \ {c} : /\ pc'[d] = pc[d] /\ held'[d] = held[d]
                            /\ run'[d] = run[d] /\ said'[d] = said[d]

RowFrame(t) ==
    \A u \in Task \ {t} : status'[u] = status[u] /\ visibleIn'[u] = visibleIn[u]

ResultFrame(t) ==
    \A u \in Task \ {t} : /\ progress'[u] = progress[u] /\ result'[u] = result[u]
                         /\ runs'[u] = runs[u] /\ finishedBy'[u] = finishedBy[u]

\* The parts of a frame.
LEMMA FrameParts ==
  ASSUME NEW c, NEW t, ClientFrame(c), RowFrame(t), ResultFrame(t), purges' = purges
  PROVE  Frame(c, t)
  BY DEF Frame, ClientFrame, RowFrame, ResultFrame

\* A client's bookkeeping is its own.
LEMMA ClientMoves ==
  ASSUME ClientsTypeOK, NEW c \in Client,
         \/ UNCHANGED clientVars
         \/ \E place \in Place : Goto(c, place) \/ LetGo(c, place)
         \/ Answered(c)
  PROVE  ClientFrame(c)
  BY DEF ClientsTypeOK, ClientFrame, Goto, LetGo, Answered, clientVars, Place

\* A statement about one row leaves the others.
LEMMA RowMoves ==
  ASSUME RowsTypeOK, NEW t \in Task, NEW a, NEW extension,
         \/ UNCHANGED rowVars \/ MarkDelivered(t) \/ MarkFailed(t, a)
         \/ Heartbeat(t, extension)
  PROVE  RowFrame(t)
  <1>1. MarkFailed(t, a) => Bury(t) \/ Reschedule(t, a) \/ UNCHANGED rowVars
    BY DEF MarkFailed
  <1> QED
    BY <1>1 DEF RowsTypeOK, RowFrame, MarkDelivered, Bury, Reschedule, Heartbeat, rowVars

\* So do the reports and results of one task.
LEMMA ResultMoves ==
  ASSUME ResultsTypeOK, NEW c, NEW t \in Task, NEW r, NEW p,
         \/ UNCHANGED resultVars \/ WriteResult(t, r)
         \/ WriteProgress(t, p) /\ UNCHANGED <<result, runs, finishedBy>>
         \/ DeliverWithResult(c) /\ held[c] = t
  PROVE  ResultFrame(t)
  BY DEF ResultsTypeOK, ResultFrame, WriteResult, WriteProgress, DeliverWithResult, resultVars

\* A client with a task in hand touches that task only.
LEMMA HeldFrame ==
  ASSUME TypeOK, NEW c \in Client, Holding(c), Call(c)
  PROVE  Frame(c, held[c])
  <1>1. RowsTypeOK /\ ClientsTypeOK /\ ResultsTypeOK
    BY TypeParts
  <1>2. held[c] \in Task
    BY <1>1, InHand DEF Holding
  <1>3. ~Claim(c) /\ ~ClaimError(c) /\ ~Restart(c)
    BY DEF Holding, Claim, ClaimError, Restart
  <1>4. purges' = purges
    BY <1>3 DEF Call, Claim, SetProgress, Beat, StoreResult, Finish, Complete, Fail,
                CallError, Crash, Restart, faultVars
  <1>5. RowFrame(held[c])
    BY <1>1, <1>2, <1>3, RowMoves
       DEF Call, SetProgress, Beat, StoreResult, Finish, Complete, Fail, CallError, Crash,
           EndError, ResultError, ReportError, BeatError, DeliverWithResult
  <1>6. ResultFrame(held[c])
    BY <1>1, <1>2, <1>3, ResultMoves
       DEF Call, SetProgress, Beat, StoreResult, Finish, Complete, Fail, CallError, Crash,
           EndError, ResultError, ReportError, BeatError, resultVars
  <1>7. ClientFrame(c)
    <2>1. CASE SetProgress(c) \/ ReportError(c)
      BY <1>1, <2>1 DEF SetProgress, ReportError, ClientsTypeOK, ClientFrame
    <2> QED
      BY <1>1, <1>3, <2>1, ClientMoves
         DEF Call, Beat, StoreResult, Finish, Complete, Fail, CallError, Crash,
             EndError, ResultError, BeatError, Place
  <1> QED
    BY <1>4, <1>5, <1>6, <1>7, FrameParts

\* A claim touches the task it claims only.
LEMMA ClaimFrame ==
  ASSUME TypeOK, NEW c \in Client, Claim(c) \/ (ClaimError(c) /\ purges' = purges)
  PROVE  \E t \in Task :
             /\ ClaimOne(c, t) /\ Frame(c, t)
             /\ \/ UNCHANGED clientVars
                \/ /\ pc' = [pc EXCEPT ![c] = "working"]
                   /\ held' = [held EXCEPT ![c] = t]
                   /\ run' = [run EXCEPT ![c] = runs[t] + 1]
                   /\ UNCHANGED said
  <1>1. PICK t \in Task :
             /\ ClaimOne(c, t)
             /\ \/ UNCHANGED clientVars
                \/ /\ pc' = [pc EXCEPT ![c] = "working"]
                   /\ held' = [held EXCEPT ![c] = t]
                   /\ run' = [run EXCEPT ![c] = runs[t] + 1]
                   /\ UNCHANGED said
    BY DEF Claim, ClaimError
  <1>2. RowsTypeOK /\ ClientsTypeOK /\ ResultsTypeOK
    BY TypeParts
  <1>3. ClientFrame(c)
    BY <1>1, <1>2 DEF ClientFrame, ClientsTypeOK, clientVars
  <1>4. RowFrame(t) /\ ResultFrame(t)
    BY <1>1, <1>2 DEF ClaimOne, ClaimRow, RowFrame, ResultFrame, RowsTypeOK, ResultsTypeOK
  <1>5. purges' = purges
    BY DEF Claim, faultVars
  <1> QED
    BY <1>1, <1>3, <1>4, <1>5, FrameParts

----------------------------------------------------------------------------
(* The lease, seen by the clients *)

Alone == \A c, d \in Client : Holding(c) /\ Holding(d) /\ held[c] = held[d] => c = d

\* The row in hand is claimed and hidden, unless a purge deleted it or its
\* handler has already answered; the client's run is the last one of the task.
Mine(c) ==
    Holding(c) =>
        /\ run[c] = runs[held[c]]
        /\ \/ status[held[c]] = "claimed" /\ visibleIn[held[c]] > 0
           \/ status[held[c]] = "gone" /\ (purges > 0 \/ pc[c] = "returning")
           \/ status[held[c]] = "delivered" /\ pc[c] = "returning"
        /\ pc[c] = "stored" => result[held[c]] = run[c]
        /\ pc[c] = "working" /\ said[c] # NoReport /\ status[held[c]] = "claimed"
              => progress[held[c]] = said[c]

Silent(c) == ~Holding(c) => said[c] = NoReport

Credited(t) ==
    /\ finishedBy[t] <= runs[t]
    /\ finishedBy[t] > 0 /\ finishedBy[t] = runs[t] => result[t] = runs[t]

CoreInv ==
    /\ \A c \in Client : Silent(c)
    /\ overruns = 0 => /\ Alone
                       /\ \A c \in Client : Mine(c)
                       /\ \A t \in Task : Credited(t)

\* The other clients and rows keep what they had.
LEMMA OthersKept ==
  ASSUME TypeOK, NEW c \in Client, NEW t \in Task, Frame(c, t),
         \A d \in Client \ {c} : Holding(d) => held[d] # t
  PROVE  /\ \A d \in Client \ {c} : Silent(d) => Silent(d)'
         /\ \A d \in Client \ {c} : Mine(d) => Mine(d)'
         /\ \A u \in Task \ {t} : Credited(u) => Credited(u)'
         /\ Alone /\ (Holding(c)' => \A d \in Client \ {c} : Holding(d) => held'[c] # held[d])
               => Alone'
  <1>1. \A d \in Client : Holding(d) => held[d] \in Task
    BY TypeParts, InHand DEF Holding
  <1>2. \A d \in Client \ {c} : Holding(d)' <=> Holding(d)
    BY DEF Frame, Holding
  <1>3. \A d \in Client \ {c} : Silent(d) => Silent(d)'
    BY <1>2 DEF Frame, Silent
  <1>4. \A d \in Client \ {c} : Mine(d) => Mine(d)'
    <2> SUFFICES ASSUME NEW d \in Client \ {c}, Mine(d), Holding(d) PROVE Mine(d)'
      BY <1>2 DEF Mine
    <2>1. held[d] \in Task \ {t}
      BY <1>1
    <2>2. /\ pc'[d] = pc[d] /\ held'[d] = held[d] /\ run'[d] = run[d] /\ said'[d] = said[d]
          /\ status'[held[d]] = status[held[d]] /\ visibleIn'[held[d]] = visibleIn[held[d]]
          /\ progress'[held[d]] = progress[held[d]] /\ result'[held[d]] = result[held[d]]
          /\ runs'[held[d]] = runs[held[d]] /\ purges' = purges
      BY <2>1 DEF Frame
    <2> QED
      BY <2>2 DEF Mine
  <1>5. \A u \in Task \ {t} : Credited(u) => Credited(u)'
    BY DEF Frame, Credited
  <1>6. Alone /\ (Holding(c)' => \A d \in Client \ {c} : Holding(d) => held'[c] # held[d])
            => Alone'
    BY <1>2 DEF Frame, Alone
  <1> QED
    BY <1>3, <1>4, <1>5, <1>6

\* A client that lets go has nothing in hand and nothing said.
LEMMA LetGoEnds ==
  ASSUME TypeOK, NEW c \in Client, NEW place \in {"idle", "down"}, LetGo(c, place)
  PROVE  ~Holding(c)' /\ Mine(c)' /\ Silent(c)'
  <1>1. pc'[c] = place /\ said'[c] = NoReport
    BY DEF LetGo, TypeOK
  <1>2. ~Holding(c)'
    BY <1>1 DEF Holding
  <1> QED
    BY <1>1, <1>2 DEF Mine, Silent

\* Delivery keeps what Mine says of a row whose handler returns.
LEMMA DeliverRow ==
  ASSUME TypeOK, NEW t \in Task, MarkDelivered(t)
  PROVE  status'[t] = IF Exists(t) THEN "delivered" ELSE status[t]
  BY DEF MarkDelivered, TypeOK, RowsTypeOK, rowVars

\* A client keeps what it knows of its task t through each of its calls.
LEMMA HeldStep ==
  ASSUME TypeOK, NEW c \in Client, NEW t \in Task, held[c] = t,
         Holding(c), Mine(c), Credited(t), Call(c)
  PROVE  /\ Mine(c)' /\ Silent(c)' /\ Credited(t)'
         /\ Holding(c)' => held'[c] = t
  <1> DEFINE Kept == /\ Mine(c)' /\ Silent(c)' /\ Credited(t)'
                     /\ Holding(c)' => held'[c] = t
  <1>t. /\ run[c] \in Nat /\ pc[c] \in {"working", "stored", "returning"}
        /\ RowsTypeOK /\ ClientsTypeOK /\ ResultsTypeOK
    BY TypeParts, InHand DEF Holding
  <1>m. /\ run[c] = runs[t]
        /\ \/ status[t] = "claimed" /\ visibleIn[t] > 0
           \/ status[t] = "gone" /\ (purges > 0 \/ pc[c] = "returning")
           \/ status[t] = "delivered" /\ pc[c] = "returning"
        /\ pc[c] = "stored" => result[t] = run[c]
        /\ pc[c] = "working" /\ said[c] # NoReport /\ status[t] = "claimed"
              => progress[t] = said[c]
    BY DEF Mine
  <1>p. purges' = purges
    BY HeldFrame DEF Frame
  <1>u. ASSUME UNCHANGED <<result, runs, finishedBy>> PROVE Credited(t)'
    BY <1>u DEF Credited
  <1>l. ASSUME NEW place \in {"idle", "down"}, LetGo(c, place), Credited(t)' PROVE Kept
    BY <1>l, LetGoEnds
  <1>g. ASSUME NEW place \in {"stored", "returning"}, Goto(c, place)
        PROVE  /\ pc'[c] = place /\ held'[c] = t /\ run'[c] = run[c] /\ Holding(c)' /\ Silent(c)'
    BY <1>t, <1>g DEF Goto, ClientsTypeOK, Holding, Silent
  <1>r. ASSUME Goto(c, "returning"), runs'[t] = runs[t], Credited(t)',
               \/ status'[t] = "claimed" /\ visibleIn'[t] > 0
               \/ status'[t] = "gone"
               \/ status'[t] = "delivered"
        PROVE  Kept
    BY <1>r, <1>g, <1>m DEF Mine
  <1>a. ASSUME Answered(c), runs'[t] = runs[t], Credited(t)',
               \/ status'[t] = "claimed" /\ visibleIn'[t] > 0
               \/ status'[t] = "gone"
               \/ status'[t] = "delivered"
        PROVE  Kept
    BY <1>a, <1>l, <1>r DEF Answered
  <1>d. ASSUME pc[c] = "stored", DeliverWithResult(c)
        PROVE  /\ status'[t] \in {"gone", "delivered"}
               /\ runs'[t] = runs[t] /\ Credited(t)'
    <2>1. status'[t] \in {"gone", "delivered"}
      BY <1>m, <1>d, DeliverRow DEF DeliverWithResult, Exists, MessageStatus
    <2>2. finishedBy'[t] \in {runs[t], finishedBy[t]} /\ result' = result /\ runs' = runs
      BY <1>t, <1>m, <1>d DEF DeliverWithResult, ResultsTypeOK
    <2>3. result[t] = runs[t] /\ runs[t] \in Nat
      BY <1>t, <1>m, <1>d
    <2> QED
      BY <2>1, <2>2, <2>3 DEF Credited
  <1>w. ASSUME WriteResult(t, run[c])
        PROVE  result'[t] = run[c] /\ runs'[t] = runs[t] /\ Credited(t)'
    BY <1>t, <1>m, <1>w DEF WriteResult, Credited, ResultsTypeOK
  <1>1. ~Claim(c) /\ ~ClaimError(c) /\ ~Restart(c)
    BY DEF Holding, Claim, ClaimError, Restart
  <1>2. ASSUME SetProgress(c) PROVE Kept
    <2>1. PICK p \in Reports : WriteProgress(t, p) /\ said' = [said EXCEPT ![c] = Clamp(p)]
      BY <1>2 DEF SetProgress
    <2>2. said'[c] = Clamp(p) /\ (status[t] = "claimed" => progress'[t] = Clamp(p))
      BY <1>t, <2>1 DEF WriteProgress, ClientsTypeOK, ResultsTypeOK
    <2>3. UNCHANGED <<status, visibleIn, pc, held, run, runs, result, finishedBy>>
      BY <1>2 DEF SetProgress, rowVars
    <2>4. Holding(c)'
      BY <2>3 DEF Holding
    <2> QED
      BY <1>m, <1>p, <1>u, <1>2, <2>2, <2>3, <2>4 DEF Mine, Silent, SetProgress
  <1>3. ASSUME pc[c] = "working", UNCHANGED <<clientVars, resultVars>>,
               \/ UNCHANGED rowVars
               \/ \E extension \in Extensions : Heartbeat(t, extension)
        PROVE  Kept
    <2>1. status' = status /\ (visibleIn'[t] > 0 \/ visibleIn'[t] = visibleIn[t])
      <3>1. CASE UNCHANGED rowVars
        BY <3>1 DEF rowVars
      <3>2. ASSUME NEW extension \in Extensions, Heartbeat(t, extension)
            PROVE  status' = status /\ (visibleIn'[t] > 0 \/ visibleIn'[t] = visibleIn[t])
        <4>1. extension \in Nat \ {0}
          BY ClientAssumption DEF ClientAssumption
        <4> QED
          BY <1>t, <3>2, <4>1 DEF Heartbeat, RowsTypeOK
      <3> QED
        BY <1>3, <3>1, <3>2
    <2>2. UNCHANGED <<pc, held, run, said, progress, result, runs, finishedBy>>
      BY <1>3 DEF clientVars, resultVars
    <2>3. Holding(c)'
      BY <2>2 DEF Holding
    <2> QED
      BY <1>m, <1>p, <1>u, <1>3, <2>1, <2>2, <2>3 DEF Mine, Silent
  <1>4. ASSUME StoreResult(c) PROVE Kept
    <2>1. UNCHANGED <<status, visibleIn>> /\ WriteResult(t, run[c]) /\ Goto(c, "stored")
      BY <1>4 DEF StoreResult, rowVars
    <2>2. pc[c] = "working"
      BY <1>4 DEF StoreResult
    <2> QED
      BY <1>g, <1>m, <1>p, <1>w, <2>1, <2>2 DEF Mine
  <1>5. ASSUME Finish(c) PROVE Kept
    BY <1>5, <1>a, <1>d DEF Finish
  <1>6. ASSUME UNCHANGED resultVars, LetGo(c, "idle") \/ LetGo(c, "down") PROVE Kept
    BY <1>6, <1>l, <1>u DEF resultVars
  <1>7. ASSUME ResultError(c) PROVE Kept
    <2>1. CASE WriteResult(t, run[c]) /\ UNCHANGED rowVars /\ pc[c] = "working"
      <3>1. UNCHANGED <<status, visibleIn>>
        BY <2>1 DEF rowVars
      <3> QED
        BY <1>7, <1>a, <1>m, <1>w, <2>1, <3>1 DEF ResultError
    <2>2. CASE pc[c] = "stored" /\ DeliverWithResult(c)
      BY <1>7, <1>a, <1>d, <2>2 DEF ResultError
    <2>3. CASE UNCHANGED <<rowVars, resultVars>>
      <3>1. UNCHANGED <<status, visibleIn, result, runs, finishedBy>>
        BY <2>3 DEF rowVars, resultVars
      <3> QED
        BY <1>7, <1>a, <1>m, <1>u, <3>1 DEF ResultError
    <2> QED
      BY <1>7, <2>1, <2>2, <2>3 DEF ResultError
  <1>8. ASSUME ReportError(c) PROVE Kept
    <2>1. UNCHANGED <<status, visibleIn, pc, held, run, runs, result, finishedBy>>
      BY <1>8 DEF ReportError, rowVars
    <2>2. said'[c] = NoReport
      BY <1>8, <1>t DEF ReportError, ClientsTypeOK
    <2>3. pc[c] = "working" /\ Holding(c)'
      BY <1>8, <2>1 DEF ReportError, Holding
    <2> QED
      BY <1>m, <1>p, <1>u, <2>1, <2>2, <2>3 DEF Mine, Silent
  <1>9. ASSUME CallError(c) PROVE Kept
    BY <1>9, <1>1, <1>3, <1>6, <1>7, <1>8 DEF CallError, EndError, BeatError
  <1>10. ASSUME Beat(c) PROVE Kept
    BY <1>10, <1>3 DEF Beat
  <1>11. ASSUME Complete(c) \/ Fail(c) \/ Crash(c) PROVE Kept
    BY <1>11, <1>6 DEF Complete, Fail, Crash
  <1> QED
    BY <1>1, <1>2, <1>4, <1>5, <1>9, <1>10, <1>11 DEF Call

\* A claimed task was in no hand, and is in its claimant's now.
LEMMA ClaimStep ==
  ASSUME TypeOK, CoreInv, overruns = 0, NEW c \in Client,
         Claim(c) \/ (ClaimError(c) /\ purges' = purges)
  PROVE  /\ Alone' /\ \A d \in Client : Mine(d)' /\ Silent(d)'
         /\ \A t \in Task : Credited(t)'
  <1>1. PICK t \in Task :
             /\ ClaimOne(c, t) /\ Frame(c, t)
             /\ \/ UNCHANGED clientVars
                \/ /\ pc' = [pc EXCEPT ![c] = "working"]
                   /\ held' = [held EXCEPT ![c] = t]
                   /\ run' = [run EXCEPT ![c] = runs[t] + 1]
                   /\ UNCHANGED said
    BY ClaimFrame
  <1>t. RowsTypeOK /\ ClientsTypeOK /\ ResultsTypeOK
    BY TypeParts
  <1>2. status[t] \in Active /\ ~(visibleIn[t] > 0)
    BY <1>1, <1>t DEF ClaimOne, ClaimRow, Claimable, RowsTypeOK
  <1>3. \A d \in Client : Holding(d) => held[d] # t
    BY <1>2 DEF CoreInv, Mine, Active
  <1>4. ~Holding(c) /\ said[c] = NoReport
    BY DEF Claim, ClaimError, Holding, CoreInv, Silent
  <1>5. /\ status'[t] = "claimed" /\ visibleIn'[t] > 0
        /\ runs'[t] = runs[t] + 1 /\ finishedBy'[t] = finishedBy[t] /\ result'[t] = result[t]
    BY <1>1, <1>t, DurationAssumption
       DEF ClaimOne, ClaimRow, RowsTypeOK, ResultsTypeOK, DurationAssumption
  <1>6. Credited(t)'
    BY <1>5, <1>t DEF CoreInv, Credited, ResultsTypeOK
  <1>7. \/ pc'[c] = pc[c] /\ said'[c] = NoReport
        \/ pc'[c] = "working" /\ held'[c] = t /\ run'[c] = runs'[t] /\ said'[c] = NoReport
    BY <1>1, <1>t, <1>4, <1>5 DEF clientVars, ClientsTypeOK
  <1>8. Mine(c)' /\ Silent(c)'
    BY <1>4, <1>5, <1>7 DEF Mine, Silent, Holding
  <1>9. Holding(c)' => held'[c] = t
    BY <1>4, <1>7 DEF Holding
  <1>10. /\ \A d \in Client \ {c} : Silent(d)' /\ Mine(d)'
         /\ \A u \in Task \ {t} : Credited(u)'
         /\ Alone'
    BY <1>1, <1>3, <1>9, OthersKept DEF CoreInv
  <1> QED
    BY <1>6, <1>8, <1>10

\* What a call does to what the clients know.
LEMMA CallCore ==
  ASSUME TypeOK, CoreInv, overruns = 0, NEW c \in Client, Call(c)
  PROVE  /\ Alone' /\ \A d \in Client : Mine(d)' /\ Silent(d)'
         /\ \A t \in Task : Credited(t)'
  <1>1. ASSUME Holding(c)
        PROVE  /\ Alone' /\ \A d \in Client : Mine(d)' /\ Silent(d)'
               /\ \A t \in Task : Credited(t)'
    <2>1. PICK t \in Task : held[c] = t
      BY <1>1, TypeParts, InHand DEF Holding
    <2>2. /\ Mine(c)' /\ Silent(c)' /\ Credited(t)'
          /\ Holding(c)' => held'[c] = t
      BY <1>1, <2>1, HeldStep DEF CoreInv
    <2>3. Frame(c, t)
      BY <1>1, <2>1, HeldFrame
    <2>4. \A d \in Client \ {c} : Holding(d) => held[d] # t
      BY <1>1, <2>1 DEF CoreInv, Alone
    <2>5. /\ \A d \in Client \ {c} : Silent(d)' /\ Mine(d)'
          /\ \A u \in Task \ {t} : Credited(u)'
          /\ Alone'
      BY <2>2, <2>3, <2>4, OthersKept DEF CoreInv
    <2> QED
      BY <2>2, <2>5
  <1>2. ASSUME Claim(c) \/ (CallError(c) /\ ClaimError(c))
        PROVE  /\ Alone' /\ \A d \in Client : Mine(d)' /\ Silent(d)'
               /\ \A t \in Task : Credited(t)'
    BY <1>2, ClaimStep DEF CallError
  <1>3. ASSUME Restart(c)
        PROVE  /\ Alone' /\ \A d \in Client : Mine(d)' /\ Silent(d)'
               /\ \A t \in Task : Credited(t)'
    <2>1. UNCHANGED <<status, visibleIn, held, run, progress, result, runs, finishedBy, purges>>
      BY <1>3 DEF Restart, Goto, rowVars, resultVars, faultVars
    <2>2. \A d \in Client : /\ pc'[d] = IF d = c THEN "idle" ELSE pc[d]
                            /\ said'[d] = IF d = c THEN NoReport ELSE said[d]
      BY <1>3, TypeParts DEF Restart, Goto, ClientsTypeOK
    <2>3. pc[c] = "down"
      BY <1>3 DEF Restart
    <2>4. \A d \in Client : Holding(d)' <=> Holding(d)
      BY <2>2, <2>3 DEF Holding
    <2>5. Alone'
      BY <2>1, <2>4 DEF CoreInv, Alone
    <2>6. \A d \in Client : Mine(d)' /\ Silent(d)'
      BY <2>1, <2>2, <2>4 DEF CoreInv, Mine, Silent, Holding
    <2>7. \A t \in Task : Credited(t)'
      BY <2>1 DEF CoreInv, Credited
    <2> QED
      BY <2>5, <2>6, <2>7
  <1> QED
    <2>1. Holding(c) \/ Claim(c) \/ (CallError(c) /\ ClaimError(c)) \/ Restart(c)
      BY DEF Call, Holding, SetProgress, Beat, StoreResult, Finish, Complete, Fail, CallError,
             EndError, ResultError, ReportError, BeatError, Crash
    <2> QED
      BY <1>1, <1>2, <1>3, <2>1

\* What other processes do to a row: delete it, retry it, insert it or age it.
LEMMA EnvironmentRow ==
  ASSUME TypeOK, Environment, NEW t \in Task
  PROVE  \/ status'[t] = status[t] /\ visibleIn'[t] = visibleIn[t]
         \/ status'[t] = "gone" /\ (purges' > 0 \/ status[t] \in {"delivered", "dead"})
         \/ status[t] \in {"dead", "absent"}
         \/ Tick /\ status'[t] = status[t] /\ visibleIn'[t] = Monus(visibleIn[t], 1)
  <1>t. RowsTypeOK /\ purges \in Nat
    BY TypeParts DEF TypeOK
  <1>1. ASSUME NEW S \in SUBSET Task, DeleteRows(S)
        PROVE  IF t \in S THEN status'[t] = "gone"
                          ELSE status'[t] = status[t] /\ visibleIn'[t] = visibleIn[t]
    BY <1>1, <1>t DEF DeleteRows, RowsTypeOK
  <1>2. ASSUME NEW u \in Task, RetryDead(u)
        PROVE  status[t] = "dead" \/ (status'[t] = status[t] /\ visibleIn'[t] = visibleIn[t])
    BY <1>2, <1>t DEF RetryDead, RowsTypeOK
  <1>3. ASSUME UNCHANGED rowVars PROVE status'[t] = status[t] /\ visibleIn'[t] = visibleIn[t]
    BY <1>3 DEF rowVars
  <1>4. CASE Purge
    <2>1. PICK S \in SUBSET Task : DeleteRows(S)
      BY <1>4 DEF Purge
    <2>2. purges' > 0
      BY <1>4, <1>t DEF Purge, Count
    <2> QED
      BY <1>1, <2>1, <2>2
  <1>5. CASE Reap
    <2>1. PICK S \in SUBSET Reapable : DeleteRows(S)
      BY <1>5 DEF Reap
    <2>2. S \in SUBSET Task /\ \A u \in S : status[u] \in {"delivered", "dead"}
      BY <2>1 DEF Reapable
    <2> QED
      BY <1>1, <2>1, <2>2
  <1>6. CASE Submit
    <2>1. PICK S \in SUBSET Task : InsertRows(S, 0)
      BY <1>6 DEF Submit
    <2>2. t \in S => status[t] = "absent"
      BY <2>1 DEF InsertRows
    <2>3. t \notin S => status'[t] = status[t] /\ visibleIn'[t] = visibleIn[t]
      BY <2>1 DEF InsertRows
    <2> QED
      BY <2>2, <2>3
  <1>7. CASE Tick
    BY <1>7, <1>t DEF Tick, AgeRows, RowsTypeOK
  <1>8. CASE RetryEnds \/ RetryError \/ \E u \in Task : RetryListed(u)
    <2>1. listed \subseteq Task
      BY DEF TypeOK
    <2> QED
      BY <1>2, <1>3, <1>8, <2>1 DEF RetryEnds, RetryError, RetryListed
  <1> QED
    BY <1>4, <1>5, <1>6, <1>7, <1>8 DEF Environment

\* Unless a lease is overrun, a row in hand stays claimed and hidden, whatever
\* the operator, the reaper and the clock do meanwhile.
LEMMA EnvironmentCore ==
  ASSUME TypeOK, CoreInv, overruns = 0, overruns' = 0, purges' >= purges,
         Environment, UNCHANGED <<clientVars, resultVars>>
  PROVE  /\ Alone' /\ \A d \in Client : Mine(d)' /\ Silent(d)'
         /\ \A t \in Task : Credited(t)'
  <1>1. UNCHANGED <<pc, held, run, said, progress, result, runs, finishedBy>>
    BY DEF clientVars, resultVars
  <1>2. Alone' /\ (\A d \in Client : Silent(d)') /\ \A t \in Task : Credited(t)'
    BY <1>1 DEF CoreInv, Alone, Silent, Credited, Holding
  <1>3. ASSUME NEW d \in Client PROVE Mine(d)'
    <2> SUFFICES ASSUME Holding(d) PROVE Mine(d)'
      BY <1>1 DEF Mine, Holding
    <2>1. PICK t \in Task : t = held[d]
      BY TypeParts, InHand DEF Holding
    <2>2. Mine(d)
      BY DEF CoreInv
    <2>3. Tick => status[t] # "claimed" \/ visibleIn[t] # 1
      BY <2>1 DEF Tick, Count, LeaseEnds
    <2>4. visibleIn[t] \in Int /\ purges \in Nat /\ purges' \in Nat
      BY CountersGrow, TypeParts DEF RowsTypeOK, FaultsTypeOK, TypeOK, Next, Environment,
         Tick, Purge, Reap, Submit, RetryListed, RetryEnds, RetryError, faultVars, Count
    <2>5. \/ status'[t] = "claimed" /\ visibleIn'[t] > 0
          \/ status'[t] = "gone" /\ (purges' > 0 \/ pc[d] = "returning")
          \/ status'[t] = "delivered" /\ pc[d] = "returning"
      BY <2>1, <2>2, <2>3, <2>4, EnvironmentRow DEF Mine, Monus
    <2>6. status'[t] = "claimed" => status[t] = "claimed"
      BY <2>1, <2>2, EnvironmentRow DEF Mine
    <2> QED
      BY <1>1, <2>1, <2>2, <2>5, <2>6 DEF Mine
  <1> QED
    BY <1>2, <1>3

\* No client has anything in hand at first.
LEMMA CoreInit == Init => CoreInv
  <1> SUFFICES ASSUME Init PROVE CoreInv
    OBVIOUS
  <1>1. \A c \in Client : ~Holding(c) /\ said[c] = NoReport
    BY DEF Init, Holding
  <1>2. \A t \in Task : Credited(t)
    <2>1. \A t \in Task : finishedBy[t] = 0 /\ runs[t] = 0 /\ result[t] = 0
      BY DEF Init
    <2> SUFFICES ASSUME NEW t \in Task PROVE Credited(t)
      OBVIOUS
    <2>2. 0 <= 0 /\ ~(0 > 0)
      OBVIOUS
    <2> QED
      BY <2>1, <2>2, Zenon DEF Credited
  <1> QED
    BY <1>1, <1>2 DEF CoreInv, Silent, Mine, Alone

\* The clients' silence does not depend on the leases.
LEMMA SilentStep ==
  ASSUME TypeOK, \A c \in Client : Silent(c), [Next]_vars
  PROVE  \A c \in Client : Silent(c)'
  <1>1. CASE UNCHANGED <<pc, said>>
    BY <1>1 DEF Silent, Holding
  <1>2. ASSUME NEW c \in Client, Call(c) PROVE \A d \in Client : Silent(d)'
    <2>1. ClientsTypeOK
      BY TypeParts
    <2>2. ASSUME NEW place \in Place, Goto(c, place),
                 Holding(c) <=> place \in {"working", "stored", "returning"}
          PROVE  \A d \in Client : Silent(d)'
      BY <2>1, <2>2 DEF ClientsTypeOK, Goto, Silent, Holding
    <2>3. ASSUME LetGo(c, "idle") \/ LetGo(c, "down") PROVE \A d \in Client : Silent(d)'
      BY <2>1, <2>3 DEF ClientsTypeOK, LetGo, Silent, Holding
    <2>4. ASSUME Holding(c), Answered(c) PROVE \A d \in Client : Silent(d)'
      BY <2>2, <2>3, <2>4 DEF Answered, Place
    <2>5. ASSUME Claim(c) PROVE \A d \in Client : Silent(d)'
      BY <2>1, <2>5 DEF Claim, ClientsTypeOK, Silent, Holding
    <2>6. ASSUME SetProgress(c) \/ ReportError(c) PROVE \A d \in Client : Silent(d)'
      BY <2>1, <2>6 DEF SetProgress, ReportError, ClientsTypeOK, Silent, Holding
    <2>7. ASSUME StoreResult(c) \/ Restart(c) PROVE \A d \in Client : Silent(d)'
      BY <2>2, <2>7 DEF StoreResult, Restart, Holding, Place
    <2>8. ASSUME Finish(c) \/ ResultError(c) PROVE \A d \in Client : Silent(d)'
      BY <2>4, <2>8 DEF Finish, ResultError, Holding
    <2>9. ASSUME Complete(c) \/ Fail(c) \/ Crash(c) \/ EndError(c)
          PROVE  \A d \in Client : Silent(d)'
      BY <2>3, <2>9 DEF Complete, Fail, Crash, EndError
    <2>10. ASSUME Beat(c) \/ ClaimError(c) \/ BeatError(c) PROVE \A d \in Client : Silent(d)'
      BY <1>1, <2>10 DEF Beat, ClaimError, BeatError, clientVars
    <2> QED
      BY <1>2, <2>5, <2>6, <2>7, <2>8, <2>9, <2>10 DEF Call, CallError
  <1> QED
    BY <1>1, <1>2 DEF Next, vars, clientVars

\* Each step keeps what the clients know.
LEMMA CoreStep == TypeOK /\ CoreInv /\ [Next]_vars => CoreInv'
  <1> SUFFICES ASSUME TypeOK, CoreInv, [Next]_vars PROVE CoreInv'
    OBVIOUS
  <1>1. /\ overruns \in Nat /\ overruns' \in Nat /\ overruns' >= overruns
        /\ purges' >= purges
    BY CountersGrow DEF TypeOK, FaultsTypeOK
  <1>2. \A c \in Client : Silent(c)'
    BY SilentStep DEF CoreInv
  <1>3. SUFFICES ASSUME overruns' = 0
                 PROVE  /\ Alone' /\ \A d \in Client : Mine(d)' /\ Silent(d)'
                        /\ \A t \in Task : Credited(t)'
    BY <1>2 DEF CoreInv
  <1>4. overruns = 0
    BY <1>1, <1>3
  <1>5. CASE UNCHANGED <<rowVars, clientVars, resultVars, purges>>
    <2>1. UNCHANGED <<status, visibleIn, pc, held, run, said, progress, result, runs,
                      finishedBy, purges>>
      BY <1>5 DEF rowVars, clientVars, resultVars
    <2> QED
      BY <1>4, <2>1 DEF CoreInv, Alone, Mine, Silent, Credited, Holding
  <1>6. CASE ListDead /\ UNCHANGED <<clientVars, resultVars>>
    BY <1>5, <1>6 DEF ListDead
  <1>7. CASE Environment /\ UNCHANGED <<clientVars, resultVars>>
    BY <1>1, <1>3, <1>4, <1>7, EnvironmentCore
  <1>8. ASSUME NEW c \in Client, Call(c)
        PROVE  /\ Alone' /\ \A d \in Client : Mine(d)' /\ Silent(d)'
               /\ \A t \in Task : Credited(t)'
    BY <1>4, <1>8, CallCore
  <1>9. CASE UNCHANGED vars
    BY <1>5, <1>9 DEF vars, faultVars
  <1> QED
    BY <1>6, <1>7, <1>8, <1>9 DEF Next

\* The invariant holds of every behaviour.
LEMMA CoreCorrect == Spec => []CoreInv
  BY CoreInit, CoreStep, TypeCorrect, PTL DEF Spec

----------------------------------------------------------------------------
(* What the clients can rely on *)

\* While no lease is overrun and nothing is purged, two runs under way have
\* two active rows, and active rows never share a key (the unique index).
THEOREM RunsCorrect == Spec => []OneRunPerKey
  <1>1. TypeOK /\ CoreInv /\ DedupUnique => OneRunPerKey
    <2> SUFFICES ASSUME TypeOK, CoreInv, DedupUnique, overruns = 0, purges = 0,
                        NEW c \in Client, NEW d \in Client, c # d,
                        {pc[c], pc[d]} \subseteq {"working", "stored"},
                        DedupKey[held[c]] # NoKey
                 PROVE  DedupKey[held[c]] # DedupKey[held[d]]
      BY DEF OneRunPerKey
    <2>1. Holding(c) /\ Holding(d)
      BY DEF Holding
    <2>2. held[c] \in Task /\ held[d] \in Task
      BY <2>1, TypeParts, InHand DEF Holding
    <2>3. held[c] # held[d]
      BY <2>1 DEF CoreInv, Alone
    <2>4. Mine(c) /\ Mine(d)
      BY DEF CoreInv
    <2>5. status[held[c]] = "claimed" /\ status[held[d]] = "claimed"
      BY <2>1, <2>4 DEF Mine
    <2> QED
      BY <2>2, <2>3, <2>5 DEF DedupUnique, Active
  <1> QED
    BY <1>1, CoreCorrect, DedupCorrect, TypeCorrect, PTL

\* The result of the last run is there when that run delivered the task: no
\* other run can store one between its two statements.
THEOREM ResultCorrect == Spec => []ResultCurrent
  <1>1. CoreInv => ResultCurrent
    BY DEF CoreInv, Credited, ResultCurrent
  <1> QED
    BY <1>1, CoreCorrect, PTL

\* What a run reported last stays in the column while it runs.
THEOREM ProgressCorrect == Spec => []ProgressCurrent
  <1>1. CoreInv => ProgressCurrent
    BY DEF CoreInv, Mine, ProgressCurrent, Holding
  <1> QED
    BY <1>1, CoreCorrect, PTL

\* A command that retries what it listed has nothing asleep left unlisted.
RetryInv ==
    /\ command = "retrying" => asleep \subseteq listed
    /\ command = "done" => asleep = {}

\* A listed row leaves the list only when it is no longer dead.
LEMMA RetryStep == TypeOK /\ RetryInv /\ [Next]_vars => RetryInv'
  <1> SUFFICES ASSUME TypeOK, RetryInv, [Next]_vars PROVE RetryInv'
    OBVIOUS
  <1>1. CASE ListDead
    BY <1>1 DEF ListDead, RetryInv
  <1>2. CASE Observe /\ UNCHANGED <<command, listed>>
    BY <1>2 DEF Observe, RetryInv
  <1>3. ASSUME Environment, Observe PROVE RetryInv'
    <2>1. CASE Purge \/ Reap \/ Submit \/ Tick
      BY <1>2, <1>3, <2>1 DEF Purge, Reap, Submit, Tick
    <2>2. ASSUME NEW t \in Task, RetryListed(t) PROVE RetryInv'
      <3>1. CASE RetryDead(t)
        <4>1. status'[t] = "pending"
          BY <3>1, TypeParts DEF RetryDead, RowsTypeOK
        <4> QED
          BY <1>3, <2>2, <4>1 DEF RetryListed, RetryInv, Observe
      <3>2. CASE status[t] # "dead" /\ UNCHANGED rowVars
        BY <1>3, <2>2, <3>2 DEF RetryListed, RetryInv, Observe, rowVars, RetryDead
      <3>3. CASE command' = "failed"
        BY <3>3 DEF RetryInv
      <3> QED
        BY <2>2, <3>1, <3>2, <3>3 DEF RetryListed
    <2>3. CASE RetryEnds
      BY <1>3, <2>3 DEF RetryEnds, RetryInv, Observe
    <2>4. CASE RetryError
      BY <2>4 DEF RetryError, RetryInv
    <2> QED
      BY <1>3, <2>1, <2>2, <2>3, <2>4 DEF Environment
  <1>4. CASE UNCHANGED vars
    BY <1>4 DEF vars, commandVars, RetryInv
  <1> QED
    BY <1>1, <1>2, <1>3, <1>4 DEF Next

\* When retry-all reports success, no row it listed has been dead all along.
THEOREM RetryCorrect == Spec => []RetryAllTruthful
  <1>1. Init => RetryInv
    BY DEF Init, RetryInv
  <1>2. RetryInv => RetryAllTruthful
    BY DEF RetryInv, RetryAllTruthful
  <1> QED
    BY <1>1, <1>2, RetryStep, TypeCorrect, PTL DEF Spec

\* Between the two statements of complete_with_result.
Between(t) ==
    \/ result[t] = finishedBy[t]
    \/ \E c \in Client : pc[c] = "stored" /\ held[c] = t /\ run[c] = result[t]

\* A call of a client that has stored nothing leaves that to those that have.
LEMMA BetweenOthers ==
  ASSUME NEW c \in Client, NEW t \in Task, Frame(c, t), NEW u \in Task, Between(u),
         UNCHANGED <<result, finishedBy>> \/ u # t,
         pc[c] # "stored" \/ held[c] # u
  PROVE  Between(u)'
  <1>1. result'[u] = result[u] /\ finishedBy'[u] = finishedBy[u]
    BY DEF Frame
  <1>2. CASE result[u] = finishedBy[u]
    BY <1>1, <1>2 DEF Between
  <1>3. ASSUME NEW d \in Client, pc[d] = "stored", held[d] = u, run[d] = result[u]
        PROVE  Between(u)'
    <2>1. pc'[d] = "stored" /\ held'[d] = u /\ run'[d] = result'[u]
      BY <1>1, <1>3 DEF Frame
    <2> QED
      BY <2>1 DEF Between
  <1> QED
    BY <1>2, <1>3 DEF Between

\* A call of a client with a task in hand, while nothing goes wrong.
LEMMA HeldEarned ==
  ASSUME TypeOK, CoreInv, NEW c \in Client, Holding(c), Call(c), ~CallError(c), ~Crash(c),
         Faults = 0, \A u \in Task : Between(u)
  PROVE  \A u \in Task : Between(u)'
  <1>t. /\ RowsTypeOK /\ ClientsTypeOK /\ ResultsTypeOK
        /\ overruns = 0 /\ purges = 0
    <2>1. /\ RowsTypeOK /\ ClientsTypeOK /\ ResultsTypeOK
          /\ {crashes, dbErrors, overruns, purges} \subseteq Nat
      BY TypeParts DEF TypeOK
    <2>2. crashes \in Nat /\ dbErrors \in Nat /\ overruns \in Nat /\ purges \in Nat
      BY <2>1
    <2> QED
      BY <2>1, <2>2 DEF Faults
  <1>1. PICK t \in Task : held[c] = t
    BY <1>t, InHand DEF Holding
  <1>2. Frame(c, t)
    BY <1>1, HeldFrame
  <1>3. Mine(c)
    BY <1>t DEF CoreInv
  <1>4. ASSUME NEW u \in Task \ {t} PROVE Between(u)'
    BY <1>1, <1>2, <1>4, BetweenOthers
  <1>5. CASE StoreResult(c)
    <2>1. pc'[c] = "stored" /\ held'[c] = t /\ run'[c] = result'[t]
      BY <1>t, <1>1, <1>5 DEF StoreResult, WriteResult, Goto, ClientsTypeOK, ResultsTypeOK
    <2> QED
      BY <1>4, <2>1 DEF Between
  <1>6. CASE Finish(c)
    <2>1. status[t] = "claimed" /\ result[t] = run[c]
      BY <1>t, <1>1, <1>3, <1>6 DEF Mine, Finish, Holding
    <2>2. finishedBy'[t] = run[c] /\ result'[t] = result[t]
      BY <1>t, <1>1, <1>6, <2>1
         DEF Finish, DeliverWithResult, Exists, MessageStatus, ResultsTypeOK
    <2> QED
      BY <1>4, <2>1, <2>2 DEF Between
  <1>7. CASE SetProgress(c) \/ Beat(c) \/ Complete(c) \/ Fail(c)
    <2>1. pc[c] # "stored" /\ UNCHANGED <<result, finishedBy>>
      BY <1>7 DEF SetProgress, Beat, Complete, Fail, resultVars
    <2>2. Between(t)'
      BY <1>2, <2>1, BetweenOthers
    <2> QED
      BY <1>4, <2>2
  <1> QED
    BY <1>5, <1>6, <1>7 DEF Call, Holding, Claim, Restart

\* A sum of counts is zero when each of them is.
LEMMA NoCount ==
  ASSUME NEW a \in Nat, NEW b \in Nat, NEW c \in Nat, NEW d \in Nat, a + b + c + d = 0
  PROVE  a = 0 /\ b = 0 /\ c = 0 /\ d = 0
  OBVIOUS

\* Every step keeps each result earned, or about to be, while nothing goes wrong.
LEMMA EarnedStep == TypeOK /\ CoreInv /\ ResultEarned /\ [Next]_vars => ResultEarned'
  <1> SUFFICES ASSUME TypeOK, CoreInv, ResultEarned, [Next]_vars, Faults' = 0
               PROVE  \A u \in Task : Between(u)'
    BY DEF ResultEarned, Between
  <1>1. Faults = 0 /\ UNCHANGED <<crashes, dbErrors, overruns, purges>>
    <2>1. /\ crashes \in Nat /\ dbErrors \in Nat /\ overruns \in Nat /\ purges \in Nat
          /\ crashes' \in Nat /\ dbErrors' \in Nat /\ overruns' \in Nat /\ purges' \in Nat
      BY CountersGrow DEF TypeOK, FaultsTypeOK
    <2>2. /\ crashes' >= crashes /\ dbErrors' >= dbErrors
          /\ overruns' >= overruns /\ purges' >= purges
      BY CountersGrow
    <2>3. crashes' + dbErrors' + overruns' + purges' = 0
      BY DEF Faults
    <2>4. crashes' = 0 /\ dbErrors' = 0 /\ overruns' = 0 /\ purges' = 0
      BY <2>1, <2>3, NoCount
    <2>5. crashes = 0 /\ dbErrors = 0 /\ overruns = 0 /\ purges = 0
      BY <2>1, <2>2, <2>4
    <2> QED
      BY <2>4, <2>5 DEF Faults
  <1>2. \A u \in Task : Between(u)
    BY <1>1 DEF ResultEarned, Between
  <1>3. CASE UNCHANGED <<clientVars, resultVars>>
    BY <1>2, <1>3 DEF clientVars, resultVars, Between
  <1>4. ASSUME NEW c \in Client, Call(c) PROVE \A u \in Task : Between(u)'
    <2>1. ~CallError(c) /\ ~Crash(c)
      BY <1>1 DEF CallError, Crash, Count, TypeOK
    <2>2. ASSUME Claim(c) PROVE \A u \in Task : Between(u)'
      <3>1. PICK t \in Task : ClaimOne(c, t) /\ Frame(c, t)
        BY <2>2, ClaimFrame
      <3>2. UNCHANGED <<result, finishedBy>> /\ pc[c] # "stored"
        BY <2>2, <3>1 DEF ClaimOne, Claim
      <3> QED
        BY <1>2, <3>1, <3>2, BetweenOthers
    <2>3. ASSUME Restart(c) PROVE \A u \in Task : Between(u)'
      <3>1. ASSUME NEW d \in Client, pc[d] = "stored" PROVE pc'[d] = "stored"
        BY <2>3, <3>1, TypeParts DEF Restart, Goto, ClientsTypeOK
      <3>2. UNCHANGED <<held, run, result, finishedBy>>
        BY <2>3 DEF Restart, Goto, resultVars
      <3> QED
        BY <1>2, <3>1, <3>2 DEF Between
    <2>4. Holding(c) \/ Claim(c) \/ Restart(c)
      BY <1>4, <2>1
         DEF Call, Holding, SetProgress, Beat, StoreResult, Finish, Complete, Fail
    <2> QED
      BY <1>1, <1>2, <1>4, <2>1, <2>2, <2>3, <2>4, HeldEarned
  <1> QED
    BY <1>3, <1>4 DEF Next, vars

\* Without a fault, a result that is stored is earned, or about to be.
THEOREM EarnedCorrect == Spec => []ResultEarned
  <1>1. Init => ResultEarned
    BY DEF Init, ResultEarned
  <1> QED
    BY <1>1, EarnedStep, CoreCorrect, TypeCorrect, PTL DEF Spec

=============================================================================
