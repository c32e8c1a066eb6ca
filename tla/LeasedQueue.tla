---------------------------- MODULE LeasedQueue ----------------------------
(***************************************************************************)
(* What the task queue of strunk promises, without rows, statements,       *)
(* attempts, inboxes or clocks.  A task is open, delivered, dead or gone;  *)
(* workers take open tasks in hand and settle them.  While nobody is late  *)
(* a task is in one hand at most and settled once; a late worker (one      *)
(* whose lease ended under it) may settle a task again.  In any case a     *)
(* task is delivered only when it was worked on, only a dead one is        *)
(* revived, and what is gone stays gone.  TaskQueue implements this.       *)
(***************************************************************************)
CONSTANTS
    Task,
    Worker,
    NoTask   \* an empty hand

VARIABLES
    place,   \* place[t]: "absent", "open", "delivered", "dead" or "gone"
    hand,    \* hand[w]: the task w has in hand
    worked,  \* the tasks somebody has worked on with success
    late     \* whether some worker has ever outlived its lease

leasedVars == <<place, hand, worked, late>>

Init ==
    /\ place = [t \in Task |-> "absent"]
    /\ hand = [w \in Worker |-> NoTask]
    /\ worked = {}
    /\ late = FALSE

InPlace(p) == {t \in Task : place[t] = p}

MoveAll(S, p) == place' = [t \in Task |-> IF t \in S THEN p ELSE place[t]]

Submit ==
    /\ \E S \in SUBSET InPlace("absent") : MoveAll(S, "open")
    /\ UNCHANGED <<hand, worked, late>>

Take(w, t) ==
    /\ hand[w] = NoTask
    /\ place[t] = "open"
    /\ late \/ \A v \in Worker : hand[v] # t
    /\ hand' = [hand EXCEPT ![w] = t]
    /\ UNCHANGED <<place, worked, late>>

Work(w) ==
    /\ hand[w] # NoTask
    /\ worked' = worked \union {hand[w]}
    /\ UNCHANGED <<place, hand, late>>

Settle(w, p) ==
    /\ hand[w] # NoTask
    /\ place[hand[w]] # "gone"
    /\ late \/ place[hand[w]] = "open"
    /\ p = "delivered" => hand[w] \in worked
    /\ MoveAll({hand[w]}, p)
    /\ hand' = [hand EXCEPT ![w] = NoTask]
    /\ UNCHANGED <<worked, late>>

\* A worker dies, or what it reports is not recorded.
LetGo(w) ==
    /\ hand[w] # NoTask
    /\ hand' = [hand EXCEPT ![w] = NoTask]
    /\ UNCHANGED <<place, worked, late>>

Revive(t) ==
    /\ place[t] = "dead"
    /\ MoveAll({t}, "open")
    /\ UNCHANGED <<hand, worked, late>>

Delete ==
    /\ \E S \in SUBSET (InPlace("delivered") \union InPlace("dead")) : MoveAll(S, "gone")
    /\ UNCHANGED <<hand, worked, late>>

RunLate ==
    /\ late' = TRUE
    /\ UNCHANGED <<place, hand, worked>>

Next ==
    \/ Submit \/ Delete \/ RunLate
    \/ \E w \in Worker : Work(w) \/ LetGo(w)
    \/ \E w \in Worker, t \in Task : Take(w, t)
    \/ \E w \in Worker, p \in {"open", "delivered", "dead"} : Settle(w, p)
    \/ \E t \in Task : Revive(t)

Spec == Init /\ [][Next]_leasedVars

=============================================================================
