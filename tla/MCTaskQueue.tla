---------------------------- MODULE MCTaskQueue ----------------------------
(* Small instances of TaskQueue for TLC. *)
EXTENDS TaskQueue, TLC

CONSTANTS w1, w2, email, k1

OneTask == {1}
TwoWorkers == {w1, w2}

SameQueue == [t \in Task |-> email]
MCQueueOf == [w \in Worker |-> email]

NoPriority == [t \in Task |-> 0]
NoDelay == [t \in Task |-> 0]
OneTick == [t \in Task |-> 1]

OneRetry == [t \in Task |-> 1]
TwoRetries == [t \in Task |-> 2]

NoKeys == [t \in Task |-> NoKey]

Loops == Permutations({w1, w2})
=============================================================================
