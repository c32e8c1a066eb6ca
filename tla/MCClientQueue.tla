--------------------------- MODULE MCClientQueue ---------------------------
(* Small instances of ClientQueue for TLC. *)
EXTENDS ClientQueue, TLC

CONSTANTS c1, c2, email, k1

TwoTasks == {1, 2}
TwoClients == {c1, c2}

SameQueue == [t \in Task |-> email]
MCQueueOf == [c \in Client |-> email]
\* The second task is the more urgent.
MCPriority == [t \in Task |-> t]
\* A failed task is buried at once, or once it has failed twice.
MCMaxRetries == [t \in Task |-> IF t = 1 THEN 2 ELSE 1]
NoDelay == [t \in Task |-> 0]
SameKey == [t \in Task |-> k1]

BelowAndAbove == {-5, 150}

=============================================================================
