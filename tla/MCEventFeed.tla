---------------------------- MODULE MCEventFeed -----------------------------
(* Small instances of EventFeed for TLC. *)
EXTENDS EventFeed, TLC

CONSTANTS p1, p2, order42, order43, user7, order, user, indexer, i1, i2, r1, r2

\* Two orders, which the indexer subscribes to, and a user.
MCTypeOf == [x \in Entity |-> IF x = user7 THEN user ELSE order]
MCEntityType == [s \in Subscriber |-> order]
MCSubscriberOf == [i \in Loop |-> indexer]

Twins ==
    Permutations({p1, p2}) \union Permutations({i1, i2}) \union Permutations({r1, r2})
=============================================================================
