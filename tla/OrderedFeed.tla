---------------------------- MODULE OrderedFeed ----------------------------
(***************************************************************************)
(* What strunk promises its subscribers, without cursors, batches, loops   *)
(* or transactions: an event posted to a subscriber's feed is delivered    *)
(* only after every smaller one still kept, except for those it need not   *)
(* wait for.  These are the events posted behind a larger one, and those   *)
(* an operator made the subscriber skip.  EventFeed implements this.       *)
(***************************************************************************)
EXTENDS Integers

CONSTANTS
    Subscriber,
    Event       \* ids

VARIABLES
    posted,    \* posted[s]: events ever visible to s
    kept,      \* kept[s]: those not deleted since
    excused,   \* excused[s]: events nobody need wait for
    delivered  \* delivered[s]: events a handler of s has taken

feedVars == <<posted, kept, excused, delivered>>

Init ==
    /\ posted = [s \in Subscriber |-> {}]
    /\ kept = [s \in Subscriber |-> {}]
    /\ excused = [s \in Subscriber |-> {}]
    /\ delivered = [s \in Subscriber |-> {}]

\* New events; those behind an event posted before are late.
Post ==
    /\ \E new \in [Subscriber -> SUBSET Event] :
        /\ posted' = [s \in Subscriber |-> posted[s] \union new[s]]
        /\ kept' = [s \in Subscriber |-> kept[s] \union new[s]]
        /\ excused' = [s \in Subscriber |->
               excused[s] \union {e \in new[s] : \E f \in posted[s] : f > e}]
    /\ UNCHANGED delivered

Delete ==
    /\ \E old \in SUBSET Event : kept' = [s \in Subscriber |-> kept[s] \ old]
    /\ UNCHANGED <<posted, excused, delivered>>

Skip(s) ==
    /\ \E S \in SUBSET Event : excused' = [excused EXCEPT ![s] = excused[s] \union S]
    /\ UNCHANGED <<posted, kept, delivered>>

Deliver(s, e) ==
    /\ e \in posted[s]
    /\ \A f \in kept[s] : f < e => f \in delivered[s] \union excused[s]
    /\ delivered' = [delivered EXCEPT ![s] = delivered[s] \union {e}]
    /\ UNCHANGED <<posted, kept, excused>>

Next ==
    \/ Post \/ Delete
    \/ \E s \in Subscriber : Skip(s)
    \/ \E s \in Subscriber, e \in Event : Deliver(s, e)

Spec == Init /\ [][Next]_feedVars

=============================================================================
