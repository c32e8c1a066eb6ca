---------------------------- MODULE MCScheduler ----------------------------
(* Small instances of Scheduler for TLC.  A tick is half a minute. *)
EXTENDS Scheduler, TLC

CONSTANTS a, b, i1, i2

OneSchedule == {a}
TwoSchedules == {a, b}
OneLoop == {i1}
TwoLoops == {i1, i2}

HalfMinute == <<"every", "30s">>
Hourly == <<"@hourly">>

Expressions == {HalfMinute, Hourly}

MCDuration == <<"30s">> :> 1
MCShorthand == "@hourly" :> 120

\* A minute ends half a minute after the start.
MCMinute == [t \in 0..LastTick |-> (t + 1) \div 2]
=============================================================================
