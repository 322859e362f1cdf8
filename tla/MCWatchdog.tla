------------------------------ MODULE MCWatchdog ------------------------------
(* An instance of Watchdog for TLC. *)
EXTENDS Watchdog

\* `run` names its cycles from one, every time; a tick has a time of its own.
ManualIds == <<"cycle-1", "cycle-2", "cycle-3">>
TickIds == <<"tick-1", "tick-2">>

\* Tier two declines, or asks for two verbs.
SomeRequests == {<<>>, <<"rescore", "flag">>}

\* The second corner comes and goes.
SomeRosters == {{1, 2}, {1}}

\* Days that leave gaps, of a day each, or of three when the third cycle leaves
\* no entry.
SomeDays == <<0, 0, 2, 4>>
=============================================================================
