------------------------------- MODULE MCSweep -------------------------------
(* Instances of Sweep for TLC. *)
EXTENDS Sweep, TLC

CONSTANTS s1, s2

\* A quiet corner, the same with a death, and the same with two 311 reports:
\* a change for each answer of the floor, and falls on the way back.
Quiet == [collisions |-> 1, fatal |-> 0, severe |-> 0, reports |-> 0, district |-> 1]
Death == [Quiet EXCEPT !.collisions = 2, !.fatal = 1]
Noise == [Quiet EXCEPT !.reports = 2]

ThreeRecords == {Quiet, Death, Noise}
TwoRecords == {Quiet, Death}

\* From one to the other a death, the other way a swing that is ambiguous.
NoiseOrDeath == {Noise, Death}

\* The granularity of a fetch: in two steps, between which the city may change
\* and the other sweep may move, or at once.
TwoSteps == <<{"collisions", "fatal", "severe"}, {"reports", "district"}>>
AtOnce == <<Lanes>>

OneSweeper == {s1}
TwoSweepers == {s1, s2}

\* The fatality lane alone fails, or DataSF does not answer at all.
Outages == {{"fatal"}, {"collisions", "fatal", "severe", "reports", "district"}}
FatalLane == {{"fatal"}}

\* The fatality lane answers with another key, the 311 lane with a null.
Junk == {{"fatal"}, {"reports"}}
NoJunk == {}

SweeperSymmetry == Permutations(TwoSweepers)
=============================================================================
