----------------------------- MODULE MCPublisher -----------------------------
(* Instances of Publisher for TLC. *)
EXTENDS Publisher, TLC

CONSTANTS sweep, push, d1, d2, d3, i1, i2

\* A sweep with two decisions in its queue, and a push request with one.
Processes == {sweep, push}
Decisions == {d1, d2, d3}
Owners == d1 :> sweep @@ d2 :> sweep @@ d3 :> push
Ids == {i1, i2}

\* The second decision of the sweep and the one of the push request are about
\* one corner, of one run, in one second.
TwoAlike == d1 :> i1 @@ d2 :> i2 @@ d3 :> i2
=============================================================================
