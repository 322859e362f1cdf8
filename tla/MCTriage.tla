------------------------------- MODULE MCTriage -------------------------------
(* An instance of Triage for TLC. *)
EXTENDS Triage, TLC

Signature(t, a, j) == [tool |-> t, also |-> a, justified |-> j]

\* A decline, an act alone and with a second tool named by its own name or by
\* its action's, a flag called and a flag named besides, one that names a tool
\* that does not act, and one that names no published claim.
SomeSignatures ==
    {Signature("decline", {}, TRUE), Signature("flag", {"rescore"}, TRUE),
     Signature("re_audit", {}, TRUE), Signature("rescore", {"re_audit", "flag"}, TRUE),
     Signature("regenerate_letter", {"reaudit_imagery"}, TRUE),
     Signature("regenerate_letter", {"decline"}, TRUE), Signature("rescore", {}, FALSE)}

\* A bar at the swing the policy re-audits at, and one above it.
Bars == {1, 2}

QuerySymmetry == Permutations(Queries)
=============================================================================
