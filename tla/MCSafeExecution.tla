--------------------------- MODULE MCSafeExecution ---------------------------
(***************************************************************************)
(* Instances of SafeExecution for TLC: two requests of one scope, one that *)
(* is allowed as it stands and one that must be rewritten, under two       *)
(* governance contents that tell their policy verdicts apart.              *)
(***************************************************************************)
EXTENDS SafeExecution, TLC

CONSTANTS r1, r2, c1, c2, s1

MCScopeOf == [r \in Requests |-> s1]

MCVerdict ==
    [<<r, q, c>> \in Requests \X Sqls \X Contents |->
        IF c = c2 THEN IF r = r1 THEN "BLOCK" ELSE "ALLOW"
        ELSE IF r = r2 /\ q = "original" THEN "REWRITE"
        ELSE "ALLOW"]

MCProtected == [<<r, c>> \in Requests \X Contents |-> c = c1]

(* Nothing fails, or anything may.                                         *)
MCFaultPlans == {{}, {"ledger", "receipt", "death"}}
=============================================================================
