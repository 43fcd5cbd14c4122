---------------------------- MODULE ReleaseBudget ----------------------------
(***************************************************************************)
(* What the disclosure ledger promises its callers, without its tables:    *)
(* a receipt reserves at most one protected release, in one privacy scope, *)
(* at one time; a reservation is released or withdrawn once; and in no     *)
(* window of length Span does a scope hold more than MaxProtected          *)
(* reservations.                                                           *)
(***************************************************************************)
EXTENDS Integers, FiniteSets

CONSTANTS Receipts, Scopes, Times, MaxProtected, Span

VARIABLES
    status,     \* of the reservation of each receipt
    place       \* where it counts: its scope and its time

Unreserved == "unreserved"

Held(r) == status[r] \in {"pending", "released"}

Init ==
    /\ status = [r \in Receipts |-> Unreserved]
    /\ place = [r \in Receipts |-> Unreserved]

HeldInWindow(s, end) ==
    {r \in Receipts : /\ Held(r)
                      /\ place[r].scope = s
                      /\ place[r].at > end - Span
                      /\ place[r].at <= end}

WithinBudget ==
    \A s \in Scopes, end \in Times :
        Cardinality(HeldInWindow(s, end)) <= MaxProtected

(* Any reservation is granted that leaves every window within the budget.  *)
Reserve(r) ==
    /\ status[r] = Unreserved
    /\ status' = [status EXCEPT ![r] = "pending"]
    /\ \E s \in Scopes, at \in Times :
        place' = [place EXCEPT ![r] = [scope |-> s, at |-> at]]
    /\ WithinBudget'

Settle(r, outcome) ==
    /\ status[r] = "pending"
    /\ status' = [status EXCEPT ![r] = outcome]
    /\ UNCHANGED place

Next ==
    \E r \in Receipts : Reserve(r) \/ Settle(r, "released") \/ Settle(r, "withdrawn")

Spec == Init /\ [][Next]_<<status, place>>
=============================================================================
