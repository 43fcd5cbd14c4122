-------------------------- MODULE LedgerRefinement --------------------------
(***************************************************************************)
(* The ledger implements the release budget: the reservation of a receipt  *)
(* is its gated, protected record, and the state of the reservation is the *)
(* last row of that record's journal.  Unprotected and legacy records hold *)
(* no reservation.                                                         *)
(***************************************************************************)
EXTENDS DisclosureLedger

Reservations(r) ==
    {i \in ExistingReceipt(r) : IsGated(i) /\ records[i].event.protected}

ReservationOf(r) == CHOOSE i \in Reservations(r) : TRUE

StatusOfRecord(i) ==
    IF journal[i] = Pending THEN "pending"
    ELSE IF journal[i] = Released THEN "released"
    ELSE "withdrawn"

statusOf ==
    [r \in Receipts |->
        IF Reservations(r) = {} THEN "unreserved"
        ELSE StatusOfRecord(ReservationOf(r))]

placeOf ==
    [r \in Receipts |->
        IF Reservations(r) = {} THEN "unreserved"
        ELSE [scope |-> records[ReservationOf(r)].event.scope,
              at    |-> records[ReservationOf(r)].created_at]]

Budget == INSTANCE ReleaseBudget WITH
              status <- statusOf, place <- placeOf, Span <- Window - ClockStep

(* The gate of secure_ledger.py, its two clock readings, the journal and   *)
(* the idempotency by receipt id implement ReleaseBudget: every step of    *)
(* the ledger is one of its steps or leaves the reservations alone.        *)
ImplementsBudget == Budget!Spec
=============================================================================
