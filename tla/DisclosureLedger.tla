-------------------------- MODULE DisclosureLedger --------------------------
(***************************************************************************)
(* The cumulative disclosure ledger of src/toxicjoin/disclosure: an        *)
(* append-only SQLite table of disclosure records, an append-only journal  *)
(* of release states layered over it, and a table of authorization claims. *)
(*                                                                         *)
(* Every writer runs inside BEGIN IMMEDIATE, so a whole writing            *)
(* transaction is one action.  claim_commitment is two: it looks the       *)
(* release state up on one connection and inserts the claim on another.    *)
(* A call that is refused rolls back and leaves the tables alone, which is *)
(* a stuttering step; what it answers is the operator Decision.            *)
(***************************************************************************)
EXTENDS Integers, Sequences, FiniteSets

CONSTANTS
    Receipts,       \* receipt ids (unique per row of disclosure_records)
    Scopes,         \* privacy scopes: hash of principal, agent, subject
    AuthIds,        \* execution authorization ids
    Times,          \* readings of the wall clock
    Requested,      \* the disclosure events clients ask the ledger to record
    MaxProtected,   \* DisclosureBudget.max_protected_releases
    Window,         \* DisclosureBudget.window_seconds
    ClockStep       \* how far the wall clock may be set back in a transaction

(***************************************************************************)
(* "composed" is whether the event carries composition metadata: the gate  *)
(* always adds it (schema 1.1), append() need not (schema 1.0).            *)
(***************************************************************************)
Event == [receipt : Receipts, scope : Scopes,
          protected : BOOLEAN, composed : BOOLEAN]

ASSUME ClockAssumption ==
    /\ Times \subseteq Int
    /\ ClockStep \in Nat

ASSUME BudgetAssumption ==
    /\ MaxProtected \in Nat \ {0}
    /\ Window \in Nat \ {0}

ASSUME EventAssumption == Requested \subseteq Event

VARIABLES
    records,    \* disclosure_records in order of their sequence number
    journal,    \* disclosure_release_transitions: the states of each record
    claims,     \* disclosure_authorization_claims
    claiming    \* claim_commitment calls between their two transactions

vars == <<records, journal, claims, claiming>>

Record == [event : Event, created_at : Times, previous : Nat]

Legacy   == <<>>
Pending  == <<"PENDING">>
Released == <<"PENDING", "RELEASED">>
Aborted  == <<"PENDING", "ABORTED">>

(* No rows in the journal means RELEASED: the record predates it.          *)
JournalStates == {Legacy, Pending, Released, Aborted}

TypeOK ==
    /\ records \in Seq(Record)
    /\ journal \in Seq(JournalStates)
    /\ Len(journal) = Len(records)
    /\ claims \subseteq [record : DOMAIN records, auth : AuthIds]
    /\ claiming \subseteq [record : DOMAIN records, auth : AuthIds]

-----------------------------------------------------------------------------
(***************************************************************************)
(* Reading the tables.                                                     *)
(***************************************************************************)
RecordsFor(s) == {i \in DOMAIN records : records[i].event.scope = s}

ExistingReceipt(r) == {i \in DOMAIN records : records[i].event.receipt = r}

(* Records of the scope that still count as history: all but ABORTED.      *)
ActiveHistory(s) == {i \in RecordsFor(s) : journal[i] # Aborted}

IsPending(i) == journal[i] = Pending

IsClaimed(i) == \E k \in claims : k.record = i

(* Protected history older than the composition metadata blocks the scope. *)
UncomposedProtected(s) ==
    {i \in ActiveHistory(s) : /\ records[i].event.protected
                              /\ ~records[i].event.composed}

(* Mutant: a reservation counts only once it is released.                  *)
MutCountsReleasedOnly(s, t) ==
    {i \in ActiveHistory(s) : /\ records[i].event.protected
                              /\ records[i].event.composed
                              /\ journal[i] # Pending
                              /\ records[i].created_at > t - Window}

(* The protected releases the budget counts at clock reading t.            *)
PriorProtected(s, t) ==
    {i \in ActiveHistory(s) : /\ records[i].event.protected
                              /\ records[i].event.composed
                              /\ records[i].created_at > t - Window}

(* Mutant: the chain is continued from the active history.                 *)
MutChainOverActive(p, s) ==
    \/ p = 0 /\ ActiveHistory(s) = {}
    \/ p \in ActiveHistory(s) /\ \A i \in ActiveHistory(s) : i <= p

(* The last record of the scope's hash chain, 0 when it has none.          *)
IsChainHead(p, s) ==
    \/ /\ p = 0
       /\ RecordsFor(s) = {}
    \/ /\ p \in RecordsFor(s)
       /\ \A i \in RecordsFor(s) : i <= p

(* Mutant: unprotected releases pass before the history is looked at.      *)
MutUnprotectedFirst(e, t) ==
    IF ~e.protected THEN "UNPROTECTED_RELEASE"
    ELSE IF UncomposedProtected(e.scope) # {} THEN "LEGACY_HISTORY_BLOCK"
    ELSE LET count == Cardinality(PriorProtected(e.scope, t)) IN
         IF count >= MaxProtected THEN "CUMULATIVE_BUDGET_EXHAUSTED"
         ELSE IF count = 0 THEN "FIRST_PROTECTED_RELEASE"
         ELSE "PROTECTED_RELEASE_WITHIN_BUDGET"

(***************************************************************************)
(* evaluate_composition_history for an event bound to composition metadata.*)
(***************************************************************************)
Evaluation(e, t) ==
    IF UncomposedProtected(e.scope) # {} THEN "LEGACY_HISTORY_BLOCK"
    ELSE IF ~e.protected THEN "UNPROTECTED_RELEASE"
    ELSE LET count == Cardinality(PriorProtected(e.scope, t)) IN
         IF count >= MaxProtected THEN "CUMULATIVE_BUDGET_EXHAUSTED"
         ELSE IF count = 0 THEN "FIRST_PROTECTED_RELEASE"
         ELSE "PROTECTED_RELEASE_WITHIN_BUDGET"

NewReservationRules == {"UNPROTECTED_RELEASE", "FIRST_PROTECTED_RELEASE",
                        "PROTECTED_RELEASE_WITHIN_BUDGET"}

(* What evaluate_and_commit answers; "CONFLICT" raises.                    *)
Decision(e, t) ==
    IF ExistingReceipt(e.receipt) = {} THEN Evaluation(e, t)
    ELSE IF \E i \in ExistingReceipt(e.receipt) :
                /\ records[i].event = e
                /\ journal[i] # Aborted
         THEN "IDEMPOTENT_REPLAY"
         ELSE "CONFLICT"

-----------------------------------------------------------------------------
(***************************************************************************)
(* Writing transactions.                                                   *)
(***************************************************************************)
(* Mutant: the record is inserted without its release state.               *)
MutAppendUnjournaled(e, c, state) ==
    \E p \in 0..Len(records) :
        /\ IsChainHead(p, e.scope)
        /\ records' = Append(records,
                             [event |-> e, created_at |-> c, previous |-> p])
        /\ journal' = journal

AppendEvent(e, c, state) ==
    \E p \in 0..Len(records) :
        /\ IsChainHead(p, e.scope)
        /\ records' = Append(records,
                             [event |-> e, created_at |-> c, previous |-> p])
        /\ journal' = Append(journal, state)

(***************************************************************************)
(* The gate.  The clock is read twice: t when the budget window is placed, *)
(* c when the record is stamped.  It is a wall clock: it may be set back,  *)
(* by at most ClockStep between the two.                                   *)
(***************************************************************************)
EvaluateAndCommit(e, t, c) ==
    /\ e.composed
    /\ c >= t - ClockStep
    /\ Decision(e, t) \in NewReservationRules
    /\ AppendEvent(e, c, Pending)
    /\ UNCHANGED <<claims, claiming>>

(* The migration primitive: no gate, and no row in the journal.            *)
AppendLegacy(e, c) ==
    /\ ExistingReceipt(e.receipt) = {}
    /\ AppendEvent(e, c, Legacy)
    /\ UNCHANGED <<claims, claiming>>

(***************************************************************************)
(* claim_commitment: _require_pending, then the insert.  The authorization *)
(* id is drawn at random for the call.                                     *)
(***************************************************************************)
ClaimRequirePending(i, a) ==
    /\ IsPending(i)
    /\ \A k \in claims \cup claiming : k.auth # a
    /\ claiming' = claiming \cup {[record |-> i, auth |-> a]}
    /\ UNCHANGED <<records, journal, claims>>

(* Mutant: the insert trusts the check of the first transaction.           *)
MutClaimInsertUnchecked(k) ==
    /\ claims' = claims \cup {k}
    /\ claiming' = claiming \ {k}
    /\ UNCHANGED <<records, journal>>

ClaimInsert(k) ==
    /\ ~IsClaimed(k.record)
    /\ claims' = claims \cup {k}
    /\ claiming' = claiming \ {k}
    /\ UNCHANGED <<records, journal>>

(* DisclosureCommitmentReplay: another capability holds the commitment.    *)
ClaimReplayed(k) ==
    /\ IsClaimed(k.record)
    /\ claiming' = claiming \ {k}
    /\ UNCHANGED <<records, journal, claims>>

(* The writer lock is not obtained in time, or the process dies.           *)
ClaimLost(k) ==
    /\ claiming' = claiming \ {k}
    /\ UNCHANGED <<records, journal, claims>>

InsertTransition(i, state) ==
    /\ journal' = [journal EXCEPT ![i] = Append(@, state)]
    /\ UNCHANGED <<records, claims, claiming>>

(* Mutants: releasing without a claim, aborting what is released.          *)
MutMarkReleasedUnclaimed(i) ==
    /\ IsPending(i)
    /\ InsertTransition(i, "RELEASED")

MutMarkAbortedAnyState(i) ==
    /\ journal[i] \notin {Legacy, Aborted}
    /\ InsertTransition(i, "ABORTED")

MarkReleased(i) ==
    /\ IsPending(i)
    /\ IsClaimed(i)
    /\ InsertTransition(i, "RELEASED")

MarkAborted(i) ==
    /\ IsPending(i)
    /\ InsertTransition(i, "ABORTED")

-----------------------------------------------------------------------------
Init ==
    /\ records = <<>>
    /\ journal = <<>>
    /\ claims = {}
    /\ claiming = {}

Next ==
    \/ \E e \in Requested, t, c \in Times : EvaluateAndCommit(e, t, c)
    \/ \E e \in Requested, c \in Times : AppendLegacy(e, c)
    \/ \E i \in DOMAIN records, a \in AuthIds : ClaimRequirePending(i, a)
    \/ \E k \in claiming : ClaimInsert(k) \/ ClaimReplayed(k) \/ ClaimLost(k)
    \/ \E i \in DOMAIN records : MarkReleased(i) \/ MarkAborted(i)

Spec == Init /\ [][Next]_vars

-----------------------------------------------------------------------------
(***************************************************************************)
(* Properties.                                                             *)
(***************************************************************************)

(* A record the gate reserved, as opposed to one append() wrote.           *)
IsGated(i) == journal[i] # Legacy

(* The gated protected releases of a scope, pending or released, stamped   *)
(* in the window of length Window - ClockStep that ends at "end".          *)
ReleasesInWindow(s, end) ==
    {i \in ActiveHistory(s) : /\ IsGated(i)
                              /\ records[i].event.protected
                              /\ records[i].created_at > end - (Window - ClockStep)
                              /\ records[i].created_at <= end}

(* The budget is a bound on every window of the scope's history, whichever *)
(* way the wall clock moved between requests, although the gate            *)
(* (evaluate_composition_history) only ever counts the window that ends at *)
(* the time of the request.                                                *)
BudgetBound ==
    \A s \in Scopes, end \in Times :
        Cardinality(ReleasesInWindow(s, end)) <= MaxProtected

(* The gate as the docstring of composition.py has it: a second protected  *)
(* release of a scope is refused, whenever the first was.  The code counts *)
(* up to max_protected_releases of them, in a rolling window.              *)
AtMostOneProtectedRelease ==
    \A s \in Scopes :
        Cardinality({i \in ActiveHistory(s) : /\ IsGated(i)
                                             /\ records[i].event.protected}) <= 1

(* verify_all's release check never fails on a ledger written by these     *)
(* operations: a journaled RELEASED record has an authorization claim,     *)
(* even though claims are taken in a transaction of their own that races   *)
(* mark_released and mark_aborted.                                         *)
ReleasedIsClaimed ==
    \A i \in DOMAIN records : journal[i] = Released => IsClaimed(i)

(* _records_for_scope_connection's walk of a scope never finds its hash    *)
(* chain broken: every record names the record of the same scope before    *)
(* it, aborted ones included.                                              *)
ChainIntact ==
    \A i \in DOMAIN records :
        LET before == {j \in RecordsFor(records[i].event.scope) : j < i} IN
        IF before = {} THEN records[i].previous = 0
        ELSE /\ records[i].previous \in before
             /\ \A j \in before : j <= records[i].previous

(* Fail closed on history that predates the composition metadata: once a   *)
(* scope holds such a protected record, the gate reserves nothing in it    *)
(* again, not even an unprotected release.                                 *)
LegacyBlocksScope ==
    \A i, j \in DOMAIN records :
        /\ i < j
        /\ records[i].event.scope = records[j].event.scope
        /\ records[i].event.protected
        /\ ~records[i].event.composed
        => ~IsGated(j)

(* Concurrent claim_commitment calls for one reservation, all of which     *)
(* passed their pending check, yield one execution capability at most.     *)
OneCapabilityPerReservation ==
    \A k, l \in claims : k.record = l.record => k = l

(* The journal only moves PENDING -> RELEASED | ABORTED, and a terminal    *)
(* state, like the record it belongs to, is never rewritten.               *)
JournalOnlyAdvances ==
    [][\A i \in DOMAIN records :
          /\ records'[i] = records[i]
          /\ \/ journal'[i] = journal[i]
             \/ journal[i] = Pending /\ journal'[i] \in {Released, Aborted}]_vars
=============================================================================
