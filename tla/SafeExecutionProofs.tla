------------------------- MODULE SafeExecutionProofs -------------------------
(***************************************************************************)
(* The request path implements the disclosure ledger: whatever the threads *)
(* of SafeExecution do, the tables change by the ledger's own operations.  *)
(***************************************************************************)
EXTENDS SafeExecution, FiniteSetTheorems, TLAPS

SnapshotOK == snapshot \in Snapshot /\ clock \in Clocks

LEMMA SnapshotInvariant == Spec => []SnapshotOK
<1>1. Init => SnapshotOK
  BY TimingAssumption DEF Init, SnapshotOK, Clocks
<1>2. SnapshotOK /\ [Next]_vars => SnapshotOK'
  <2> SUFFICES ASSUME SnapshotOK, [Next]_vars PROVE SnapshotOK'
    OBVIOUS
  <2> USE DEF SnapshotOK
  <2>1. ASSUME NEW r \in Requests, Serve(r) \/ Die(r) PROVE UNCHANGED environment
    BY <2>1 DEF Serve, Die, Keep, Refuse, Settled, Resolve, Rewrite, RewriteRefused,
       Capture, CaptureRefused, Verify, VerifyRefused, Reserve, ReserveRefused,
       ReserveFails, Issue, Revalidate, IssueRefused, Claim, ClaimFails, Authorize,
       Consume, ConsumeRefused, ConsumeFails, Run, RunFails, Release, Abort, Escape,
       SettleFails, Record, RecordFails
  <2>2. CASE UNCHANGED environment
    BY <2>2 DEF environment
  <2>3. ASSUME NEW s \in Snapshot, ReplaceSnapshot(s) PROVE SnapshotOK'
    BY <2>3 DEF ReplaceSnapshot
  <2>4. CASE Tick
    BY <2>4, TimingAssumption DEF Tick, Clocks
  <2> QED
    BY <2>1, <2>2, <2>3, <2>4 DEF Next, vars, environment
<1> QED
  BY <1>1, <1>2, PTL DEF Spec

(* The steps of a request that write the ledger, each with the ledger      *)
(* action it takes.                                                        *)
LEMMA ServeStep ==
    ASSUME SnapshotOK, NEW r \in Requests, Serve(r)
    PROVE  L!Next \/ UNCHANGED ledger
<1>1. CASE Reserve(r)
  <2> DEFINE e == EventOf(r, pinned[r].content)
  <2>1. pinned[r].content \in Contents /\ clock \in Clocks
    BY <1>1 DEF Reserve, StillInstalled, SnapshotOK, Snapshot
  <2>2. e \in {EventOf(q, c) : q \in Requests, c \in Contents}
    BY <2>1
  <2>3. L!EvaluateAndCommit(e, clock, clock)
    BY <1>1 DEF Reserve
  <2> HIDE DEF e
  <2> QED
    BY <2>1, <2>2, <2>3 DEF L!Next
<1>2. CASE Revalidate(r)
  <2>1. PICK i \in RecordOf(r) : L!ClaimRequirePending(i, r)
    BY <1>2 DEF Revalidate
  <2>2. i \in DOMAIN records
    BY DEF RecordOf, L!ExistingReceipt
  <2> QED
    BY <2>1, <2>2 DEF L!Next
<1>3. CASE Claim(r)
  <2>1. PICK k \in claiming : L!ClaimInsert(k)
    BY <1>3 DEF Claim
  <2> QED
    BY <2>1 DEF L!Next
<1>4. CASE ClaimFails(r)
  <2>1. CASE UNCHANGED ledger
    BY <2>1
  <2>2. CASE \E k \in claiming : L!ClaimLost(k)
    BY <2>2 DEF L!Next
  <2> QED
    BY <1>4, <2>1, <2>2 DEF ClaimFails
<1>5. CASE Release(r) \/ Abort(r) \/ Escape(r)
  <2>1. PICK i \in RecordOf(r) : L!MarkReleased(i) \/ L!MarkAborted(i)
    BY <1>5 DEF Release, Abort, Escape, MarkReleased, MarkAborted
  <2>2. i \in DOMAIN records
    BY DEF RecordOf, L!ExistingReceipt
  <2> QED
    BY <2>1, <2>2 DEF L!Next
<1> QED
  BY <1>1, <1>2, <1>3, <1>4, <1>5
     DEF Serve, Keep, Refuse, Resolve, Rewrite, RewriteRefused, Capture,
         CaptureRefused, Verify, VerifyRefused, ReserveRefused, ReserveFails, Issue,
         IssueRefused, Authorize, Consume, ConsumeRefused, ConsumeFails, Run,
         RunFails, SettleFails, Record, RecordFails

LEMMA LedgerStep == SnapshotOK /\ [Next]_vars => [L!Next]_(L!vars)
<1> SUFFICES ASSUME SnapshotOK, [Next]_vars PROVE L!Next \/ UNCHANGED ledger
  BY DEF L!vars, ledger
<1>1. ASSUME NEW r \in Requests, Serve(r) PROVE L!Next \/ UNCHANGED ledger
  BY <1>1, ServeStep
<1>2. ASSUME NEW r \in Requests, Die(r) PROVE L!Next \/ UNCHANGED ledger
  <2>1. CASE At(r, "claiming")
    <3>1. PICK k \in claiming : L!ClaimLost(k)
      BY <1>2, <2>1 DEF Die
    <3> QED
      BY <3>1 DEF L!Next
  <2>2. CASE ~At(r, "claiming")
    BY <1>2, <2>2 DEF Die
  <2> QED
    BY <2>1, <2>2
<1>3. ASSUME NEW s \in Snapshot, ReplaceSnapshot(s) PROVE UNCHANGED ledger
  BY <1>3 DEF ReplaceSnapshot
<1>4. CASE Tick
  BY <1>4 DEF Tick
<1>5. CASE UNCHANGED vars
  BY <1>5 DEF vars
<1> QED
  BY <1>1, <1>2, <1>3, <1>4, <1>5 DEF Next

(* Every behaviour of the request path, with its failures and deaths, is a *)
(* behaviour of the ledger: the gate, the two transactions of a claim and  *)
(* the release states are never bypassed.                                  *)
THEOREM RequestsImplementLedger == Spec => LedgerSpec
<1>1. Init => L!Init
  BY DEF Init
<1> QED
  BY <1>1, LedgerStep, SnapshotInvariant, PTL DEF Spec, LedgerSpec, L!Spec
-----------------------------------------------------------------------------
(***************************************************************************)
(* What is proved of the disclosure ledger holds of the request path's.    *)
(***************************************************************************)
D == INSTANCE DisclosureLedgerProofs WITH
        Receipts <- Requests, AuthIds <- Requests, Times <- Clocks,
        Requested <- {EventOf(r, c) : r \in Requests, c \in Contents},
        ClockStep <- 0

(* What the ledger assumes of its constants holds of this instance.        *)
LEMMA InstanceIsSound ==
    /\ Clocks \subseteq Int /\ 0 \in Nat
    /\ MaxProtected \in Nat \ {0}
    /\ Window \in Nat \ {0}
    /\ {EventOf(r, c) : r \in Requests, c \in Contents} \subseteq D!Event
<1>1. \A r \in Requests, c \in Contents : EventOf(r, c) \in D!Event
  <2> TAKE r \in Requests, c \in Contents
  <2>1. ScopeOf[r] \in Scopes
    BY InstanceAssumption
  <2>2. Protected[<<r, c>>] \in BOOLEAN
    BY InstanceAssumption
  <2> QED
    BY <2>1, <2>2 DEF EventOf, D!Event
<1>2. Clocks \subseteq Int
  BY TimingAssumption DEF Clocks
<1> QED
  BY <1>1, <1>2, TimingAssumption

(* The two instances of the ledger read the same,                          *)
LEMMA SameReads ==
    /\ \A r : L!ExistingReceipt(r) = D!ExistingReceipt(r)
    /\ \A e, t : L!Decision(e, t) = D!Decision(e, t)
    /\ \A p, s : L!IsChainHead(p, s) <=> D!IsChainHead(p, s)
    /\ \A i : /\ L!IsPending(i) <=> D!IsPending(i)
              /\ L!IsClaimed(i) <=> D!IsClaimed(i)
    /\ L!NewReservationRules = D!NewReservationRules
<1>1. L!Legacy = D!Legacy /\ L!Pending = D!Pending /\ L!Aborted = D!Aborted
  BY DEF L!Legacy, D!Legacy, L!Pending, D!Pending, L!Aborted, D!Aborted
<1>2. \A s : L!RecordsFor(s) = D!RecordsFor(s)
  BY DEF L!RecordsFor, D!RecordsFor
<1>3. \A s : L!ActiveHistory(s) = D!ActiveHistory(s)
  BY <1>1, <1>2 DEF L!ActiveHistory, D!ActiveHistory
<1>4. \A s, t : /\ L!PriorProtected(s, t) = D!PriorProtected(s, t)
                /\ L!UncomposedProtected(s) = D!UncomposedProtected(s)
  BY <1>3 DEF L!PriorProtected, D!PriorProtected, L!UncomposedProtected, D!UncomposedProtected
<1>5. ASSUME NEW e, NEW t PROVE L!Evaluation(e, t) = D!Evaluation(e, t)
  <2>1. /\ L!PriorProtected(e.scope, t) = D!PriorProtected(e.scope, t)
        /\ L!UncomposedProtected(e.scope) = D!UncomposedProtected(e.scope)
    BY <1>4
  <2>2. \A S : L!Cardinality(S) = D!Cardinality(S)
    BY DEF L!Cardinality, D!Cardinality, L!IsFiniteSet, D!IsFiniteSet
  <2>3. QED
    BY <2>1, <2>2, Zenon DEF L!Evaluation, D!Evaluation
<1>6. \A r : L!ExistingReceipt(r) = D!ExistingReceipt(r)
  BY DEF L!ExistingReceipt, D!ExistingReceipt
<1>7. \A e, t : L!Decision(e, t) = D!Decision(e, t)
  BY <1>1, <1>5, <1>6 DEF L!Decision, D!Decision
<1> QED
  BY <1>1, <1>2, <1>6, <1>7
     DEF L!IsChainHead, D!IsChainHead, L!IsPending, D!IsPending, L!IsClaimed, D!IsClaimed,
         L!NewReservationRules, D!NewReservationRules

(* and so do its steps.                                                    *)
LEMMA SameSteps == [L!Next]_L!vars => [D!Next]_D!vars
<1>1. \A e, c, s : L!AppendEvent(e, c, s) <=> D!AppendEvent(e, c, s)
  BY SameReads DEF L!AppendEvent, D!AppendEvent
<1>2. L!Legacy = D!Legacy /\ L!Pending = D!Pending
  BY DEF L!Legacy, D!Legacy, L!Pending, D!Pending
<1>3. \A e, t, c : L!EvaluateAndCommit(e, t, c) <=> D!EvaluateAndCommit(e, t, c)
  BY <1>1, <1>2, SameReads DEF L!EvaluateAndCommit, D!EvaluateAndCommit
<1>4. \A e, c : L!AppendLegacy(e, c) <=> D!AppendLegacy(e, c)
  BY <1>1, <1>2, SameReads DEF L!AppendLegacy, D!AppendLegacy
<1>5. \A i, a : L!ClaimRequirePending(i, a) <=> D!ClaimRequirePending(i, a)
  BY SameReads DEF L!ClaimRequirePending, D!ClaimRequirePending
<1>6. \A k : L!ClaimInsert(k) \/ L!ClaimReplayed(k) \/ L!ClaimLost(k)
             <=> D!ClaimInsert(k) \/ D!ClaimReplayed(k) \/ D!ClaimLost(k)
  BY SameReads DEF L!ClaimInsert, D!ClaimInsert, L!ClaimReplayed, D!ClaimReplayed,
     L!ClaimLost, D!ClaimLost
<1>7. \A i : L!MarkReleased(i) \/ L!MarkAborted(i) <=> D!MarkReleased(i) \/ D!MarkAborted(i)
  BY SameReads DEF L!MarkReleased, D!MarkReleased, L!MarkAborted, D!MarkAborted,
     L!InsertTransition, D!InsertTransition
<1> QED
  BY <1>3, <1>4, <1>5, <1>6, <1>7 DEF L!Next, D!Next, L!vars, D!vars

(* What was proved of every ledger, of the one the requests share.         *)
THEOREM RequestsKeepLedger ==
    Spec => [](D!TypeOK /\ D!OneRecordPerReceipt /\ D!BudgetBound)
<1>1. L!Spec => D!Spec
  <2>1. L!Init => D!Init
    BY DEF L!Init, D!Init
  <2> QED
    BY <2>1, SameSteps, PTL DEF L!Spec, D!Spec
<1>2. D!Spec => []D!TypeOK
  BY D!TypeCorrect, InstanceIsSound
<1>3. D!Spec => []D!OneRecordPerReceipt
  BY D!ReceiptsAreUnique, InstanceIsSound
<1>4. D!Spec => []D!BudgetBound
  BY D!BudgetHolds, InstanceIsSound
<1> QED
  BY <1>1, <1>2, <1>3, <1>4, RequestsImplementLedger, PTL DEF LedgerSpec
-----------------------------------------------------------------------------
(***************************************************************************)
(* One request from end to end.                                            *)
(***************************************************************************)

(* Where a request has asked for no reservation yet.                       *)
Unreserved == {"received", "rewriting", "capturing", "verifying", "reserving"}

(* Where its reservation waits to be settled.                              *)
Unsettled == {"issuing", "revalidating", "claiming", "executing", "consuming",
              "running", "releasing", "aborting", "escaping"}

(* Where it may hold rows.                                                 *)
MayHoldRows == {"releasing", "recording", "rows", "unavailable", "dead"}

(* A capability was issued, or rows were obtained through one.             *)
Issued(r) ==
    pc[r] \in {"revalidating", "claiming", "executing", "consuming", "running", "releasing"}
        \/ r \in passed

(* The capability has its claim.                                           *)
Claimed(r) == pc[r] \in {"executing", "consuming", "running", "releasing"} \/ r \in passed

HasClaim(r) == \E i \in RecordOf(r) : [record |-> i, auth |-> r] \in claims

(* What a request was told of governance is what it keeps to.              *)
GovernanceKept(r) ==
    /\ pc[r] \in {"verifying", "reserving", "issuing"} => pinned[r] = binding[r]
    /\ pc[r] # "received" => binding[r] \in Snapshot
    /\ \A i \in RecordOf(r) : records[i].event = EventOf(r, binding[r].content)
    /\ Issued(r) => /\ capability[r].binding = binding[r]
                    /\ Verdict[<<r, sql[r], binding[r].content>>] = "ALLOW"

(* The state of its reservation is the one its stage stands for.           *)
ReservationKept(r) ==
    /\ pc[r] \in Unreserved => RecordOf(r) = {}
    /\ pc[r] \in Unsettled => \E i \in RecordOf(r) : L!IsPending(i)
    /\ pc[r] = "releasing" => r \in passed
    /\ r \in passed => pc[r] \in MayHoldRows
    /\ pc[r] = "unavailable" /\ r \in passed => "receipt" \in faults
    /\ Claimed(r) => HasClaim(r)
    /\ (pc[r] \in {"recording", "rows"} /\ r \in passed) =>
            \E i \in RecordOf(r) : journal[i] = L!Released

(* What it was answered, and the receipt of it.                            *)
AnswerKept(r) ==
    /\ pc[r] = "rows" =>
            /\ r \in passed
            /\ [request |-> r, binding |-> binding[r], passed |-> TRUE] \in receipts
    /\ \A e \in receipts : (e.request = r /\ e.passed) => pc[r] = "rows" /\ e.binding = binding[r]
    /\ /\ faults \cap {"ledger", "receipt"} = {}
       /\ pc[r] \in {"recording", "withheld", "unavailable"} /\ r \notin passed
       => \A i \in RecordOf(r) : journal[i] = L!Aborted

(* A claim in flight is of the reservation of the request that makes it.   *)
ClaimsInFlight == \A k \in claiming : k.record \in RecordOf(k.auth)

RequestInv ==
    /\ TypeOK
    /\ ClaimsInFlight
    /\ \A r \in Requests : GovernanceKept(r) /\ ReservationKept(r) /\ AnswerKept(r)

(* The ledger a step finds, and the one it leaves.                         *)
LedgerOK == D!TypeOK /\ D!OneRecordPerReceipt

-----------------------------------------------------------------------------
(* What a request does to the ledger does not reach the others' records.   *)
LedgerApart(r) ==
    /\ DOMAIN records \subseteq DOMAIN records'
    /\ \A i \in DOMAIN records : /\ records'[i] = records[i]
                                 /\ records[i].event.receipt # r => journal'[i] = journal[i]
    /\ \A i \in DOMAIN records' \ DOMAIN records : records'[i].event.receipt = r
    /\ claims \subseteq claims'

(* A step of one request, as the others see it.                            *)
Apart(r) ==
    /\ LedgerApart(r)
    /\ \A q \in Requests \ {r} :
        /\ pc'[q] = pc[q] /\ sql'[q] = sql[q] /\ binding'[q] = binding[q]
        /\ pinned'[q] = pinned[q] /\ capability'[q] = capability[q]
        /\ q \in passed' <=> q \in passed
    /\ \A e : e.request # r => (e \in receipts' <=> e \in receipts)
    /\ UNCHANGED faults

LEMMA OwnRecords ==
    \A r, i : i \in RecordOf(r) <=> i \in DOMAIN records /\ records[i].event.receipt = r
  BY DEF RecordOf, L!ExistingReceipt

LEMMA OwnRecordsNext ==
    \A r, i : i \in RecordOf(r)' <=> i \in DOMAIN records' /\ records'[i].event.receipt = r
  BY DEF RecordOf, L!ExistingReceipt

LEMMA OthersRecords ==
    ASSUME NEW r, LedgerApart(r), NEW q, q # r
    PROVE  /\ RecordOf(q)' = RecordOf(q)
           /\ \A i \in RecordOf(q) : records'[i] = records[i] /\ journal'[i] = journal[i]
  <1>1. \A i : i \in RecordOf(q)' <=> i \in RecordOf(q)
    BY OwnRecords, OwnRecordsNext DEF LedgerApart
  <1>2. RecordOf(q)' = RecordOf(q)
    BY <1>1 DEF RecordOf, L!ExistingReceipt
  <1>3. QED
    BY <1>2, OwnRecords DEF LedgerApart

LEMMA OthersKept ==
    ASSUME NEW r \in Requests, Apart(r), NEW q \in Requests, q # r,
           GovernanceKept(q), ReservationKept(q), AnswerKept(q)
    PROVE  GovernanceKept(q)' /\ ReservationKept(q)' /\ AnswerKept(q)'
  <1>1. /\ RecordOf(q)' = RecordOf(q)
        /\ \A i \in RecordOf(q) : records'[i] = records[i] /\ journal'[i] = journal[i]
    BY OthersRecords DEF Apart
  <1>2. /\ pc'[q] = pc[q] /\ sql'[q] = sql[q] /\ binding'[q] = binding[q]
        /\ pinned'[q] = pinned[q] /\ capability'[q] = capability[q]
        /\ q \in passed' <=> q \in passed
        /\ faults' = faults /\ claims \subseteq claims'
    BY DEF Apart, LedgerApart
  <1>3. GovernanceKept(q)'
    BY <1>1, <1>2 DEF GovernanceKept, Issued, EventOf
  <1>4. ReservationKept(q)'
    BY <1>1, <1>2 DEF ReservationKept, Claimed, HasClaim, L!IsPending
  <1>5. AnswerKept(q)'
    <2>1. \A e : e.request = q => (e \in receipts' <=> e \in receipts)
      BY DEF Apart
    <2>2. QED
      BY <1>1, <1>2, <2>1 DEF AnswerKept
  <1>6. QED
    BY <1>3, <1>4, <1>5

(* Claims in flight stay those of the requests that make them.             *)
LEMMA FlightKept ==
    ASSUME ClaimsInFlight, NEW r, LedgerApart(r), claiming' \subseteq claiming
    PROVE  ClaimsInFlight'
  BY OwnRecords, OwnRecordsNext DEF ClaimsInFlight, LedgerApart

(* Nothing happens to the ledger.                                          *)
LEMMA LedgerStays ==
    ASSUME ClaimsInFlight, UNCHANGED ledger, NEW r
    PROVE  LedgerApart(r) /\ ClaimsInFlight' /\ RecordOf(r)' = RecordOf(r)
  BY DEF ledger, LedgerApart, ClaimsInFlight, RecordOf, L!ExistingReceipt

(* The gate appends one pending record, of the request and of its event.   *)
LEMMA ReservationMade ==
    ASSUME LedgerOK, ClaimsInFlight, clock \in Clocks, NEW r \in Requests, NEW c \in Contents,
           L!EvaluateAndCommit(EventOf(r, c), clock, clock)
    PROVE  /\ LedgerApart(r) /\ ClaimsInFlight'
           /\ \E i \in RecordOf(r)' : TRUE
           /\ \A i \in RecordOf(r)' :
                records'[i].event = EventOf(r, c) /\ journal'[i] = L!Pending
  <1> DEFINE e == EventOf(r, c)
             n == Len(records) + 1
  <1>1. e \in D!Event /\ e.receipt = r
    BY InstanceIsSound DEF EventOf
  <1>2. /\ L!ExistingReceipt(r) = {} /\ D!AppendEvent(e, clock, D!Pending)
        /\ L!Pending = D!Pending /\ UNCHANGED <<claims, claiming>>
    <2>1. D!Decision(e, clock) \in D!NewReservationRules
      BY SameReads DEF L!EvaluateAndCommit
    <2>2. D!ExistingReceipt(r) = {}
      BY <1>1, <2>1, D!GateCounts, InstanceIsSound
    <2>3. L!AppendEvent(e, clock, L!Pending) /\ UNCHANGED <<claims, claiming>>
      BY DEF L!EvaluateAndCommit
    <2>4. D!AppendEvent(e, clock, L!Pending)
      BY <2>3, SameReads DEF L!AppendEvent, D!AppendEvent
    <2>5. L!Pending = D!Pending
      BY DEF L!Pending, D!Pending
    <2>6. QED
      BY <2>2, <2>3, <2>4, <2>5, SameReads
  <1>3. D!Pending \in D!JournalStates
    BY DEF D!JournalStates
  <1>4. /\ DOMAIN records' = DOMAIN records \cup {n} /\ n \notin DOMAIN records
        /\ \A i \in DOMAIN records : records'[i] = records[i] /\ journal'[i] = journal[i]
        /\ records'[n].event = e /\ journal'[n] = D!Pending
    <2>1. D!TypeOK
      BY DEF LedgerOK
    <2>2. e \in D!Event /\ D!AppendEvent(e, clock, D!Pending)
      BY <1>1, <1>2
    <2> HIDE DEF e
    <2>3. DOMAIN records' = DOMAIN records \cup {n}
      BY <2>1, <2>2 DEF D!TypeOK, D!AppendEvent
    <2>4. \A i \in DOMAIN records : records'[i] = records[i] /\ journal'[i] = journal[i]
      BY <1>3, <2>1, <2>2, D!AppendIndexes, InstanceIsSound
    <2>5. journal'[n] = D!Pending
      BY <1>3, <2>1, <2>2, D!AppendIndexes, InstanceIsSound
    <2>6. n \notin DOMAIN records
      BY <2>1 DEF D!TypeOK
    <2>7. records'[n].event = e
      BY <1>3, <2>1, <2>2, D!AppendIndexes, InstanceIsSound
    <2>8. QED
      BY <2>3, <2>4, <2>5, <2>6, <2>7
  <1> HIDE DEF e, n
  <1>5. \A i : i \in RecordOf(r)' <=> i = n
    <2>1. \A i \in DOMAIN records : records[i].event.receipt # r
      BY <1>2 DEF L!ExistingReceipt
    <2>2. QED
      BY <1>1, <1>4, <2>1, OwnRecordsNext
  <1>6. LedgerApart(r)
    BY <1>1, <1>2, <1>4 DEF LedgerApart
  <1>7. ClaimsInFlight'
    BY <1>2, <1>6, FlightKept
  <1>8. QED
    BY <1>2, <1>4, <1>5, <1>6, <1>7 DEF e

(* A request settles its own record.                                       *)
LEMMA ReservationSettled ==
    ASSUME LedgerOK, ClaimsInFlight, NEW r \in Requests, MarkReleased(r) \/ MarkAborted(r)
    PROVE  /\ LedgerApart(r) /\ ClaimsInFlight' /\ RecordOf(r)' = RecordOf(r)
           /\ UNCHANGED <<records, claims>>
           /\ MarkReleased(r) => \A i \in RecordOf(r) : journal'[i] = L!Released
           /\ MarkAborted(r) => \A i \in RecordOf(r) : journal'[i] = L!Aborted
  <1>1. PICK i \in RecordOf(r) : L!MarkReleased(i) \/ L!MarkAborted(i)
    BY DEF MarkReleased, MarkAborted
  <1>2. /\ D!MarkReleased(i) \/ D!MarkAborted(i)
        /\ i \in DOMAIN records /\ records[i].event.receipt = r
    <2>1. L!InsertTransition(i, "RELEASED") <=> D!InsertTransition(i, "RELEASED")
      BY DEF L!InsertTransition, D!InsertTransition
    <2>2. L!InsertTransition(i, "ABORTED") <=> D!InsertTransition(i, "ABORTED")
      BY DEF L!InsertTransition, D!InsertTransition
    <2>3. QED
      BY <1>1, <2>1, <2>2, OwnRecords, SameReads
         DEF L!MarkReleased, L!MarkAborted, D!MarkReleased, D!MarkAborted
  <1>3. /\ \A j \in DOMAIN records : j # i => journal'[j] = journal[j]
        /\ UNCHANGED <<records, claims, claiming>>
    BY <1>2, D!TransitionIndexes, InstanceIsSound DEF LedgerOK
  <1>4. \A j \in RecordOf(r) : j = i
    BY <1>2, OwnRecords DEF LedgerOK, D!OneRecordPerReceipt
  <1>5. LedgerApart(r)
    BY <1>2, <1>3 DEF LedgerApart
  <1>6. ClaimsInFlight'
    BY <1>3, <1>5, FlightKept
  <1>7. RecordOf(r)' = RecordOf(r)
    BY <1>3 DEF RecordOf, L!ExistingReceipt
  <1>8. i \in DOMAIN journal
    BY <1>2 DEF LedgerOK, D!TypeOK
  <1>9. /\ Append(L!Pending, "RELEASED") = L!Released
        /\ Append(L!Pending, "ABORTED") = L!Aborted
    BY D!AppendTransitions, InstanceIsSound
       DEF L!Pending, L!Released, L!Aborted, D!Pending, D!Released, D!Aborted
  <1>10. MarkReleased(r) => journal'[i] = L!Released
    BY <1>4, <1>8, <1>9 DEF MarkReleased, L!MarkReleased, L!InsertTransition, L!IsPending
  <1>11. MarkAborted(r) => journal'[i] = L!Aborted
    BY <1>4, <1>8, <1>9 DEF MarkAborted, L!MarkAborted, L!InsertTransition, L!IsPending
  <1>12. QED
    BY <1>3, <1>4, <1>5, <1>6, <1>7, <1>10, <1>11

(* The two transactions of a claim.                                        *)
LEMMA ClaimStarted ==
    ASSUME ClaimsInFlight, NEW r, NEW i \in RecordOf(r), L!ClaimRequirePending(i, r)
    PROVE  /\ LedgerApart(r) /\ ClaimsInFlight' /\ RecordOf(r)' = RecordOf(r)
           /\ UNCHANGED <<records, journal, claims>>
  <1>1. /\ UNCHANGED <<records, journal, claims>>
        /\ claiming' = claiming \cup {[record |-> i, auth |-> r]}
    BY DEF L!ClaimRequirePending
  <1>2. \A q : RecordOf(q)' = RecordOf(q)
    BY <1>1 DEF RecordOf, L!ExistingReceipt
  <1>3. QED
    BY <1>1, <1>2 DEF LedgerApart, ClaimsInFlight

LEMMA ClaimEnded ==
    ASSUME LedgerOK, ClaimsInFlight, NEW r, NEW k \in claiming, k.auth = r,
           L!ClaimInsert(k) \/ L!ClaimLost(k)
    PROVE  /\ LedgerApart(r) /\ ClaimsInFlight' /\ RecordOf(r)' = RecordOf(r)
           /\ UNCHANGED <<records, journal>>
           /\ L!ClaimInsert(k) => \E i \in RecordOf(r) : [record |-> i, auth |-> r] \in claims'
  <1>1. /\ UNCHANGED <<records, journal>> /\ claims \subseteq claims'
        /\ claiming' \subseteq claiming
    BY DEF L!ClaimInsert, L!ClaimLost
  <1>2. LedgerApart(r)
    BY <1>1 DEF LedgerApart
  <1>3. RecordOf(r)' = RecordOf(r)
    BY <1>1 DEF RecordOf, L!ExistingReceipt
  <1>4. k = [record |-> k.record, auth |-> r] /\ k.record \in RecordOf(r)
    BY DEF LedgerOK, D!TypeOK, ClaimsInFlight
  <1>5. QED
    BY <1>1, <1>2, <1>3, <1>4, FlightKept DEF L!ClaimInsert

(* A request moves on, and no other does.                                  *)
LEMMA Moves ==
    ASSUME TypeOK, NEW r \in Requests, NEW stage, GoTo(r, stage)
    PROVE  pc'[r] = stage /\ \A q \in Requests \ {r} : pc'[q] = pc[q]
  BY DEF TypeOK, GoTo

(* What the invariant says of one request.                                 *)
Self(r) == GovernanceKept(r) /\ ReservationKept(r) /\ AnswerKept(r)

StepKept(r) == Apart(r) /\ ClaimsInFlight' /\ Self(r)'

(* Before a reservation, and while it waits, no rows are held.             *)
LEMMA NotPassedYet ==
    ASSUME RequestInv, NEW r \in Requests,
           pc[r] \in (Unreserved \cup Unsettled) \ {"releasing"}
    PROVE  r \notin passed /\ \A e \in receipts : ~(e.request = r /\ e.passed)
  BY DEF RequestInv, ReservationKept, AnswerKept, Unreserved, Unsettled, MayHoldRows

(* A request moves on; its capability is of the same governance.           *)
Proceeds(r, stage) ==
    /\ pc'[r] = stage /\ \A q \in Requests \ {r} : pc'[q] = pc[q]
    /\ capability'[r].binding = capability[r].binding
    /\ \A q \in Requests \ {r} : capability'[q] = capability[q]
    /\ UNCHANGED <<ledger, environment, sql, binding, pinned, passed, receipts>>

LEMMA KeepProceeds ==
    ASSUME TypeOK, NEW r \in Requests, NEW stage, Keep(r, stage)
    PROVE  Proceeds(r, stage)
  BY Moves DEF Keep, Proceeds

LEMMA ConsumeProceeds ==
    ASSUME TypeOK, NEW r \in Requests, Consume(r)
    PROVE  Proceeds(r, "running") /\ capability'[r].admitted = clock
  BY Moves DEF Consume, Proceeds, TypeOK

(* The steps that only move the request on.                                *)
LEMMA ProceedStep ==
    ASSUME RequestInv, NEW r \in Requests, NEW stage, Proceeds(r, stage),
           \/ /\ pc[r] \in {"rewriting", "capturing", "verifying", "reserving"}
              /\ stage \in {"recording", "unavailable"}
           \/ pc[r] = "verifying" /\ stage = "reserving"
           \/ pc[r] \in Unsettled \ {"releasing"} /\ stage \in {"aborting", "escaping"}
           \/ pc[r] = "executing" /\ stage = "consuming"
           \/ pc[r] = "consuming" /\ stage = "running"
           \/ pc[r] = "recording" /\ stage = "unavailable" /\ "receipt" \in faults
    PROVE  StepKept(r)
  <1>1. /\ pc'[r] = stage /\ \A q \in Requests \ {r} : pc'[q] = pc[q]
        /\ capability'[r].binding = capability[r].binding
        /\ \A q \in Requests \ {r} : capability'[q] = capability[q]
        /\ UNCHANGED <<ledger, environment, sql, binding, pinned, passed, receipts>>
    BY DEF Proceeds
  <1>2. LedgerApart(r) /\ ClaimsInFlight' /\ RecordOf(r)' = RecordOf(r)
    BY <1>1, LedgerStays DEF RequestInv
  <1>3. Apart(r)
    BY <1>1, <1>2 DEF Apart, environment
  <1>4. Self(r)
    BY DEF RequestInv, Self
  <1>5. pc[r] # "recording" =>
            r \notin passed /\ \A e \in receipts : ~(e.request = r /\ e.passed)
    BY NotPassedYet DEF Unreserved, Unsettled
  <1>6. GovernanceKept(r)'
    BY <1>1, <1>2, <1>4, <1>5
       DEF Self, GovernanceKept, Issued, EventOf, ledger, Unsettled
  <1>7. ReservationKept(r)'
    BY <1>1, <1>2, <1>4, <1>5
       DEF Self, ReservationKept, Claimed, HasClaim, L!IsPending, ledger, environment,
           Unreserved, Unsettled, MayHoldRows
  <1>8. AnswerKept(r)'
    BY <1>1, <1>2, <1>4, <1>5
       DEF Self, AnswerKept, ReservationKept, ledger, environment, Unreserved, Unsettled
  <1>9. QED
    BY <1>2, <1>3, <1>6, <1>7, <1>8 DEF StepKept, Self

(* The steps of the pipeline before a reservation.                         *)
LEMMA ResolveStep ==
    ASSUME RequestInv, NEW r \in Requests, Resolve(r) \/ Rewrite(r) \/ Capture(r)
    PROVE  StepKept(r)
  <1>1. PICK stage \in {"recording", "capturing", "rewriting", "verifying"} :
              /\ GoTo(r, stage)
              /\ pc[r] \in {"received", "rewriting", "capturing"}
              /\ stage = "verifying" => Capture(r)
              /\ UNCHANGED <<ledger, environment, capability, passed, receipts>>
    BY DEF Resolve, NextStage, Rewrite, Capture, At
  <1>2. pc'[r] = stage /\ \A q \in Requests \ {r} : pc'[q] = pc[q]
    BY <1>1, Moves DEF RequestInv
  <1>3. /\ binding'[r] \in Snapshot
        /\ stage = "verifying" => pinned'[r] = binding'[r]
        /\ \A q \in Requests \ {r} : /\ sql'[q] = sql[q] /\ binding'[q] = binding[q]
                                     /\ pinned'[q] = pinned[q]
    <2>1. CASE Resolve(r)
      BY <1>1, <2>1 DEF Resolve, RequestInv, TypeOK, Capture, At
    <2>2. CASE Rewrite(r)
      BY <1>1, <2>2 DEF Rewrite, RequestInv, TypeOK, Capture, At, GovernanceKept
    <2>3. CASE Capture(r)
      BY <1>1, <2>3 DEF Capture, RequestInv, TypeOK, At, GovernanceKept, StillInstalled
    <2>4. QED
      BY <2>1, <2>2, <2>3
  <1>4. LedgerApart(r) /\ ClaimsInFlight' /\ RecordOf(r)' = RecordOf(r)
    BY <1>1, LedgerStays DEF RequestInv
  <1>5. Apart(r)
    BY <1>1, <1>2, <1>3, <1>4 DEF Apart, environment
  <1>6. r \notin passed /\ \A e \in receipts : ~(e.request = r /\ e.passed)
    BY <1>1, NotPassedYet DEF Unreserved
  <1>7. RecordOf(r) = {}
    BY <1>1 DEF RequestInv, ReservationKept, Unreserved
  <1>8. GovernanceKept(r)'
    BY <1>1, <1>2, <1>3, <1>4, <1>6, <1>7 DEF GovernanceKept, Issued
  <1>9. ReservationKept(r)'
    BY <1>1, <1>2, <1>4, <1>6, <1>7
       DEF ReservationKept, Claimed, Unreserved, Unsettled, MayHoldRows
  <1>10. AnswerKept(r)'
    BY <1>1, <1>2, <1>4, <1>6, <1>7 DEF AnswerKept
  <1>11. QED
    BY <1>4, <1>5, <1>8, <1>9, <1>10 DEF StepKept, Self

LEMMA ReserveStep ==
    ASSUME LedgerOK, RequestInv, NEW r \in Requests, Reserve(r)
    PROVE  StepKept(r)
  <1>1. /\ pc[r] = "reserving" /\ pc'[r] = "issuing"
        /\ \A q \in Requests \ {r} : pc'[q] = pc[q]
        /\ UNCHANGED <<environment, sql, binding, pinned, capability, passed, receipts>>
    BY Moves DEF RequestInv, Reserve, At
  <1>2. pinned[r] = binding[r] /\ binding[r] \in Snapshot
    BY <1>1 DEF RequestInv, GovernanceKept
  <1>3. /\ LedgerApart(r) /\ ClaimsInFlight'
        /\ \E i \in RecordOf(r)' : TRUE
        /\ \A i \in RecordOf(r)' :
             records'[i].event = EventOf(r, binding[r].content) /\ journal'[i] = L!Pending
    <2>1. binding[r].content \in Contents /\ clock \in Clocks
      BY <1>2 DEF Snapshot, RequestInv, TypeOK
    <2>2. L!EvaluateAndCommit(EventOf(r, binding[r].content), clock, clock)
      BY <1>2 DEF Reserve
    <2>3. QED
      BY <2>1, <2>2, ReservationMade DEF RequestInv
  <1>4. Apart(r)
    BY <1>1, <1>3 DEF Apart, environment
  <1>5. r \notin passed /\ \A e \in receipts : ~(e.request = r /\ e.passed)
    BY <1>1, NotPassedYet DEF Unreserved
  <1>6. GovernanceKept(r)'
    BY <1>1, <1>2, <1>3, <1>5 DEF GovernanceKept, Issued, EventOf
  <1>7. ReservationKept(r)'
    BY <1>1, <1>3, <1>5 DEF ReservationKept, Claimed, Unreserved, Unsettled, L!IsPending
  <1>8. AnswerKept(r)'
    BY <1>1, <1>5 DEF AnswerKept
  <1>9. QED
    BY <1>3, <1>4, <1>6, <1>7, <1>8 DEF StepKept, Self

(* A capability is issued and claimed: the reservation waits.              *)
LEMMA CapabilityStep ==
    ASSUME LedgerOK, RequestInv, NEW r \in Requests,
           Issue(r) \/ Revalidate(r) \/ Claim(r) \/ ClaimFails(r)
    PROVE  StepKept(r)
  <1>1. PICK stage \in {"revalidating", "claiming", "executing", "escaping"} :
              /\ GoTo(r, stage)
              /\ pc[r] \in {"issuing", "revalidating", "claiming"}
              /\ stage = "revalidating" <=> pc[r] = "issuing"
              /\ stage = "executing" => Claim(r)
              /\ UNCHANGED <<environment, sql, binding, pinned, passed, receipts>>
    BY DEF Issue, Revalidate, Claim, ClaimFails, At
  <1>2. pc'[r] = stage /\ \A q \in Requests \ {r} : pc'[q] = pc[q]
    BY <1>1, Moves DEF RequestInv
  <1>3. /\ \A q \in Requests \ {r} : capability'[q] = capability[q]
        /\ stage # "escaping" =>
             /\ capability'[r].binding = binding[r]
             /\ Verdict[<<r, sql[r], binding[r].content>>] = "ALLOW"
    <2>1. CASE Issue(r)
      BY <2>1 DEF Issue, Reevaluated, StillInstalled, AllowedNow, At, RequestInv, TypeOK,
                  GovernanceKept
    <2>2. CASE Revalidate(r)
      BY <2>2 DEF Revalidate, At, RequestInv, GovernanceKept, Issued
    <2>3. CASE Claim(r)
      BY <2>3 DEF Claim, At, RequestInv, TypeOK, GovernanceKept, Issued
    <2>4. CASE ClaimFails(r)
      <3>1. stage = "escaping"
        BY <1>1, <1>2, <2>4, Moves DEF ClaimFails, RequestInv
      <3>2. QED
        BY <2>4, <3>1 DEF ClaimFails
    <2>5. QED
      BY <2>1, <2>2, <2>3, <2>4
  <1>4. /\ LedgerApart(r) /\ ClaimsInFlight' /\ RecordOf(r)' = RecordOf(r)
        /\ UNCHANGED <<records, journal>>
        /\ Claim(r) => HasClaim(r)'
    <2>1. CASE Issue(r)
      <3>1. UNCHANGED ledger /\ ~Claim(r)
        BY <2>1 DEF Issue, Claim, At
      <3>2. QED
        BY <3>1, LedgerStays DEF RequestInv, ledger
    <2>2. CASE Revalidate(r)
      <3>1. \E i \in RecordOf(r) : L!ClaimRequirePending(i, r) /\ ~Claim(r)
        BY <2>2 DEF Revalidate, Claim, At
      <3>2. QED
        BY <3>1, ClaimStarted DEF RequestInv
    <2>3. CASE Claim(r)
      BY <2>3, ClaimEnded DEF Claim, RequestInv, HasClaim
    <2>4. CASE ClaimFails(r)
      <3>1. ~Claim(r)
        BY <2>4, Moves DEF ClaimFails, Claim, RequestInv
      <3>2. CASE UNCHANGED ledger
        BY <3>1, <3>2, LedgerStays DEF RequestInv, ledger
      <3>3. CASE \E k \in claiming : k.auth = r /\ L!ClaimLost(k)
        BY <3>1, <3>3, ClaimEnded DEF RequestInv
      <3>4. QED
        BY <2>4, <3>2, <3>3 DEF ClaimFails
    <2>5. QED
      BY <2>1, <2>2, <2>3, <2>4
  <1>5. Apart(r)
    BY <1>1, <1>2, <1>3, <1>4 DEF Apart, environment
  <1>6. r \notin passed /\ \A e \in receipts : ~(e.request = r /\ e.passed)
    BY <1>1, NotPassedYet DEF Unsettled
  <1>7. \E i \in RecordOf(r) : L!IsPending(i)
    BY <1>1 DEF RequestInv, ReservationKept, Unsettled
  <1>8. GovernanceKept(r)'
    BY <1>1, <1>2, <1>3, <1>4, <1>6 DEF RequestInv, GovernanceKept, Issued, EventOf
  <1>9. ReservationKept(r)'
    BY <1>1, <1>2, <1>4, <1>6, <1>7
       DEF ReservationKept, Claimed, Unreserved, Unsettled, L!IsPending
  <1>10. AnswerKept(r)'
    BY <1>1, <1>2, <1>6 DEF AnswerKept
  <1>11. QED
    BY <1>4, <1>5, <1>8, <1>9, <1>10 DEF StepKept, Self

LEMMA RunStep ==
    ASSUME RequestInv, NEW r \in Requests, Run(r)
    PROVE  StepKept(r)
  <1>1. /\ pc[r] = "running" /\ pc'[r] = "releasing" /\ passed' = passed \cup {r}
        /\ \A q \in Requests \ {r} : pc'[q] = pc[q]
        /\ UNCHANGED <<ledger, environment, sql, binding, pinned, capability, receipts>>
    BY Moves DEF RequestInv, Run, At
  <1>2. LedgerApart(r) /\ ClaimsInFlight' /\ RecordOf(r)' = RecordOf(r)
    BY <1>1, LedgerStays DEF RequestInv
  <1>3. Apart(r)
    BY <1>1, <1>2 DEF Apart, environment
  <1>4. Self(r) /\ \A e \in receipts : ~(e.request = r /\ e.passed)
    BY <1>1, NotPassedYet DEF RequestInv, Self, Unsettled
  <1>5. GovernanceKept(r)'
    BY <1>1, <1>2, <1>4 DEF Self, GovernanceKept, Issued, EventOf, ledger
  <1>6. ReservationKept(r)'
    BY <1>1, <1>2, <1>4
       DEF Self, ReservationKept, Claimed, HasClaim, Unreserved, Unsettled, MayHoldRows,
           L!IsPending, ledger
  <1>7. AnswerKept(r)'
    BY <1>1, <1>4 DEF AnswerKept
  <1>8. QED
    BY <1>2, <1>3, <1>5, <1>6, <1>7 DEF StepKept, Self

(* The reservation is settled.                                             *)
LEMMA SettleStep ==
    ASSUME LedgerOK, RequestInv, NEW r \in Requests, Release(r) \/ Abort(r) \/ Escape(r)
    PROVE  StepKept(r)
  <1>1. PICK next \in {"recording", "unavailable"} :
              /\ GoTo(r, next)
              /\ pc[r] \in {"releasing", "aborting", "escaping"}
              /\ next = "unavailable" <=> pc[r] = "escaping"
              /\ \/ pc[r] = "releasing" /\ MarkReleased(r)
                 \/ pc[r] # "releasing" /\ MarkAborted(r)
              /\ UNCHANGED <<environment, sql, binding, pinned, capability, passed, receipts>>
    BY DEF Release, Abort, Escape, Settled, At
  <1>2. pc'[r] = next /\ \A q \in Requests \ {r} : pc'[q] = pc[q]
    BY <1>1, Moves DEF RequestInv
  <1>3. /\ LedgerApart(r) /\ ClaimsInFlight' /\ RecordOf(r)' = RecordOf(r)
        /\ UNCHANGED <<records, claims>>
    BY <1>1, ReservationSettled DEF RequestInv
  <1>4. \A i \in RecordOf(r) : journal'[i] = IF pc[r] = "releasing" THEN L!Released
                                                                   ELSE L!Aborted
    BY <1>1, ReservationSettled DEF RequestInv
  <1>5. Apart(r)
    BY <1>1, <1>2, <1>3 DEF Apart, environment
  <1>6. Self(r) /\ (r \in passed <=> pc[r] = "releasing")
    BY <1>1 DEF RequestInv, Self, ReservationKept, MayHoldRows
  <1>7. \A e \in receipts : ~(e.request = r /\ e.passed)
    BY <1>1 DEF RequestInv, AnswerKept
  <1>8. \E i \in RecordOf(r) : L!IsPending(i)
    BY <1>1 DEF RequestInv, ReservationKept, Unsettled
  <1>9. GovernanceKept(r)'
    BY <1>1, <1>2, <1>3, <1>6 DEF Self, GovernanceKept, Issued, EventOf
  <1>10. ReservationKept(r)'
    BY <1>1, <1>2, <1>3, <1>4, <1>6, <1>8
       DEF Self, ReservationKept, Claimed, HasClaim, Unreserved, Unsettled, MayHoldRows
  <1>11. AnswerKept(r)'
    BY <1>1, <1>2, <1>3, <1>4, <1>6, <1>7 DEF AnswerKept
  <1>12. QED
    BY <1>3, <1>5, <1>9, <1>10, <1>11 DEF StepKept, Self

(* A failed settlement takes the rows away; a request dies.                *)
LEMMA FailureStep ==
    ASSUME LedgerOK, RequestInv, NEW r \in Requests, SettleFails(r) \/ Die(r)
    PROVE  StepKept(r)
  <1>1. PICK stage \in {"recording", "unavailable", "dead"} :
              /\ GoTo(r, stage)
              /\ pc[r] \in Working \ {"received"}
              /\ \/ stage # "dead" /\ "ledger" \in faults /\ passed' = passed \ {r}
                 \/ stage = "dead" /\ passed' = passed
              /\ UNCHANGED <<environment, sql, binding, pinned, capability, receipts>>
    BY DEF SettleFails, Die, At, Working
  <1>2. pc'[r] = stage /\ \A q \in Requests \ {r} : pc'[q] = pc[q]
    BY <1>1, Moves DEF RequestInv
  <1>3. /\ LedgerApart(r) /\ ClaimsInFlight' /\ RecordOf(r)' = RecordOf(r)
        /\ UNCHANGED <<records, journal>> /\ claims \subseteq claims'
    <2>1. CASE UNCHANGED ledger
      BY <2>1, LedgerStays DEF RequestInv, ledger
    <2>2. CASE \E k \in claiming : k.auth = r /\ L!ClaimLost(k)
      <3>1. PICK k \in claiming : k.auth = r /\ L!ClaimLost(k)
        BY <2>2
      <3>2. claims' = claims
        BY <3>1 DEF L!ClaimLost
      <3>3. QED
        BY <3>1, <3>2, ClaimEnded DEF RequestInv
    <2>3. QED
      BY <2>1, <2>2 DEF SettleFails, Die
  <1>4. Apart(r)
    BY <1>1, <1>2, <1>3 DEF Apart, environment
  <1>5. Self(r)
    BY DEF RequestInv, Self
  <1>6. \A e \in receipts : ~(e.request = r /\ e.passed)
    BY <1>1 DEF RequestInv, AnswerKept, Working
  <1>7. GovernanceKept(r)'
    BY <1>1, <1>2, <1>3, <1>5 DEF Self, GovernanceKept, Issued, EventOf, Working
  <1>8. ReservationKept(r)'
    BY <1>1, <1>2, <1>3, <1>5
       DEF Self, ReservationKept, Claimed, HasClaim, Unreserved, Unsettled, MayHoldRows
  <1>9. AnswerKept(r)'
    BY <1>1, <1>2, <1>6 DEF AnswerKept, environment
  <1>10. QED
    BY <1>3, <1>4, <1>7, <1>8, <1>9 DEF StepKept, Self

(* The receipt is sealed and the request answered.                         *)
LEMMA RecordStep ==
    ASSUME RequestInv, NEW r \in Requests, Record(r)
    PROVE  StepKept(r)
  <1> DEFINE e == [request |-> r, binding |-> binding[r], passed |-> r \in passed]
  <1>1. /\ pc[r] = "recording"
        /\ pc'[r] = IF r \in passed THEN "rows" ELSE "withheld"
        /\ \A q \in Requests \ {r} : pc'[q] = pc[q]
        /\ receipts' = receipts \cup {e}
        /\ UNCHANGED <<ledger, environment, sql, binding, pinned, capability, passed>>
    BY Moves DEF RequestInv, Record, At
  <1>2. e.request = r /\ e.binding = binding[r] /\ (e.passed <=> r \in passed)
    OBVIOUS
  <1>3. r \in passed => [request |-> r, binding |-> binding[r], passed |-> TRUE] \in receipts'
    <2>1. r \in passed => (r \in passed) = TRUE
      OBVIOUS
    <2>2. QED
      BY <1>1, <2>1
  <1> HIDE DEF e
  <1>4. LedgerApart(r) /\ ClaimsInFlight' /\ RecordOf(r)' = RecordOf(r)
    BY <1>1, LedgerStays DEF RequestInv
  <1>5. Apart(r)
    BY <1>1, <1>2, <1>4 DEF Apart, environment
  <1>6. Self(r)
    BY DEF RequestInv, Self
  <1>7. \A f \in receipts : ~(f.request = r /\ f.passed)
    BY <1>1 DEF RequestInv, AnswerKept
  <1>8. GovernanceKept(r)'
    BY <1>1, <1>4, <1>6 DEF Self, GovernanceKept, Issued, EventOf, ledger
  <1>9. ReservationKept(r)'
    BY <1>1, <1>4, <1>6
       DEF Self, ReservationKept, Claimed, HasClaim, Unreserved, Unsettled, MayHoldRows, ledger
  <1>10. AnswerKept(r)'
    <2>1. pc'[r] = "rows" => r \in passed
      BY <1>1
    <2>2. \A f \in receipts' : f.request = r /\ f.passed =>
              pc'[r] = "rows" /\ f.binding = binding[r]
      BY <1>1, <1>2, <1>7
    <2>3. (/\ faults \cap {"ledger", "receipt"} = {}
           /\ pc'[r] \in {"recording", "withheld", "unavailable"} /\ r \notin passed)
          => \A i \in RecordOf(r) : journal[i] = L!Aborted
      BY <1>1, <1>6 DEF Self, AnswerKept
    <2>4. QED
      BY <1>1, <1>3, <1>4, <2>1, <2>2, <2>3 DEF AnswerKept, ledger, environment
  <1>11. QED
    BY <1>4, <1>5, <1>8, <1>9, <1>10 DEF StepKept, Self

(* Every step of a request.                                                *)
LEMMA RequestStep ==
    ASSUME LedgerOK, RequestInv, NEW r \in Requests, Serve(r) \/ Die(r)
    PROVE  StepKept(r)
  <1>1. ASSUME NEW stage \in {"recording", "unavailable"}, Keep(r, stage),
               pc[r] \in {"rewriting", "capturing", "verifying", "reserving"}
        PROVE  StepKept(r)
    BY <1>1, KeepProceeds, ProceedStep DEF RequestInv
  <1>2. CASE RewriteRefused(r) \/ CaptureRefused(r) \/ VerifyRefused(r) \/ ReserveRefused(r)
    BY <1>1, <1>2 DEF RewriteRefused, CaptureRefused, VerifyRefused, ReserveRefused, Refuse, At
  <1>3. CASE ReserveFails(r)
    BY <1>1, <1>3 DEF ReserveFails, At
  <1>4. CASE Verify(r) \/ Authorize(r)
    BY <1>4, KeepProceeds, ProceedStep DEF Verify, Authorize, At, RequestInv
  <1>5. CASE IssueRefused(r) \/ ConsumeRefused(r) \/ RunFails(r)
    BY <1>5, KeepProceeds, ProceedStep
       DEF IssueRefused, ConsumeRefused, RunFails, At, Unsettled, RequestInv
  <1>6. CASE ConsumeFails(r)
    BY <1>6, KeepProceeds, ProceedStep DEF ConsumeFails, At, Unsettled, RequestInv
  <1>7. CASE Consume(r)
    BY <1>7, ConsumeProceeds, ProceedStep DEF Consume, At, RequestInv
  <1>8. CASE RecordFails(r)
    BY <1>8, KeepProceeds, ProceedStep DEF RecordFails, At, RequestInv
  <1>9. CASE Resolve(r) \/ Rewrite(r) \/ Capture(r)
    BY <1>9, ResolveStep
  <1>10. CASE Reserve(r)
    BY <1>10, ReserveStep
  <1>11. CASE Issue(r) \/ Revalidate(r) \/ Claim(r) \/ ClaimFails(r)
    BY <1>11, CapabilityStep
  <1>12. CASE Run(r)
    BY <1>12, RunStep
  <1>13. CASE Release(r) \/ Abort(r) \/ Escape(r)
    BY <1>13, SettleStep
  <1>14. CASE SettleFails(r) \/ Die(r)
    BY <1>14, FailureStep
  <1>15. CASE Record(r)
    BY <1>15, RecordStep
  <1>16. QED
    BY <1>2, <1>3, <1>4, <1>5, <1>6, <1>7, <1>8, <1>9, <1>10, <1>11, <1>12, <1>13,
       <1>14, <1>15 DEF Serve

(* The ledger's types are those it has as an instance of its proofs.       *)
LEMMA SameTypes == (L!TypeOK <=> D!TypeOK) /\ (L!TypeOK' <=> D!TypeOK')
  <1>1. /\ L!Legacy = D!Legacy /\ L!Pending = D!Pending
        /\ L!Released = D!Released /\ L!Aborted = D!Aborted
    BY DEF L!Legacy, D!Legacy, L!Pending, D!Pending, L!Released, D!Released, L!Aborted,
           D!Aborted
  <1>2. L!JournalStates = D!JournalStates /\ L!Record = D!Record
    BY <1>1 DEF L!JournalStates, D!JournalStates, L!Record, D!Record, L!Event, D!Event
  <1>3. QED
    BY <1>2 DEF L!TypeOK, D!TypeOK

Capability ==
    [binding : Snapshot \cup {NoSnapshot}, expires : 0..(MaxClock + Ttl), admitted : Clocks]

(* A step of a request keeps the types of what is its own.                 *)
LEMMA ServeTypes ==
    ASSUME TypeOK, L!TypeOK', NEW r \in Requests, Serve(r) \/ Die(r),
           pc[r] # "received" => binding[r] \in Snapshot
    PROVE  TypeOK'
  <1>1. ASSUME NEW stage \in Working \cup Answered \cup {"dead"}, GoTo(r, stage)
        PROVE  pc' \in [Requests -> Working \cup Answered \cup {"dead"}]
    BY <1>1 DEF GoTo, TypeOK
  <1>2. ASSUME NEW stage \in Working \cup Answered \cup {"dead"}, Keep(r, stage)
        PROVE  TypeOK'
    BY <1>1, <1>2 DEF Keep, TypeOK, environment
  <1>3. CASE Resolve(r) \/ Rewrite(r) \/ Capture(r)
    <2>1. PICK stage \in {"recording", "capturing", "rewriting", "verifying"} :
              /\ GoTo(r, stage)
              /\ UNCHANGED <<environment, capability, passed, receipts>>
      BY <1>3 DEF Resolve, NextStage, Rewrite, Capture
    <2>2. pc' \in [Requests -> Working \cup Answered \cup {"dead"}]
      BY <1>1, <2>1 DEF Working
    <2>3. /\ sql' \in [Requests -> Sqls]
          /\ binding' \in [Requests -> Snapshot \cup {NoSnapshot}]
          /\ pinned' \in [Requests -> Snapshot \cup {NoSnapshot}]
      <3>1. /\ sql \in [Requests -> Sqls]
            /\ binding \in [Requests -> Snapshot \cup {NoSnapshot}]
            /\ pinned \in [Requests -> Snapshot \cup {NoSnapshot}]
            /\ snapshot \in Snapshot
        BY DEF TypeOK
      <3>2. CASE Resolve(r)
        BY <3>1, <3>2 DEF Resolve
      <3>3. CASE Rewrite(r)
        BY <3>1, <3>3 DEF Rewrite, Sqls
      <3>4. CASE Capture(r)
        BY <3>1, <3>4 DEF Capture
      <3>5. QED
        BY <1>3, <3>2, <3>3, <3>4
    <2>4. QED
      BY <2>1, <2>2, <2>3 DEF TypeOK, environment
  <1>4. CASE \/ Reserve(r) \/ Revalidate(r) \/ Release(r) \/ Abort(r) \/ Escape(r)
            \/ ClaimFails(r) \/ Die(r)
    <2>1. PICK stage \in {"issuing", "claiming", "recording", "unavailable", "escaping", "dead"} :
              /\ GoTo(r, stage)
              /\ UNCHANGED <<environment, sql, binding, pinned, capability, passed, receipts>>
      BY <1>4 DEF Reserve, Revalidate, Release, Abort, Escape, Settled, ClaimFails, Die
    <2>2. pc' \in [Requests -> Working \cup Answered \cup {"dead"}]
      BY <1>1, <2>1 DEF Working, Answered
    <2>3. QED
      BY <2>1, <2>2 DEF TypeOK, environment
  <1>5. CASE Issue(r) \/ Claim(r) \/ Consume(r)
    <2>1. PICK stage \in {"revalidating", "executing", "running"} :
              /\ GoTo(r, stage)
              /\ UNCHANGED <<environment, sql, binding, pinned, passed, receipts>>
      BY <1>5 DEF Issue, Claim, Consume
    <2>2. pc' \in [Requests -> Working \cup Answered \cup {"dead"}]
      BY <1>1, <2>1 DEF Working
    <2>3. capability' \in [Requests -> Capability]
      <3>1. capability \in [Requests -> Capability]
        BY DEF TypeOK, Capability
      <3>2. CASE Issue(r)
        <4>1. [capability[r] EXCEPT !.binding = snapshot] \in Capability
          BY <3>1 DEF TypeOK, Capability
        <4>2. capability' = [capability EXCEPT ![r] = [capability[r] EXCEPT !.binding = snapshot]]
          BY <3>2 DEF Issue
        <4>3. QED
          BY <3>1, <4>1, <4>2
      <3>3. CASE Claim(r)
        <4>1. clock + Ttl \in 0..(MaxClock + Ttl)
          BY TimingAssumption DEF TypeOK, Clocks
        <4>2. [capability[r] EXCEPT !.expires = clock + Ttl] \in Capability
          BY <3>1, <4>1 DEF Capability
        <4>3. capability' = [capability EXCEPT
                               ![r] = [capability[r] EXCEPT !.expires = clock + Ttl]]
          BY <3>3 DEF Claim
        <4>4. QED
          BY <3>1, <4>2, <4>3
      <3>4. CASE Consume(r)
        <4>1. [capability[r] EXCEPT !.admitted = clock] \in Capability
          BY <3>1 DEF TypeOK, Capability
        <4>2. capability' = [capability EXCEPT ![r] = [capability[r] EXCEPT !.admitted = clock]]
          BY <3>4 DEF Consume
        <4>3. QED
          BY <3>1, <4>1, <4>2
      <3>5. QED
        BY <1>5, <3>2, <3>3, <3>4
    <2>4. QED
      BY <2>1, <2>2, <2>3 DEF TypeOK, environment, Capability
  <1>6. CASE Run(r) \/ SettleFails(r)
    <2>1. PICK stage \in {"releasing", "recording", "unavailable"} :
              /\ GoTo(r, stage)
              /\ UNCHANGED <<environment, sql, binding, pinned, capability, receipts>>
      BY <1>6 DEF Run, SettleFails
    <2>2. pc' \in [Requests -> Working \cup Answered \cup {"dead"}]
      BY <1>1, <2>1 DEF Working, Answered
    <2>3. passed' \subseteq Requests
      BY <1>6 DEF Run, SettleFails, TypeOK
    <2>4. QED
      BY <2>1, <2>2, <2>3 DEF TypeOK, environment
  <1>7. CASE Record(r)
    <2>1. PICK stage \in {"rows", "withheld"} : GoTo(r, stage)
      BY <1>7 DEF Record
    <2>2. pc' \in [Requests -> Working \cup Answered \cup {"dead"}]
      BY <1>1, <2>1 DEF Answered
    <2>3. receipts' \subseteq [request : Requests, binding : Snapshot, passed : BOOLEAN]
      <3> DEFINE p == r \in passed
      <3>1. p \in BOOLEAN /\ binding[r] \in Snapshot
        BY <1>7 DEF Record, At
      <3>2. receipts' = receipts \cup {[request |-> r, binding |-> binding[r], passed |-> p]}
        BY <1>7 DEF Record
      <3> HIDE DEF p
      <3>3. QED
        BY <3>1, <3>2 DEF TypeOK
    <2>4. QED
      BY <1>7, <2>2, <2>3 DEF Record, TypeOK, environment
  <1>8. CASE \/ RewriteRefused(r) \/ CaptureRefused(r) \/ Verify(r) \/ VerifyRefused(r)
            \/ ReserveRefused(r) \/ ReserveFails(r) \/ IssueRefused(r) \/ Authorize(r)
            \/ ConsumeRefused(r) \/ ConsumeFails(r) \/ RunFails(r) \/ RecordFails(r)
    <2>1. PICK stage \in {"recording", "reserving", "unavailable", "aborting", "escaping",
                         "consuming"} : Keep(r, stage)
      BY <1>8 DEF RewriteRefused, CaptureRefused, Verify, VerifyRefused, ReserveRefused,
         ReserveFails, IssueRefused, Authorize, ConsumeRefused, ConsumeFails, RunFails,
         RecordFails, Refuse
    <2>2. QED
      BY <1>2, <2>1 DEF Working, Answered
  <1>9. QED
    BY <1>3, <1>4, <1>5, <1>6, <1>7, <1>8 DEF Serve

LEMMA TypeStep ==
    ASSUME RequestInv, LedgerOK', [Next]_vars
    PROVE  TypeOK'
  <1>1. TypeOK /\ L!TypeOK'
    BY SameTypes DEF RequestInv, LedgerOK
  <1>2. ASSUME NEW r \in Requests, Serve(r) \/ Die(r)
        PROVE  TypeOK'
    BY <1>1, <1>2, ServeTypes DEF RequestInv, GovernanceKept
  <1>3. ASSUME NEW s \in Snapshot, ReplaceSnapshot(s)
        PROVE  TypeOK'
    BY <1>1, <1>3 DEF ReplaceSnapshot, TypeOK
  <1>4. CASE Tick
    BY <1>1, <1>4, TimingAssumption DEF Tick, TypeOK, Clocks
  <1>5. CASE UNCHANGED vars
    BY <1>1, <1>5 DEF vars, environment, TypeOK
  <1>6. QED
    BY <1>2, <1>3, <1>4, <1>5 DEF Next

(* Every request keeps its part of the invariant through every step.       *)
LEMMA InvariantStep == LedgerOK /\ LedgerOK' /\ RequestInv /\ [Next]_vars => RequestInv'
  <1> SUFFICES ASSUME LedgerOK, LedgerOK', RequestInv, [Next]_vars
               PROVE  RequestInv'
    OBVIOUS
  <1>1. TypeOK'
    BY TypeStep
  <1>2. ASSUME NEW r \in Requests, Serve(r) \/ Die(r)
        PROVE  RequestInv'
    <2>1. StepKept(r)
      BY <1>2, RequestStep
    <2>2. ASSUME NEW q \in Requests, q # r PROVE Self(q)'
      BY <2>1, <2>2, OthersKept DEF StepKept, RequestInv, Self
    <2>3. \A q \in Requests : Self(q)'
      BY <2>1, <2>2 DEF StepKept
    <2>4. QED
      BY <1>1, <2>1, <2>3 DEF StepKept, RequestInv, Self
  <1>3. ASSUME UNCHANGED <<ledger, faults, pc, sql, binding, pinned, capability, passed, receipts>>
        PROVE  RequestInv'
    <2>1. \A r : RecordOf(r)' = RecordOf(r)
      BY <1>3 DEF ledger, RecordOf, L!ExistingReceipt
    <2>2. ClaimsInFlight'
      BY <1>3, <2>1 DEF RequestInv, ClaimsInFlight, ledger
    <2>3. ASSUME NEW r \in Requests PROVE Self(r)'
      <3>1. GovernanceKept(r)'
        BY <1>3, <2>1 DEF RequestInv, GovernanceKept, Issued, EventOf, ledger
      <3>2. ReservationKept(r)'
        BY <1>3, <2>1 DEF RequestInv, ReservationKept, Claimed, HasClaim, L!IsPending, ledger
      <3>3. AnswerKept(r)'
        BY <1>3, <2>1 DEF RequestInv, AnswerKept, ledger
      <3>4. QED
        BY <3>1, <3>2, <3>3 DEF Self
    <2>4. QED
      BY <1>1, <2>2, <2>3 DEF RequestInv, Self
  <1>4. ASSUME NEW s \in Snapshot, ReplaceSnapshot(s)
        PROVE  RequestInv'
    BY <1>3, <1>4 DEF ReplaceSnapshot
  <1>5. CASE Tick
    BY <1>3, <1>5 DEF Tick
  <1>6. CASE UNCHANGED vars
    BY <1>3, <1>6 DEF vars, environment
  <1>7. QED
    BY <1>2, <1>4, <1>5, <1>6 DEF Next

LEMMA LedgerInvariant == Spec => [](LedgerOK /\ D!BudgetBound)
  BY RequestsKeepLedger, PTL DEF LedgerOK

(* The invariant of the requests holds in every behaviour, whatever they   *)
(* are interleaved with and whatever fails.                                *)
THEOREM RequestInvariant == Spec => []RequestInv
  <1>1. Init => RequestInv
    <2> SUFFICES ASSUME Init PROVE RequestInv
      OBVIOUS
    <2>1. L!TypeOK
      BY DEF Init, L!Init, L!TypeOK
    <2>2. TypeOK
      BY <2>1, TimingAssumption
         DEF Init, TypeOK, Clocks, Sqls, Working, NoCapability
    <2>3. ClaimsInFlight /\ \A r : RecordOf(r) = {}
      BY DEF Init, L!Init, ClaimsInFlight, RecordOf, L!ExistingReceipt
    <2>4. ASSUME NEW r \in Requests
          PROVE  GovernanceKept(r) /\ ReservationKept(r) /\ AnswerKept(r)
      <3>1. pc[r] = "received" /\ passed = {} /\ receipts = {}
        BY DEF Init
      <3>2. QED
        BY <2>3, <3>1 DEF GovernanceKept, ReservationKept, AnswerKept, Issued, Claimed,
                          Unsettled
    <2>5. QED
      BY <2>2, <2>3, <2>4 DEF RequestInv
  <1>2. QED
    BY <1>1, InvariantStep, LedgerInvariant, PTL DEF Spec

(* The variables of the request path keep their types.                     *)
THEOREM PathTypeCorrect == Spec => []TypeOK
  BY RequestInvariant, PTL DEF RequestInv

(* The one record of a request that was answered with rows.                *)
LEMMA AnsweredRecord ==
    ASSUME LedgerOK, RequestInv, NEW r \in Requests, At(r, "rows")
    PROVE  /\ \E i \in RecordOf(r) : /\ journal[i] = L!Released
                                     /\ [record |-> i, auth |-> r] \in claims
           /\ \A i, j \in RecordOf(r) : i = j
  <1>1. r \in passed
    BY DEF RequestInv, AnswerKept, At
  <1>2. PICK i \in RecordOf(r) : journal[i] = L!Released
    BY <1>1 DEF RequestInv, ReservationKept, At
  <1>3. PICK j \in RecordOf(r) : [record |-> j, auth |-> r] \in claims
    BY <1>1 DEF RequestInv, ReservationKept, Claimed, HasClaim
  <1>4. \A k, l \in RecordOf(r) : k = l
    BY OwnRecords DEF LedgerOK, D!OneRecordPerReceipt
  <1>5. QED
    BY <1>2, <1>3, <1>4

(* Rows are answered only after the reservation was released, under the    *)
(* claim of this request, and a passing receipt sealed: _run_core and      *)
(* _finalize, whatever fails in between.                                   *)
THEOREM RowsAreAccountedFor == Spec => []RowsAreAccounted
  <1>1. LedgerOK /\ RequestInv => RowsAreAccounted
    BY AnsweredRecord DEF RowsAreAccounted, RequestInv, AnswerKept, At
  <1>2. QED
    BY <1>1, RequestInvariant, LedgerInvariant, PTL

(* The snapshot a passing receipt names is the one of the capability, of   *)
(* the policy decision on the SQL that ran, and of the recorded event, for *)
(* every interleaving with the refresher.                                  *)
THEOREM RowsKeepOneSnapshot == Spec => []RowsUnderOneSnapshot
  <1>1. RequestInv => RowsUnderOneSnapshot
    <2> SUFFICES ASSUME RequestInv, NEW e \in receipts, e.passed
                 PROVE  /\ capability[e.request].binding = e.binding
                        /\ Verdict[<<e.request, sql[e.request], e.binding.content>>] = "ALLOW"
                        /\ \A i \in RecordOf(e.request) :
                              records[i].event = EventOf(e.request, e.binding.content)
      BY DEF RowsUnderOneSnapshot
    <2> DEFINE r == e.request
    <2>1. r \in Requests
      BY DEF RequestInv, TypeOK
    <2> HIDE DEF r
    <2>2. pc[r] = "rows" /\ e.binding = binding[r]
      BY <2>1 DEF RequestInv, AnswerKept, r
    <2>3. r \in passed
      BY <2>1, <2>2 DEF RequestInv, AnswerKept
    <2>4. QED
      BY <2>1, <2>2, <2>3 DEF RequestInv, GovernanceKept, Issued, r
  <1>2. QED
    BY <1>1, RequestInvariant, PTL

(* A request answered without rows leaves nothing in the privacy history   *)
(* as long as neither the ledger nor the receipt store fails, deaths of    *)
(* other requests included.                                                *)
THEOREM HealthyRefusalsLeaveNothing == Spec => []NoRowsNoHistoryWhenHealthy
  <1>1. RequestInv => NoRowsNoHistoryWhenHealthy
    <2> SUFFICES ASSUME RequestInv, faults \cap {"ledger", "receipt"} = {},
                        NEW r \in Requests, pc[r] \in {"withheld", "unavailable"}
                 PROVE  \A i \in RecordOf(r) : journal[i] = L!Aborted
      BY DEF NoRowsNoHistoryWhenHealthy, NoRowsNoHistory
    <2>1. r \notin passed
      BY DEF RequestInv, ReservationKept, MayHoldRows
    <2>2. QED
      BY <2>1 DEF RequestInv, AnswerKept
  <1>2. QED
    BY <1>1, RequestInvariant, PTL

-----------------------------------------------------------------------------
(***************************************************************************)
(* When requests run, and when they reserved what they release.            *)
(***************************************************************************)

(* The authorizer admitted the request to run.                             *)
Admitted(r) == pc[r] \in {"running", "releasing"} \/ r \in passed

(* A reservation is no older than the snapshot it was made under, and that *)
(* snapshot was fresh when the request was admitted.                       *)
AdmissionKept(r) ==
    /\ binding[r].observed <= clock
    /\ \A i \in RecordOf(r) : /\ binding[r].observed <= records[i].created_at
                              /\ records[i].created_at <= clock
    /\ Admitted(r) =>
            /\ capability[r].admitted < binding[r].observed + MaxAge
            /\ \A i \in RecordOf(r) : records[i].created_at <= capability[r].admitted

AdmissionInv == snapshot.observed <= clock /\ \A r \in Requests : AdmissionKept(r)

(* The steps that concern none of it.                                      *)
Quiet(r) ==
    /\ UNCHANGED <<records, binding, snapshot, clock>>
    /\ capability'[r].admitted = capability[r].admitted
    /\ Admitted(r)' => Admitted(r)

LEMMA QuietSteps ==
    ASSUME RequestInv, NEW r \in Requests, Serve(r) \/ Die(r),
           ~Resolve(r), ~Reserve(r), ~Consume(r)
    PROVE  Quiet(r)
  <1>1. ASSUME NEW stage, GoTo(r, stage) PROVE pc'[r] = stage
    BY <1>1, Moves DEF RequestInv
  <1>2. ASSUME NEW stage, Keep(r, stage), stage # "running", stage # "releasing"
        PROVE  Quiet(r)
    BY <1>1, <1>2 DEF Keep, Quiet, Admitted, ledger, environment
  <1>3. CASE Rewrite(r) \/ Capture(r)
    BY <1>1, <1>3 DEF Rewrite, Capture, Quiet, Admitted, ledger, environment
  <1>4. CASE Issue(r)
    BY <1>1, <1>4 DEF Issue, Quiet, Admitted, ledger, environment, RequestInv, TypeOK
  <1>5. CASE Revalidate(r)
    BY <1>1, <1>5 DEF Revalidate, Quiet, Admitted, environment, L!ClaimRequirePending
  <1>6. CASE Claim(r)
    BY <1>1, <1>6 DEF Claim, Quiet, Admitted, environment, L!ClaimInsert, RequestInv, TypeOK
  <1>7. CASE ClaimFails(r) \/ Die(r)
    <2>1. UNCHANGED records
      BY <1>7 DEF ClaimFails, Die, L!ClaimLost, ledger
    <2>2. QED
      BY <1>1, <1>7, <2>1 DEF ClaimFails, Die, Quiet, Admitted, environment
  <1>8. CASE Run(r)
    BY <1>1, <1>8 DEF Run, At, Quiet, Admitted, ledger, environment
  <1>9. CASE Release(r) \/ Abort(r) \/ Escape(r)
    <2>1. UNCHANGED records
      BY <1>9 DEF Release, Abort, Escape, MarkReleased, MarkAborted, L!MarkReleased,
                  L!MarkAborted, L!InsertTransition
    <2>2. PICK stage \in {"recording", "unavailable"} : Settled(r, stage)
      BY <1>9 DEF Release, Abort, Escape
    <2>3. QED
      BY <1>1, <2>1, <2>2 DEF Settled, Quiet, Admitted, environment
  <1>10. CASE SettleFails(r)
    BY <1>1, <1>10 DEF SettleFails, Quiet, Admitted, ledger, environment
  <1>11. CASE Record(r)
    <2>1. pc'[r] \in {"rows", "withheld"}
      BY <1>1, <1>11 DEF Record
    <2>2. QED
      BY <1>11, <2>1 DEF Record, Quiet, Admitted, ledger, environment
  <1>12. CASE \/ RewriteRefused(r) \/ CaptureRefused(r) \/ Verify(r) \/ VerifyRefused(r)
             \/ ReserveRefused(r) \/ ReserveFails(r) \/ IssueRefused(r) \/ Authorize(r)
             \/ ConsumeRefused(r) \/ ConsumeFails(r) \/ RunFails(r) \/ RecordFails(r)
    <2>1. PICK stage \in {"recording", "reserving", "unavailable", "aborting", "escaping",
                         "consuming"} : Keep(r, stage)
      BY <1>12 DEF RewriteRefused, CaptureRefused, Verify, VerifyRefused, ReserveRefused,
         ReserveFails, IssueRefused, Authorize, ConsumeRefused, ConsumeFails, RunFails,
         RecordFails, Refuse
    <2>2. QED
      BY <1>2, <2>1
  <1>13. QED
    BY <1>3, <1>4, <1>5, <1>6, <1>7, <1>8, <1>9, <1>10, <1>11, <1>12 DEF Serve

(* What the gate stamps is the clock's.                                    *)
LEMMA ReservedNow ==
    ASSUME LedgerOK, RequestInv, NEW r \in Requests, Reserve(r)
    PROVE  \A i \in RecordOf(r)' : records'[i].created_at = clock
  <1>1. RecordOf(r) = {}
    BY DEF Reserve, At, RequestInv, ReservationKept, Unreserved
  <1>2. PICK rec : records' = Append(records, rec) /\ rec.created_at = clock
    BY DEF Reserve, L!EvaluateAndCommit, L!AppendEvent
  <1>3. records \in Seq(L!Record)
    BY DEF RequestInv, TypeOK, L!TypeOK
  <1>4. /\ DOMAIN records' = DOMAIN records \cup {Len(records) + 1}
        /\ records'[Len(records) + 1] = rec
        /\ \A i \in DOMAIN records : records'[i] = records[i]
    <2>1. Len(records') = Len(records) + 1 /\ Len(records) \in Nat
      BY <1>2, <1>3
    <2>2. /\ records'[Len(records) + 1] = rec
          /\ \A i \in 1..Len(records) : records'[i] = records[i]
      BY <1>2, <1>3
    <2>3. /\ DOMAIN records = 1..Len(records)
          /\ DOMAIN records' = 1..(Len(records) + 1)
      BY <1>2, <1>3
    <2>4. QED
      BY <2>1, <2>2, <2>3
  <1>5. ASSUME NEW i \in RecordOf(r)' PROVE i \notin DOMAIN records
    <2>1. records'[i].event.receipt = r
      BY <1>5, OwnRecordsNext
    <2>2. i \in DOMAIN records => records[i].event.receipt = r
      BY <1>4, <2>1
    <2>3. i \in DOMAIN records => i \in RecordOf(r)
      BY <2>2, OwnRecords
    <2>4. QED
      BY <1>1, <2>3
  <1>6. QED
    BY <1>2, <1>4, <1>5, OwnRecordsNext

(* What records are stamped with is a reading of the clock.                *)
LEMMA StampsAreTimes ==
    ASSUME LedgerOK, NEW i \in DOMAIN records
    PROVE  records[i].created_at \in Int
  <1>1. records \in Seq(D!Record)
    BY DEF LedgerOK, D!TypeOK
  <1>2. records[i] \in D!Record
    BY <1>1
  <1>3. records[i].created_at \in Clocks
    BY <1>2 DEF D!Record
  <1>4. QED
    BY <1>3, TimingAssumption DEF Clocks

(* Every step keeps the order of those times.                              *)
LEMMA AdmissionStep ==
    LedgerOK /\ RequestInv /\ RequestInv' /\ AdmissionInv /\ [Next]_vars => AdmissionInv'
  <1> SUFFICES ASSUME LedgerOK, RequestInv, RequestInv', AdmissionInv, [Next]_vars
               PROVE  AdmissionInv'
    OBVIOUS
  <1>1. clock \in Clocks /\ snapshot \in Snapshot
    BY DEF RequestInv, TypeOK
  <1>2. clock \in Int /\ snapshot.observed \in Int
    BY <1>1, TimingAssumption DEF Clocks, Snapshot
  <1>3. ASSUME NEW r \in Requests, Serve(r) \/ Die(r)
        PROVE  AdmissionInv'
    <2>1. Apart(r) /\ LedgerApart(r)
      BY <1>3, RequestStep DEF StepKept, Apart
    <2>2. UNCHANGED <<snapshot, clock>>
      <3>1. CASE Resolve(r) \/ Reserve(r) \/ Consume(r)
        BY <3>1 DEF Resolve, Reserve, Consume, environment
      <3>2. CASE ~Resolve(r) /\ ~Reserve(r) /\ ~Consume(r)
        BY <1>3, <3>2, QuietSteps DEF Quiet
      <3>3. QED
        BY <3>1, <3>2
    <2>3. ASSUME NEW q \in Requests, q # r PROVE AdmissionKept(q)'
      <3>1. /\ RecordOf(q)' = RecordOf(q)
            /\ \A i \in RecordOf(q) : records'[i] = records[i]
        BY <2>1, <2>3, OthersRecords
      <3>2. /\ pc'[q] = pc[q] /\ binding'[q] = binding[q] /\ capability'[q] = capability[q]
            /\ q \in passed' <=> q \in passed
        BY <2>1, <2>3 DEF Apart
      <3>3. QED
        BY <2>2, <3>1, <3>2 DEF AdmissionInv, AdmissionKept, Admitted
    <2>4. AdmissionKept(r)'
      <3>1. CASE Resolve(r)
        <4>1. /\ pc[r] = "received" /\ pc'[r] \notin {"running", "releasing"}
              /\ UNCHANGED <<ledger, passed>>
          BY <3>1, Moves DEF Resolve, NextStage, At, RequestInv
        <4>2. binding'[r] = snapshot
          BY <3>1 DEF Resolve, RequestInv, TypeOK
        <4>3. RecordOf(r) = {} /\ r \notin passed
          BY <4>1, NotPassedYet DEF RequestInv, ReservationKept, Unreserved
        <4>4. RecordOf(r)' = {}
          BY <4>1, <4>3 DEF ledger, RecordOf, L!ExistingReceipt
        <4>5. QED
          BY <2>2, <4>1, <4>2, <4>3, <4>4 DEF AdmissionInv, AdmissionKept, Admitted
      <3>2. CASE Reserve(r)
        <4>1. /\ pc[r] = "reserving" /\ pc'[r] = "issuing" /\ UNCHANGED <<binding, passed>>
          BY <3>2, Moves DEF Reserve, At, RequestInv
        <4>2. \A i \in RecordOf(r)' : records'[i].created_at = clock
          BY <3>2, ReservedNow
        <4>3. r \notin passed
          BY <4>1, NotPassedYet DEF Unreserved
        <4>4. QED
          BY <1>2, <2>2, <4>1, <4>2, <4>3 DEF AdmissionInv, AdmissionKept, Admitted
      <3>3. CASE Consume(r)
        <4>1. /\ capability'[r].admitted = clock /\ UNCHANGED <<ledger, binding>>
              /\ snapshot = capability[r].binding /\ clock < snapshot.observed + MaxAge
          BY <3>3, ConsumeProceeds DEF Proceeds, Consume, StillInstalled, Fresh, RequestInv
        <4>2. capability[r].binding = binding[r]
          BY <3>3 DEF Consume, At, RequestInv, GovernanceKept, Issued
        <4>3. RecordOf(r)' = RecordOf(r) /\ UNCHANGED records
          BY <4>1 DEF ledger, RecordOf, L!ExistingReceipt
        <4>4. QED
          BY <2>2, <4>1, <4>2, <4>3 DEF AdmissionInv, AdmissionKept
      <3>4. CASE ~Resolve(r) /\ ~Reserve(r) /\ ~Consume(r)
        <4>1. Quiet(r)
          BY <1>3, <3>4, QuietSteps
        <4>2. RecordOf(r)' = RecordOf(r)
          BY <4>1 DEF Quiet, RecordOf, L!ExistingReceipt
        <4>3. QED
          BY <4>1, <4>2 DEF Quiet, AdmissionInv, AdmissionKept
      <3>5. QED
        BY <3>1, <3>2, <3>3, <3>4
    <2>5. QED
      BY <2>2, <2>3, <2>4 DEF AdmissionInv
  <1>4. ASSUME UNCHANGED <<ledger, pc, binding, capability, passed>>, clock <= clock',
               clock' \in Int, snapshot'.observed <= clock'
        PROVE  AdmissionInv'
    <2>1. \A r : RecordOf(r)' = RecordOf(r)
      BY <1>4 DEF ledger, RecordOf, L!ExistingReceipt
    <2>2. ASSUME NEW r \in Requests PROVE AdmissionKept(r)'
      <3>1. binding[r].observed \in Int
        BY TimingAssumption DEF RequestInv, TypeOK, Snapshot, NoSnapshot, Clocks
      <3>2. \A i \in RecordOf(r) : records[i].created_at \in Int
        BY OwnRecords, StampsAreTimes
      <3>3. QED
        BY <1>2, <1>4, <2>1, <3>1, <3>2 DEF AdmissionInv, AdmissionKept, Admitted, ledger
    <2>3. QED
      BY <1>4, <2>2 DEF AdmissionInv
  <1>5. ASSUME NEW s \in Snapshot, ReplaceSnapshot(s)
        PROVE  AdmissionInv'
    BY <1>2, <1>4, <1>5 DEF ReplaceSnapshot, ledger
  <1>6. CASE Tick
    BY <1>2, <1>4, <1>6 DEF Tick, ledger, AdmissionInv
  <1>7. CASE UNCHANGED vars
    BY <1>2, <1>4, <1>7 DEF vars, environment, ledger, AdmissionInv
  <1>8. QED
    BY <1>3, <1>5, <1>6, <1>7 DEF Next

LEMMA AdmissionInvariant == Spec => []AdmissionInv
  <1>1. Init => AdmissionInv
    <2> SUFFICES ASSUME Init PROVE AdmissionInv
      OBVIOUS
    <2>1. clock = 0 /\ snapshot.observed = 0
      BY DEF Init
    <2>2. ASSUME NEW r \in Requests PROVE AdmissionKept(r)
      <3>1. RecordOf(r) = {}
        BY DEF Init, L!Init, RecordOf, L!ExistingReceipt
      <3>2. binding[r] = NoSnapshot /\ pc[r] = "received" /\ passed = {}
        BY DEF Init
      <3>3. QED
        BY <2>1, <3>1, <3>2 DEF AdmissionKept, Admitted, NoSnapshot
    <2>3. QED
      BY <2>1, <2>2 DEF AdmissionInv
  <1>2. QED
    BY <1>1, AdmissionStep, RequestInvariant, LedgerInvariant, PTL DEF Spec

(* The ledger bounds reservations in the time they are made; requests that *)
(* got rows are bounded in the time they were admitted to run, because     *)
(* the snapshot that was still fresh then (verify_and_consume) was there   *)
(* before the reservation, and each answer stands for a record of its own. *)
THEOREM AdmissionsKeepBudget == Spec => []AdmittedWithinBudget
  <1>1. LedgerOK /\ D!BudgetBound /\ RequestInv /\ AdmissionInv => AdmittedWithinBudget
    <2> SUFFICES ASSUME LedgerOK, D!BudgetBound, RequestInv, AdmissionInv,
                        NEW s \in Scopes, NEW end \in Clocks
                 PROVE  Cardinality(AdmittedProtected(s, end)) <= MaxProtected
      BY DEF AdmittedWithinBudget
    <2> DEFINE W == D!ReleasesInWindow(s, end)
               T == AdmittedProtected(s, end)
               f == [r \in T |-> CHOOSE i \in RecordOf(r) : TRUE]
    <2>1. IsFiniteSet(W) /\ Cardinality(W) <= MaxProtected
      <3>1. D!IsFiniteSet(W)
        BY D!WindowsAreFinite, InstanceIsSound DEF LedgerOK
      <3>2. D!Cardinality(W) <= MaxProtected
        BY DEF D!BudgetBound
      <3>3. QED
        BY <3>1, <3>2
           DEF D!Cardinality, Cardinality, D!IsFiniteSet, IsFiniteSet
    <2>2. ASSUME NEW r \in T, NEW i \in RecordOf(r)
          PROVE  i \in W /\ records[i].event.receipt = r
      <3>1. r \in Requests /\ At(r, "rows") /\ r \in passed
        BY DEF AdmittedProtected, RequestInv, AnswerKept, At
      <3>2. journal[i] = L!Released
        BY <3>1, AnsweredRecord
      <3>3. /\ records[i].event.scope = s /\ records[i].event.protected
            /\ capability[r].admitted \in (end - (Window - MaxAge))..end
        BY <3>1, AnsweredRecord DEF AdmittedProtected
      <3>4. i \in DOMAIN records /\ records[i].event.receipt = r
        BY OwnRecords
      <3>5. journal[i] # D!Aborted /\ journal[i] # D!Legacy
        BY <3>2 DEF L!Released, D!Aborted, D!Legacy
      <3>6. records[i].created_at > end - (Window - 0) /\ records[i].created_at <= end
        <4>1. /\ binding[r].observed <= records[i].created_at
              /\ records[i].created_at <= capability[r].admitted
              /\ capability[r].admitted < binding[r].observed + MaxAge
          BY <3>1 DEF AdmissionInv, AdmissionKept, Admitted
        <4>2. binding[r].observed \in Int
          BY <3>1, TimingAssumption DEF RequestInv, TypeOK, Snapshot, NoSnapshot, Clocks
        <4>3. records[i].created_at \in Int
          BY <3>4, StampsAreTimes
        <4>4. capability[r].admitted \in Int
          BY <3>1, TimingAssumption DEF RequestInv, TypeOK, Clocks
        <4>5. end \in Int /\ Window \in Int /\ MaxAge \in Int
          BY TimingAssumption DEF Clocks
        <4>6. end - (Window - MaxAge) <= capability[r].admitted /\ capability[r].admitted <= end
          BY <3>3, <4>4, <4>5
        <4>7. QED
          BY <4>1, <4>2, <4>3, <4>4, <4>5, <4>6
      <3>7. QED
        BY <3>3, <3>4, <3>5, <3>6
           DEF D!ReleasesInWindow, D!ActiveHistory, D!RecordsFor, D!IsGated
    <2>3. \A r \in T : RecordOf(r) # {}
      BY DEF AdmittedProtected
    <2>4. \A r \in T : f[r] \in RecordOf(r)
      BY <2>3
    <2> HIDE DEF W, T
    <2>5. f \in [T -> W]
      BY <2>2, <2>4
    <2>6. f \in Injection(T, W)
      BY <2>2, <2>4, <2>5 DEF Injection, IsInjective
    <2>7. IsFiniteSet(T) /\ Cardinality(T) <= Cardinality(W)
      BY <2>1, <2>6, FS_Injection
    <2>8. QED
      BY <2>1, <2>7, FS_CardinalityType, TimingAssumption DEF T
  <1>2. QED
    BY <1>1, RequestInvariant, LedgerInvariant, AdmissionInvariant, PTL
=============================================================================
