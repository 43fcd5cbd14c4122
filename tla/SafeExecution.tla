--------------------------- MODULE SafeExecution ---------------------------
(***************************************************************************)
(* The path of a LIVE request from pipeline.py through verify/ and         *)
(* execute/ to its answer, over the disclosure ledger and the governance   *)
(* snapshot of context/datahub.py.                                         *)
(*                                                                         *)
(* Requests run on threads of their own, and a refresher replaces the      *)
(* snapshot under them.  A step of a request ends wherever it reads or     *)
(* writes what another thread can change: the snapshot, the clock, or the  *)
(* rows other requests put in the ledger.  Reads of a request's own ledger *)
(* record, which nobody else writes, are part of the step they follow.     *)
(* allocate_receipt_id and the authorization id are drawn at random for    *)
(* each request: both are the request itself here.                         *)
(***************************************************************************)
EXTENDS Integers, Sequences, FiniteSets

CONSTANTS
    Requests,       \* requests, each with a receipt id of its own
    Scopes,         \* privacy scopes
    Contents,       \* what a governance snapshot can say
    ScopeOf,        \* the scope of each request
    Verdict,        \* policy decision on a request's SQL under a content
    Protected,      \* is the release of a request protected under a content
    MaxProtected, Window,   \* the disclosure budget
    MaxAge,         \* max_age_seconds of a snapshot
    Ttl,            \* ttl_seconds of an execution authorization
    MaxClock,       \* bound on the clock
    FaultPlans      \* what may go wrong: the values of the variable faults

Sqls == {"original", "rewritten"}
Clocks == 0..MaxClock
Snapshot == [content : Contents, observed : Clocks]
NoSnapshot == [content |-> "none", observed |-> 0]

ASSUME InstanceAssumption ==
    /\ ScopeOf \in [Requests -> Scopes]
    /\ Verdict \in [Requests \X Sqls \X Contents -> {"ALLOW", "REWRITE", "BLOCK"}]
    /\ Protected \in [Requests \X Contents -> BOOLEAN]
    /\ FaultPlans \subseteq SUBSET {"ledger", "receipt", "death"}

ASSUME TimingAssumption ==
    {MaxAge, Ttl, MaxClock, MaxProtected, Window} \subseteq Nat \ {0}

VARIABLES
    records, journal, claims, claiming,     \* the ledger
    snapshot,       \* DataHubSnapshotContextResolver._snapshot
    clock,
    faults,         \* what may go wrong in this behaviour; never changes
    pc,             \* where each request is
    sql,            \* the SQL it will execute
    binding,        \* its initial_governance_binding
    pinned,         \* the binding verify_and_execute captured
    capability,     \* its ExecutionAuthorization, and the clock at its last check
    passed,         \* requests whose VerificationResult passed
    receipts        \* sealed receipts

ledger == <<records, journal, claims, claiming>>
environment == <<snapshot, clock, faults>>
vars == <<ledger, environment, pc, sql, binding, pinned, capability, passed, receipts>>

(* What the pipeline asks the ledger to record for a request.              *)
EventOf(r, c) == [receipt |-> r, scope |-> ScopeOf[r],
                  protected |-> Protected[<<r, c>>], composed |-> TRUE]

L == INSTANCE DisclosureLedger WITH
        Receipts <- Requests, AuthIds <- Requests, Times <- Clocks,
        Requested <- {EventOf(r, c) : r \in Requests, c \in Contents},
        ClockStep <- 0

Working == {"received", "rewriting", "capturing", "verifying", "reserving",
            "issuing", "revalidating", "claiming", "executing", "consuming",
            "running", "releasing", "aborting", "escaping", "recording"}
Answered == {"rows", "withheld", "unavailable"}

NoCapability == [binding |-> NoSnapshot, expires |-> 0, admitted |-> 0]

TypeOK ==
    /\ L!TypeOK
    /\ snapshot \in Snapshot
    /\ clock \in Clocks
    /\ faults \in FaultPlans
    /\ pc \in [Requests -> Working \cup Answered \cup {"dead"}]
    /\ sql \in [Requests -> Sqls]
    /\ binding \in [Requests -> Snapshot \cup {NoSnapshot}]
    /\ pinned \in [Requests -> Snapshot \cup {NoSnapshot}]
    /\ capability \in [Requests -> [binding : Snapshot \cup {NoSnapshot},
                                    expires : 0..(MaxClock + Ttl), admitted : Clocks]]
    /\ passed \subseteq Requests
    /\ receipts \subseteq [request : Requests, binding : Snapshot, passed : BOOLEAN]

-----------------------------------------------------------------------------
(* GovernanceContextBinding.assert_fresh on the installed snapshot.        *)
Fresh == clock < snapshot.observed + MaxAge

(* Mutant: freshness is checked, the identity of the snapshot is not.      *)
MutFreshIsEnough(b) == Fresh

(* Mutant: its identity is checked, its freshness is not.                  *)
MutSameIsEnough(b) == snapshot = b

(* current_governance_binding, and require_same_governance_binding with b. *)
StillInstalled(b) == Fresh /\ snapshot = b

(* The SQL a request will run is allowed by what the snapshot says now.    *)
AllowedNow(r) == Verdict[<<r, sql[r], snapshot.content>>] = "ALLOW"

(* The request's own reservation.                                          *)
RecordOf(r) == L!ExistingReceipt(r)

(* verify_commitment: the reservation is the event rebuilt from the        *)
(* snapshot, and it is pending.                                            *)
CommitmentHolds(r) ==
    \E i \in RecordOf(r) : /\ records[i].event = EventOf(r, snapshot.content)
                           /\ L!IsPending(i)

ClaimHolds(r) ==
    \E i \in RecordOf(r) : /\ [record |-> i, auth |-> r] \in claims
                           /\ L!IsPending(i)

At(r, stage) == pc[r] = stage
GoTo(r, stage) == pc' = [pc EXCEPT ![r] = stage]

Keep(r, stage) ==
    /\ GoTo(r, stage)
    /\ UNCHANGED <<ledger, environment, sql, binding, pinned, capability,
                   passed, receipts>>

(* A refusal that holds no reservation goes straight to its receipt.       *)
Refuse(r) == Keep(r, "recording")

-----------------------------------------------------------------------------
(***************************************************************************)
(* pipeline.py: _run, _handle_allowed and _handle_rewrite.                 *)
(***************************************************************************)
NextStage(verdict) ==
    CASE verdict = "ALLOW" -> "capturing"
      [] verdict = "REWRITE" -> "rewriting"
      [] OTHER -> "recording"

(* The SQL is analyzed, governed context and its binding are resolved      *)
(* together, and the policy decides.  SQL that cannot be analyzed, a stale *)
(* snapshot, and /api/analyze, which executes nothing, end in a receipt.   *)
Resolve(r) ==
    /\ At(r, "received")
    /\ binding' = [binding EXCEPT ![r] = snapshot]
    /\ \/ GoTo(r, "recording")
       \/ Fresh /\ GoTo(r, NextStage(Verdict[<<r, "original", snapshot.content>>]))
    /\ UNCHANGED <<ledger, environment, sql, pinned, capability, passed, receipts>>

(* The rewritten SQL is resolved again and must find the same snapshot.    *)
Rewrite(r) ==
    /\ At(r, "rewriting")
    /\ StillInstalled(binding[r])
    /\ Verdict[<<r, "rewritten", snapshot.content>>] = "ALLOW"
    /\ sql' = [sql EXCEPT ![r] = "rewritten"]
    /\ GoTo(r, "capturing")
    /\ UNCHANGED <<ledger, environment, binding, pinned, capability, passed, receipts>>

(* RewriteError, a stale or another snapshot, or no ALLOW after all.       *)
RewriteRefused(r) == At(r, "rewriting") /\ Refuse(r)

(***************************************************************************)
(* verify/governance.py and verify/engine.py.                              *)
(***************************************************************************)
(* verify_and_execute resolves once more and pins what it finds.           *)
Capture(r) ==
    /\ At(r, "capturing")
    /\ StillInstalled(binding[r])
    /\ pinned' = [pinned EXCEPT ![r] = snapshot]
    /\ GoTo(r, "verifying")
    /\ UNCHANGED <<ledger, environment, sql, binding, capability, passed, receipts>>

CaptureRefused(r) ==
    /\ At(r, "capturing")
    /\ ~StillInstalled(binding[r])
    /\ Refuse(r)

(* The policy and the static checks of the final SQL.                      *)
Verify(r) ==
    /\ At(r, "verifying")
    /\ StillInstalled(pinned[r])
    /\ AllowedNow(r)
    /\ Keep(r, "reserving")

(* Drift, or a subject threshold or output check that fails.               *)
VerifyRefused(r) == At(r, "verifying") /\ Refuse(r)

(* Building the event probes the pinned snapshot, then the gate decides.   *)
Reserve(r) ==
    /\ At(r, "reserving")
    /\ StillInstalled(pinned[r])
    /\ L!EvaluateAndCommit(EventOf(r, pinned[r].content), clock, clock)
    /\ GoTo(r, "issuing")
    /\ UNCHANGED <<environment, sql, binding, pinned, capability, passed, receipts>>

ReserveRefused(r) ==
    /\ At(r, "reserving")
    /\ \/ ~StillInstalled(pinned[r])
       \/ /\ L!Decision(EventOf(r, pinned[r].content), clock)
                \notin L!NewReservationRules
    /\ Refuse(r)

(* A database error is reported as unavailable disclosure state; reading   *)
(* the receipt's record afterwards may fail as well, and that escapes.     *)
ReserveFails(r) ==
    /\ At(r, "reserving")
    /\ "ledger" \in faults
    /\ Keep(r, "recording") \/ Keep(r, "unavailable")

-----------------------------------------------------------------------------
(***************************************************************************)
(* execute/authorization.py: issue.                                        *)
(***************************************************************************)
(* What issue and verify_and_consume check anew, b being the binding they  *)
(* were handed.                                                            *)
Reevaluated(r, b) == StillInstalled(b) /\ AllowedNow(r) /\ CommitmentHolds(r)

Issue(r) ==
    /\ At(r, "issuing")
    /\ Reevaluated(r, pinned[r])
    /\ capability' = [capability EXCEPT ![r].binding = snapshot]
    /\ GoTo(r, "revalidating")
    /\ UNCHANGED <<ledger, environment, sql, binding, pinned, passed, receipts>>

(* The binding is read again, then claim_commitment checks the state.      *)
Revalidate(r) ==
    /\ At(r, "revalidating")
    /\ StillInstalled(capability[r].binding)
    /\ \E i \in RecordOf(r) : L!ClaimRequirePending(i, r)
    /\ GoTo(r, "claiming")
    /\ UNCHANGED <<environment, sql, binding, pinned, capability, passed, receipts>>

(* Mutant: a refused capability returns without finalizing.                *)
MutIssueRefusalReturns(r) ==
    /\ \/ At(r, "issuing") /\ ~Reevaluated(r, pinned[r])
       \/ At(r, "revalidating") /\ ~StillInstalled(capability[r].binding)
    /\ Keep(r, "recording")

IssueRefused(r) ==
    /\ \/ At(r, "issuing") /\ ~Reevaluated(r, pinned[r])
       \/ At(r, "revalidating") /\ ~StillInstalled(capability[r].binding)
    /\ Keep(r, "aborting")

(* The claim is inserted; nobody else claims this receipt's record.  Then  *)
(* the clock gives the capability its expiry.                              *)
Claim(r) ==
    /\ At(r, "claiming")
    /\ \E k \in claiming : k.auth = r /\ L!ClaimInsert(k)
    /\ capability' = [capability EXCEPT ![r].expires = clock + Ttl]
    /\ GoTo(r, "executing")
    /\ UNCHANGED <<environment, sql, binding, pinned, passed, receipts>>

(* Raw sqlite3 errors of either transaction are not caught by issue.       *)
ClaimFails(r) ==
    /\ "ledger" \in faults
    /\ \/ At(r, "revalidating") /\ UNCHANGED ledger
       \/ At(r, "claiming") /\ \E k \in claiming : k.auth = r /\ L!ClaimLost(k)
    /\ GoTo(r, "escaping")
    /\ UNCHANGED <<environment, sql, binding, pinned, capability, passed, receipts>>

(***************************************************************************)
(* execute/authorization.py: verify_and_consume, and the executor.         *)
(***************************************************************************)
Authorize(r) ==
    /\ At(r, "executing")
    /\ clock < capability[r].expires
    /\ Reevaluated(r, capability[r].binding)
    /\ Keep(r, "consuming")

Consume(r) ==
    /\ At(r, "consuming")
    /\ StillInstalled(capability[r].binding) /\ ClaimHolds(r)
    /\ capability' = [capability EXCEPT ![r].admitted = clock]
    /\ GoTo(r, "running")
    /\ UNCHANGED <<ledger, environment, sql, binding, pinned, passed, receipts>>

ConsumeRefused(r) ==
    /\ \/ /\ At(r, "executing")
          /\ \/ clock >= capability[r].expires
             \/ ~Reevaluated(r, capability[r].binding)
       \/ /\ At(r, "consuming")
          /\ ~(StillInstalled(capability[r].binding) /\ ClaimHolds(r))
    /\ Keep(r, "aborting")

ConsumeFails(r) ==
    /\ pc[r] \in {"executing", "consuming"}
    /\ "ledger" \in faults
    /\ Keep(r, "escaping")

(* The query runs and its result passes every check.                       *)
Run(r) ==
    /\ At(r, "running")
    /\ passed' = passed \cup {r}
    /\ GoTo(r, "releasing")
    /\ UNCHANGED <<ledger, environment, sql, binding, pinned, capability, receipts>>

(* Mutant: a failed execution returns without finalizing.                  *)
MutRunFailureReturns(r) == At(r, "running") /\ Keep(r, "recording")

(* It times out, is rejected, is too large, or a check of its rows fails.  *)
RunFails(r) == At(r, "running") /\ Keep(r, "aborting")

-----------------------------------------------------------------------------
(***************************************************************************)
(* verify/governance.py: _finalize_release_state, _abort_pending_receipt.  *)
(***************************************************************************)
Settled(r, next) ==
    /\ GoTo(r, next)
    /\ UNCHANGED <<environment, sql, binding, pinned, capability, passed, receipts>>

MarkReleased(r) == \E i \in RecordOf(r) : L!MarkReleased(i)
MarkAborted(r) == \E i \in RecordOf(r) : L!MarkAborted(i)

Release(r) == At(r, "releasing") /\ MarkReleased(r) /\ Settled(r, "recording")

Abort(r) == At(r, "aborting") /\ MarkAborted(r) /\ Settled(r, "recording")

(* An exception the engine did not expect: abort, and raise it again.      *)
Escape(r) == At(r, "escaping") /\ MarkAborted(r) /\ Settled(r, "unavailable")

(* Mutant: the failure is logged and the result kept.                      *)
MutSettleFailureLogged(r) ==
    /\ "ledger" \in faults
    /\ pc[r] \in {"releasing", "aborting", "escaping"}
    /\ Keep(r, IF At(r, "escaping") THEN "unavailable" ELSE "recording")

(* Marking fails and the result is turned into a failure; or the record    *)
(* cannot even be read, and that exception is the answer.                  *)
SettleFails(r) ==
    /\ "ledger" \in faults
    /\ pc[r] \in {"releasing", "aborting", "escaping"}
    /\ passed' = passed \ {r}
    /\ \/ ~At(r, "escaping") /\ GoTo(r, "recording")
       \/ GoTo(r, "unavailable")
    /\ UNCHANGED <<ledger, environment, sql, binding, pinned, capability, receipts>>

(***************************************************************************)
(* pipeline.py: _finalize seals and writes the receipt before anything is  *)
(* answered.                                                               *)
(***************************************************************************)
Record(r) ==
    /\ At(r, "recording")
    /\ receipts' = receipts \cup
         {[request |-> r, binding |-> binding[r], passed |-> r \in passed]}
    /\ GoTo(r, IF r \in passed THEN "rows" ELSE "withheld")
    /\ UNCHANGED <<ledger, environment, sql, binding, pinned, capability, passed>>

RecordFails(r) ==
    /\ At(r, "recording")
    /\ "receipt" \in faults
    /\ Keep(r, "unavailable")

(* The process is killed; each request it served dies at some point.       *)
Die(r) ==
    /\ "death" \in faults
    /\ pc[r] \in Working \ {"received"}
    /\ IF At(r, "claiming") THEN \E k \in claiming : k.auth = r /\ L!ClaimLost(k)
       ELSE UNCHANGED ledger
    /\ GoTo(r, "dead")
    /\ UNCHANGED <<environment, sql, binding, pinned, capability, passed, receipts>>

-----------------------------------------------------------------------------
(* DataHubSnapshotContextResolver.replace_snapshot.                        *)
ReplaceSnapshot(s) ==
    /\ s.observed <= clock
    /\ snapshot' = s
    /\ UNCHANGED <<ledger, clock, faults, pc, sql, binding, pinned, capability,
                   passed, receipts>>

Tick ==
    /\ clock < MaxClock
    /\ clock' = clock + 1
    /\ UNCHANGED <<ledger, snapshot, faults, pc, sql, binding, pinned, capability,
                   passed, receipts>>

Init ==
    /\ L!Init
    /\ snapshot \in {s \in Snapshot : s.observed = 0}
    /\ clock = 0
    /\ faults \in FaultPlans
    /\ pc = [r \in Requests |-> "received"]
    /\ sql = [r \in Requests |-> "original"]
    /\ binding = [r \in Requests |-> NoSnapshot]
    /\ pinned = [r \in Requests |-> NoSnapshot]
    /\ capability = [r \in Requests |-> NoCapability]
    /\ passed = {}
    /\ receipts = {}

(* The steps of a request's own thread.                                    *)
Serve(r) ==
    \/ Resolve(r) \/ Rewrite(r) \/ RewriteRefused(r)
    \/ Capture(r) \/ CaptureRefused(r) \/ Verify(r) \/ VerifyRefused(r)
    \/ Reserve(r) \/ ReserveRefused(r) \/ ReserveFails(r)
    \/ Issue(r) \/ Revalidate(r) \/ IssueRefused(r) \/ Claim(r) \/ ClaimFails(r)
    \/ Authorize(r) \/ Consume(r) \/ ConsumeRefused(r) \/ ConsumeFails(r)
    \/ Run(r) \/ RunFails(r)
    \/ Release(r) \/ Abort(r) \/ Escape(r) \/ SettleFails(r)
    \/ Record(r) \/ RecordFails(r)

Next ==
    \/ \E r \in Requests : Serve(r) \/ Die(r)
    \/ \E s \in Snapshot : ReplaceSnapshot(s)
    \/ Tick

Spec == Init /\ [][Next]_vars

(* Request threads run: every call they make that can block has a timeout. *)
FairSpec == Spec /\ \A r \in Requests : WF_vars(Serve(r))

-----------------------------------------------------------------------------
(***************************************************************************)
(* Properties.                                                             *)
(***************************************************************************)

(* Rows are accounted for before they are answered: the reservation of the *)
(* request that received them is RELEASED, its claim is this request's     *)
(* authorization, and a passing receipt is sealed, whatever failed.        *)
RowsAreAccounted ==
    \A r \in Requests : At(r, "rows") =>
        /\ \E i \in RecordOf(r) : /\ journal[i] = L!Released
                                  /\ [record |-> i, auth |-> r] \in claims
        /\ [request |-> r, binding |-> binding[r], passed |-> TRUE] \in receipts

(* One governance snapshot from end to end, although the refresher may     *)
(* replace it between any two steps, by itself or back and forth: the      *)
(* snapshot the receipt of delivered rows names is the one the capability  *)
(* was issued under, its policy allows the very SQL that ran, and the      *)
(* ledger recorded the release as that snapshot classifies it.             *)
RowsUnderOneSnapshot ==
    \A e \in {e \in receipts : e.passed} :
        LET r == e.request IN
        /\ capability[r].binding = e.binding
        /\ Verdict[<<r, sql[r], e.binding.content>>] = "ALLOW"
        /\ \A i \in RecordOf(r) : records[i].event = EventOf(r, e.binding.content)

(* The budget in the time at which requests run, although it is counted in *)
(* that of their reservations: of the requests that got rows, placed by    *)
(* the clock at which the authorizer last checked their snapshot, no more  *)
(* than MaxProtected protected ones of a scope fall into a window that is  *)
(* MaxAge - 1 shorter than the budget's, since a snapshot that is still    *)
(* fresh then was installed before the reservation.  What follows that     *)
(* check, the query and the delivery, takes time that nothing bounds.      *)
AdmittedProtected(s, end) ==
    {r \in Requests : /\ At(r, "rows")
                      /\ capability[r].admitted \in (end - (Window - MaxAge))..end
                      /\ \E i \in RecordOf(r) :
                            records[i].event.scope = s /\ records[i].event.protected}

AdmittedWithinBudget ==
    \A s \in Scopes, end \in Clocks :
        Cardinality(AdmittedProtected(s, end)) <= MaxProtected

(* The docstring of verify/governance.py: a request that was answered      *)
(* without rows leaves nothing in the scope's privacy history.             *)
NoRowsNoHistory ==
    \A r \in Requests : pc[r] \in {"withheld", "unavailable"} =>
        \A i \in RecordOf(r) : journal[i] = L!Aborted

(* It does hold as long as neither the ledger nor the receipt store fails  *)
(* (a request that died was not answered).                                 *)
NoRowsNoHistoryWhenHealthy ==
    faults \cap {"ledger", "receipt"} = {} => NoRowsNoHistory

(* While nothing fails, no reservation stays pending: _run_core settles it *)
(* one way or the other however the verification ends.                     *)
ReservationsSettle ==
    \A r \in Requests :
        (faults = {} /\ At(r, "issuing")) ~>
            (\E i \in RecordOf(r) : journal[i] \in {L!Released, L!Aborted})

(* The request path uses the ledger only through its own operations, so    *)
(* what is proved of DisclosureLedger holds here.                          *)
LedgerSpec == L!Spec
=============================================================================
