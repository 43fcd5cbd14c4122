# ToxicJoin in TLA+

Specifications, model-checking configurations and machine-checked proofs for
ToxicJoin, the privacy firewall between SQL-writing agents and a warehouse.
A request carries SQL; ToxicJoin analyzes it, asks DataHub governance metadata
what the columns mean, decides (ALLOW, REWRITE, BLOCK), executes what is allowed
under a single-use capability, and charges every release to a cumulative
disclosure budget.  All paths below are relative to `src/toxicjoin/` unless
they begin with `docs/`.

Contents: [1 the system](#1-the-system), [2 the modules](#2-the-modules),
[3 the runs](#3-the-runs), [4 the proofs](#4-the-proofs),
[5 where code and documentation disagree](#5-where-code-and-documentation-disagree),
[6 what is not modelled](#6-what-is-not-modelled), [7 plan](#7-plan).

## 1 The system

### Components

| component | state it keeps | operations | what makes it correct |
|---|---|---|---|
| disclosure ledger (`disclosure/`) | SQLite: append-only records, a journal of release states, authorization claims; one hash chain per privacy scope | `evaluate_and_commit`, `append`, `claim_commitment`, `mark_released`, `mark_aborted`, `verify_commitment`, `verify_all` | the budget bounds every window of a scope; a release is claimed by exactly one capability; terminal states and the chain are never rewritten |
| request pipeline and governed verification (`pipeline.py`, `verify/`) | none of its own between requests; a request's bindings, capability and result | analyze, resolve, rewrite, verify, reserve, issue, consume, run, finalize, write the receipt | rows are answered only when accounted for; one governance snapshot from end to end; every reservation settles |
| execution authorizer (`execute/authorization.py`) | secret key and consumed ids, in memory | `issue`, `verify_and_consume` | a capability is used once; pruning forgets nothing that is still fresh |
| governance snapshot and refresher (`context/`, `api/live.py`) | the installed snapshot with `observed_at`; the refresh thread, its failures and stop event | `current_governance_binding`, `require_same_governance_binding`, `replace_snapshot`; `start`, `stop`, `_run` | one failure does not let the snapshot expire; it never goes back; it recovers after an outage |
| API admission (`api/limits.py`, `auth.py`) | deques of time stamps per peer and per principal, active counts | `check`, `record_failure`, `acquire` and its release | limits hold in real time; slots are exact; refusals are deserved |
| DuckDB executor (`execute/duckdb_executor.py`) | a connection per query, with a timer | `execute_authorized` | rows or a failure, within limits |
| receipt store (`receipts/`) | sealed JSON files, an integrity key | `seal`, `write`, `read` | a receipt whose write returned is not lost, replaced or cut short, and the key outlives what it sealed, unless a writer fails to sync what others have read already |
| SQL analysis, policy, rewrite, disclosure semantics (`sql/`, `policy/`, `rewrite/`, `disclosure/semantic.py`) | none | `analyze_sql`, `evaluate`, `enforce_minimum_group_size`, pure functions | no group smaller than the policy's minimum survives what is allowed on a threshold that counts the subject; a rewrite only takes away |
| governance evidence (`evidence/`, `context/datahub.py`) | none | claims of a snapshot, `resolve_evidence`, required facts | what is missing from an answer of DataHub is never taken for absent |
| agent proposals, governance and proof authorities (`agent/`, `proofs/`) | the last clock sample of each authority, sealed artifacts | propose, evaluate, bind, clear, search, prove | artifacts of different queries, snapshots, identities or moments never make one proof |
| proof-bound execution (`execute/proof_bound_*.py`, `verify/proof_bound.py`) | consumed capabilities | `issue`, `verify_and_consume` | nothing is admitted on evidence that expired |
| prospective checker (`prospective/`) | queue, nodes seen, counters of one search | `check_prospective_privacy` | no counterexample is reported absent that the bound contains; the one reported is shortest |
| counterfactual repair (`repair/`) | validations of one run | `run_cpcc` | the repair selected is the least of those that are safe |

### How they interact

The HTTP server runs a handler on a thread of a pool.  A handler passes both
limiters of `api/limits.py`, then calls the pipeline, which stays on that
thread until the receipt is written.  An agent's proposal goes through the
authorities of `agent/`, each sealing an artifact that names the one before it,
to a proof that the proof-bound authorizer verifies against the runtime.
Requests meet in these places:

* the ledger, through SQLite transactions begun with `BEGIN IMMEDIATE`;
* the governance snapshot, which the refresher's daemon thread replaces under
  a lock, at any time;
* the files of the receipt store and of the ledger's key, which several
  processes may create at the same time;
* the last clock sample of each authority, which all its callers share;
* the authorizer's set of consumed ids, and the limiters' tables, each under
  a lock that is taken some time *after* the clock was read;
* the clock: wall time in the ledger, the snapshot and the authorizer,
  monotonic time in the limiters.

### What is hard

Interleaving of requests with each other and with the refresher; the two
transactions of a claim; failures of the ledger or of the receipt store after
a query has produced its rows; a process that dies between reservation and
settlement; clocks that are read before a lock and used under it, or set back;
a retry that races an expiry; a thread that outlives its `join`; a start that
crashes between two files; a lineage answer cut short; artifacts obtained for
one query and handed in for another; a search whose nodes are merged or whose
budget runs out; and conditions that look like a threshold and are none.
`PROJECT.json` lists these hazards by line, with the properties that would show
them going wrong, and those that no property covers yet with the reason.

## 2 The modules

| module | models | code it stands for |
|---|---|---|
| `DisclosureLedger` | the ledger's tables and transactions | `disclosure/ledger.py`, `secure_ledger.py`, `composition.py`, `models.py` |
| `ReleaseBudget` | abstract: reservations in a rolling budget, no database | a specification, not code |
| `LedgerRefinement` | the mapping from the first to the second | |
| `LocalStorage` | start-up of processes that share a directory, and the writing of receipts | `disclosure/ledger.py`, `receipts/writer.py` |
| `SafeExecution` | a LIVE request from resolution to answer, composed with the ledger (INSTANCE) and the snapshot | `pipeline.py`, `verify/engine.py`, `verify/governance.py`, `execute/`, `context/` |
| `ExecutionAuthorizer` | the single-use record across threads and restarts | `execute/authorization.py` |
| `SnapshotRefresher` | the refresh thread in time | `context/refresher.py` |
| `ApiAdmission` | both limiters under the handlers' threads | `api/limits.py`, `api/app.py` |
| `GovernanceEvidence` | what may be concluded from DataHub's answers | `context/datahub.py`, `context/fixture.py`, `evidence/`, `agent/governance_trust.py` |
| `AuthorityChain` | from a proposal to its execution, EXTENDS `GovernanceEvidence` | `agent/`, `proofs/`, `execute/proof_bound_*.py`, `execute/proof_binding.py` |
| `PolicyEngine` | `PolicyEngine.evaluate` | `policy/engine.py` |
| `DisclosureTwin` | releases, what they let derive, and what protects them | `prospective/twin.py` |
| `ForbiddenPredicates` | F1 to F6 | `prospective/forbidden.py` |
| `FutureGrammar` | the future actions of a release | `prospective/grammar.py` |
| `PolicyOracle` | the policy's answer on a semantic release, EXTENDS `PolicyEngine` | `prospective/policy_oracle.py` |
| `ProspectiveSearch` | the bounded breadth-first search over all of these | `prospective/ppmc_search.py`, `ppmc_models.py` |
| `SqlAnalysis` | from a parse tree to a `QueryPlan`, and which groups survive HAVING | `sql/parser.py`, `sql/analyzer.py`, `disclosure/semantic.py` |
| `RepairCompiler` | repairs of a query, and what they compile to | `repair/compiler.py`, `repair/models.py`, `rewrite/engine.py` |
| `PrivacyCut` | the repair run with the searches it starts, EXTENDS `ProspectiveSearch` | `repair/cpcc.py`, `repair/validator.py` |
| `*Proofs` | theorems about the module of that name | |
| `MC*` | constants, compositions and symmetry for TLC | |

Definitions named `Mut...` are not used by any specification.  Each is a
plausible mistake in the definition that follows it; putting it in the place of
that definition makes the property that `PROJECT.json` names fail.

**DisclosureLedger.**  `records` is the table in order of sequence numbers,
`journal[i]` the sequence of states of record `i` (empty for a record that
predates the journal, which counts as released), `claims` the claims table and
`claiming` the calls of `claim_commitment` that are between their two
transactions.  One action per writing transaction: `EvaluateAndCommit` (the
evaluation of the history and the append happen under one write lock, with two
readings of the clock), `AppendLegacy`, `ClaimRequirePending` and
`ClaimInsert`/`ClaimReplayed`/`ClaimLost`, `MarkReleased`, `MarkAborted`.
Refused calls leave the tables alone and are stuttering; `Decision` says what
they answer.

**SafeExecution.**  `pc[r]` is where request `r` stands.  A step ends wherever
the code reads or writes what another thread can change.  `snapshot` is the
installed one, a content and the time it was observed; a binding is what a
request saw of it.  Every stage has its way on, its refusal and, where the code
can raise, its exception path: `Release` and `Abort` are
`_finalize_release_state`, `Escape` is `_abort_pending_receipt`, `Record`
writes the receipt before anything is answered.  `faults`, chosen once per
behaviour, says what may go wrong: the ledger, the receipt store, or the
process (`Die`).  The policy is a constant function of request, SQL (original
or rewritten) and content; the executor either returns rows that pass every
check or fails.  A capability also records the clock at the authorizer's last
check of the snapshot (`admitted`), which no code reads.

**ExecutionAuthorizer.**  `Present` is `verify_and_consume` up to its single
reading of the clock; `Accept`, `Replayed` and `Refuse` are what follows after
the policy, the snapshot and the ledger were checked again, which takes any
time.  `Restart` draws another key and forgets what was consumed.

**SnapshotRefresher.**  `age` is the age of the installed snapshot, and each
thread has a phase and a timer, so that behaviours are unbounded in length with
finitely many states.  `Network` lets DataHub come and go.  `SafeExecution`
lets any snapshot be installed at any time, which includes all that this module
does.

**ApiAdmission.**  A thread takes a reading of the clock when it enters one of
the `Waiting` stages and uses it in the next step, under the lock.
`rejections` and `attempts` are histories in real time, which no code sees;
the properties compare them with the limits.

**LocalStorage.**  `db` has the schema version, the fingerprint of the cohort
key and the keys under which something was recorded; `keyFile` and `receipts`
are files: `NoFile`, `Short` (created, and written in part or not at all) or
whole.  `proc[p]` is a process with the stage of its start and the keys it
holds.  One action per system call that others can see: the version is read
before the schema is created, a key file is created exclusively and written
afterwards, a receipt is linked to its name, or copied where links are not
supported.  What is written is flushed first (`WriteKey`, `Copy`), from when on
every process sees it whole, and synced in a later step (`SyncKey`, `SyncCopy`).
`Crash` may come at any stage.  A failure to write, flush or sync removes the
file (`WriteKeyFails`, `CopyFails`); `withdrawn` remembers the keys and receipts
that could be read by then, which no code sees.  What is lost by a crash is the
process; what it wrote stays.

**GovernanceEvidence** has no state: `Catalog`, `Claims`, `ResolveEvidence` and
`RequiredFacts` follow the assets DataHub holds to the facts a proposal needs,
with truncated answers, relations without columns and unknown sources.

**AuthorityChain.**  `req[r]` is what a request holds (proposal, evaluation,
trust, check, proof, capability) and the call it is in, `last` the latest clock
sample of each authority.  An authority samples the clock up to four times in a
call; each sample is a step (`Sampled`), refused when it is before the last one
that authority saw.  The arguments of a call are artifacts that *any* request
holds, so everything the authorities compare is put to use.  `SetBack` sets the
clock back, `WorldChanges` installs a snapshot, changes the warehouse or the
policy, `Rediscover` gives the agents the snapshot installed since.  `Issue`,
`Claim_`, `Consume`, `Revalidate` and `Commit` are the strict proof-bound
authorizer, which reads the clock once, checks the snapshot a last time
(`Revalidate`), waits for the ledger, and records the consumption (`Commit`)
without looking at either again; it has no guard against a clock set back.
Hashes and MACs are the equality of what they cover.

**ProspectiveSearch.**  `queue`, `seen`, `node`, `next` and `counters` are the
local variables of the search.  One step considers one action, in the order of
the code: applicable, admissible, successor, budget, predicate, enqueue.  The
order of the actions, which is that of their hashes, is one of `Orders`.
Collaborators (oracle, twin, predicate) may raise at any call (`StartFails`,
`CollaboratorFails`, `EvaluationFails`).  A path is a record of observations;
`NoPath` is the None of a history whose snapshots are unknown, which leaves F5
undecided.  The operators come from `DisclosureTwin` (atoms and their least
fixed point), `FutureGrammar` (variants of the base release, snapshot
advances), `ForbiddenPredicates` and `PolicyOracle`, which rebuilds the
engine's input from a semantic release and asks `PolicyEngine`.

**PrivacyCut.**  `candidates` are singles and pairs of remediation actions in
the order of their keys; `stage` walks each through the seven stages of its
validation, of which PPMC is a whole search of `ProspectiveSearch`, step by
step in that module's variables.  Any stage, and the validator, may fail.
`RepairCompiler` compiles a candidate to a query, `SqlAnalysis` analyses it
again; a parse tree is a record, since parsing is sqlglot's.  A bound of a
HAVING clause says which column reference it counts and whether it counts that
column itself or another expression of it, which the analysis accepts as well
(`sql/parser.py:350-365`).  `ColumnRefs` keeps the alias of a reference, as the
code's `ColumnRef` does, since a bound or an output of one column under two
aliases counts as two.  The code's stacks
and recursion over the trees of HAVING clauses and derived tables, which its
budget ends at 64 levels, are functions of the level up to `MaxDepth`
(`Levels`, `Scopes`, `ReachedBy`).  A query of more levels is not `Analyzable`
(`WithinBudget`), and the stage that analyses it fails.

## 3 The runs

`tlc -workers 2 -config X.cfg MCX.tla`, with the files of each row.

| run | module | result | distinct states |
|---|---|---|---|
| DisclosureLedger | MCDisclosureLedger | holds | 226,207 |
| DisclosureLedgerDoc | MCDisclosureLedger | violated, as expected | a trace of 4 states or so |
| SafeExecution | MCSafeExecution | holds | 199,552 |
| SafeExecutionDoc | MCSafeExecution | violated, as expected | a trace of 8 states or so |
| ExecutionAuthorizer | MCExecutionAuthorizer | holds | 195,903 |
| ExecutionAuthorizerDoc | MCExecutionAuthorizer | violated, as expected | a trace of 11 states or so |
| SnapshotRefresher | MCSnapshotRefresher | holds | 70,088 |
| SnapshotRefresherDoc | MCSnapshotRefresher | violated, as expected | a trace of 11 states or so |
| ApiAdmission | MCApiAdmission | holds | 2.9 million |
| AuthorityChain | MCAuthorityChain | holds | 227,793 |
| ProspectiveSearch | MCProspectiveSearch | holds | 55,621 |
| ProspectiveSearchDoc | MCProspectiveSearch | violated, as expected | a short trace |

`MCDisclosureLedger` has two kinds of behaviours, of the ledger and of the
storage below it, which never mix; so one run checks both, together with the
refinement.  `MCProspectiveSearch` has searches alone and repairs with the
searches they start.

### What the properties say

*DisclosureLedger.*  `BudgetBound`: in every window of length `Window -
ClockStep`, whenever it ends, a scope has at most `MaxProtected` gated protected
releases that are pending or released, although the code only looks at the
window that ends at the request.  `ReleasedIsClaimed`,
`OneCapabilityPerReservation`: the claim's two transactions race with other
claims and with settlement, and still a released reservation has one claim.
`ChainIntact`: the chain names each predecessor, aborted ones included.
`LegacyBlocksScope`: records without composition facts close their scope.
`JournalOnlyAdvances`: nothing settled is ever rewritten.  `ImplementsBudget`:
all of it implements `ReleaseBudget`.  Of the storage: `KeysAreKept`, that
cohorts are recorded under one key, and that every key in use stays in its file,
whole, so a start that crashed may close a store for good but does not lose what
was recorded; `ReturnedReceiptsStay`, that a receipt whose write returned stays
what it is.  Both have one exception, which the code has too: a writer whose file
could be read by others before it was synced, and which then fails to sync it,
removes the file.  The properties say that nothing else does.

*SafeExecution.*  `RowsAreAccounted`: rows in a client's hands mean a RELEASED
reservation, a claim by this request's capability and a sealed, passing
receipt, whatever failed.  `RowsUnderOneSnapshot`: the capability, the policy
decision for the very SQL that ran, and the recorded event all agree with the
snapshot the receipt names, although it may be replaced, back and forth,
between any two steps.  `AdmittedWithinBudget`: the ledger counts releases by
the time of their reservation, requests run later.  Of those that got rows,
placed by the clock at the authorizer's last snapshot check, no more than the
budget fall into a window that is shorter than the budget's by `MaxAge - 1`:
the age a snapshot may have bounds how long a reservation stays usable.  The
query and the delivery follow that check, and nothing in the code bounds how
long they take; so what a client *receives* in a window is not bounded by the
budget, and no property says so.  `NoRowsNoHistoryWhenHealthy`: a request
answered without rows leaves nothing in the history while ledger and receipt
store work.  `ReservationsSettle`: while nothing fails every reservation is
settled.

*ExecutionAuthorizer.*  `SingleUseWhileFresh`: every acceptance after the first
comes after the expiry, from a thread that read the clock before it.
`FreshUseIsRemembered`: pruning with another thread's reading forgets nothing
fresh.

*SnapshotRefresher.*  `SingleFailureIsTolerated`: if the intervals leave time
for two loads (`TimeForRetry`), one failure never lets the snapshot expire.
`SnapshotOnlyAdvances`: no older observation replaces a newer one, unless a
`join` timed out and the owner started a second thread beside the first.
`RecoversOnceReachable`: once DataHub stays reachable and the refresher is left
running, the snapshot is fresh for good.

*ApiAdmission.*  `AttemptsWithinRate`: attempts counted in real time stay within
the limit in any window shorter than the configured one by the longest delay
between clock and lock.  `SlotsAreExact`: `active` is the number of requests
being served.  `FailuresWithinBudget`: concurrent failures overshoot the budget
of a peer by at most one for each other thread, counted since the peer was last
evicted, even if threads passed the check before it was.
`TableIsBounded`.  `RefusalsAreDeserved`: a refusal is explained by that many
attempts (or failures) not older than the window and one longest delay, so
unordered stamps that shield expired ones never lock anybody out.

*AuthorityChain.*  `ExecutionIsBound`: whatever is handed to whom, what executes
rests upon one chain of artifacts for one query, snapshot, identity, purpose and
warehouse, evaluated, grounded, searched and allowed.
`NothingOutlivesEvidence`: no proof or capability lives longer than the evidence
below it, although nobody passes an expiry on, and an execution is admitted, by
the reading with which `verify_and_consume` begins, while proof and evidence are
valid.  The wait for the ledger and the lock comes after the last check, and is
not bounded.  `NothingIsRevived`:
what an authority returns was fresh at the latest time it has ever read, wherever
the clock is set back.  `GroundedIsWhole`: governance counts as trusted only if
the answer about lineage was whole and every source it names is known and
classified.

*ProspectiveSearch.*  `VerdictIsExhaustive`: the verdict that lets an execution
go ahead is about every path of admissible actions within the bound, compared
with an enumeration of the paths that merges nothing.
`CounterexampleIsShortest`: a counterexample is such a path, ends in what it
claims, and every shorter path is clean.  `ResultIsValid`: every search that
ends can be reported, whatever failed.  `NoVerdictWithoutProvenance`: a history
of sensitive releases under unknown snapshots excludes that verdict.
`SearchTerminates`.  `KnowledgeOnlyGrows`: derivation is monotone along every
path.  `AllowedIsLocallySafe` and `KernelsAgree` compare the two decision
procedures, the policy engine and the predicates, and the engine on the plan
with the engine on what the oracle rebuilds.  `AllowedGroupsAreLarge`: of a
grouped release of sensitive values that is allowed, no group below the minimum
survives the HAVING clause, evaluated on groups of up to three subjects,
whatever its form, as long as the bounds the analysis trusts count the subject
itself.  A bound on another expression of the subject, like `COUNT(DISTINCT id
|| random())`, is trusted by the analysis too, and about those the property
says nothing: they may let small groups through.  `RepairWithdraws`: a repair
shows no column and no group the query did not.  `SelectionIsOptimal`: the
repair selected is safe by exhaustive paths, and no candidate that costs less
is.

### Bounds, and why they are enough

* Ledger: three receipts, two scopes, clock readings 0, 2 and 3, a window of 3,
  a budget of 2, a clock set back by 1, two authorizations.  Three releases are
  one more than the budget; readings lie inside, outside and on the edge of the
  window; two claims race for one record.  Authorizations are symmetric, as are
  processes and contents below.
* LocalStorage: two processes, one receipt id, two contents and two faults
  (crashes, or a failure to write, flush or sync); schema version 0 or 1 at
  first.  Every step is one process's; a third one would see what the second
  does, and the theorems are for any number.
* SafeExecution: two requests of one scope with a budget of one, two contents
  with different verdicts, a clock of two values with every lifetime equal to
  one, so that each of them can expire under a request and the second request can
  fall out of the first one's window.  Faults: none, or all
  of them.
* ExecutionAuthorizer: three ids and three threads (one reads, one uses, one
  prunes), a lifetime of 2 in a clock of 0 to 3, one restart; an id accepted
  twice is not presented again.
* SnapshotRefresher: units of 20 s; a window of 280 s refreshed at half of it,
  a backoff of 20 s capped at 120 s, one unit for a load and one to disconnect;
  two threads, which is what a `join` that times out can leave.  Six failures
  reach the largest backoff; more of them change nothing.  Length unbounded.
* ApiAdmission: two threads, two peers with room for one in the table, limits of
  one failure, two attempts and one slot, windows of 2, a delay of 1, a clock of
  0 to 4, and a CONSTRAINT of four recorded events: one more than any limit or
  overshoot the properties allow for one window.
* AuthorityChain: a clock of 1 to 4 (`MaxNow`), evidence that lives 3, proofs 2,
  capabilities 1, a skew of 1, and two detours (`MaxDetours`: clocks set back,
  changes, adaptations).  The initial states have two parts: one request with
  the whole clock and both detours, and two requests with different identities
  and queries at the end of the clock, with a snapshot one unit old and without
  detours, which offer each other everything.  Three kinds of assets: whole,
  truncated and incomplete.
* ProspectiveSearch: ten columns, one of each category, one without governance,
  one derived from a sensitive one, one of another dataset; six base releases,
  five shapes of grammar (with cycles of snapshots), five histories; depths up to
  3, budgets of 1, 3 and 50 nodes, and 24 atoms for a state, so that each budget
  is met and missed.  Twenty-one pairs of a query and a space of up to four
  actions, among them HAVING clauses under NOT, OR and AND, on another column and
  on another expression of the subject, nested queries and derived tables that
  blur the subject, joins, and a dataset joined with itself.  Trees of three
  levels below the root: one HAVING clause is as deep as that, so that a threshold
  added to it is beyond the budget.  Minimum group size 2; each bound of a clause
  counts 0 to 3 values in a group (`GroupSizes`).

Deadlock is not checked where the clock, the receipts, the faults or the
requests are bounded or a search ends: these systems stop when everything is
used up.  It is checked in the runs of `SnapshotRefresher`.

### Fairness

`SafeExecution` has weak fairness on each request's own thread: nothing it
calls blocks for ever (SQLite's busy timeout, the executor's timer).  Nothing
is assumed of the refresher, of the clock or of failures; `Die` is never
forced.  `SnapshotRefresher` has weak fairness on time and on each thread's
turn: a load is a series of MCP calls each with a timeout, so it ends.  Nothing
is assumed of `Network`, `Start` or `Stop`: the property itself assumes that
DataHub stays reachable and the refresher started.  `ProspectiveSearch` has weak
fairness on the search, which is one loop of one thread; nothing is assumed of
collaborators that fail.

## 4 The proofs

`tlapm M.tla` for each `*Proofs` module.  The theorems hold for every value of
the constants that satisfies the ASSUMEs of the module, which say that counts,
times and limits are naturals (positive where the code validates them so) and
functions have their domains.

* **DisclosureLedgerProofs**: type correctness and every property of the run.
  The budget needs the strengthening that a window ending later than every
  record is counted by the next evaluation; a new record can only enter windows
  that the evaluation counted, up to `ClockStep`.  Uniqueness of claims needs
  that the authorization ids of claims and claims in progress differ.
  `LedgerImplementsBudget` is the refinement: initial states map to initial
  states and every step to `Reserve`, `Settle` or a stutter; it rests on
  `ReceiptsAreUnique`.
* **SafeExecutionProofs**: a behaviour of the request path is a behaviour of
  `DisclosureLedger` under the substitution of its INSTANCE
  (`RequestsImplementLedger`), so the ledger's theorems are cited here
  (`RequestsKeepLedger`) with all failures.  On top of it `RequestInv` is
  inductive: what each stage of a request has established of its reservation
  (`ReservationKept`: none before `reserving`, one pending until it is settled,
  claimed once `claiming` is passed, released when it ends with rows), of
  governance (`GovernanceKept`: the event, the capability and the decision are
  those of the binding) and of the answer (`AnswerKept`), and that a claim in
  flight is of its request's own record.  Each action is a step of one request;
  `Apart` says what the others see of it, so that the requests are
  proved one at a time.  From it follow `RowsAreAccountedFor`,
  `RowsKeepOneSnapshot`, `HealthyRefusalsLeaveNothing`, and with the ledger's
  budget `AdmissionsKeepBudget`, whose invariant `AdmissionInv` orders the
  times of a request: the snapshot's observation, the binding's and the
  reservation's, and the admission, which comes before the snapshot's expiry.
* **ExecutionAuthorizerProofs**: the inductive invariant relates each use to the
  id being consumed or expired, to pending presentations and to the process
  (key) it happened in.
* **SnapshotRefresherProofs**: the inductive invariant bounds the snapshot's age
  by what the thread's phase, timer and number of failures leave until the next
  installation.  `SnapshotAdvances` needs another one, `OneThread`: as long as no
  `join` has timed out, no thread is alive but the owner's or the one being
  joined, and what it is about to install was observed no earlier than what is
  installed.
* **ApiAdmissionProofs**: a deque holds the latest attempts, each stamped at
  most `MaxDelay` early, and those it no longer holds have left the window; so
  any window contains no more attempts than the deque had room for.  Slots by
  counting the threads inside.  For failures `FInv` adds that a peer's deque and
  the threads that passed its check together (`RoomForInFlight`) fit into the
  budget, also after the peer's entry was evicted while they were in flight
  (`FailuresAreBounded`, `TableStaysBounded`).  `RefusalsAreExplained` follows
  from where pruning stops: at a stamp that has not expired by the reading.  The
  proof showed that one longest delay explains every refusal, where the property
  once allowed for two.
* **LocalStorageProofs**: the inductive invariant `StorageInv` adds to the two
  properties what every stage has achieved (`Equipped`: who serves holds both
  keys, the ledger's being the one the database is bound to), and that a file
  that is created and not written has one writer (`OneKeyWriter`, `OneCopier`),
  also while it is being synced, so that nobody else's write or removal meets a
  file in use.  Without them a
  process that removes its own failed key file could remove another's.  The
  assumption says that `NoFile`, `Short`, keys and receipts are different values.
* **AuthorityChainProofs**: the inductive invariant `ChainInv` says what every
  artifact has established when it was issued (`Grounds`, `Searches`,
  `Establishes`, `Authorizes`), in a request's hands or in the call that is
  building it, which the code checks once and never again; and, for the check,
  that its snapshot had been observed by the latest sample of that authority,
  which no longer compares it.  Each action is first reduced to a refusal or to
  one update of one request, and the invariants and `ChainRevivesNothing` rest on
  that.  `ChainGrounds` combines it with lemmas on the evidence itself: no two
  claims of a bundle are about one fact (`ClaimsAreUnique`), a fact that resolves
  is backed by a claim (`OwnFactsAreBacked`, `SourceFactsAreBacked`), and if all
  that is required resolves, the lineage was whole (`ResolvedIsWhole`).
  `UrnAssumption` says that the name which stands for missing lineage is no
  dataset's; `PlanAssumption` that a column is a pair of dataset and field.
* **ProspectiveSearchProofs**: every safety property of the search and of the
  repair, for any grammar, order, bound, budget, policy, history, query and space
  of remediations.  First the search.  `Reached`, what the paths
  of each length lead to, is a recursive function; that it exists is proved by
  the least bound for which it would not.  Nodes of one key have one future
  (`TwinsAreAlike`), which is what makes merging them sound.  The inductive
  invariant has `NodesInv` (every node is reached by the steps it carries) and
  `LevelInv`: the queue holds the rest of one level and then the next
  (`TwoLevels`); all of the levels so far has been found, up to twins
  (`LevelsFound`); what an enabled action leads to from this level is found or
  still waiting (`LevelPursued`); a key seen belongs to one of these levels
  (`SeenExplained`); and what was found is clean (`FoundIsClean`).  When the
  queue is empty this is `VerdictIsExhaustive`, and when a forbidden state is
  found, `CounterexampleIsShortest`.  `ResultsAreValid` rests on an invariant of the
  counters, `KnowledgeIsKept` on the monotonicity of the derivation
  (`MoreIsDerived`), `AllowedReleasesAreSafe` on what the policy engine counts as
  exposed (`LinkableIsAtRisk`).  `InputAssumption` says that bounds and budgets
  are as the configuration validates them, and a base release is one whose
  group keys are grouped, as the analyzer makes them.  That an order of the
  actions lists exactly them is part of `OrdersOf`.

  Then the repair.  `StageInv` says what each stage of a validation has
  established, and `KernelsAlwaysAgree` follows: the engine on a plan and the
  oracle on the release built from it are given the same input, since the
  exposures of a plan name what its outputs resolve to (`PlanShows`), and the
  one identifier the oracle can find is the subject the engine accepted
  (`AllowedThreshold`); where no sensitive values are grouped the subject does
  not decide (`UngroupedDecision`).  `AllowedGroupsAreLargeAlways`: every
  conjunctive term of a clause that is true is true, by the least level for
  which one is not (`ConjunctsAreTrue`), the greatest of the thresholds is one
  of these terms, and what it counts has no more values than the group has
  subjects (`MayHave`).  `RepairsWithdraw`: each repair refers to no more than
  it found (`ShowsLess`) and leaves the HAVING clause or joins a condition to
  it (`CompiledIs`); the truth of the old clause's conditions is that of the
  new one's (`SurvivorsSurvived`).  `SelectionsAreOptimal` rests on
  `SelectInv`: every validation so far is right about its candidate, in both
  directions (`ValidationsAreRight`).  For that, a candidate compiles to one
  query at most (`CompilesOnce`), the search inside a validation has the
  invariant of all searches (`RepairsSearch`), and its alarm is a path
  (`SearchDecides`).  That the cheapest is selected needs that `Ranked` lists
  all candidates by cost (`CandidatesAreRanked`), which needs that costs and
  hashes are a total order (`PrecedesIsOrder`) and that counting what comes
  before takes every place once (`PlacesAreTaken`).  `RequestAssumption` says
  that requests have the bounds their configuration validates, and that counts
  of distinct values (`GroupSizes`) are naturals; `DepthAssumption` that
  `MaxDepth` is one.

Checked by TLC only:

* liveness (`ReservationsSettle`, `RecoversOnceReachable`, `SearchTerminates`),
  which is beyond the prover, like ENABLED;
* what the recursive functions for kinds of projections (`Classify`) and for
  references through derived tables (`ReachedBy`) compute, which would need
  induction over data: the theorems hold whatever they are.

Every other property of the passing runs is a theorem.

## 5 Where code and documentation disagree

Each has a run of its own that shows it, and an entry in `PROJECT.json`.

1. `composition.py:4-7` promises at most one protected release per scope.  The
   code allows `max_protected_releases` (5 by default) in a rolling window.
2. `verify/governance.py:11-12` promises that every path without rows aborts its
   reservation.  A ledger failure while aborting, or a receipt that cannot be
   written after the release, leaves it PENDING or RELEASED.  This errs on the
   side of privacy: budget is lost, never gained.
3. `execute/authorization.py:3-4` calls a capability single-use.  Consumed ids
   are pruned with a reading taken before a lock: a thread that read the clock
   before the expiry and is overtaken may use the capability again after it.
4. `context/refresher.py:74-75` says one failure leaves time for a retry.  With
   freshness windows of 20 s or less, which the configuration accepts, the
   retry comes no earlier than the expiry.
5. `prospective/ppmc_search.py:110-113` promises FAIL_CLOSED when resources are
   exhausted.  An admissible action whose successor exceeds the budget of atoms
   of a state is counted as a rejected transition and skipped, and the verdict
   may be NO_COUNTEREXAMPLE_WITHIN_BOUND.  `VerdictIsExhaustive` is about the
   actions whose successors can be represented.

Two promises of the modules' own making had to be weakened to what the code
keeps, and the comments of the properties say so.  A key or a copied receipt is
visible whole before it is synced, and is removed when the sync fails
(`disclosure/ledger.py:676-684`, `receipts/writer.py:319-326` and `417-424`): a key
another process has bound, or a receipt another writer has returned, may vanish.
And `COUNT(DISTINCT e) >= n` is taken for a threshold on the one column in `e`,
whatever else `e` is made of (`sql/parser.py:350-365`).

## 6 What is not modelled

`PROJECT.json` lists every component.  The main omissions:

* FIXTURE and REPLAY modes of the pipeline, the initial load of a snapshot, HTTP
  routing, body limits, MCP transport and the calls to a model provider: input
  and output without state of their own.  `agent/datahub_discovery.py` and
  `integrations/` translate DataHub's documents; what the documents may say is in
  `GovernanceEvidence`, how they are read is not.
* Parsing and generation of SQL, which are sqlglot's, and the limits of bytes and
  nodes, which like that of levels only make a query unanalyzable.
* Hashes, MACs and canonical encodings are the equality of what they cover;
  witnesses, evidence for the reader of a decision, and receipts' texts are left
  out.  Proof objects of `evidence/derivation.py` and the re-validation of a
  finished search by another party repeat what is modelled.
* Cohort keys and the topology of cohorts, taken as values.
* The inside of DuckDB: time, row and byte limits.
* Benchmarks, demo, command line, web interface and scripts: drivers and clients.

Hazards without a property: a wall clock set back under the plain authorizer,
whose promise would need a bound on the step; the table of principals, which
only the fixture surface can grow; the history that a proof does not compare
with the ledger, which still counts releases; and a snapshot whose parts were
read at different moments, which DataHub gives no means to tell.

Approximations worth knowing: receipt and authorization ids are drawn at random
and taken to be unique; the plain authorizer's and the request path's clock is
not set back (those of the ledger and of the authorities are); the two locks
`_install` takes one after the other are one step, since nothing reads between
them what the other guards; ties between equally stale peers are broken in any
way; in `AuthorityChain` a search has any verdict, and the ledger's claim
succeeds; cost ties between candidates are broken by any order of keys.

## 7 Plan

Done: 1 ledger, budget and refinement; 2 the request path; 3 authorizer;
4 refresher; 5 API admission; 6 storage and keys; 7 governance evidence and the
chain of authorities, each with its proofs; 8 policy, analysis, search and repair.

Every safety and action property of the runs is proved.  Next, in this order:

1. The proof-bound authorizer composed with `DisclosureLedger`, as
   `SafeExecution` is, instead of a claim that succeeds.
2. The plain authorizer under a clock set back by a bounded step.
3. Cohort keys and their topology, which the releases of `DisclosureLedger` and
   the actions of `FutureGrammar` take as values.
