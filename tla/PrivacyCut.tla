------------------------------ MODULE PrivacyCut ------------------------------
(***************************************************************************)
(* The Counterfactual Privacy Cut Compiler: run_cpcc of repair/cpcc.py     *)
(* over DataHubCpccCandidateValidator of repair/validator.py.              *)
(*                                                                         *)
(* Each candidate, from the least cost up, is compiled, analysed again,    *)
(* judged by the policy engine, and given to the bounded search of         *)
(* ProspectiveSearch, which runs inside the validation with its own steps. *)
(* The search's variables are those of the last search.                    *)
(*                                                                         *)
(* A validation is [outcome, stage, chain, allowed, ppmc]: the failure     *)
(* stage, and the stages whose commitments it carries.                     *)
(***************************************************************************)
EXTENDS ProspectiveSearch, RepairCompiler

CONSTANTS
    Requests,           \* the calls of run_cpcc, each with its validator
    Governance,         \* the commitment of the snapshot's governance
    GroupSizes,         \* how many distinct values may be counted in a group
    NoStage, NoPlan, NoCall

(* A request: [query, subject, space, cohort, history, relevant,           *)
(* groupFields, aggregates, cohorts, edges, snapshot, trusted, bound,      *)
(* maxStates].                                                             *)
ASSUME RequestAssumption ==
    /\ \A r \in Requests : r.bound \in Nat /\ r.maxStates \in Nat \ {0}
    /\ GroupSizes \subseteq Nat

VARIABLES
    request,        \* the arguments; never changes
    candidates,     \* the candidates, in the order of their keys
    stage,          \* the stage of the validation, "searching" or "done"
    generated,      \* the query the current candidate compiles to
    plan,           \* and its QueryPlan, once it is parsed again
    chain,          \* the stages whose commitments the validation has
    validations,    \* validations so far; the current candidate follows
    repair          \* the CpccResult, once stage is "done"

searchVars == vars
cutVars == <<request, candidates, stage, generated, plan, chain, validations, repair>>

Stages ==
    <<"GENERATE", "REPARSE", "REGROUND", "REBUILD_EVIDENCE", "LOCAL_POLICY",
      "REBUILD_DISCLOSURE_STATE", "PPMC">>
Before(s) == {Stages[i] : i \in 1..(CHOOSE j \in DOMAIN Stages : Stages[j] = s) - 1}

(* CpccCandidate.ordering_key: cost, then the order of the hashes.         *)
Precedes(order, a, b) ==
    LET Hash(c) == CHOOSE i \in 1..Len(order) : order[i] = c IN
    Cheaper(a, b) \/ (~Cheaper(b, a) /\ Hash(a) < Hash(b))

Ranked(order, set) ==
    [i \in 1..Cardinality(set) |->
        CHOOSE c \in set : Cardinality({d \in set : Precedes(order, d, c)}) = i - 1]

Undecided == [status |-> "none", eligible |-> {}, selected |-> {}, failed |-> {}]

NoSearch ==
    /\ input = NoCall /\ actions = <<>> /\ allowed = {} /\ pc = "idle" /\ queue = <<>>
    /\ seen = {} /\ node = NoCall /\ next = 1 /\ counters = NoCounters
    /\ result = Unfinished

CutInit ==
    /\ request \in {r \in Requests :
            /\ ValidSpace(r.space)
            /\ Analyzable(r.query) /\ Grounded(Analyze(r.query))}
    /\ candidates \in {Ranked(order, Candidates(request.space)) :
                            order \in OrdersOf(Candidates(request.space))}
    /\ stage = "GENERATE"
    /\ generated = NoQuery /\ plan = NoPlan
    /\ chain = {}
    /\ validations = <<>>
    /\ repair = Undecided
    /\ NoSearch

candidate == candidates[Len(validations) + 1]
Outcome(i) == validations[i].outcome

(* run_cpcc: eligible.                                                     *)
Eligible(vals) == {candidates[i] : i \in {j \in DOMAIN vals : vals[j].outcome = "ELIGIBLE_SAFE"}}

Conclude(status, vals, selected, failed) ==
    /\ stage' = "done"
    /\ repair' = [status |-> status, eligible |-> Eligible(vals), selected |-> selected,
                  failed |-> failed]

(* CpccCandidateValidation.validate_chain                                  *)
ValidChain(v) ==
    IF v.outcome = "ELIGIBLE_SAFE"
    THEN /\ v.stage = NoStage /\ Before("PPMC") \cup {"PPMC"} \subseteq v.chain
         /\ v.allowed /\ v.ppmc = "NO_COUNTEREXAMPLE_WITHIN_BOUND"
    ELSE /\ ("PPMC" \in v.chain) = (v.ppmc # "none")
         /\ v.allowed => "LOCAL_POLICY" \in v.chain
         /\ v.stage # NoStage
         /\ Before(v.stage) \subseteq v.chain
         /\ v.chain \subseteq Before(v.stage) \cup {v.stage}
         /\ v.stage \in Before("LOCAL_POLICY") => ~v.allowed
         /\ IF v.outcome = "INELIGIBLE"
            THEN CASE v.stage = "LOCAL_POLICY" -> "LOCAL_POLICY" \in v.chain /\ ~v.allowed
                   [] v.stage = "REBUILD_DISCLOSURE_STATE" -> v.allowed
                   [] v.stage = "PPMC" -> v.allowed /\ v.ppmc = "PROSPECTIVE_UNSAFE"
                   [] OTHER -> ~v.allowed
            ELSE /\ v.stage \in {"REBUILD_DISCLOSURE_STATE", "PPMC"} => v.allowed
                 /\ v.ppmc \in IF v.stage = "PPMC" THEN {"none", "FAIL_CLOSED"} ELSE {"none"}

(* What a bug would make of it: a candidate that is uncertain is passed    *)
(* over.                                                                   *)
MutEndsTheRun(v) == ~ValidChain(v)

(* run_cpcc: an invalid validation or an uncertain one ends the run.       *)
EndsTheRun(v) == ~ValidChain(v) \/ v.outcome = "FAIL_CLOSED"

(* The validator returns to run_cpcc's loop over the candidates.           *)
Answer(outcome, failure, commitments, allows, ppmc) ==
    LET v == [outcome |-> outcome, stage |-> failure, chain |-> commitments,
              allowed |-> allows, ppmc |-> ppmc]
        vals == IF ValidChain(v) THEN Append(validations, v) ELSE validations
    IN  /\ validations' = vals
        /\ generated' = NoQuery /\ plan' = NoPlan
        /\ chain' = {}
        /\ \/ EndsTheRun(v) /\ Conclude("FAIL_CLOSED", vals, {}, {candidate})
           \/ /\ ~EndsTheRun(v) /\ Len(vals) < Len(candidates)
              /\ stage' = "GENERATE" /\ UNCHANGED repair
           \/ /\ ~EndsTheRun(v) /\ Len(vals) = Len(candidates)
              /\ IF Eligible(vals) = {}
                 THEN Conclude("NO_ELIGIBLE_REPAIR", vals, {}, {})
                 ELSE Conclude("REPAIR_FOUND", vals,
                               {candidates[Min({i \in DOMAIN vals :
                                            vals[i].outcome = "ELIGIBLE_SAFE"})]}, {})
        /\ UNCHANGED <<request, candidates>>

(* The next stage, with the commitment of this one.                        *)
Pass(following) ==
    /\ stage' = following /\ chain' = chain \cup {stage}
    /\ UNCHANGED <<request, candidates, validations, repair>>

-----------------------------------------------------------------------------
(* DataHubCpccCandidateValidator.__call__                                  *)

Generate ==
    /\ stage = "GENERATE"
    /\ \E compiled \in {Compile(request.query, candidate, request.subject)} :
        \/ compiled = {} /\ Answer("INELIGIBLE", "GENERATE", chain, FALSE, "none")
        \/ /\ generated' \in {q \in compiled : Analyzable(q)}
           /\ Pass("REPARSE") /\ UNCHANGED plan
    /\ UNCHANGED searchVars

Reparse ==
    /\ stage = "REPARSE" /\ Analyzable(generated)
    /\ plan' = Analyze(generated)
    /\ Pass("REGROUND") /\ UNCHANGED generated
    /\ UNCHANGED searchVars

Reground ==
    /\ stage = "REGROUND" /\ Grounded(plan)
    /\ Pass("REBUILD_EVIDENCE") /\ UNCHANGED <<generated, plan>>
    /\ UNCHANGED searchVars

(* The evidence of one snapshot at one time is that of every candidate.    *)
RebuildEvidence ==
    /\ stage = "REBUILD_EVIDENCE"
    /\ Pass("LOCAL_POLICY") /\ UNCHANGED <<generated, plan>>
    /\ UNCHANGED searchVars

EngineAllows(r, p) == PolicyDecision(PlanInput(p, r.subject.column)).decision = "ALLOW"

LocalPolicy ==
    /\ stage = "LOCAL_POLICY"
    /\ IF EngineAllows(request, plan)
       THEN Pass("REBUILD_DISCLOSURE_STATE") /\ UNCHANGED <<generated, plan>>
       ELSE Answer("INELIGIBLE", stage, chain \cup {stage}, FALSE, "none")
    /\ UNCHANGED searchVars

(* The call of check_prospective_privacy for a request and its new plan.   *)
CallFor(r, p) ==
    [ctx |-> [base |-> [semantic |-> SemanticOf(p), cohort |-> r.cohort],
              snapshot |-> r.snapshot, relevant |-> r.relevant,
              groupFields |-> r.groupFields, aggregates |-> r.aggregates,
              cohorts |-> r.cohorts, edges |-> r.edges,
              subjects |-> SubjectDomain(p, r.subject.column)],
     history |-> r.history, governance |-> Governance,
     binding |-> [governance |-> Governance, trusted |-> r.trusted],
     bound |-> r.bound, maxStates |-> r.maxStates]

(* The semantic release, its scope and the Disclosure Twin.                *)
Rebuildable(r, p) ==
    /\ Releasable(p) /\ HasSubjectDomain(p, r.subject.column)
    /\ Representable(InitialState(CallFor(r, p)).released)

RebuildState ==
    /\ stage = "REBUILD_DISCLOSURE_STATE" /\ Rebuildable(request, plan)
    /\ Pass("PPMC") /\ UNCHANGED <<generated, plan>>
    /\ UNCHANGED searchVars

(* Whether the oracle, asked to replay the release, decides as the policy  *)
(* engine decided on the plan.                                             *)
ReplayAgrees(r, p, subjects) ==
    PolicyDecision(PolicyInputOf(SemanticOf(p), subjects))
        = PolicyDecision(PlanInput(p, r.subject.column))

(* The oracle's governance covers the declared future, and the replay is   *)
(* reconstructed from it.                                                  *)
Searchable(r, p, ctx) ==
    /\ r.relevant \cup r.groupFields \subseteq Governed
    /\ ValidContext(ctx)
    /\ Reconstructible(ctx.base.semantic, ctx.subjects)
    /\ ReplayAgrees(r, p, ctx.subjects)

BeginSearch(call, grammar) ==
    /\ input' = call
    /\ actions' \in OrdersOf(grammar)
    /\ allowed' = AllowedAmong(grammar, call.ctx)
    /\ pc' = "start"
    /\ queue' = <<>> /\ seen' = {} /\ next' = 1
    /\ node' = Root(call)
    /\ counters' = NoCounters
    /\ result' = Unfinished

Consult ==
    /\ stage = "PPMC"
    /\ \E call \in {CallFor(request, plan)} :
        /\ Searchable(request, plan, call.ctx)
        /\ BeginSearch(call, InstantiateActions(call.ctx))
    /\ stage' = "searching"
    /\ UNCHANGED <<request, candidates, generated, plan, chain, validations, repair>>

(* check_prospective_privacy runs, and returns.                            *)
Searching == stage = "searching" /\ Next /\ UNCHANGED cutVars

OutcomesOf(status) ==
    CASE status = "NO_COUNTEREXAMPLE_WITHIN_BOUND" -> {"ELIGIBLE_SAFE"}
      [] status = "PROSPECTIVE_UNSAFE" -> {"INELIGIBLE"}
      [] status = "FAIL_CLOSED" -> {"FAIL_CLOSED"}

Searched ==
    /\ stage = "searching" /\ pc = "done"
    /\ \E outcome \in OutcomesOf(result.status) :
        Answer(outcome, IF outcome = "ELIGIBLE_SAFE" THEN NoStage ELSE "PPMC",
               chain \cup {"PPMC"}, TRUE, result.status)
    /\ pc' = "idle" /\ result' = Unfinished
    /\ UNCHANGED <<input, actions, allowed, queue, seen, node, next, counters>>

(* Every stage is under an except clause of its own: it fails when what it *)
(* needs does not hold, and may fail otherwise.  The stages after          *)
(* LOCAL_POLICY are those of candidates it allowed.                        *)
StageFails ==
    /\ stage \in {Stages[i] : i \in DOMAIN Stages}
    /\ Answer("FAIL_CLOSED", stage, chain, "LOCAL_POLICY" \in chain, "none")
    /\ UNCHANGED searchVars

(* The validator itself raises, or answers for another candidate.          *)
ValidatorFails ==
    /\ stage = "GENERATE"
    /\ Conclude("FAIL_CLOSED", validations, {}, {candidate})
    /\ UNCHANGED <<request, candidates, generated, plan, chain, validations>>
    /\ UNCHANGED searchVars

CutNext ==
    \/ Generate \/ Reparse \/ Reground \/ RebuildEvidence \/ LocalPolicy \/ RebuildState
    \/ Consult \/ Searching \/ Searched \/ StageFails \/ ValidatorFails

CutSpec == CutInit /\ [][CutNext]_<<vars, cutVars>>

-----------------------------------------------------------------------------
(* What the selection claims, without the order in which it works: a       *)
(* candidate is safe when its query is allowed by the policy engine and no *)
(* path of admissible releases from it meets a forbidden state.            *)
AllClean(call, reached) ==
    \A n \in 0..call.bound : \A x \in reached[n] : CleanIn(call, x)

SafeCall(r, p, call) ==
    /\ Searchable(r, p, call.ctx)
    /\ AllClean(call, Paths(call, InstantiateActions(call.ctx)))

SafePlan(r, p) ==
    EngineAllows(r, p) /\ Rebuildable(r, p) /\ SafeCall(r, p, CallFor(r, p))

SafeIn(r) ==
    {c \in Candidates(r.space) :
        \E q \in Compile(r.query, c, r.subject) : Analyzable(q) /\ SafePlan(r, Analyze(q))}

(* The repair selected is safe, and of all singles and pairs of the space  *)
(* none that costs less is; and that there is none means that none is safe *)
(* (run_cpcc: "Validate the entire finite space before selecting the       *)
(* minimum-cost safe repair").                                             *)
SelectionIsOptimal ==
    repair.status \in {"REPAIR_FOUND", "NO_ELIGIBLE_REPAIR"} =>
        \A safe \in {SafeIn(request)} :
            /\ (safe = {}) <=> (repair.selected = {})
            /\ \A c \in repair.selected : c \in safe /\ \A d \in safe : ~Cheaper(d, c)

(* A repair only takes away: what it shows is what the query showed, of    *)
(* columns the query showed, and a group that survives its HAVING would    *)
(* have survived the query's (the docstring of enforce_minimum_group_size: *)
(* it "never removes arbitrary clauses").                                  *)
RepairWithdraws ==
    generated # NoQuery =>
        /\ UNION {e.sources : e \in Analyze(generated).exposures}
                \subseteq UNION {e.sources : e \in Analyze(request.query).exposures}
        /\ \A values \in [Bounds(generated) \cup Bounds(request.query) -> GroupSizes],
              other \in BOOLEAN :
                Survives(generated, values, other) => Survives(request.query, values, other)

(* A grouped release of sensitive values that the policy engine allows on  *)
(* the word of thresholds on the subject itself has no group of fewer      *)
(* subjects than the policy's minimum, whatever the rest of its HAVING     *)
(* clause says (sql/parser.py: what must hold "for a group to survive").   *)
(* Where the analysis takes the count of another expression of the column  *)
(* for such a threshold, nothing is claimed.                               *)
AllowedGroupsAreLarge ==
    /\ stage = "REBUILD_DISCLOSURE_STATE"
    /\ GroupsSensitive(PlanInput(plan, request.subject.column))
    /\ \A h \in TrustedBounds(generated) : CountsItself(generated, h)
    =>
    \A size \in GroupSizes, values \in [Bounds(generated) -> GroupSizes], other \in BOOLEAN :
        /\ MayHave(generated, values, request.subject.column, size)
        /\ Survives(generated, values, other)
        => size >= MinimumGroupSize

(* The oracle of the search rebuilds from the semantic release the very    *)
(* decision the policy engine took on the plan, whenever it can rebuild    *)
(* one: its replay check never fails (the error "direct PolicyEngine and   *)
(* PPMC local-oracle replay decisions diverged").                          *)
KernelsAgree ==
    stage = "PPMC" =>
        \/ ~Reconstructible(SemanticOf(plan), SubjectDomain(plan, request.subject.column))
        \/ ReplayAgrees(request, plan, SubjectDomain(plan, request.subject.column))
=============================================================================
