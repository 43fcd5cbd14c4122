---------------------------- MODULE AuthorityChain ----------------------------
(***************************************************************************)
(* From an agent's proposal to the execution of its query: the authorities *)
(* of agent/ (proposal, governance trust, F6 and PPMC, pre-execution       *)
(* proof) and the strict proof-bound authorizer of execute/.               *)
(*                                                                         *)
(* Each authority is a function of what it is given and of a clock it      *)
(* samples several times in a call, refusing a sample before its last one. *)
(* Requests run concurrently, the clock may be set back, the governance    *)
(* snapshot, the warehouse and the policy may change, and a request may    *)
(* hand an authority what another one obtained for another request.        *)
(* Hashes and MACs are injective: an artifact is its own hash.             *)
(***************************************************************************)
EXTENDS GovernanceEvidence

CONSTANTS
    Requests,
    IdentityOf,         \* the identity each request runs under
    PurposeOf,          \* its authorized purpose, and subject key
    Drafts,             \* the [sql, purpose] its planner may author
    PlanOf,             \* the columns each SQL statement references
    AssetsOf,           \* what DataHub holds, for each version of it
    Permitted,          \* the <<sql, assets version>> the policy allows
    Changes,            \* what may change: some of the names of World fields
    EvidenceTtl,        \* datahub_max_age_seconds
    ProofTtl,           \* _MAX_PROOF_TTL_SECONDS
    CapabilityTtl,      \* ttl_seconds
    Skew,               \* the second a token may be ahead of the clock
    MaxNow,             \* bound on time
    MaxDetours,         \* bound on clocks set back, changes and adaptations
    None

ASSUME ChainAssumption ==
    /\ {EvidenceTtl, ProofTtl, CapabilityTtl} \subseteq Nat \ {0}
    /\ {Skew, MaxNow, MaxDetours} \subseteq Nat

(* The urn of a relationship is not the dataset that stands for what is    *)
(* missing: no urn begins with "@".                                        *)
ASSUME UrnAssumption ==
    \A assets \in {AssetsOf[a] : a \in DOMAIN AssetsOf} : \A d \in DOMAIN assets :
        \A f \in DOMAIN assets[d].labels : \A r \in assets[d].lineage[f].relations :
            r.urn # MissingLineage

(* A column is a ColumnRef: the dataset and its field.                     *)
ASSUME PlanAssumption ==
    \A s \in DOMAIN PlanOf : \A column \in PlanOf[s] : column = <<column[1], column[2]>>

VARIABLES
    now,        \* the clock every component reads
    world,      \* [detours, installed, authority, warehouse, policy]
    last,       \* the last sample of each authority, 0 for none
    req,        \* what each request holds, and the call it is in
    consumed,   \* the capabilities the authorizer remembers as consumed
    executed    \* what was executed

chainVars == <<now, world, last, req, consumed, executed>>

Authorities == {"proposal", "trust", "ppmc", "proof"}
Statuses == {"NO_COUNTEREXAMPLE_WITHIN_BOUND", "PROSPECTIVE_UNSAFE", "FAIL_CLOSED"}

(* A DataHubSnapshot is [assets, observed]; the evidence built from it     *)
(* expires a fixed time later.                                             *)
Expiry(snapshot) == snapshot.observed + EvidenceTtl
FreshAt(snapshot, t) == snapshot.observed <= t /\ t < Expiry(snapshot)

SqlStatements == DOMAIN PlanOf
CatalogOf(assets) == Catalog(AssetsOf[assets])

(* For each statement and assets: every column resolves; its governance    *)
(* facts are trusted.                                                      *)
ResolvedIn ==
    {x \in SqlStatements \X DOMAIN AssetsOf :
        \A column \in PlanOf[x[1]] : Resolved(CatalogOf(x[2]), column)}
GroundedIn ==
    {x \in SqlStatements \X DOMAIN AssetsOf :
        FactsTrusted(Claims(CatalogOf(x[2])), CatalogOf(x[2]), PlanOf[x[1]])}

(* Columns a discovered context shows: those of the catalog.               *)
Discovered(sql, assets) ==
    \A column \in PlanOf[sql] :
        column[1] \in DOMAIN AssetsOf[assets]
          /\ column[2] \in DOMAIN AssetsOf[assets][column[1]].labels

NoRequest ==
    [stage |-> "propose", proposal |-> None, evaluation |-> None, trust |-> None,
     check |-> None, proof |-> None, capability |-> None, draft |-> None]

(* A snapshot was discovered; the requests that are made, of those there   *)
(* may be, are in stage "propose".                                         *)
ChainInit ==
    /\ now \in 1..MaxNow
    /\ \E a \in DOMAIN AssetsOf, observed \in 1..now, detours \in 0..MaxDetours :
        LET snapshot == [assets |-> a, observed |-> observed] IN
        world = [detours |-> detours, installed |-> snapshot, authority |-> snapshot,
                 warehouse |-> 0, policy |-> 0]
    /\ last = [a \in Authorities |-> 0]
    /\ req \in [Requests -> {[NoRequest EXCEPT !.stage = s] : s \in {"propose", "absent"}}]
    /\ consumed = {}
    /\ executed = {}

-----------------------------------------------------------------------------
(* The environment.                                                        *)

Tick ==
    /\ now < MaxNow
    /\ now' = now + 1
    /\ UNCHANGED <<world, last, req, consumed, executed>>

Detour(w) ==
    /\ world.detours < MaxDetours
    /\ world' = [w EXCEPT !.detours = @ + 1]

SetBack ==
    /\ now > 1
    /\ now' = now - 1
    /\ Detour(world)
    /\ UNCHANGED <<last, req, consumed, executed>>

(* A refresh installs a newer snapshot; the query's data or the policy     *)
(* changes, once.                                                          *)
WorldChanges ==
    /\ \/ /\ "installed" \in Changes /\ world.installed.observed < now
          /\ \E assets \in DOMAIN AssetsOf :
                Detour([world EXCEPT !.installed = [assets |-> assets, observed |-> now]])
       \/ \E field \in {"warehouse", "policy"} \cap Changes :
            world[field] = 0 /\ Detour([world EXCEPT ![field] = 1])
    /\ UNCHANGED <<now, last, req, consumed, executed>>

(* A new AgentProposalAuthority for the snapshot installed since, between  *)
(* calls.                                                                  *)
Rediscover ==
    /\ world.authority # world.installed
    /\ \A r \in Requests : req[r].stage \notin {"evaluate issue", "evaluate return"}
    /\ world' = [world EXCEPT !.authority = world.installed]
    /\ last' = [last EXCEPT !["proposal"] = 0]
    /\ UNCHANGED <<now, req, consumed, executed>>

-----------------------------------------------------------------------------
(* One step of a call of r: before is what is checked before the clock of  *)
(* authority a is sampled and after what is checked of the sample; if      *)
(* either fails, or the sample is before the last one, the call is refused. *)

Refused(r) == req' = [req EXCEPT ![r].stage = "refused", ![r].draft = None]

(* What a bug would make of it: a reading before the last one is taken.    *)
MutSampled(r, a, before, after, update) ==
    /\ last' = [last EXCEPT ![a] = IF now >= @ THEN now ELSE @]
    /\ IF before /\ after THEN req' = [req EXCEPT ![r] = update] ELSE Refused(r)
    /\ UNCHANGED <<now, world, consumed, executed>>

Sampled(r, a, before, after, update) ==
    /\ IF before /\ now >= last[a]
       THEN /\ last' = [last EXCEPT ![a] = now]
            /\ IF after THEN req' = [req EXCEPT ![r] = update] ELSE Refused(r)
       ELSE Refused(r) /\ UNCHANGED last
    /\ UNCHANGED <<now, world, consumed, executed>>

(* An authority takes only what was sealed by the one before it, from any  *)
(* request that holds it.                                                  *)
Holders(field) == {q \in Requests : req[q][field] # None}
HeldEvaluations == {req[q].evaluation : q \in Holders("evaluation")}
HeldTrusts == {req[q].trust : q \in Holders("trust")}
HeldChecks == {req[q].check : q \in Holders("check")}
HeldProofs == {req[q].proof : q \in Holders("proof")}
HeldCapabilities == {req[q].capability : q \in Holders("capability")}

Begin(r, stage, draft) == [req[r] EXCEPT !.stage = stage, !.draft = draft]
Return(r, stage, field) ==
    [req[r] EXCEPT !.stage = stage, ![field] = req[r].draft, !.draft = None]

AgentProposal(draft, context, iteration) ==
    [sql |-> draft.sql, purpose |-> draft.purpose, context |-> context, iteration |-> iteration]

(* GovernedAgent.propose: the planner authors SQL over the columns that    *)
(* were discovered.                                                        *)
Propose(r) ==
    /\ req[r].stage = "propose"
    /\ \E d \in Drafts[r] :
        /\ Discovered(d.sql, world.authority.assets)
        /\ req' = [req EXCEPT ![r].stage = "evaluate",
                              ![r].proposal = AgentProposal(d, world.authority, 0)]
    /\ UNCHANGED <<now, world, last, consumed, executed>>

(* GovernedAgent.adapt, after feedback on a refusal, under the same goal   *)
(* and context.                                                            *)
Adapt(r) ==
    /\ req[r].stage = "refused" /\ req[r].proposal # None
    /\ Detour(world)
    /\ \E d \in Drafts[r] :
        /\ Discovered(d.sql, req[r].proposal.context.assets)
        /\ req' = [req EXCEPT ![r] =
                    [NoRequest EXCEPT !.stage = "evaluate",
                        !.proposal = AgentProposal(d, req[r].proposal.context,
                                                   req[r].proposal.iteration + 1)]]
    /\ UNCHANGED <<now, last, consumed, executed>>

-----------------------------------------------------------------------------
(* AgentProposalAuthority._evaluate_impl: three samples.  The policy need  *)
(* not allow the query.                                                    *)

PackagePolicy == 0

AgentEvaluation(p, snapshot, purpose) ==
    [proposal |-> p, snapshot |-> snapshot, purpose |-> purpose, policy |-> PackagePolicy,
     allow |-> <<p.sql, snapshot.assets>> \in Permitted]

Evaluate(r) ==
    /\ req[r].stage = "evaluate"
    /\ \E q \in Holders("proposal") :
        LET p == req[q].proposal  g == world.authority IN
        Sampled(r, "proposal", TRUE,
            /\ FreshAt(g, now)
            /\ world.policy = PackagePolicy
            /\ p.purpose = PurposeOf[r]
            /\ p.context = g
            /\ <<p.sql, g.assets>> \in ResolvedIn,
            Begin(r, "evaluate issue", AgentEvaluation(p, g, PurposeOf[r])))

EvaluateIssue(r) ==
    /\ req[r].stage = "evaluate issue"
    /\ Sampled(r, "proposal", TRUE, FreshAt(req[r].draft.snapshot, now),
               Begin(r, "evaluate return", req[r].draft))

EvaluateReturn(r) ==
    /\ req[r].stage = "evaluate return"
    /\ Sampled(r, "proposal", TRUE, FreshAt(req[r].draft.snapshot, now),
               Return(r, "bind", "evaluation"))

-----------------------------------------------------------------------------
(* DataHubGovernanceTrustAuthority._bind_impl: three samples.              *)

Facts(evaluation) == <<evaluation.proposal.sql, evaluation.snapshot.assets>>

Bind(r) ==
    /\ req[r].stage = "bind"
    /\ \E e \in HeldEvaluations :
        Sampled(r, "trust", TRUE,
            FreshAt(e.snapshot, now) /\ Facts(e) \in GroundedIn,
            Begin(r, "bind issue", [evaluation |-> e, issued |-> 0]))

BindIssue(r) ==
    /\ req[r].stage = "bind issue"
    /\ Sampled(r, "trust", TRUE, FreshAt(req[r].draft.evaluation.snapshot, now),
               Begin(r, "bind return", [req[r].draft EXCEPT !.issued = now]))

BindReturn(r) ==
    /\ req[r].stage = "bind return"
    /\ Sampled(r, "trust", TRUE, FreshAt(req[r].draft.evaluation.snapshot, now),
               Return(r, "clear", "trust"))

-----------------------------------------------------------------------------
(* AgentPpmcAuthority._check_impl, with the clearance of f6_governance.py  *)
(* and its own search: four samples.  The DisclosureState and the grammar  *)
(* are built by the caller, for some evaluation.                           *)

DisclosureState(q) ==
    [identity |-> IdentityOf[q], purpose |-> PurposeOf[q],
     snapshot |-> req[q].evaluation.snapshot, warehouse |-> world.warehouse]
GrammarOf(e, state) == [base |-> PlanOf[e.proposal.sql], state |-> state]

Clearance(e, t, state, grammar) ==
    [evaluation |-> e, trust |-> t, state |-> state, grammar |-> grammar,
     verified |-> now, started |-> 0, status |-> "FAIL_CLOSED"]

(* What a bug would make of it: the trust may be that of another query.    *)
MutCleared(e, t, s) ==
    t.evaluation.snapshot = e.snapshot /\ s.purpose = e.purpose /\ s.snapshot = e.snapshot

(* F6GovernanceAuthority._clear_impl, what it compares.                    *)
Cleared(e, t, s) ==
    t.evaluation = e /\ s.purpose = e.purpose /\ s.snapshot = e.snapshot

Clear(r) ==
    /\ req[r].stage = "clear"
    /\ \E e, base \in HeldEvaluations, t \in HeldTrusts, qs \in Holders("evaluation") :
        LET state == DisclosureState(qs) IN
        Sampled(r, "ppmc",
            Cleared(e, t, state),
            /\ now >= t.issued
            /\ FreshAt(e.snapshot, now)
            /\ Facts(e) \in GroundedIn,
            Begin(r, "clear return", Clearance(e, t, state, GrammarOf(base, state))))

ClearReturn(r) ==
    /\ req[r].stage = "clear return"
    /\ Sampled(r, "ppmc", TRUE, now < Expiry(req[r].draft.evaluation.snapshot),
               Begin(r, "search", req[r].draft))

(* The search itself is the subject of ProspectiveSearch: any verdict.     *)
Search(r) ==
    LET draft == req[r].draft  e == draft.evaluation IN
    /\ req[r].stage = "search"
    /\ \E status \in Statuses :
        Sampled(r, "ppmc",
            /\ draft.grammar.base = PlanOf[e.proposal.sql]
            /\ draft.grammar.state = draft.state
            /\ e.policy = PackagePolicy,
            now >= draft.verified /\ now < Expiry(e.snapshot),
            Begin(r, "search return", [draft EXCEPT !.started = now, !.status = status]))

SearchReturn(r) ==
    /\ req[r].stage = "search return"
    /\ Sampled(r, "ppmc", TRUE, now < Expiry(req[r].draft.evaluation.snapshot),
               Return(r, "prove", "check"))

-----------------------------------------------------------------------------
(* AgentPreExecutionProofAuthority._build_impl and the proof it has built: *)
(* one sample.                                                             *)

Earliest(a, b) == IF a <= b THEN a ELSE b

(* What a bug would make of it: a proof lives its full time.               *)
MutProofExpiry(issued, snapshot) == issued + ProofTtl

ProofExpiry(issued, snapshot) == Earliest(issued + ProofTtl, Expiry(snapshot))

(* What is compared before the sample.                                     *)
ProofBound(p, e, c) ==
    p = e.proposal /\ c.evaluation = e /\ c.status = "NO_COUNTEREXAMPLE_WITHIN_BOUND"

(* _require_state_alignment, _require_grammar_alignment and                *)
(* _require_ppmc_alignment.                                                *)
StateAligned(state, identity, e) ==
    state.identity = identity /\ state.purpose = e.purpose /\ state.snapshot = e.snapshot
GrammarAligned(state, grammar) == grammar.state = state
SearchAligned(c) ==
    c.status = "NO_COUNTEREXAMPLE_WITHIN_BOUND" /\ c.trust.evaluation.snapshot = c.state.snapshot

PrivacyProof(identity, p, e, c) ==
    [identity |-> identity, sql |-> p.sql, evaluation |-> e, check |-> c,
     issued |-> now, expires |-> ProofExpiry(now, e.snapshot)]

(* What is checked of the sample, with build_preexecution_privacy_proof:   *)
(* its own policy must allow the query.                                    *)
Provable(identity, e, c) ==
    /\ c.started <= now
    /\ now < Expiry(c.evaluation.snapshot)
    /\ FreshAt(e.snapshot, now)
    /\ e.allow
    /\ StateAligned(c.state, identity, e)
    /\ GrammarAligned(c.state, c.grammar)
    /\ SearchAligned(c)

Prove(r) ==
    /\ req[r].stage = "prove"
    /\ \E e \in HeldEvaluations, c \in HeldChecks :
        Sampled(r, "proof",
            ProofBound(req[r].proposal, e, c) /\ e.policy = PackagePolicy,
            Provable(IdentityOf[r], e, c),
            [req[r] EXCEPT !.stage = "issue",
                           !.proof = PrivacyProof(IdentityOf[r], req[r].proposal, e, c)])

-----------------------------------------------------------------------------
(* The strict ProofBoundExecutionAuthorizer.  It has no guard against a    *)
(* clock set back, and tolerates a token from slightly ahead.              *)

ValidAt(token, t) == token.issued <= t + Skew /\ t < token.expires

(* verify_execution_privacy_proof, require_agent_ppmc_provenance and       *)
(* _require_current_warehouse_snapshot: against what is recomputed now.    *)
MatchesRuntime(proof, identity, sql, purpose) ==
    /\ proof.identity = identity /\ proof.sql = sql
    /\ proof.evaluation.purpose = purpose
    /\ proof.evaluation.snapshot = world.installed
    /\ proof.evaluation.policy = world.policy
    /\ proof.check.state.warehouse = world.warehouse

(* require_agent_ppmc_provenance: the proof and the chain it was built on  *)
(* agree.                                                                  *)
Provenanced(proof) ==
    /\ proof.check.evaluation = proof.evaluation
    /\ proof.sql = proof.evaluation.proposal.sql
    /\ proof.issued < Expiry(proof.check.evaluation.snapshot)
    /\ proof.expires <= Expiry(proof.check.evaluation.snapshot)

(* The current plan, context, binding and decision, and the proof.         *)
Verified(r, proof) ==
    LET sql == req[r].proposal.sql IN
    /\ FreshAt(world.installed, now)
    /\ <<sql, world.installed.assets>> \in ResolvedIn \cap Permitted
    /\ ValidAt(proof, now)
    /\ MatchesRuntime(proof, IdentityOf[r], sql, PurposeOf[r])
    /\ Provenanced(proof)

Capability(r, proof) ==
    [request |-> r, sql |-> req[r].proposal.sql, proof |-> proof, issued |-> now,
     expires |-> Earliest(now + CapabilityTtl, proof.expires)]

Step(r, condition, update) ==
    /\ IF condition THEN req' = [req EXCEPT ![r] = update] ELSE Refused(r)
    /\ UNCHANGED <<now, world, last>>

(* issue, up to the claim of the disclosure commitment, which may wait.    *)
Issue(r) ==
    /\ req[r].stage = "issue"
    /\ \E proof \in HeldProofs :
        Step(r, Verified(r, proof) /\ Capability(r, proof).expires > now,
             Begin(r, "claim", Capability(r, proof)))
    /\ UNCHANGED <<consumed, executed>>

Claim_(r) ==
    /\ req[r].stage = "claim"
    /\ Step(r, TRUE, Return(r, "consume", "capability"))
    /\ UNCHANGED <<consumed, executed>>

(* verify_and_consume: what depends on the clock read at its start.        *)
Consume(r) ==
    /\ req[r].stage = "consume"
    /\ \E capability \in HeldCapabilities, proof \in HeldProofs :
        Step(r,
            /\ ValidAt(capability, now)
            /\ capability.sql = req[r].proposal.sql
            /\ capability.proof.identity = IdentityOf[r]
            /\ capability.proof.evaluation.snapshot = world.installed
            /\ Verified(r, proof)
            /\ capability.proof = proof
            /\ capability.expires <= proof.expires,
            Begin(r, "revalidate",
                [capability |-> capability, at |-> now, warehouse |-> world.warehouse,
                 installed |-> world.installed]))
    /\ UNCHANGED <<consumed, executed>>

(* The governance is still the same, and fresh.  The ledger is then asked  *)
(* whether the disclosure was claimed for the capability, which may wait.  *)
Revalidate(r) ==
    LET draft == req[r].draft IN
    /\ req[r].stage = "revalidate"
    /\ Step(r,
        /\ draft.capability.proof.evaluation.snapshot = world.installed
        /\ FreshAt(world.installed, now),
        Begin(r, "commit", [draft EXCEPT !.installed = world.installed]))
    /\ UNCHANGED <<consumed, executed>>

(* The capability is not among those consumed, of which those expired when *)
(* the call began are forgotten.  Nothing else is looked at again.         *)
Commit(r) ==
    LET draft == req[r].draft
        remembered == {c \in consumed : c.expires > draft.at}
        accepted == draft.capability \notin remembered
    IN
    /\ req[r].stage = "commit"
    /\ Step(r, accepted, [req[r] EXCEPT !.stage = "executed", !.draft = None])
    /\ IF accepted
       THEN /\ consumed' = remembered \cup {draft.capability}
            /\ executed' = executed \cup
                {[by |-> r, capability |-> draft.capability, at |-> draft.at,
                  warehouse |-> draft.warehouse, installed |-> draft.installed]}
       ELSE UNCHANGED <<consumed, executed>>

RequestStep(r) ==
    \/ Propose(r) \/ Adapt(r)
    \/ Evaluate(r) \/ EvaluateIssue(r) \/ EvaluateReturn(r)
    \/ Bind(r) \/ BindIssue(r) \/ BindReturn(r)
    \/ Clear(r) \/ ClearReturn(r) \/ Search(r) \/ SearchReturn(r)
    \/ Prove(r)
    \/ Issue(r) \/ Claim_(r) \/ Consume(r) \/ Revalidate(r) \/ Commit(r)

ChainNext ==
    \/ Tick \/ SetBack \/ WorldChanges \/ Rediscover
    \/ \E r \in Requests : RequestStep(r)

ChainSpec == ChainInit /\ [][ChainNext]_chainVars

-----------------------------------------------------------------------------
(* What is executed rests upon one chain of artifacts, all for one query,  *)
(* one snapshot, one identity and one purpose, whatever a request hands to *)
(* the authorities: it was evaluated and allowed, its governance is        *)
(* trusted, the search that cleared it started from its own state, and the *)
(* warehouse had not changed when it was revalidated                       *)
(* (docs/vnext/proof-bound-execution-note.md).                             *)
ExecutionIsBound ==
    \A x \in executed :
        LET proof == x.capability.proof
            e == proof.evaluation
            c == proof.check
        IN  /\ c.evaluation = e /\ c.trust.evaluation = e
            /\ c.status = "NO_COUNTEREXAMPLE_WITHIN_BOUND"
            /\ proof.identity = IdentityOf[x.by] /\ c.state.identity = IdentityOf[x.by]
            /\ e.purpose = PurposeOf[x.by] /\ c.state.purpose = e.purpose
            /\ x.capability.sql = e.proposal.sql
            /\ c.grammar.base = PlanOf[e.proposal.sql] /\ c.grammar.state = c.state
            /\ e.snapshot = x.installed /\ c.state.snapshot = x.installed
            /\ c.state.warehouse = x.warehouse
            /\ <<e.proposal.sql, e.snapshot.assets>> \in Permitted \cap GroundedIn

(* Nothing issued on the way outlives the evidence it rests upon, although *)
(* each authority reads the clock at other moments and nobody passes an    *)
(* expiry on; and an execution is admitted, by the clock read when         *)
(* verify_and_consume began, while its proof and the evidence its trust    *)
(* was bound to are valid.  How long the call then waits for the ledger    *)
(* and the lock before it consumes, nothing bounds.                        *)
NothingOutlivesEvidence ==
    /\ \A r \in Requests :
        /\ req[r].proof # None =>
            req[r].proof.expires <= Expiry(req[r].proof.evaluation.snapshot)
        /\ req[r].capability # None =>
            req[r].capability.expires <= Expiry(req[r].capability.proof.evaluation.snapshot)
    /\ \A x \in executed :
        LET proof == x.capability.proof IN
        x.at < proof.expires /\ x.at < Expiry(proof.check.trust.evaluation.snapshot)

ReturnsFresh(r) ==
    /\ req'[r].evaluation \notin {None, req[r].evaluation} =>
        FreshAt(req'[r].evaluation.snapshot, last'["proposal"])
    /\ req'[r].trust \notin {None, req[r].trust} =>
        FreshAt(req'[r].trust.evaluation.snapshot, last'["trust"])
    /\ req'[r].check \notin {None, req[r].check} =>
        FreshAt(req'[r].check.evaluation.snapshot, last'["ppmc"])

(* Evidence an authority has seen expired does not come back to life: what *)
(* it returns rests upon a snapshot that was fresh at the latest time it   *)
(* has ever read, although the clock may be set back between the samples   *)
(* of a call and between calls, of this request or of another one.         *)
NothingIsRevived == [][\A r \in Requests : ReturnsFresh(r)]_chainVars

(* What governance is complete enough to be trusted can be told from what  *)
(* DataHub answered: the answer about lineage was whole, and every column  *)
(* it names is known and has a category (context/datahub.py,               *)
(* evidence/datahub.py and agent/governance_trust.py agree).               *)
Whole(assets, column) ==
    LET payload == assets[column[1]].lineage[column[2]] IN
    /\ ~payload.truncated
    /\ assets[column[1]].labels[column[2]] # {}
    /\ \A r \in payload.relations :
        /\ r.columns # {}
        /\ \A c \in r.columns :
            <<r.urn, c>> = column \/ (Known(assets, r.urn, c) /\ assets[r.urn].labels[c] # {})

GroundedIsWhole ==
    \A r \in Requests :
        LET e == req[r].evaluation IN
        e # None =>
            /\ \A column \in PlanOf[e.proposal.sql] : Whole(AssetsOf[e.snapshot.assets], column)
            /\ Facts(e) \in GroundedIn
=============================================================================
