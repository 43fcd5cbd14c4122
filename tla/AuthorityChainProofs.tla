-------------------------- MODULE AuthorityChainProofs --------------------------
(***************************************************************************)
(* Theorems about the chain of authorities, for any number of requests and *)
(* any drafts, assets, lifetimes and changes.                              *)
(***************************************************************************)
EXTENDS AuthorityChain, FiniteSetTheorems, TLAPS

Stages ==
    {"propose", "absent", "refused", "evaluate", "evaluate issue", "evaluate return",
     "bind", "bind issue", "bind return", "clear", "clear return", "search", "search return",
     "prove", "issue", "claim", "consume", "revalidate", "commit", "executed"}

Sqls == {d.sql : d \in UNION {Drafts[r] : r \in Requests}}
Identities == {IdentityOf[r] : r \in Requests}
Purposes == {PurposeOf[r] : r \in Requests}
DraftPurposes == {d.purpose : d \in UNION {Drafts[r] : r \in Requests}}
Snapshots == [assets : DOMAIN AssetsOf, observed : Nat]
Worlds ==
    [detours : Nat, installed : Snapshots, authority : Snapshots, warehouse : {0, 1},
     policy : {0, 1}]

Proposals == [sql : Sqls, purpose : DraftPurposes, context : Snapshots, iteration : Nat]
Evaluations ==
    [proposal : Proposals, snapshot : Snapshots, purpose : Purposes, policy : {PackagePolicy},
     allow : BOOLEAN]
Bindings == [evaluation : Evaluations, issued : Nat]
States ==
    [identity : Identities, purpose : Purposes, snapshot : Snapshots, warehouse : {0, 1}]
Grammars == [base : {PlanOf[s] : s \in Sqls}, state : States]
Checks ==
    [evaluation : Evaluations, trust : Bindings, state : States, grammar : Grammars,
     verified : Nat, started : Nat, status : Statuses]
Proofs ==
    [identity : Identities, sql : Sqls, evaluation : Evaluations, check : Checks,
     issued : Nat, expires : Nat]
Capabilities ==
    [request : Requests, sql : Sqls, proof : Proofs, issued : Nat, expires : Nat]
Commits ==
    [capability : Capabilities, at : Nat, warehouse : {0, 1}, installed : Snapshots]
DraftStates == {None} \cup Evaluations \cup Bindings \cup Checks \cup Capabilities \cup Commits

RequestStates ==
    [stage : Stages, proposal : {None} \cup Proposals, evaluation : {None} \cup Evaluations,
     trust : {None} \cup Bindings, check : {None} \cup Checks, proof : {None} \cup Proofs,
     capability : {None} \cup Capabilities, draft : DraftStates]

ChainTypeOK ==
    /\ now \in Nat
    /\ world \in Worlds
    /\ last \in [Authorities -> Nat]
    /\ req \in [Requests -> RequestStates]

(* What each artifact has established once it is issued.                   *)
Grounds(c) ==
    /\ c.trust.evaluation = c.evaluation
    /\ c.state.purpose = c.evaluation.purpose
    /\ c.state.snapshot = c.evaluation.snapshot
    /\ Facts(c.evaluation) \in GroundedIn

Searches(c) ==
    /\ Grounds(c)
    /\ c.grammar.base = PlanOf[c.evaluation.proposal.sql]
    /\ c.grammar.state = c.state

Establishes(p) ==
    /\ Searches(p.check)
    /\ p.check.evaluation = p.evaluation
    /\ p.check.status = "NO_COUNTEREXAMPLE_WITHIN_BOUND"
    /\ p.check.state.identity = p.identity
    /\ p.sql = p.evaluation.proposal.sql
    /\ p.expires <= Expiry(p.evaluation.snapshot)

Authorizes(k) ==
    /\ Establishes(k.proof)
    /\ k.expires <= Expiry(k.proof.evaluation.snapshot)

(* What is about to be committed for r.                                    *)
Commits_(d, r) ==
    LET p == d.capability.proof IN
    /\ Authorizes(d.capability)
    /\ d.capability.sql = p.sql
    /\ p.identity = IdentityOf[r]
    /\ p.evaluation.purpose = PurposeOf[r]
    /\ p.evaluation.snapshot = d.installed
    /\ <<p.sql, p.evaluation.snapshot.assets>> \in Permitted
    /\ p.check.state.warehouse = d.warehouse
    /\ d.at < p.expires

(* What a request holds, and what a call of it is working on; latest is    *)
(* the last sample of the PPMC authority.                                  *)
HoldsSound(x) ==
    /\ x.check # None => Searches(x.check)
    /\ x.proof # None => Establishes(x.proof)
    /\ x.capability # None => Authorizes(x.capability)

Observed(c, latest) == c.evaluation.snapshot.observed <= latest

WorksOn(x, r, latest) ==
    /\ x.stage \in {"evaluate issue", "evaluate return"} => x.draft \in Evaluations
    /\ x.stage \in {"bind issue", "bind return"} => x.draft \in Bindings
    /\ x.stage \in {"clear return", "search"} =>
        x.draft \in Checks /\ Grounds(x.draft) /\ Observed(x.draft, latest)
    /\ x.stage = "search return" =>
        x.draft \in Checks /\ Searches(x.draft) /\ Observed(x.draft, latest)
    /\ x.stage = "claim" => x.draft \in Capabilities /\ Authorizes(x.draft)
    /\ x.stage \in {"revalidate", "commit"} => x.draft \in Commits /\ Commits_(x.draft, r)

ExecutedInTime ==
    \A x \in executed :
        LET proof == x.capability.proof IN
        x.at < proof.expires /\ x.at < Expiry(proof.check.trust.evaluation.snapshot)

ChainInv ==
    /\ ChainTypeOK
    /\ \A r \in Requests : HoldsSound(req[r]) /\ WorksOn(req[r], r, last["ppmc"])
    /\ ExecutionIsBound
    /\ ExecutedInTime

-----------------------------------------------------------------------------
(* How a step changes what a request holds.                                *)

Reads(a) == now >= last[a] /\ last' = [last EXCEPT ![a] = now]
Still == UNCHANGED <<now, world, executed>>
Gives(r, x) == req' = [req EXCEPT ![r] = x]
Keeps(x, r) == x \in RequestStates /\ HoldsSound(x) /\ WorksOn(x, r, last'["ppmc"])
Later == last' \in [Authorities -> Nat] /\ last["ppmc"] <= last'["ppmc"]
Denied(r) == Refused(r) /\ Still /\ (UNCHANGED last \/ \E a \in Authorities : Reads(a))

LEMMA Reading ==
    ASSUME ChainTypeOK, NEW a \in Authorities, Reads(a)
    PROVE  Later /\ last'[a] = now
  BY DEF ChainTypeOK, Reads, Later, Authorities

LEMMA NotReading ==
    ASSUME ChainTypeOK, UNCHANGED last
    PROVE  Later
  BY DEF ChainTypeOK, Later, Authorities

(* Time only adds to what has been observed.                               *)
LEMMA StillWorking ==
    ASSUME ChainInv, NEW q \in Requests, Later
    PROVE  WorksOn(req[q], q, last'["ppmc"])
  <1>1. \A c \in Checks : c.evaluation.snapshot.observed \in Nat
    BY DEF Checks, Evaluations, Snapshots
  <1>2. last["ppmc"] \in Nat /\ last'["ppmc"] \in Nat /\ last["ppmc"] <= last'["ppmc"]
    BY DEF ChainInv, ChainTypeOK, Later, Authorities
  <1>3. \A c \in Checks : Observed(c, last["ppmc"]) => Observed(c, last'["ppmc"])
    BY <1>1, <1>2 DEF Observed
  <1>4. QED
    BY <1>3 DEF ChainInv, WorksOn

LEMMA Updating ==
    ASSUME ChainInv, NEW r \in Requests, NEW x, Keeps(x, r), Gives(r, x), Later,
           now' \in Nat, world' \in Worlds, UNCHANGED executed
    PROVE  ChainInv'
  <1>1. /\ req' \in [Requests -> RequestStates] /\ req'[r] = x
        /\ \A q \in Requests \ {r} : req'[q] = req[q]
    BY DEF ChainInv, ChainTypeOK, Keeps, Gives
  <1>2. ChainTypeOK'
    BY <1>1 DEF ChainInv, ChainTypeOK, Later
  <1>3. \A q \in Requests : HoldsSound(req'[q]) /\ WorksOn(req'[q], q, last'["ppmc"])
    BY <1>1, StillWorking DEF ChainInv, Keeps
  <1>4. ExecutionIsBound' /\ ExecutedInTime'
    BY DEF ChainInv, ExecutionIsBound, ExecutedInTime
  <1>5. QED
    BY <1>2, <1>3, <1>4 DEF ChainInv

LEMMA UpdatingOnly ==
    ASSUME ChainInv, NEW r \in Requests, NEW x, Keeps(x, r), Gives(r, x), Later, Still
    PROVE  ChainInv'
  BY Updating DEF Still, ChainInv, ChainTypeOK

LEMMA RefusingKeeps ==
    ASSUME ChainInv, NEW r \in Requests, Denied(r)
    PROVE  ChainInv'
  <1> DEFINE x == [req[r] EXCEPT !.stage = "refused", !.draft = None]
  <1>1. req[r] \in RequestStates /\ HoldsSound(req[r])
    BY DEF ChainInv, ChainTypeOK
  <1>2. "refused" \in Stages /\ None \in DraftStates
    BY DEF Stages, DraftStates
  <1>3. /\ x \in RequestStates /\ x.stage = "refused"
        /\ x.check = req[r].check /\ x.proof = req[r].proof
        /\ x.capability = req[r].capability
    BY <1>1, <1>2 DEF RequestStates
  <1>4. Gives(r, x)
    BY DEF Denied, Refused, Gives, ChainInv, ChainTypeOK
  <1> HIDE DEF x
  <1>5. Keeps(x, r)
    BY <1>1, <1>3 DEF Keeps, HoldsSound, WorksOn
  <1>6. Later
    BY Reading, NotReading DEF Denied, ChainInv
  <1>7. QED
    BY <1>4, <1>5, <1>6, UpdatingOnly DEF Denied

(* A call begins, or goes on.                                              *)
LEMMA Beginning ==
    ASSUME ChainInv, NEW r \in Requests, NEW stage \in Stages, NEW draft \in DraftStates
    PROVE  LET x == Begin(r, stage, draft) IN
           /\ x \in RequestStates /\ x.stage = stage /\ x.draft = draft /\ HoldsSound(x)
           /\ x.evaluation = req[r].evaluation /\ x.trust = req[r].trust
           /\ x.check = req[r].check
  <1> DEFINE x == Begin(r, stage, draft)
  <1>1. req[r] \in RequestStates /\ HoldsSound(req[r])
    BY DEF ChainInv, ChainTypeOK
  <1>2. /\ x \in RequestStates /\ x.stage = stage /\ x.draft = draft
        /\ x.check = req[r].check /\ x.proof = req[r].proof
        /\ x.capability = req[r].capability
        /\ x.evaluation = req[r].evaluation /\ x.trust = req[r].trust
    BY <1>1 DEF Begin, RequestStates
  <1> HIDE DEF x
  <1>3. HoldsSound(x)
    BY <1>1, <1>2 DEF HoldsSound
  <1>4. QED
    BY <1>2, <1>3 DEF x

(* What requests hold.                                                     *)
LEMMA Held ==
    ASSUME ChainInv
    PROVE  /\ \A q \in Holders("proposal") : req[q].proposal \in Proposals
           /\ HeldEvaluations \subseteq Evaluations
           /\ HeldTrusts \subseteq Bindings
           /\ HeldChecks \subseteq Checks /\ \A c \in HeldChecks : Searches(c)
           /\ HeldProofs \subseteq Proofs /\ \A p \in HeldProofs : Establishes(p)
           /\ HeldCapabilities \subseteq Capabilities
           /\ \A k \in HeldCapabilities : Authorizes(k)
  <1> USE DEF Holders
  <1>1. \A q \in Requests : req[q] \in RequestStates /\ HoldsSound(req[q])
    BY DEF ChainInv, ChainTypeOK
  <1>2. \A q \in Holders("proposal") : req[q].proposal \in Proposals
    BY <1>1 DEF RequestStates
  <1>3. HeldEvaluations \subseteq Evaluations
    BY <1>1 DEF RequestStates, HeldEvaluations
  <1>4. HeldTrusts \subseteq Bindings
    BY <1>1 DEF RequestStates, HeldTrusts
  <1>5. HeldChecks \subseteq Checks /\ \A c \in HeldChecks : Searches(c)
    BY <1>1 DEF RequestStates, HeldChecks, HoldsSound
  <1>6. HeldProofs \subseteq Proofs /\ \A p \in HeldProofs : Establishes(p)
    BY <1>1 DEF RequestStates, HeldProofs, HoldsSound
  <1>7. HeldCapabilities \subseteq Capabilities /\ \A k \in HeldCapabilities : Authorizes(k)
    BY <1>1 DEF RequestStates, HeldCapabilities, HoldsSound
  <1>8. QED
    BY <1>2, <1>3, <1>4, <1>5, <1>6, <1>7

-----------------------------------------------------------------------------
(* The environment.                                                        *)

LEMMA EnvironmentKeeps ==
    ASSUME ChainInv,
           Tick \/ SetBack \/ WorldChanges \/ Rediscover
    PROVE  ChainInv'
  <1>1. now \in Nat /\ world \in Worlds /\ last \in [Authorities -> Nat]
    BY DEF ChainInv, ChainTypeOK
  <1>2. ASSUME NEW w \in Worlds, Detour(w) PROVE world' \in Worlds
    BY <1>2 DEF Detour, Worlds
  <1>3. UNCHANGED <<req, executed>>
    BY DEF Tick, SetBack, WorldChanges, Rediscover
  <1>4. now' \in Nat
    <2>1. CASE Tick
      BY <1>1, <2>1 DEF Tick
    <2>2. CASE SetBack
      BY <1>1, <2>2 DEF SetBack
    <2>3. CASE WorldChanges \/ Rediscover
      BY <1>1, <2>3 DEF WorldChanges, Rediscover
    <2>4. QED
      BY <2>1, <2>2, <2>3
  <1>5. world' \in Worlds
    <2>1. CASE Tick \/ Rediscover
      BY <1>1, <2>1 DEF Tick, Rediscover, Worlds
    <2>2. CASE SetBack
      BY <1>1, <1>2, <2>2 DEF SetBack
    <2>3. CASE WorldChanges
      <3>1. \A snapshot \in Snapshots : [world EXCEPT !.installed = snapshot] \in Worlds
        BY <1>1 DEF Worlds
      <3>2. \A assets \in DOMAIN AssetsOf : [assets |-> assets, observed |-> now] \in Snapshots
        BY <1>1 DEF Snapshots
      <3>3. \A field \in {"warehouse", "policy"} : [world EXCEPT ![field] = 1] \in Worlds
        BY <1>1 DEF Worlds
      <3>4. QED
        BY <1>2, <2>3, <3>1, <3>2, <3>3 DEF WorldChanges
    <2>4. QED
      BY <2>1, <2>2, <2>3
  <1>6. Later
    <2>1. CASE Tick \/ SetBack \/ WorldChanges
      BY <2>1, NotReading DEF Tick, SetBack, WorldChanges, ChainInv
    <2>2. CASE Rediscover
      <3>1. last' \in [Authorities -> Nat] /\ last'["ppmc"] = last["ppmc"]
        BY <1>1, <2>2 DEF Rediscover, Authorities
      <3>2. last["ppmc"] \in Nat
        BY <1>1 DEF Authorities
      <3>3. QED
        BY <3>1, <3>2 DEF Later
    <2>3. QED
      BY <2>1, <2>2
  <1>7. ChainTypeOK'
    BY <1>3, <1>4, <1>5, <1>6 DEF ChainInv, ChainTypeOK, Later
  <1>8. \A q \in Requests : HoldsSound(req'[q]) /\ WorksOn(req'[q], q, last'["ppmc"])
    BY <1>3, <1>6, StillWorking DEF ChainInv
  <1>9. ExecutionIsBound' /\ ExecutedInTime'
    BY <1>3 DEF ChainInv, ExecutionIsBound, ExecutedInTime
  <1>10. QED
    BY <1>7, <1>8, <1>9 DEF ChainInv

-----------------------------------------------------------------------------
(* The agent, and the evaluation of what it proposes.                      *)

LEMMA Proposing ==
    ASSUME ChainInv, NEW r \in Requests, NEW d \in Drafts[r], NEW context \in Snapshots,
           NEW n \in Nat
    PROVE  AgentProposal(d, context, n) \in Proposals
  <1>1. d.sql \in Sqls /\ d.purpose \in DraftPurposes
    BY DEF Sqls, DraftPurposes
  <1>2. QED
    BY <1>1 DEF AgentProposal, Proposals

LEMMA ProposeKeeps ==
    ASSUME ChainInv, NEW r \in Requests, Propose(r)
    PROVE  ChainInv'
  <1>1. PICK d \in Drafts[r] :
            req' = [req EXCEPT ![r].stage = "evaluate",
                               ![r].proposal = AgentProposal(d, world.authority, 0)]
    BY DEF Propose
  <1> DEFINE proposal == AgentProposal(d, world.authority, 0)
             x == [req[r] EXCEPT !.stage = "evaluate", !.proposal = proposal]
  <1>2. proposal \in Proposals
    BY Proposing DEF ChainInv, ChainTypeOK, Worlds
  <1> HIDE DEF proposal
  <1>3. req[r] \in RequestStates /\ HoldsSound(req[r]) /\ "evaluate" \in Stages
    BY DEF ChainInv, ChainTypeOK, Stages
  <1>4. /\ x \in RequestStates /\ x.stage = "evaluate"
        /\ x.check = req[r].check /\ x.proof = req[r].proof
        /\ x.capability = req[r].capability
    BY <1>2, <1>3 DEF RequestStates
  <1>5. Gives(r, x)
    BY <1>1 DEF Gives, ChainInv, ChainTypeOK, proposal
  <1> HIDE DEF x
  <1>6. Keeps(x, r)
    BY <1>3, <1>4 DEF Keeps, HoldsSound, WorksOn
  <1>7. QED
    BY <1>5, <1>6, UpdatingOnly, NotReading DEF Propose, Still, ChainInv

LEMMA AdaptKeeps ==
    ASSUME ChainInv, NEW r \in Requests, Adapt(r)
    PROVE  ChainInv'
  <1> DEFINE context == req[r].proposal.context
             n == req[r].proposal.iteration + 1
  <1>1. PICK d \in Drafts[r] :
            req' = [req EXCEPT ![r] =
                        [NoRequest EXCEPT !.stage = "evaluate",
                                          !.proposal = AgentProposal(d, context, n)]]
    BY DEF Adapt
  <1> DEFINE proposal == AgentProposal(d, context, n)
             x == [NoRequest EXCEPT !.stage = "evaluate", !.proposal = proposal]
  <1>2. req[r].proposal \in Proposals
    BY DEF Adapt, ChainInv, ChainTypeOK, RequestStates
  <1>3. context \in Snapshots /\ n \in Nat
    BY <1>2 DEF Proposals
  <1> HIDE DEF context, n
  <1>4. proposal \in Proposals
    BY <1>3, Proposing
  <1> HIDE DEF proposal
  <1>5. /\ x \in RequestStates /\ x.stage = "evaluate"
        /\ x.check = None /\ x.proof = None /\ x.capability = None
    BY <1>4 DEF RequestStates, NoRequest, Stages, DraftStates
  <1>6. Gives(r, x)
    BY <1>1 DEF Gives, proposal
  <1> HIDE DEF x
  <1>7. Keeps(x, r)
    BY <1>5 DEF Keeps, HoldsSound, WorksOn
  <1>8. now' \in Nat /\ world' \in Worlds /\ UNCHANGED executed /\ Later
    BY NotReading DEF Adapt, Detour, ChainInv, ChainTypeOK, Worlds
  <1>9. QED
    BY <1>6, <1>7, <1>8, Updating

(* An authority that reads the clock begins a call, or goes on with it.    *)
LEMMA Continuing ==
    ASSUME ChainInv, NEW r \in Requests, NEW a \in Authorities, Reads(a), Still,
           NEW stage \in Stages, NEW draft \in DraftStates, Gives(r, Begin(r, stage, draft)),
           \A x : x.stage = stage /\ x.draft = draft => WorksOn(x, r, last'["ppmc"])
    PROVE  ChainInv'
  <1>1. Keeps(Begin(r, stage, draft), r)
    BY Beginning DEF Keeps
  <1>2. QED
    BY <1>1, UpdatingOnly, Reading DEF ChainInv

LEMMA Evaluating ==
    ASSUME ChainInv, NEW p \in Proposals, NEW r \in Requests
    PROVE  AgentEvaluation(p, world.authority, PurposeOf[r]) \in Evaluations
  <1>1. world.authority \in Snapshots /\ PurposeOf[r] \in Purposes
    BY DEF ChainInv, ChainTypeOK, Worlds, Purposes
  <1>2. QED
    BY <1>1 DEF AgentEvaluation, Evaluations

(* What a call that ends with "bind", "clear", ... leaves nothing to do.   *)
LEMMA Settled ==
    ASSUME NEW r, NEW latest, NEW x,
           x.stage \in {"bind", "clear", "prove", "issue", "consume", "executed"}
    PROVE  WorksOn(x, r, latest)
  BY DEF WorksOn

LEMMA EvaluateSteps ==
    ASSUME NEW r \in Requests, Evaluate(r)
    PROVE  \/ Denied(r)
           \/ \E q \in Holders("proposal") :
                /\ Reads("proposal") /\ Still
                /\ Gives(r, Begin(r, "evaluate issue",
                        AgentEvaluation(req[q].proposal, world.authority, PurposeOf[r])))
  BY DEF Evaluate, Sampled, Denied, Reads, Still, Gives, Authorities

LEMMA EvaluateKeeps ==
    ASSUME ChainInv, NEW r \in Requests, Evaluate(r)
    PROVE  ChainInv'
  <1>1. CASE ~Denied(r)
    <2>1. PICK q \in Holders("proposal") :
                /\ Reads("proposal") /\ Still
                /\ Gives(r, Begin(r, "evaluate issue",
                        AgentEvaluation(req[q].proposal, world.authority, PurposeOf[r])))
      BY <1>1, EvaluateSteps
    <2> DEFINE e == AgentEvaluation(req[q].proposal, world.authority, PurposeOf[r])
    <2>2. e \in Evaluations
      BY Held, Evaluating
    <2> HIDE DEF e
    <2>3. \A x : x.stage = "evaluate issue" /\ x.draft = e => WorksOn(x, r, last'["ppmc"])
      BY <2>2 DEF WorksOn
    <2>4. QED
      BY <2>1, <2>2, <2>3, Continuing DEF Authorities, Stages, DraftStates, e
  <1>2. QED
    BY <1>1, RefusingKeeps

(* What the call of r works on.                                            *)
LEMMA Drafting ==
    ASSUME ChainInv, NEW r \in Requests
    PROVE  /\ req[r] \in RequestStates /\ WorksOn(req[r], r, last["ppmc"])
           /\ last \in [Authorities -> Nat] /\ now \in Nat
  BY DEF ChainInv, ChainTypeOK

LEMMA EvaluateIssueSteps ==
    ASSUME NEW r \in Requests, EvaluateIssue(r)
    PROVE  \/ Denied(r)
           \/ /\ Reads("proposal") /\ Still
              /\ Gives(r, Begin(r, "evaluate return", req[r].draft))
  BY DEF EvaluateIssue, Sampled, Denied, Reads, Still, Gives, Authorities

LEMMA EvaluateIssueKeeps ==
    ASSUME ChainInv, NEW r \in Requests, EvaluateIssue(r)
    PROVE  ChainInv'
  <1>1. req[r].draft \in Evaluations
    BY Drafting DEF EvaluateIssue, WorksOn
  <1>2. \A x : x.stage = "evaluate return" /\ x.draft = req[r].draft
            => WorksOn(x, r, last'["ppmc"])
    BY <1>1 DEF WorksOn
  <1>3. CASE ~Denied(r)
    BY <1>1, <1>2, <1>3, EvaluateIssueSteps, Continuing
       DEF Authorities, Stages, DraftStates
  <1>4. QED
    BY <1>3, RefusingKeeps

(* An authority returns what a call was working on.                        *)
LEMMA EvaluateReturnSteps ==
    ASSUME NEW r \in Requests, EvaluateReturn(r)
    PROVE  \/ Denied(r)
           \/ /\ Reads("proposal") /\ Still /\ FreshAt(req[r].draft.snapshot, now)
              /\ Gives(r, Return(r, "bind", "evaluation"))
  BY DEF EvaluateReturn, Sampled, Denied, Reads, Still, Gives, Authorities

LEMMA EvaluateReturnKeeps ==
    ASSUME ChainInv, NEW r \in Requests, EvaluateReturn(r)
    PROVE  ChainInv'
  <1> DEFINE x == Return(r, "bind", "evaluation")
  <1>1. req[r].draft \in Evaluations
    BY Drafting DEF EvaluateReturn, WorksOn
  <1>2. req[r] \in RequestStates /\ HoldsSound(req[r]) /\ "bind" \in Stages
        /\ None \in DraftStates
    BY DEF ChainInv, ChainTypeOK, Stages, DraftStates
  <1>3. /\ x \in RequestStates /\ x.stage = "bind" /\ x.check = req[r].check
        /\ x.proof = req[r].proof /\ x.capability = req[r].capability
    BY <1>1, <1>2 DEF RequestStates, Return
  <1> HIDE DEF x
  <1>4. Keeps(x, r)
    BY <1>2, <1>3, Settled DEF Keeps, HoldsSound
  <1>5. CASE ~Denied(r)
    BY <1>4, <1>5, EvaluateReturnSteps, UpdatingOnly, Reading DEF ChainInv, Authorities, x
  <1>6. QED
    BY <1>5, RefusingKeeps

-----------------------------------------------------------------------------
(* The trust in its governance.                                            *)

LEMMA BindSteps ==
    ASSUME NEW r \in Requests, Bind(r)
    PROVE  \/ Denied(r)
           \/ \E e \in HeldEvaluations :
                /\ Reads("trust") /\ Still
                /\ Gives(r, Begin(r, "bind issue", [evaluation |-> e, issued |-> 0]))
  BY DEF Bind, Sampled, Denied, Reads, Still, Gives, Authorities

LEMMA BindKeeps ==
    ASSUME ChainInv, NEW r \in Requests, Bind(r)
    PROVE  ChainInv'
  <1>1. CASE ~Denied(r)
    <2>1. PICK e \in HeldEvaluations :
                /\ Reads("trust") /\ Still
                /\ Gives(r, Begin(r, "bind issue", [evaluation |-> e, issued |-> 0]))
      BY <1>1, BindSteps
    <2> DEFINE b == [evaluation |-> e, issued |-> 0]
    <2>2. b \in Bindings
      BY Held DEF Bindings
    <2> HIDE DEF b
    <2>3. \A x : x.stage = "bind issue" /\ x.draft = b => WorksOn(x, r, last'["ppmc"])
      BY <2>2 DEF WorksOn
    <2>4. QED
      BY <2>1, <2>2, <2>3, Continuing DEF Authorities, Stages, DraftStates, b
  <1>2. QED
    BY <1>1, RefusingKeeps

LEMMA BindIssueSteps ==
    ASSUME NEW r \in Requests, BindIssue(r)
    PROVE  \/ Denied(r)
           \/ /\ Reads("trust") /\ Still
              /\ Gives(r, Begin(r, "bind return", [req[r].draft EXCEPT !.issued = now]))
  BY DEF BindIssue, Sampled, Denied, Reads, Still, Gives, Authorities

LEMMA BindIssueKeeps ==
    ASSUME ChainInv, NEW r \in Requests, BindIssue(r)
    PROVE  ChainInv'
  <1> DEFINE b == [req[r].draft EXCEPT !.issued = now]
  <1>1. req[r].draft \in Bindings
    BY Drafting DEF BindIssue, WorksOn
  <1>2. b \in Bindings
    BY <1>1, Drafting DEF Bindings
  <1> HIDE DEF b
  <1>3. \A x : x.stage = "bind return" /\ x.draft = b => WorksOn(x, r, last'["ppmc"])
    BY <1>2 DEF WorksOn
  <1>4. CASE ~Denied(r)
    BY <1>2, <1>3, <1>4, BindIssueSteps, Continuing DEF Authorities, Stages, DraftStates, b
  <1>5. QED
    BY <1>4, RefusingKeeps

LEMMA BindReturnSteps ==
    ASSUME NEW r \in Requests, BindReturn(r)
    PROVE  \/ Denied(r)
           \/ /\ Reads("trust") /\ Still /\ FreshAt(req[r].draft.evaluation.snapshot, now)
              /\ Gives(r, Return(r, "clear", "trust"))
  BY DEF BindReturn, Sampled, Denied, Reads, Still, Gives, Authorities

LEMMA BindReturnKeeps ==
    ASSUME ChainInv, NEW r \in Requests, BindReturn(r)
    PROVE  ChainInv'
  <1> DEFINE x == Return(r, "clear", "trust")
  <1>1. req[r].draft \in Bindings
    BY Drafting DEF BindReturn, WorksOn
  <1>2. req[r] \in RequestStates /\ HoldsSound(req[r]) /\ "clear" \in Stages
        /\ None \in DraftStates
    BY DEF ChainInv, ChainTypeOK, Stages, DraftStates
  <1>3. /\ x \in RequestStates /\ x.stage = "clear" /\ x.check = req[r].check
        /\ x.proof = req[r].proof /\ x.capability = req[r].capability
    BY <1>1, <1>2 DEF RequestStates, Return
  <1> HIDE DEF x
  <1>4. Keeps(x, r)
    BY <1>2, <1>3, Settled DEF Keeps, HoldsSound
  <1>5. CASE ~Denied(r)
    BY <1>4, <1>5, BindReturnSteps, UpdatingOnly, Reading DEF ChainInv, Authorities, x
  <1>6. QED
    BY <1>5, RefusingKeeps

-----------------------------------------------------------------------------
(* The clearance and the search.                                           *)

LEMMA ClearSteps ==
    ASSUME NEW r \in Requests, Clear(r)
    PROVE  \/ Denied(r)
           \/ \E e, base \in HeldEvaluations, t \in HeldTrusts, qs \in Holders("evaluation") :
                LET state == DisclosureState(qs) IN
                /\ Cleared(e, t, state) /\ FreshAt(e.snapshot, now) /\ Facts(e) \in GroundedIn
                /\ Reads("ppmc") /\ Still
                /\ Gives(r, Begin(r, "clear return",
                                  Clearance(e, t, state, GrammarOf(base, state))))
  BY DEF Clear, Sampled, Denied, Reads, Still, Gives, Authorities

LEMMA ClearKeeps ==
    ASSUME ChainInv, NEW r \in Requests, Clear(r)
    PROVE  ChainInv'
  <1>1. CASE ~Denied(r)
    <2>1. PICK e \in HeldEvaluations, base \in HeldEvaluations, t \in HeldTrusts,
               qs \in Holders("evaluation") :
                LET state == DisclosureState(qs) IN
                /\ Cleared(e, t, state) /\ FreshAt(e.snapshot, now) /\ Facts(e) \in GroundedIn
                /\ Reads("ppmc") /\ Still
                /\ Gives(r, Begin(r, "clear return",
                                  Clearance(e, t, state, GrammarOf(base, state))))
      BY <1>1, ClearSteps
    <2> DEFINE state == DisclosureState(qs)
               grammar == GrammarOf(base, state)
               c == Clearance(e, t, state, grammar)
    <2>2. e \in Evaluations /\ base \in Evaluations /\ t \in Bindings
          /\ req[qs].evaluation \in Evaluations
      BY Held DEF Holders, HeldEvaluations
    <2>3. state \in States
      <3>1. qs \in Requests /\ IdentityOf[qs] \in Identities /\ PurposeOf[qs] \in Purposes
        BY DEF Holders, Identities, Purposes
      <3>2. req[qs].evaluation.snapshot \in Snapshots
        BY <2>2 DEF Evaluations
      <3>3. world.warehouse \in {0, 1}
        BY DEF ChainInv, ChainTypeOK, Worlds
      <3>4. QED
        BY <3>1, <3>2, <3>3 DEF DisclosureState, States
    <2>4. Cleared(e, t, state) /\ FreshAt(e.snapshot, now) /\ Facts(e) \in GroundedIn
          /\ Reads("ppmc") /\ Still /\ Gives(r, Begin(r, "clear return", c))
      BY <2>1
    <2> HIDE DEF state
    <2>5. grammar \in Grammars
      <3>1. base.proposal.sql \in Sqls
        BY <2>2 DEF Evaluations, Proposals
      <3>2. QED
        BY <2>3, <3>1 DEF GrammarOf, Grammars
    <2> HIDE DEF grammar
    <2>6. /\ c \in Checks
          /\ c.evaluation = e /\ c.trust = t /\ c.state = state
      BY <2>2, <2>3, <2>5, Drafting DEF Clearance, Checks, Statuses
    <2> HIDE DEF c
    <2>7. Grounds(c)
      BY <2>4, <2>6 DEF Grounds, Cleared
    <2>8. Observed(c, last'["ppmc"])
      BY <2>4, <2>6, Reading DEF Observed, FreshAt, ChainInv, Authorities
    <2>9. \A x : x.stage = "clear return" /\ x.draft = c => WorksOn(x, r, last'["ppmc"])
      BY <2>6, <2>7, <2>8 DEF WorksOn
    <2>10. QED
      BY <2>4, <2>6, <2>9, Continuing DEF Authorities, Stages, DraftStates
  <1>2. QED
    BY <1>1, RefusingKeeps

LEMMA ClearReturnSteps ==
    ASSUME NEW r \in Requests, ClearReturn(r)
    PROVE  \/ Denied(r)
           \/ /\ Reads("ppmc") /\ Still
              /\ Gives(r, Begin(r, "search", req[r].draft))
  BY DEF ClearReturn, Sampled, Denied, Reads, Still, Gives, Authorities

LEMMA ClearReturnKeeps ==
    ASSUME ChainInv, NEW r \in Requests, ClearReturn(r)
    PROVE  ChainInv'
  <1> DEFINE c == req[r].draft
  <1>1. c \in Checks /\ Grounds(c)
    BY Drafting DEF ClearReturn, WorksOn
  <1>2. CASE ~Denied(r)
    <2>1. Reads("ppmc") /\ Still /\ Gives(r, Begin(r, "search", c))
      BY <1>2, ClearReturnSteps
    <2>2. Later
      BY <2>1, Reading DEF ChainInv, Authorities
    <2>3. Observed(c, last'["ppmc"])
      BY <2>2, StillWorking DEF ClearReturn, WorksOn
    <2> HIDE DEF c
    <2>4. \A x : x.stage = "search" /\ x.draft = c => WorksOn(x, r, last'["ppmc"])
      BY <1>1, <2>3 DEF WorksOn
    <2>5. QED
      BY <1>1, <2>1, <2>4, Continuing DEF Authorities, Stages, DraftStates
  <1>3. QED
    BY <1>2, RefusingKeeps

LEMMA SearchSteps ==
    ASSUME NEW r \in Requests, Search(r)
    PROVE  \/ Denied(r)
           \/ \E status \in Statuses :
                /\ req[r].draft.grammar.base = PlanOf[req[r].draft.evaluation.proposal.sql]
                /\ req[r].draft.grammar.state = req[r].draft.state
                /\ Reads("ppmc") /\ Still
                /\ Gives(r, Begin(r, "search return",
                            [req[r].draft EXCEPT !.started = now, !.status = status]))
  BY DEF Search, Sampled, Denied, Reads, Still, Gives, Authorities

LEMMA SearchKeeps ==
    ASSUME ChainInv, NEW r \in Requests, Search(r)
    PROVE  ChainInv'
  <1> DEFINE d == req[r].draft
  <1>1. d \in Checks /\ Grounds(d)
    BY Drafting DEF Search, WorksOn
  <1>2. CASE ~Denied(r)
    <2>1. PICK status \in Statuses :
                /\ d.grammar.base = PlanOf[d.evaluation.proposal.sql]
                /\ d.grammar.state = d.state
                /\ Reads("ppmc") /\ Still
                /\ Gives(r, Begin(r, "search return",
                            [d EXCEPT !.started = now, !.status = status]))
      BY <1>2, SearchSteps
    <2>2. Observed(d, last'["ppmc"])
      BY <2>1, Reading, StillWorking DEF Search, WorksOn, ChainInv, Authorities
    <2> HIDE DEF d
    <2> DEFINE c == [d EXCEPT !.started = now, !.status = status]
    <2>3. /\ c \in Checks /\ c.evaluation = d.evaluation /\ c.trust = d.trust
          /\ c.state = d.state /\ c.grammar = d.grammar
      BY <1>1, Drafting DEF Checks
    <2>4. Gives(r, Begin(r, "search return", c))
      BY <2>1
    <2> HIDE DEF c
    <2>5. Searches(c) /\ Observed(c, last'["ppmc"])
      BY <1>1, <2>1, <2>2, <2>3 DEF Searches, Grounds, Observed
    <2>6. \A x : x.stage = "search return" /\ x.draft = c => WorksOn(x, r, last'["ppmc"])
      BY <2>3, <2>5 DEF WorksOn
    <2>7. QED
      BY <2>1, <2>3, <2>4, <2>6, Continuing DEF Authorities, Stages, DraftStates
  <1>3. QED
    BY <1>2, RefusingKeeps

LEMMA SearchReturnSteps ==
    ASSUME NEW r \in Requests, SearchReturn(r)
    PROVE  \/ Denied(r)
           \/ /\ Reads("ppmc") /\ Still
              /\ now < Expiry(req[r].draft.evaluation.snapshot)
              /\ Gives(r, Return(r, "prove", "check"))
  BY DEF SearchReturn, Sampled, Denied, Reads, Still, Gives, Authorities

LEMMA SearchReturnKeeps ==
    ASSUME ChainInv, NEW r \in Requests, SearchReturn(r)
    PROVE  ChainInv'
  <1> DEFINE x == Return(r, "prove", "check")
  <1>1. req[r].draft \in Checks /\ Searches(req[r].draft)
    BY Drafting DEF SearchReturn, WorksOn
  <1>2. req[r] \in RequestStates /\ HoldsSound(req[r]) /\ "prove" \in Stages
        /\ None \in DraftStates
    BY DEF ChainInv, ChainTypeOK, Stages, DraftStates
  <1>3. /\ x \in RequestStates /\ x.stage = "prove" /\ x.check = req[r].draft
        /\ x.proof = req[r].proof /\ x.capability = req[r].capability
    BY <1>1, <1>2 DEF RequestStates, Return
  <1> HIDE DEF x
  <1>4. Keeps(x, r)
    BY <1>1, <1>2, <1>3, Settled DEF Keeps, HoldsSound
  <1>5. CASE ~Denied(r)
    BY <1>4, <1>5, SearchReturnSteps, UpdatingOnly, Reading DEF ChainInv, Authorities, x
  <1>6. QED
    BY <1>5, RefusingKeeps

-----------------------------------------------------------------------------
(* The proof, the capability and the execution.                            *)

LEMMA Expiries ==
    ASSUME NEW a \in Nat, NEW b \in Nat
    PROVE  Earliest(a, b) \in Nat /\ Earliest(a, b) <= a /\ Earliest(a, b) <= b
  BY DEF Earliest

LEMMA ExpiryType ==
    ASSUME NEW s \in Snapshots
    PROVE  Expiry(s) \in Nat
  BY ChainAssumption DEF Expiry, Snapshots

LEMMA ProveSteps ==
    ASSUME NEW r \in Requests, Prove(r)
    PROVE  \/ Denied(r)
           \/ \E e \in HeldEvaluations, c \in HeldChecks :
                /\ ProofBound(req[r].proposal, e, c) /\ Provable(IdentityOf[r], e, c)
                /\ Reads("proof") /\ Still
                /\ Gives(r, [req[r] EXCEPT !.stage = "issue",
                        !.proof = PrivacyProof(IdentityOf[r], req[r].proposal, e, c)])
  BY DEF Prove, Sampled, Denied, Reads, Still, Gives, Authorities

LEMMA ProveKeeps ==
    ASSUME ChainInv, NEW r \in Requests, Prove(r)
    PROVE  ChainInv'
  <1>1. CASE ~Denied(r)
    <2>1. PICK e \in HeldEvaluations, c \in HeldChecks :
                /\ ProofBound(req[r].proposal, e, c) /\ Provable(IdentityOf[r], e, c)
                /\ Reads("proof") /\ Still
                /\ Gives(r, [req[r] EXCEPT !.stage = "issue",
                        !.proof = PrivacyProof(IdentityOf[r], req[r].proposal, e, c)])
      BY <1>1, ProveSteps
    <2> DEFINE p == PrivacyProof(IdentityOf[r], req[r].proposal, e, c)
               x == [req[r] EXCEPT !.stage = "issue", !.proof = p]
    <2>2. e \in Evaluations /\ c \in Checks /\ Searches(c) /\ now \in Nat
      BY Held, Drafting
    <2>3. e.snapshot \in Snapshots /\ e.proposal.sql \in Sqls
      BY <2>2 DEF Evaluations, Proposals
    <2>4. /\ ProofExpiry(now, e.snapshot) \in Nat
          /\ ProofExpiry(now, e.snapshot) <= Expiry(e.snapshot)
      <3>1. now + ProofTtl \in Nat /\ Expiry(e.snapshot) \in Nat
        BY <2>2, <2>3, ExpiryType, ChainAssumption
      <3>2. QED
        BY <3>1, Expiries DEF ProofExpiry
    <2>5. IdentityOf[r] \in Identities /\ req[r].proposal = e.proposal
      BY <2>1 DEF Identities, ProofBound
    <2>6. p \in Proofs
      BY <2>2, <2>3, <2>4, <2>5 DEF PrivacyProof, Proofs
    <2>7. Establishes(p)
      BY <2>1, <2>2, <2>4
         DEF PrivacyProof, Establishes, ProofBound, Provable, StateAligned
    <2> HIDE DEF p
    <2>8. req[r] \in RequestStates /\ HoldsSound(req[r]) /\ "issue" \in Stages
      BY DEF ChainInv, ChainTypeOK, Stages
    <2>9. /\ x \in RequestStates /\ x.stage = "issue" /\ x.check = req[r].check
          /\ x.proof = p /\ x.capability = req[r].capability
      BY <2>6, <2>8 DEF RequestStates
    <2>10. Gives(r, x)
      BY <2>1 DEF p
    <2> HIDE DEF x
    <2>11. Keeps(x, r)
      BY <2>7, <2>8, <2>9, Settled DEF Keeps, HoldsSound
    <2>12. QED
      BY <2>1, <2>10, <2>11, UpdatingOnly, Reading DEF ChainInv, Authorities
  <1>2. QED
    BY <1>1, RefusingKeeps

(* A step that reads no authority's clock begins or goes on with a call.   *)
LEMMA Stepping ==
    ASSUME ChainInv, NEW r \in Requests, UNCHANGED last, Still,
           NEW stage \in Stages, NEW draft \in DraftStates, Gives(r, Begin(r, stage, draft)),
           \A x : x.stage = stage /\ x.draft = draft => WorksOn(x, r, last'["ppmc"])
    PROVE  ChainInv'
  <1>1. Keeps(Begin(r, stage, draft), r)
    BY Beginning DEF Keeps
  <1>2. QED
    BY <1>1, UpdatingOnly, NotReading DEF ChainInv

LEMMA IssueSteps ==
    ASSUME NEW r \in Requests, Issue(r)
    PROVE  \/ Denied(r)
           \/ \E proof \in HeldProofs :
                /\ UNCHANGED last /\ Still
                /\ Gives(r, Begin(r, "claim", Capability(r, proof)))
                /\ Verified(r, proof)
  BY DEF Issue, Step, Denied, Still, Gives

LEMMA IssueKeeps ==
    ASSUME ChainInv, NEW r \in Requests, Issue(r)
    PROVE  ChainInv'
  <1>1. CASE ~Denied(r)
    <2>1. PICK p \in HeldProofs :
                /\ UNCHANGED last /\ Still
                /\ Gives(r, Begin(r, "claim", Capability(r, p)))
                /\ Verified(r, p)
      BY <1>1, IssueSteps
    <2> DEFINE k == Capability(r, p)
    <2>2. p \in Proofs /\ Establishes(p) /\ now \in Nat
      BY Held, Drafting
    <2>3. p.expires \in Nat /\ p.evaluation.snapshot \in Snapshots /\ p.sql \in Sqls
      BY <2>2 DEF Proofs, Evaluations
    <2>4. req[r].proposal.sql \in Sqls
      BY <2>1, <2>3 DEF Verified, MatchesRuntime
    <2>5. /\ Earliest(now + CapabilityTtl, p.expires) \in Nat
          /\ Earliest(now + CapabilityTtl, p.expires) <= p.expires
      <3>1. now + CapabilityTtl \in Nat
        BY <2>2, ChainAssumption
      <3>2. QED
        BY <2>3, <3>1, Expiries
    <2>6. k \in Capabilities /\ k.proof = p
      BY <2>2, <2>4, <2>5 DEF Capability, Capabilities
    <2>7. k.expires <= Expiry(p.evaluation.snapshot)
      <3>1. /\ k.expires \in Nat /\ k.expires <= p.expires
            /\ p.expires <= Expiry(p.evaluation.snapshot)
        BY <2>2, <2>5 DEF Capability, Establishes
      <3>2. QED
        BY <3>1, <2>3, ExpiryType
    <2> HIDE DEF k
    <2>8. Authorizes(k)
      BY <2>2, <2>6, <2>7 DEF Authorizes
    <2>9. \A x : x.stage = "claim" /\ x.draft = k => WorksOn(x, r, last'["ppmc"])
      BY <2>6, <2>8 DEF WorksOn
    <2>10. QED
      BY <2>1, <2>6, <2>9, Stepping DEF Stages, DraftStates, k
  <1>2. QED
    BY <1>1, RefusingKeeps

LEMMA ClaimKeeps ==
    ASSUME ChainInv, NEW r \in Requests, Claim_(r)
    PROVE  ChainInv'
  <1> DEFINE x == Return(r, "consume", "capability")
  <1>1. req[r].draft \in Capabilities /\ Authorizes(req[r].draft)
    BY Drafting DEF Claim_, WorksOn
  <1>2. req[r] \in RequestStates /\ HoldsSound(req[r]) /\ "consume" \in Stages
        /\ None \in DraftStates
    BY DEF ChainInv, ChainTypeOK, Stages, DraftStates
  <1>3. /\ x \in RequestStates /\ x.stage = "consume" /\ x.check = req[r].check
        /\ x.proof = req[r].proof /\ x.capability = req[r].draft
    BY <1>1, <1>2 DEF RequestStates, Return
  <1>4. Gives(r, x) /\ Still /\ UNCHANGED last
    BY DEF Claim_, Step, Gives, Still
  <1> HIDE DEF x
  <1>5. Keeps(x, r)
    BY <1>1, <1>2, <1>3, Settled DEF Keeps, HoldsSound
  <1>6. QED
    BY <1>4, <1>5, UpdatingOnly, NotReading DEF ChainInv

LEMMA ConsumeSteps ==
    ASSUME NEW r \in Requests, Consume(r)
    PROVE  \/ Denied(r)
           \/ \E k \in HeldCapabilities, p \in HeldProofs :
                /\ k.sql = req[r].proposal.sql /\ Verified(r, p) /\ k.proof = p
                /\ UNCHANGED last /\ Still
                /\ Gives(r, Begin(r, "revalidate",
                        [capability |-> k, at |-> now, warehouse |-> world.warehouse,
                         installed |-> world.installed]))
  BY DEF Consume, Step, Denied, Still, Gives

LEMMA ConsumeKeeps ==
    ASSUME ChainInv, NEW r \in Requests, Consume(r)
    PROVE  ChainInv'
  <1>1. CASE ~Denied(r)
    <2>1. PICK k \in HeldCapabilities, p \in HeldProofs :
                /\ k.sql = req[r].proposal.sql /\ Verified(r, p) /\ k.proof = p
                /\ UNCHANGED last /\ Still
                /\ Gives(r, Begin(r, "revalidate",
                        [capability |-> k, at |-> now, warehouse |-> world.warehouse,
                         installed |-> world.installed]))
      BY <1>1, ConsumeSteps
    <2> DEFINE d == [capability |-> k, at |-> now, warehouse |-> world.warehouse,
                     installed |-> world.installed]
    <2>2. /\ k \in Capabilities /\ Authorizes(k) /\ now \in Nat
          /\ world.warehouse \in {0, 1} /\ world.installed \in Snapshots
      BY Held, Drafting DEF ChainInv, ChainTypeOK, Worlds
    <2>3. /\ d \in Commits /\ d.capability = k /\ d.at = now
          /\ d.warehouse = world.warehouse /\ d.installed = world.installed
      BY <2>2 DEF Commits
    <2>4. /\ p.identity = IdentityOf[r] /\ p.sql = req[r].proposal.sql
          /\ p.evaluation.purpose = PurposeOf[r]
          /\ p.evaluation.snapshot = world.installed
          /\ p.check.state.warehouse = world.warehouse
          /\ now < p.expires
          /\ <<req[r].proposal.sql, world.installed.assets>> \in Permitted
      BY <2>1 DEF Verified, MatchesRuntime, ValidAt
    <2> HIDE DEF d
    <2>5. Commits_(d, r)
      BY <2>1, <2>2, <2>3, <2>4 DEF Commits_
    <2>6. \A x : x.stage = "revalidate" /\ x.draft = d => WorksOn(x, r, last'["ppmc"])
      BY <2>3, <2>5 DEF WorksOn
    <2>7. QED
      BY <2>1, <2>3, <2>6, Stepping DEF Stages, DraftStates, d
  <1>2. QED
    BY <1>1, RefusingKeeps

LEMMA RevalidateSteps ==
    ASSUME NEW r \in Requests, Revalidate(r)
    PROVE  \/ Denied(r)
           \/ /\ req[r].draft.capability.proof.evaluation.snapshot = world.installed
              /\ UNCHANGED last /\ Still
              /\ Gives(r, Begin(r, "commit", [req[r].draft EXCEPT !.installed = world.installed]))
  BY DEF Revalidate, Step, Denied, Still, Gives

LEMMA RevalidateKeeps ==
    ASSUME ChainInv, NEW r \in Requests, Revalidate(r)
    PROVE  ChainInv'
  <1>1. CASE ~Denied(r)
    <2> DEFINE old == req[r].draft
               d == [old EXCEPT !.installed = world.installed]
    <2>1. /\ old.capability.proof.evaluation.snapshot = world.installed
          /\ UNCHANGED last /\ Still /\ Gives(r, Begin(r, "commit", d))
      BY <1>1, RevalidateSteps
    <2>2. old \in Commits /\ Commits_(old, r)
      BY Drafting DEF Revalidate, WorksOn
    <2>3. world.installed \in Snapshots
      BY DEF ChainInv, ChainTypeOK, Worlds
    <2> HIDE DEF old
    <2>4. /\ d \in Commits /\ d.capability = old.capability /\ d.at = old.at
          /\ d.warehouse = old.warehouse /\ d.installed = world.installed
      BY <2>2, <2>3 DEF Commits
    <2> HIDE DEF d
    <2>5. Commits_(d, r)
      BY <2>1, <2>2, <2>4 DEF Commits_
    <2>6. \A x : x.stage = "commit" /\ x.draft = d => WorksOn(x, r, last'["ppmc"])
      BY <2>4, <2>5 DEF WorksOn
    <2>7. "commit" \in Stages /\ d \in DraftStates
      BY <2>4 DEF Stages, DraftStates
    <2>8. QED
      BY <2>1, <2>6, <2>7, Stepping
  <1>2. QED
    BY <1>1, RefusingKeeps

(* What a commit adds to what was executed.                                *)
Execution(r) ==
    [by |-> r, capability |-> req[r].draft.capability, at |-> req[r].draft.at,
     warehouse |-> req[r].draft.warehouse, installed |-> req[r].draft.installed]

LEMMA CommitSteps ==
    ASSUME NEW r \in Requests, Commit(r)
    PROVE  \/ Denied(r)
           \/ /\ UNCHANGED <<now, world, last>>
              /\ Gives(r, [req[r] EXCEPT !.stage = "executed", !.draft = None])
              /\ executed' = executed \cup {Execution(r)}
  BY DEF Commit, Step, Denied, Still, Gives, Execution

LEMMA CommitKeeps ==
    ASSUME ChainInv, NEW r \in Requests, Commit(r)
    PROVE  ChainInv'
  <1>1. CASE ~Denied(r)
    <2> DEFINE d == req[r].draft
               p == d.capability.proof
               x == [req[r] EXCEPT !.stage = "executed", !.draft = None]
    <2>1. /\ UNCHANGED <<now, world, last>> /\ Gives(r, x)
          /\ executed' = executed \cup {Execution(r)}
      BY <1>1, CommitSteps
    <2>2. d \in Commits /\ Commits_(d, r)
      BY Drafting DEF Commit, WorksOn
    <2>3. req[r] \in RequestStates /\ HoldsSound(req[r]) /\ "executed" \in Stages
          /\ None \in DraftStates
      BY DEF ChainInv, ChainTypeOK, Stages, DraftStates
    <2>4. /\ x \in RequestStates /\ x.stage = "executed" /\ x.check = req[r].check
          /\ x.proof = req[r].proof /\ x.capability = req[r].capability
      BY <2>3 DEF RequestStates
    <2> HIDE DEF x
    <2>5. Keeps(x, r) /\ Later
      BY <2>1, <2>3, <2>4, Settled, NotReading DEF Keeps, HoldsSound, ChainInv
    <2>6. /\ req' \in [Requests -> RequestStates] /\ req'[r] = x
          /\ \A q \in Requests \ {r} : req'[q] = req[q]
      BY <2>1, <2>5 DEF Gives, Keeps, ChainInv, ChainTypeOK
    <2>7. ChainTypeOK'
      BY <2>1, <2>5, <2>6 DEF ChainInv, ChainTypeOK, Later
    <2>8. \A q \in Requests : HoldsSound(req'[q]) /\ WorksOn(req'[q], q, last'["ppmc"])
      BY <2>5, <2>6, StillWorking DEF ChainInv, Keeps
    <2> DEFINE new == Execution(r)
    <2>9. /\ new.by = r /\ new.capability = d.capability /\ new.at = d.at
          /\ new.warehouse = d.warehouse /\ new.installed = d.installed
      BY DEF Execution
    <2>10. p \in Proofs /\ d.at \in Nat
      BY <2>2 DEF Commits, Capabilities
    <2> HIDE DEF new
    <2>11. executed' = executed \cup {new}
      BY <2>1 DEF new
    <2>12. /\ Establishes(p) /\ Searches(p.check) /\ Grounds(p.check)
           /\ p.check.evaluation = p.evaluation
      BY <2>2 DEF Commits_, Authorizes, Establishes, Searches
    <2>13. ExecutionIsBound'
      <3>1. /\ p.check.evaluation = p.evaluation /\ p.check.trust.evaluation = p.evaluation
            /\ p.check.status = "NO_COUNTEREXAMPLE_WITHIN_BOUND"
            /\ p.identity = IdentityOf[new.by] /\ p.check.state.identity = IdentityOf[new.by]
            /\ p.evaluation.purpose = PurposeOf[new.by]
            /\ p.check.state.purpose = p.evaluation.purpose
            /\ new.capability.sql = p.evaluation.proposal.sql
            /\ p.check.grammar.base = PlanOf[p.evaluation.proposal.sql]
            /\ p.check.grammar.state = p.check.state
            /\ p.evaluation.snapshot = new.installed
            /\ p.check.state.snapshot = new.installed
            /\ p.check.state.warehouse = new.warehouse
            /\ <<p.evaluation.proposal.sql, p.evaluation.snapshot.assets>>
                \in Permitted \cap GroundedIn
        BY <2>1, <2>2, <2>9, <2>12 DEF Commits_, Establishes, Searches, Grounds, Facts
      <3>2. new.capability.proof = p
        BY <2>9
      <3>3. QED
        BY <2>11, <3>1, <3>2 DEF ExecutionIsBound, ChainInv
    <2>14. ExecutedInTime'
      <3>1. p.evaluation.snapshot \in Snapshots /\ p.expires \in Nat
        BY <2>10 DEF Proofs, Evaluations
      <3>2. /\ d.at < p.expires /\ p.expires <= Expiry(p.evaluation.snapshot)
            /\ p.check.trust.evaluation = p.evaluation
        BY <2>2, <2>12 DEF Commits_, Establishes, Grounds
      <3>3. d.at < Expiry(p.check.trust.evaluation.snapshot)
        BY <3>1, <3>2, <2>10, ExpiryType
      <3>4. QED
        BY <2>9, <2>11, <3>2, <3>3 DEF ExecutedInTime, ChainInv
    <2>15. QED
      BY <2>7, <2>8, <2>13, <2>14 DEF ChainInv
  <1>2. QED
    BY <1>1, RefusingKeeps

-----------------------------------------------------------------------------
LEMMA ChainStarts ==
    ASSUME ChainInit
    PROVE  ChainInv
  <1>1. PICK a \in DOMAIN AssetsOf, observed \in 1..now, detours \in 0..MaxDetours :
            world = [detours |-> detours,
                     installed |-> [assets |-> a, observed |-> observed],
                     authority |-> [assets |-> a, observed |-> observed],
                     warehouse |-> 0, policy |-> 0]
    BY DEF ChainInit
  <1>2. now \in Nat /\ observed \in Nat /\ detours \in Nat
    BY ChainAssumption DEF ChainInit
  <1>3. world \in Worlds
    BY <1>1, <1>2 DEF Worlds, Snapshots
  <1>4. last \in [Authorities -> Nat]
    BY DEF ChainInit
  <1>5. \A s \in {"propose", "absent"} : [NoRequest EXCEPT !.stage = s] \in RequestStates
    BY DEF NoRequest, RequestStates, Stages, DraftStates
  <1>6. req \in [Requests -> RequestStates]
    BY <1>5 DEF ChainInit
  <1>7. ASSUME NEW r \in Requests PROVE HoldsSound(req[r]) /\ WorksOn(req[r], r, last["ppmc"])
    <2>1. PICK s \in {"propose", "absent"} : req[r] = [NoRequest EXCEPT !.stage = s]
      BY DEF ChainInit
    <2>2. /\ req[r].stage \in {"propose", "absent"} /\ req[r].check = None
          /\ req[r].proof = None /\ req[r].capability = None
      BY <2>1 DEF NoRequest
    <2>3. QED
      BY <2>2 DEF HoldsSound, WorksOn
  <1>8. ExecutionIsBound /\ ExecutedInTime
    BY DEF ChainInit, ExecutionIsBound, ExecutedInTime
  <1>9. QED
    BY <1>2, <1>3, <1>4, <1>6, <1>7, <1>8 DEF ChainInv, ChainTypeOK

LEMMA ChainSteps ==
    ASSUME ChainInv, [ChainNext]_chainVars
    PROVE  ChainInv'
  <1>1. CASE UNCHANGED chainVars
    BY <1>1 DEF chainVars, ChainInv, ChainTypeOK, ExecutionIsBound, ExecutedInTime
  <1>2. CASE Tick \/ SetBack \/ WorldChanges \/ Rediscover
    BY <1>2, EnvironmentKeeps
  <1>3. ASSUME NEW r \in Requests, RequestStep(r) PROVE ChainInv'
    BY <1>3, ProposeKeeps, AdaptKeeps, EvaluateKeeps, EvaluateIssueKeeps, EvaluateReturnKeeps,
       BindKeeps, BindIssueKeeps, BindReturnKeeps, ClearKeeps, ClearReturnKeeps, SearchKeeps,
       SearchReturnKeeps, ProveKeeps, IssueKeeps, ClaimKeeps, ConsumeKeeps, RevalidateKeeps,
       CommitKeeps
       DEF RequestStep
  <1>4. QED
    BY <1>1, <1>2, <1>3 DEF ChainNext

(* What every request holds, what every call is working on and what was    *)
(* executed has established what comes before it, at every moment of any   *)
(* interleaving of the calls of agent/ and execute/.                       *)
THEOREM ChainInvariant == ChainSpec => []ChainInv
  <1>1. ChainInit => ChainInv
    BY ChainStarts
  <1>2. ChainInv /\ [ChainNext]_chainVars => ChainInv'
    BY ChainSteps
  <1>3. QED
    BY <1>1, <1>2, PTL DEF ChainSpec

(* Whatever is executed rests upon one chain of artifacts, all for one     *)
(* query, snapshot, identity and purpose.                                  *)
THEOREM ChainBinds == ChainSpec => []ExecutionIsBound
  <1>1. ChainInv => ExecutionIsBound
    BY DEF ChainInv
  <1>2. QED
    BY <1>1, ChainInvariant, PTL

(* Neither a proof nor a capability outlives the evidence it rests upon,   *)
(* and no execution is admitted, by the clock its call read, after them.   *)
THEOREM ChainExpires == ChainSpec => []NothingOutlivesEvidence
  <1>1. ASSUME ChainInv PROVE NothingOutlivesEvidence
    BY <1>1 DEF ChainInv, HoldsSound, Establishes, Authorizes, ExecutedInTime,
                NothingOutlivesEvidence
  <1>2. QED
    BY <1>1, ChainInvariant, PTL

-----------------------------------------------------------------------------
(* What a step leaves of the artifacts the authorities have returned.      *)
Leaves(q) ==
    /\ req'[q].evaluation \in {None, req[q].evaluation}
    /\ req'[q].trust \in {None, req[q].trust}
    /\ req'[q].check \in {None, req[q].check}

LEMMA GivingLeaves ==
    ASSUME ChainInv, NEW r \in Requests, NEW x, Gives(r, x),
           x.evaluation \in {None, req[r].evaluation}, x.trust \in {None, req[r].trust},
           x.check \in {None, req[r].check}
    PROVE  \A q \in Requests : Leaves(q)
  BY DEF Gives, Leaves, ChainInv, ChainTypeOK

LEMMA DenyingLeaves ==
    ASSUME ChainInv, NEW r \in Requests, Denied(r)
    PROVE  \A q \in Requests : Leaves(q)
  <1> DEFINE x == [req[r] EXCEPT !.stage = "refused", !.draft = None]
  <1>1. req[r] \in RequestStates /\ req \in [Requests -> RequestStates]
    BY DEF ChainInv, ChainTypeOK
  <1>2. Gives(r, x)
    BY <1>1 DEF Denied, Refused, Gives
  <1>3. x.evaluation = req[r].evaluation /\ x.trust = req[r].trust /\ x.check = req[r].check
    BY <1>1 DEF RequestStates
  <1> HIDE DEF x
  <1>4. QED
    BY <1>2, <1>3, GivingLeaves

LEMMA BeginningLeaves ==
    ASSUME ChainInv, NEW r \in Requests, NEW stage, NEW draft, Gives(r, Begin(r, stage, draft))
    PROVE  \A q \in Requests : Leaves(q)
  <1> DEFINE x == Begin(r, stage, draft)
  <1>1. req[r] \in RequestStates
    BY DEF ChainInv, ChainTypeOK
  <1>2. x.evaluation = req[r].evaluation /\ x.trust = req[r].trust /\ x.check = req[r].check
    BY <1>1 DEF RequestStates, Begin
  <1> HIDE DEF x
  <1>3. QED
    BY <1>2, GivingLeaves DEF x

(* The authority that returns has just found the snapshot to be fresh.     *)
LEMMA EvaluationIsFresh ==
    ASSUME ChainInv, NEW r \in Requests, EvaluateReturn(r), ~Denied(r), NEW q \in Requests
    PROVE  ReturnsFresh(q)
  <1> DEFINE x == Return(r, "bind", "evaluation")
  <1>1. req \in [Requests -> RequestStates] /\ req[r] \in RequestStates
    BY DEF ChainInv, ChainTypeOK
  <1>2. /\ Reads("proposal") /\ FreshAt(req[r].draft.snapshot, now) /\ Gives(r, x)
    BY EvaluateReturnSteps
  <1>3. x.evaluation = req[r].draft /\ x.trust = req[r].trust /\ x.check = req[r].check
    BY <1>1 DEF RequestStates, Return
  <1>4. last'["proposal"] = now
    BY <1>2, Reading DEF ChainInv, Authorities
  <1> HIDE DEF x
  <1>5. req'[r] = x /\ (q # r => req'[q] = req[q])
    BY <1>1, <1>2 DEF Gives
  <1>6. QED
    BY <1>2, <1>3, <1>4, <1>5 DEF ReturnsFresh

LEMMA TrustIsFresh ==
    ASSUME ChainInv, NEW r \in Requests, BindReturn(r), ~Denied(r), NEW q \in Requests
    PROVE  ReturnsFresh(q)
  <1> DEFINE x == Return(r, "clear", "trust")
  <1>1. req \in [Requests -> RequestStates] /\ req[r] \in RequestStates
    BY DEF ChainInv, ChainTypeOK
  <1>2. Reads("trust") /\ FreshAt(req[r].draft.evaluation.snapshot, now) /\ Gives(r, x)
    BY BindReturnSteps
  <1>3. x.trust = req[r].draft /\ x.evaluation = req[r].evaluation /\ x.check = req[r].check
    BY <1>1 DEF RequestStates, Return
  <1>4. last'["trust"] = now
    BY <1>2, Reading DEF ChainInv, Authorities
  <1> HIDE DEF x
  <1>5. req'[r] = x /\ (q # r => req'[q] = req[q])
    BY <1>1, <1>2 DEF Gives
  <1>6. QED
    BY <1>2, <1>3, <1>4, <1>5 DEF ReturnsFresh

LEMMA CheckIsFresh ==
    ASSUME ChainInv, NEW r \in Requests, SearchReturn(r), ~Denied(r), NEW q \in Requests
    PROVE  ReturnsFresh(q)
  <1> DEFINE x == Return(r, "prove", "check")
  <1>1. req \in [Requests -> RequestStates] /\ req[r] \in RequestStates
    BY DEF ChainInv, ChainTypeOK
  <1>2. Reads("ppmc") /\ now < Expiry(req[r].draft.evaluation.snapshot) /\ Gives(r, x)
    BY SearchReturnSteps
  <1>3. x.check = req[r].draft /\ x.evaluation = req[r].evaluation /\ x.trust = req[r].trust
    BY <1>1 DEF RequestStates, Return
  <1>4. last'["ppmc"] = now /\ Later
    BY <1>2, Reading DEF ChainInv, Authorities
  <1>5. Observed(req[r].draft, last'["ppmc"])
    BY <1>4, StillWorking DEF SearchReturn, WorksOn
  <1>6. FreshAt(req[r].draft.evaluation.snapshot, now)
    BY <1>2, <1>4, <1>5 DEF Observed, FreshAt
  <1> HIDE DEF x
  <1>7. req'[r] = x /\ (q # r => req'[q] = req[q])
    BY <1>1, <1>2 DEF Gives
  <1>8. QED
    BY <1>3, <1>4, <1>6, <1>7 DEF ReturnsFresh

LEMMA OtherStepsLeave ==
    ASSUME ChainInv, NEW r \in Requests, RequestStep(r), ~Denied(r),
           ~EvaluateReturn(r), ~BindReturn(r), ~SearchReturn(r)
    PROVE  \A q \in Requests : Leaves(q)
  <1>1. req \in [Requests -> RequestStates] /\ req[r] \in RequestStates
    BY DEF ChainInv, ChainTypeOK
  <1>2. CASE Evaluate(r) \/ EvaluateIssue(r) \/ Bind(r) \/ BindIssue(r)
    BY <1>2, EvaluateSteps, EvaluateIssueSteps, BindSteps, BindIssueSteps, BeginningLeaves
  <1>3. CASE Clear(r)
    BY <1>3, ClearSteps, BeginningLeaves
  <1>4. CASE ClearReturn(r) \/ Search(r)
    BY <1>4, ClearReturnSteps, SearchSteps, BeginningLeaves
  <1>5. CASE Issue(r) \/ Consume(r) \/ Revalidate(r)
    BY <1>5, IssueSteps, ConsumeSteps, RevalidateSteps, BeginningLeaves
  <1>6. CASE Propose(r)
    BY <1>1, <1>6 DEF Propose, Leaves, RequestStates
  <1>7. CASE Adapt(r)
    BY <1>1, <1>7 DEF Adapt, Leaves, NoRequest
  <1>8. CASE Prove(r)
    <2>1. PICK proof : Gives(r, [req[r] EXCEPT !.stage = "issue", !.proof = proof])
      BY <1>8, ProveSteps
    <2> DEFINE x == [req[r] EXCEPT !.stage = "issue", !.proof = proof]
    <2>2. x.evaluation = req[r].evaluation /\ x.trust = req[r].trust /\ x.check = req[r].check
      BY <1>1 DEF RequestStates
    <2> HIDE DEF x
    <2>3. QED
      BY <2>1, <2>2, GivingLeaves DEF x
  <1>9. CASE Claim_(r)
    <2> DEFINE x == Return(r, "consume", "capability")
    <2>1. x.evaluation = req[r].evaluation /\ x.trust = req[r].trust /\ x.check = req[r].check
      BY <1>1 DEF RequestStates, Return
    <2>2. Gives(r, x)
      BY <1>9 DEF Claim_, Step, Gives
    <2> HIDE DEF x
    <2>3. QED
      BY <2>1, <2>2, GivingLeaves
  <1>10. CASE Commit(r)
    <2> DEFINE x == [req[r] EXCEPT !.stage = "executed", !.draft = None]
    <2>1. x.evaluation = req[r].evaluation /\ x.trust = req[r].trust /\ x.check = req[r].check
      BY <1>1 DEF RequestStates
    <2>2. Gives(r, x)
      BY <1>10, CommitSteps
    <2> HIDE DEF x
    <2>3. QED
      BY <2>1, <2>2, GivingLeaves
  <1>11. QED
    BY <1>2, <1>3, <1>4, <1>5, <1>6, <1>7, <1>8, <1>9, <1>10 DEF RequestStep

(* What an authority returns rests upon a snapshot that was fresh at the   *)
(* latest time the authority has ever read, wherever the clock was set     *)
(* back.                                                                   *)
THEOREM ChainRevivesNothing == ChainSpec => NothingIsRevived
  <1>1. \A q \in Requests : Leaves(q) => ReturnsFresh(q)
    BY DEF Leaves, ReturnsFresh
  <1>2. ASSUME ChainInv, ChainNext PROVE \A q \in Requests : ReturnsFresh(q)
    <2>1. CASE Tick \/ SetBack \/ WorldChanges \/ Rediscover
      BY <2>1 DEF Tick, SetBack, WorldChanges, Rediscover, ReturnsFresh
    <2>2. ASSUME NEW r \in Requests, RequestStep(r) PROVE \A q \in Requests : ReturnsFresh(q)
      <3>1. CASE Denied(r)
        BY <1>1, <1>2, <3>1, DenyingLeaves
      <3>2. CASE ~Denied(r) /\ (EvaluateReturn(r) \/ BindReturn(r) \/ SearchReturn(r))
        BY <1>2, <3>2, EvaluationIsFresh, TrustIsFresh, CheckIsFresh
      <3>3. CASE ~Denied(r) /\ ~EvaluateReturn(r) /\ ~BindReturn(r) /\ ~SearchReturn(r)
        BY <1>1, <1>2, <2>2, <3>3, OtherStepsLeave
      <3>4. QED
        BY <3>1, <3>2, <3>3
    <2>3. QED
      BY <1>2, <2>1, <2>2 DEF ChainNext
  <1>3. ChainInv /\ [ChainNext]_chainVars
            => [\A r \in Requests : ReturnsFresh(r)]_chainVars
    BY <1>2
  <1>4. QED
    BY <1>3, ChainInvariant, PTL DEF ChainSpec, NothingIsRevived

-----------------------------------------------------------------------------
(* Evidence.                                                               *)

UrnsAreNames(assets) ==
    \A d \in DOMAIN assets : \A f \in DOMAIN assets[d].labels :
        \A r \in assets[d].lineage[f].relations : r.urn # MissingLineage

LEMMA CatalogFields ==
    ASSUME NEW assets, NEW d \in DOMAIN Catalog(assets), NEW f \in DOMAIN Catalog(assets)[d]
    PROVE  /\ d \in DOMAIN assets /\ f \in DOMAIN assets[d].labels
           /\ Catalog(assets)[d][f] = [category |-> CategoryIn(assets, d, f),
                                       lineage |-> LineageSources(assets, d, f)]
           /\ Catalog(assets)[d][f].category = CategoryIn(assets, d, f)
           /\ Catalog(assets)[d][f].lineage = LineageSources(assets, d, f)
  BY DEF Catalog

(* Where a source comes from.                                              *)
LEMMA SourceOrigins ==
    ASSUME NEW assets, NEW d, NEW f, NEW s \in LineageSources(assets, d, f)
    PROVE  LET relations == assets[d].lineage[f].relations IN
           \/ \E r \in relations : \E c \in r.columns :
                /\ r.urn # NoUrn
                /\ s = Source(r.urn, c,
                              IF Known(assets, r.urn, c) THEN CategoryIn(assets, r.urn, c)
                              ELSE Unclassified, r.urn)
           \/ \E r \in relations : s = Source(MissingLineage, <<f, r>>, Unclassified, r.urn)
           \/ s = Source(MissingLineage, <<f>>, Unclassified, NoUrn)
  <1> DEFINE payload == assets[d].lineage[f]
             complete == {r \in payload.relations : r.urn # NoUrn /\ r.columns # {}}
             Classed(u, c) == IF Known(assets, u, c) THEN CategoryIn(assets, u, c)
                              ELSE Unclassified
             Upstream(r) == {Source(r.urn, c, Classed(r.urn, c), r.urn) :
                                c \in {x \in r.columns : <<r.urn, x>> # <<d, f>>}}
             Unread == {Source(MissingLineage, <<f, r>>, Unclassified, r.urn) :
                            r \in payload.relations \ complete}
             Missing == {x \in {Source(MissingLineage, <<f>>, Unclassified, NoUrn)} :
                            Incomplete(payload)}
             Readable == UNION {Upstream(r) : r \in complete}
  <1>1. LineageSources(assets, d, f) = Readable \cup Unread \cup Missing
    BY DEF LineageSources
  <1>2. CASE s \in Readable
    <2> HIDE DEF Classed
    <2>1. PICK r \in complete : s \in Upstream(r)
      BY <1>2
    <2>2. PICK c \in r.columns : s = Source(r.urn, c, Classed(r.urn, c), r.urn)
      BY <2>1
    <2>3. QED
      BY <2>1, <2>2 DEF Classed
  <1>3. CASE s \in Unread
    BY <1>3
  <1>4. CASE s \in Missing
    BY <1>4
  <1>5. s \in Readable \/ s \in Unread \/ s \in Missing
    <2> HIDE DEF Readable, Unread, Missing
    <2>1. QED
      BY <1>1
  <1>6. QED
    BY <1>2, <1>3, <1>4, <1>5, Zenon

(* Two sources of a field have different names.                            *)
LEMMA SourcesAreNamed ==
    ASSUME NEW assets, UrnsAreNames(assets),
           NEW d \in DOMAIN assets, NEW f \in DOMAIN assets[d].labels,
           NEW s \in LineageSources(assets, d, f), NEW t \in LineageSources(assets, d, f),
           s.dataset = t.dataset, s.field = t.field
    PROVE  s = t
  <1> DEFINE relations == assets[d].lineage[f].relations
             Classed(u, c) == IF Known(assets, u, c) THEN CategoryIn(assets, u, c)
                              ELSE Unclassified
             Read(x) == \E r \in relations : \E c \in r.columns :
                            x = Source(r.urn, c, Classed(r.urn, c), r.urn)
             Unread(x) == \E r \in relations :
                            x = Source(MissingLineage, <<f, r>>, Unclassified, r.urn)
             Missing(x) == x = Source(MissingLineage, <<f>>, Unclassified, NoUrn)
  <1>1. \A x \in LineageSources(assets, d, f) : Read(x) \/ Unread(x) \/ Missing(x)
    BY SourceOrigins
  <1>2. \A r \in relations : r.urn # MissingLineage
    BY DEF UrnsAreNames
  <1> HIDE DEF relations, Classed
  <1>3. \A x : Read(x) => x.dataset # MissingLineage
    BY <1>2 DEF Source
  <1>4. \A x : Unread(x) \/ Missing(x) => x.dataset = MissingLineage
    BY DEF Source
  <1>5. CASE Read(s) /\ Read(t)
    BY <1>5 DEF Source
  <1>6. CASE Unread(s) /\ Unread(t)
    BY <1>6 DEF Source
  <1>7. CASE Missing(s) /\ Missing(t)
    BY <1>7
  <1>8. ~(Unread(s) /\ Missing(t)) /\ ~(Missing(s) /\ Unread(t))
    <2>1. \A r : <<f, r>> # <<f>>
      OBVIOUS
    <2>2. QED
      BY <2>1 DEF Source
  <1>9. QED
    BY <1>1, <1>3, <1>4, <1>5, <1>6, <1>7, <1>8

(* What a classified source is.                                            *)
LEMMA SourceIsClassified ==
    ASSUME NEW assets, UrnsAreNames(assets),
           NEW d \in DOMAIN assets, NEW f \in DOMAIN assets[d].labels,
           NEW s \in LineageSources(assets, d, f), s.category # Unclassified
    PROVE  /\ s.urn # NoUrn /\ s.dataset = s.urn /\ s.dataset # MissingLineage
           /\ Known(assets, s.urn, s.field)
           /\ s.category = CategoryIn(assets, s.urn, s.field)
  <1> DEFINE relations == assets[d].lineage[f].relations
             Classed(u, c) == IF Known(assets, u, c) THEN CategoryIn(assets, u, c)
                              ELSE Unclassified
  <1>1. \A r \in relations : r.urn # MissingLineage
    BY DEF UrnsAreNames
  <1>2. PICK r \in relations : \E c \in r.columns :
            r.urn # NoUrn /\ s = Source(r.urn, c, Classed(r.urn, c), r.urn)
    BY SourceOrigins DEF Source
  <1>3. QED
    BY <1>1, <1>2 DEF Source

-----------------------------------------------------------------------------
(* Claims: of the source, of a dataset, of a field, of an edge.            *)
SourceClaims ==
    {Claim(SourceIdentity, "datahub.snapshot_sha256", <<"snapshot">>, RuntimeObserved, TRUE),
     Claim(SourceIdentity, "datahub.catalog_version", <<"version">>, ExplicitMapping, TRUE)}
DatasetClaim(d) ==
    Claim(DatasetSubject(d), "datahub.logical_name", <<d>>, ExplicitMapping, TRUE)
TagsClaim(d, f, field) ==
    Claim(FieldSubject(d, f), "datahub.tags", <<field.category>>, RuntimeObserved, TRUE)
TermsClaim(d, f, field) ==
    Claim(FieldSubject(d, f), "datahub.glossary_terms", <<field.category>>, RuntimeObserved, TRUE)
CategoryClaim(d, f, field) ==
    [Claim(FieldSubject(d, f), "toxicjoin.sensitivity_category", <<field.category>>,
           ExplicitMapping, field.category # Unclassified)
        EXCEPT !.supports = @ \cup {<<FieldSubject(d, f), "datahub.tags">>,
                                    <<FieldSubject(d, f), "datahub.glossary_terms">>}]
TransportClaim(d, f, field) ==
    Claim(FieldSubject(d, f), "datahub.lineage_transport_complete",
          Flag(\A s \in field.lineage : s.dataset # MissingLineage), ExplicitMapping, TRUE)
CompleteClaim(d, f, field) ==
    Claim(FieldSubject(d, f), "toxicjoin.lineage_governance_complete",
          Flag(\A s \in field.lineage : s.category # Unclassified), ExplicitMapping, TRUE)
OwnClaims(d, f, field) ==
    {TagsClaim(d, f, field), TermsClaim(d, f, field), CategoryClaim(d, f, field),
     TransportClaim(d, f, field), CompleteClaim(d, f, field)}

LEMMA FieldClaimsAre ==
    ASSUME NEW d, NEW f, NEW field
    PROVE  FieldClaims(d, f, field)
             = OwnClaims(d, f, field) \cup UNION {EdgeClaims(d, f, s) : s \in field.lineage}
  BY DEF FieldClaims, OwnClaims, TagsClaim, TermsClaim, CategoryClaim, TransportClaim,
         CompleteClaim

LEMMA ClaimsAre ==
    ASSUME NEW catalog
    PROVE  Claims(catalog)
             = SourceClaims \cup {DatasetClaim(d) : d \in DOMAIN catalog}
               \cup UNION {UNION {FieldClaims(d, f, catalog[d][f]) : f \in DOMAIN catalog[d]} :
                            d \in DOMAIN catalog}
  BY DEF Claims, SourceClaims, DatasetClaim

(* The families a claim belongs to.                                        *)
LEMMA ClaimFamilies ==
    ASSUME NEW catalog, NEW c \in Claims(catalog)
    PROVE  \/ c \in SourceClaims
           \/ \E d \in DOMAIN catalog : c = DatasetClaim(d)
           \/ \E d \in DOMAIN catalog : \E f \in DOMAIN catalog[d] :
                c \in OwnClaims(d, f, catalog[d][f])
           \/ \E d \in DOMAIN catalog : \E f \in DOMAIN catalog[d] :
                \E s \in catalog[d][f].lineage : c \in EdgeClaims(d, f, s)
  <1>1. CASE c \in UNION {UNION {FieldClaims(d, f, catalog[d][f]) : f \in DOMAIN catalog[d]} :
                          d \in DOMAIN catalog}
    <2>1. PICK d \in DOMAIN catalog : \E f \in DOMAIN catalog[d] :
              c \in FieldClaims(d, f, catalog[d][f])
      BY <1>1
    <2>2. PICK f \in DOMAIN catalog[d] : c \in FieldClaims(d, f, catalog[d][f])
      BY <2>1
    <2>3. c \in OwnClaims(d, f, catalog[d][f])
            \cup UNION {EdgeClaims(d, f, s) : s \in catalog[d][f].lineage}
      BY <2>2, FieldClaimsAre
    <2>4. QED
      BY <2>3
  <1>2. QED
    BY <1>1, ClaimsAre

LEMMA FamiliesAreClaims ==
    ASSUME NEW catalog
    PROVE  /\ SourceClaims \subseteq Claims(catalog)
           /\ \A d \in DOMAIN catalog : DatasetClaim(d) \in Claims(catalog)
           /\ \A d \in DOMAIN catalog : \A f \in DOMAIN catalog[d] :
                /\ OwnClaims(d, f, catalog[d][f]) \subseteq Claims(catalog)
                /\ \A s \in catalog[d][f].lineage :
                    EdgeClaims(d, f, s) \subseteq Claims(catalog)
  <1>1. /\ SourceClaims \subseteq Claims(catalog)
        /\ \A d \in DOMAIN catalog : DatasetClaim(d) \in Claims(catalog)
    BY ClaimsAre
  <1>2. \A d \in DOMAIN catalog : \A f \in DOMAIN catalog[d] :
            FieldClaims(d, f, catalog[d][f]) \subseteq Claims(catalog)
    BY ClaimsAre
  <1>3. ASSUME NEW d \in DOMAIN catalog, NEW f \in DOMAIN catalog[d]
        PROVE  /\ OwnClaims(d, f, catalog[d][f]) \subseteq Claims(catalog)
               /\ \A s \in catalog[d][f].lineage : EdgeClaims(d, f, s) \subseteq Claims(catalog)
    <2>1. FieldClaims(d, f, catalog[d][f])
            = OwnClaims(d, f, catalog[d][f])
                \cup UNION {EdgeClaims(d, f, s) : s \in catalog[d][f].lineage}
      BY FieldClaimsAre
    <2>2. QED
      BY <1>2, <2>1
  <1>4. QED
    BY <1>1, <1>3

(* Claims of two families have different subjects, and two claims of one   *)
(* family that agree on subject and predicate are the same.                *)
LEMMA SubjectsDiffer ==
    /\ \A c \in SourceClaims : c.subject[1] = "identity"
    /\ \A d : DatasetClaim(d).subject[1] = "dataset" /\ DatasetClaim(d).subject[2] = d
    /\ \A d, f, field : \A c \in OwnClaims(d, f, field) :
        c.subject[1] = "field" /\ c.subject[2] = d /\ c.subject[3] = f
    /\ \A d, f, s : \A c \in EdgeClaims(d, f, s) :
        /\ c.subject[1] = "edge" /\ c.subject[2] = d /\ c.subject[3] = f
        /\ c.subject[4] = s.dataset /\ c.subject[5] = s.field
  <1>1. \A c \in SourceClaims : c.subject[1] = "identity"
    BY DEF SourceClaims, Claim, SourceIdentity
  <1>2. \A d : DatasetClaim(d).subject[1] = "dataset" /\ DatasetClaim(d).subject[2] = d
    BY DEF DatasetClaim, Claim, DatasetSubject
  <1>3. ASSUME NEW d, NEW f, NEW field, NEW c \in OwnClaims(d, f, field)
        PROVE  c.subject[1] = "field" /\ c.subject[2] = d /\ c.subject[3] = f
    <2>1. /\ TagsClaim(d, f, field).subject = FieldSubject(d, f)
          /\ TermsClaim(d, f, field).subject = FieldSubject(d, f)
          /\ CategoryClaim(d, f, field).subject = FieldSubject(d, f)
          /\ TransportClaim(d, f, field).subject = FieldSubject(d, f)
          /\ CompleteClaim(d, f, field).subject = FieldSubject(d, f)
      BY DEF TagsClaim, TermsClaim, CategoryClaim, TransportClaim, CompleteClaim, Claim
    <2>2. c.subject = FieldSubject(d, f)
      BY <1>3, <2>1 DEF OwnClaims
    <2>3. QED
      BY <2>2 DEF FieldSubject
  <1>4. ASSUME NEW d, NEW f, NEW s, NEW c \in EdgeClaims(d, f, s)
        PROVE  /\ c.subject[1] = "edge" /\ c.subject[2] = d /\ c.subject[3] = f
               /\ c.subject[4] = s.dataset /\ c.subject[5] = s.field
    <2>1. c.subject = EdgeSubject(d, f, s)
      BY <1>4 DEF EdgeClaims, Claim
    <2>2. QED
      BY <2>1 DEF EdgeSubject
  <1>5. QED
    BY <1>1, <1>2, <1>3, <1>4

LEMMA FamiliesAgree ==
    /\ \A c, e \in SourceClaims : c.predicate = e.predicate => c = e
    /\ \A d, f, field : \A c, e \in OwnClaims(d, f, field) :
        c.predicate = e.predicate => c = e
    /\ \A d, f, s : \A c, e \in EdgeClaims(d, f, s) : c.predicate = e.predicate => c = e
  <1>1. \A c, e \in SourceClaims : c.predicate = e.predicate => c = e
    <2> DEFINE snapshot == Claim(SourceIdentity, "datahub.snapshot_sha256", <<"snapshot">>,
                                 RuntimeObserved, TRUE)
               version == Claim(SourceIdentity, "datahub.catalog_version", <<"version">>,
                                ExplicitMapping, TRUE)
    <2>1. /\ snapshot.predicate = "datahub.snapshot_sha256"
          /\ version.predicate = "datahub.catalog_version"
      BY DEF Claim
    <2>2. SourceClaims = {snapshot, version}
      BY DEF SourceClaims
    <2> HIDE DEF snapshot, version
    <2>3. QED
      BY <2>1, <2>2
  <1>2. ASSUME NEW d, NEW f, NEW field
        PROVE  \A c, e \in OwnClaims(d, f, field) : c.predicate = e.predicate => c = e
    <2>1. /\ TagsClaim(d, f, field).predicate = "datahub.tags"
          /\ TermsClaim(d, f, field).predicate = "datahub.glossary_terms"
          /\ CategoryClaim(d, f, field).predicate = "toxicjoin.sensitivity_category"
          /\ TransportClaim(d, f, field).predicate = "datahub.lineage_transport_complete"
          /\ CompleteClaim(d, f, field).predicate = "toxicjoin.lineage_governance_complete"
      BY DEF TagsClaim, TermsClaim, CategoryClaim, TransportClaim, CompleteClaim, Claim
    <2>2. QED
      BY <2>1 DEF OwnClaims
  <1>3. \A d, f, s : \A c, e \in EdgeClaims(d, f, s) : c.predicate = e.predicate => c = e
    BY DEF EdgeClaims, Claim
  <1>4. QED
    BY <1>1, <1>2, <1>3

LEMMA ClaimsAreUnique ==
    ASSUME NEW assets, UrnsAreNames(assets),
           NEW c \in Claims(Catalog(assets)), NEW e \in Claims(Catalog(assets)),
           c.subject = e.subject, c.predicate = e.predicate
    PROVE  c = e
  <1> DEFINE catalog == Catalog(assets)
             InSource(x) == x \in SourceClaims
             InDataset(x) == \E d \in DOMAIN catalog : x = DatasetClaim(d)
             InField(x) == \E d \in DOMAIN catalog : \E f \in DOMAIN catalog[d] :
                               x \in OwnClaims(d, f, catalog[d][f])
             InEdge(x) == \E d \in DOMAIN catalog : \E f \in DOMAIN catalog[d] :
                               \E s \in catalog[d][f].lineage : x \in EdgeClaims(d, f, s)
  <1>1. \A x \in Claims(catalog) : InSource(x) \/ InDataset(x) \/ InField(x) \/ InEdge(x)
    BY ClaimFamilies
  <1>2. \A d \in DOMAIN catalog : \A f \in DOMAIN catalog[d] :
            \A s, t \in catalog[d][f].lineage :
                s.dataset = t.dataset /\ s.field = t.field => s = t
    BY CatalogFields, SourcesAreNamed
  <1> HIDE DEF catalog
  <1>3. /\ \A x : InSource(x) => x.subject[1] = "identity"
        /\ \A x : InDataset(x) => x.subject[1] = "dataset"
        /\ \A x : InField(x) => x.subject[1] = "field"
        /\ \A x : InEdge(x) => x.subject[1] = "edge"
    BY SubjectsDiffer
  <1>4. CASE InSource(c) /\ InSource(e)
    BY <1>4, FamiliesAgree
  <1>5. CASE InDataset(c) /\ InDataset(e)
    BY <1>5, SubjectsDiffer
  <1>6. CASE InField(c) /\ InField(e)
    BY <1>6, SubjectsDiffer, FamiliesAgree
  <1>7. CASE InEdge(c) /\ InEdge(e)
    <2>1. PICK d \in DOMAIN catalog : \E f \in DOMAIN catalog[d] :
              \E s \in catalog[d][f].lineage : c \in EdgeClaims(d, f, s)
      BY <1>7
    <2>2. PICK f \in DOMAIN catalog[d] : \E s \in catalog[d][f].lineage : c \in EdgeClaims(d, f, s)
      BY <2>1
    <2>3. PICK s \in catalog[d][f].lineage : c \in EdgeClaims(d, f, s)
      BY <2>2
    <2>4. PICK d2 \in DOMAIN catalog : \E f2 \in DOMAIN catalog[d2] :
              \E s2 \in catalog[d2][f2].lineage : e \in EdgeClaims(d2, f2, s2)
      BY <1>7
    <2>5. PICK f2 \in DOMAIN catalog[d2] :
              \E s2 \in catalog[d2][f2].lineage : e \in EdgeClaims(d2, f2, s2)
      BY <2>4
    <2>6. PICK s2 \in catalog[d2][f2].lineage : e \in EdgeClaims(d2, f2, s2)
      BY <2>5
    <2>7. d = d2 /\ f = f2 /\ s.dataset = s2.dataset /\ s.field = s2.field
      BY <2>3, <2>6, SubjectsDiffer
    <2>8. s = s2
      BY <1>2, <2>7
    <2>9. QED
      BY <2>3, <2>6, <2>7, <2>8, FamiliesAgree
  <1>8. QED
    BY <1>1, <1>3, <1>4, <1>5, <1>6, <1>7 DEF catalog

-----------------------------------------------------------------------------
(* The bundle is valid: every claim rests upon the root.                   *)
RootClaim ==
    Claim(SourceIdentity, "datahub.snapshot_sha256", <<"snapshot">>, RuntimeObserved, TRUE)

LEMMA ClaimFields ==
    ASSUME NEW catalog, NEW c \in Claims(catalog)
    PROVE  /\ c.source = "DATAHUB_MCP"
           /\ c.derivation \in {ExplicitMapping, RuntimeObserved}
           /\ IF <<c.subject, c.predicate>> = Root THEN c.supports = {} ELSE Root \in c.supports
           /\ \A s \in c.supports : \E d \in Claims(catalog) : <<d.subject, d.predicate>> = s
  <1> DEFINE Rooted(x) == IF <<x.subject, x.predicate>> = Root THEN x.supports = {}
                          ELSE x.supports = {Root}
             Fields(x) == /\ x.source = "DATAHUB_MCP"
                          /\ x.derivation \in {ExplicitMapping, RuntimeObserved}
  <1>1. \E e \in Claims(catalog) : <<e.subject, e.predicate>> = Root
    <2>1. RootClaim \in Claims(catalog)
      BY FamiliesAreClaims DEF SourceClaims, RootClaim
    <2>2. <<RootClaim.subject, RootClaim.predicate>> = Root
      BY DEF RootClaim, Claim, Root
    <2>3. QED
      BY <2>1, <2>2
  <1>2. ASSUME NEW subject, NEW predicate, NEW value, NEW complete,
               NEW derivation \in {ExplicitMapping, RuntimeObserved}
        PROVE  LET x == Claim(subject, predicate, value, derivation, complete) IN
               Fields(x) /\ Rooted(x)
    BY DEF Claim
  <1>9. ASSUME NEW x, NEW subject, NEW predicate, NEW value, NEW complete,
               \/ x = Claim(subject, predicate, value, ExplicitMapping, complete)
               \/ x = Claim(subject, predicate, value, RuntimeObserved, complete)
        PROVE  Fields(x) /\ Rooted(x)
    BY <1>2, <1>9
  <1>3. ASSUME Fields(c), Rooted(c)
        PROVE  /\ c.source = "DATAHUB_MCP"
               /\ c.derivation \in {ExplicitMapping, RuntimeObserved}
               /\ IF <<c.subject, c.predicate>> = Root THEN c.supports = {} ELSE Root \in c.supports
               /\ \A s \in c.supports : \E d \in Claims(catalog) : <<d.subject, d.predicate>> = s
    BY <1>1, <1>3
  <1> HIDE DEF Fields, Rooted
  <1>4. CASE c \in SourceClaims
    <2>1. Fields(c) /\ Rooted(c)
      BY <1>4, <1>9 DEF SourceClaims
    <2>2. QED
      BY <1>3, <2>1
  <1>5. CASE \E d \in DOMAIN catalog : c = DatasetClaim(d)
    <2>1. Fields(c) /\ Rooted(c)
      BY <1>5, <1>9 DEF DatasetClaim
    <2>2. QED
      BY <1>3, <2>1
  <1>6. CASE \E d \in DOMAIN catalog : \E f \in DOMAIN catalog[d] :
                \E s \in catalog[d][f].lineage : c \in EdgeClaims(d, f, s)
    <2>1. PICK d \in DOMAIN catalog : \E f \in DOMAIN catalog[d] :
                \E s \in catalog[d][f].lineage : c \in EdgeClaims(d, f, s)
      BY <1>6
    <2>2. PICK f \in DOMAIN catalog[d] : \E s \in catalog[d][f].lineage : c \in EdgeClaims(d, f, s)
      BY <2>1
    <2>3. PICK s \in catalog[d][f].lineage : c \in EdgeClaims(d, f, s)
      BY <2>2
    <2>4. Fields(c) /\ Rooted(c)
      BY <1>9, <2>3 DEF EdgeClaims
    <2>5. QED
      BY <1>3, <2>4
  <1>7. ASSUME NEW d \in DOMAIN catalog, NEW f \in DOMAIN catalog[d],
               c \in OwnClaims(d, f, catalog[d][f])
        PROVE  /\ c.source = "DATAHUB_MCP"
               /\ c.derivation \in {ExplicitMapping, RuntimeObserved}
               /\ IF <<c.subject, c.predicate>> = Root THEN c.supports = {} ELSE Root \in c.supports
               /\ \A s \in c.supports : \E e \in Claims(catalog) : <<e.subject, e.predicate>> = s
    <2> DEFINE field == catalog[d][f]
    <2>1. CASE c = CategoryClaim(d, f, field)
      <3> DEFINE plain == Claim(FieldSubject(d, f), "toxicjoin.sensitivity_category",
                                <<field.category>>, ExplicitMapping,
                                field.category # Unclassified)
      <3>1. /\ c.source = plain.source /\ c.derivation = plain.derivation
            /\ c.subject = plain.subject /\ c.predicate = plain.predicate
            /\ c.supports = plain.supports \cup {<<FieldSubject(d, f), "datahub.tags">>,
                                        <<FieldSubject(d, f), "datahub.glossary_terms">>}
        BY <2>1 DEF CategoryClaim, Claim
      <3>2. Fields(plain) /\ Rooted(plain)
        BY <1>2
      <3>3. <<plain.subject, plain.predicate>> # Root
        BY DEF Claim, Root
      <3>4. /\ \E e \in Claims(catalog) :
                  <<e.subject, e.predicate>> = <<FieldSubject(d, f), "datahub.tags">>
            /\ \E e \in Claims(catalog) :
                  <<e.subject, e.predicate>> = <<FieldSubject(d, f), "datahub.glossary_terms">>
        <4>1. /\ TagsClaim(d, f, field) \in Claims(catalog)
              /\ TermsClaim(d, f, field) \in Claims(catalog)
          BY FamiliesAreClaims DEF OwnClaims
        <4>2. /\ TagsClaim(d, f, field).subject = FieldSubject(d, f)
              /\ TagsClaim(d, f, field).predicate = "datahub.tags"
              /\ TermsClaim(d, f, field).subject = FieldSubject(d, f)
              /\ TermsClaim(d, f, field).predicate = "datahub.glossary_terms"
          BY DEF TagsClaim, TermsClaim, Claim
        <4>3. QED
          BY <4>1, <4>2
      <3> HIDE DEF plain
      <3>5. QED
        BY <1>1, <3>1, <3>2, <3>3, <3>4 DEF Fields, Rooted
    <2>2. CASE c # CategoryClaim(d, f, field)
      <3>1. Fields(c) /\ Rooted(c)
        BY <1>7, <1>9, <2>2
           DEF OwnClaims, TagsClaim, TermsClaim, TransportClaim, CompleteClaim
      <3>2. QED
        BY <1>3, <3>1
    <2>3. QED
      BY <2>1, <2>2
  <1>8. QED
    BY <1>4, <1>5, <1>6, <1>7, ClaimFamilies

LEMMA BundleIsValid ==
    ASSUME NEW assets, UrnsAreNames(assets)
    PROVE  BundleValid(Claims(Catalog(assets)))
  <1> DEFINE claims == Claims(Catalog(assets))
  <1>1. RootClaim \in claims /\ <<RootClaim.subject, RootClaim.predicate>> = Root
    BY FamiliesAreClaims DEF SourceClaims, RootClaim, Claim, Root
  <1>2. {c \in claims : <<c.subject, c.predicate>> = Root} = {RootClaim}
    <2>1. ASSUME NEW c \in claims, <<c.subject, c.predicate>> = Root PROVE c = RootClaim
      <3>1. c.subject = RootClaim.subject /\ c.predicate = RootClaim.predicate
        BY <1>1, <2>1
      <3>2. QED
        BY <1>1, <3>1, ClaimsAreUnique
    <2> HIDE DEF claims
    <2>2. QED
      BY <1>1, <2>1
  <1>3. Cardinality({RootClaim}) = 1
    BY FS_Singleton
  <1>4. QED
    BY <1>2, <1>3, ClaimFields DEF BundleValid

-----------------------------------------------------------------------------
(* Facts.  Each is what a complete claim says.                             *)
Backed(catalog, fact) ==
    \E c \in Claims(catalog) :
        /\ c.subject = fact.subject /\ c.predicate = fact.predicate /\ c.value = fact.value
        /\ c.complete = TRUE

(* A fact is trusted when it is backed, since nothing contradicts it.      *)
LEMMA BackedIsTrusted ==
    ASSUME NEW assets, UrnsAreNames(assets), NEW fact, Backed(Catalog(assets), fact)
    PROVE  LET scope == {c \in Claims(Catalog(assets)) :
                            c.subject = fact.subject /\ c.predicate = fact.predicate}
               resolution == ResolveEvidence(scope, GovernanceRules, scope, scope)
           IN  resolution.state = "TRUSTED" /\ resolution.value = {fact.value}
  <1> DEFINE claims == Claims(Catalog(assets))
             scope == {c \in claims : c.subject = fact.subject /\ c.predicate = fact.predicate}
  <1>1. PICK e \in claims :
            /\ e.subject = fact.subject /\ e.predicate = fact.predicate /\ e.value = fact.value
            /\ e.complete = TRUE
    BY DEF Backed
  <1>2. scope = {e}
    <2>1. ASSUME NEW c \in claims, c.subject = fact.subject, c.predicate = fact.predicate
          PROVE  c = e
      BY <1>1, <2>1, ClaimsAreUnique
    <2> HIDE DEF claims
    <2>2. QED
      BY <1>1, <2>1
  <1>3. Trusts(GovernanceRules, e)
    <2>1. e.source = "DATAHUB_MCP" /\ e.derivation \in {ExplicitMapping, RuntimeObserved}
      BY ClaimFields
    <2>2. QED
      BY <2>1 DEF Trusts, GovernanceRules
  <1> HIDE DEF claims, scope
  <1> DEFINE admissible == {c \in {e} : Trusts(GovernanceRules, c)}
             current == admissible \cap {e}
             values == {c.value : c \in current}
  <1>4. admissible = {e} /\ current = {e}
    BY <1>3
  <1>5. values = {fact.value} /\ Cardinality(values) = 1
    <2>1. values = {fact.value}
      BY <1>1, <1>4
    <2>2. QED
      BY <2>1, FS_Singleton
  <1>6. /\ ResolveEvidence({e}, GovernanceRules, {e}, {e}).state = "TRUSTED"
        /\ ResolveEvidence({e}, GovernanceRules, {e}, {e}).value = values
    <2> DEFINE state ==
                 CASE admissible = {} ->
                        IF {e} # {} /\ \A c \in {e} : c.source = "AGENT"
                        THEN "AGENT_ASSERTED" ELSE "UNKNOWN"
                   [] admissible # {} /\ current = {} ->
                        IF admissible \cap {e} # {} THEN "STALE" ELSE "UNKNOWN"
                   [] current # {} /\ \E c \in current : ~c.complete -> "INCOMPLETE"
                   [] current # {} /\ (\A c \in current : c.complete)
                        /\ Cardinality(values) # 1 -> "CONTESTED"
                   [] OTHER -> "TRUSTED"
    <2>1. ResolveEvidence({e}, GovernanceRules, {e}, {e})
            = [state |-> state, value |-> IF state = "TRUSTED" THEN values ELSE {}]
      BY DEF ResolveEvidence
    <2>2. state = "TRUSTED"
      <3> HIDE DEF values
      <3>1. admissible # {} /\ current # {} /\ \A c \in current : c.complete = TRUE
        BY <1>1, <1>4
      <3> HIDE DEF admissible, current
      <3>2. QED
        BY <1>5, <3>1
    <2> HIDE DEF state, values
    <2>3. QED
      BY <2>1, <2>2
  <1>7. QED
    BY <1>2, <1>5, <1>6 DEF scope, claims

(* The facts required of a column that resolves are backed: those about    *)
(* the column, and those about each source of its lineage.                 *)
LEMMA OwnFactsAreBacked ==
    ASSUME NEW assets, UrnsAreNames(assets), NEW column,
           Resolved(Catalog(assets), column)
    PROVE  LET catalog == Catalog(assets)
               d == column[1]  f == column[2]  field == catalog[d][f]
               subject == FieldSubject(d, f)
           IN  /\ Backed(catalog, Fact(DatasetSubject(d), "datahub.logical_name", <<d>>))
               /\ Backed(catalog, Fact(subject, "datahub.tags", <<field.category>>))
               /\ Backed(catalog, Fact(subject, "datahub.glossary_terms", <<field.category>>))
               /\ Backed(catalog, Fact(subject, "toxicjoin.sensitivity_category",
                                       <<field.category>>))
               /\ Backed(catalog, Fact(subject, "datahub.lineage_transport_complete", <<"true">>))
               /\ Backed(catalog, Fact(subject, "toxicjoin.lineage_governance_complete",
                                       <<"true">>))
  <1> DEFINE catalog == Catalog(assets)
             d == column[1]
             f == column[2]
             field == catalog[d][f]
  <1>1. /\ d \in DOMAIN catalog /\ f \in DOMAIN catalog[d]
        /\ field.category # Unclassified
        /\ \A s \in field.lineage : s.category # Unclassified
    BY DEF Resolved
  <1>2. \A s \in field.lineage : s.dataset # MissingLineage
    BY <1>1, CatalogFields, SourceIsClassified
  <1>3. /\ DatasetClaim(d) \in Claims(catalog)
        /\ OwnClaims(d, f, field) \subseteq Claims(catalog)
    BY <1>1, FamiliesAreClaims
  <1> HIDE DEF catalog, d, f, field
  <1>4. Backed(catalog, Fact(DatasetSubject(d), "datahub.logical_name", <<d>>))
    <2>1. /\ DatasetClaim(d).subject = DatasetSubject(d)
          /\ DatasetClaim(d).predicate = "datahub.logical_name"
          /\ DatasetClaim(d).value = <<d>> /\ DatasetClaim(d).complete = TRUE
      BY DEF DatasetClaim, Claim
    <2>2. QED
      BY <1>3, <2>1 DEF Backed, Fact
  <1>5. Backed(catalog, Fact(FieldSubject(d, f), "datahub.tags", <<field.category>>))
    <2>1. /\ TagsClaim(d, f, field).subject = FieldSubject(d, f)
          /\ TagsClaim(d, f, field).predicate = "datahub.tags"
          /\ TagsClaim(d, f, field).value = <<field.category>>
          /\ TagsClaim(d, f, field).complete = TRUE
      BY DEF TagsClaim, Claim
    <2>2. TagsClaim(d, f, field) \in Claims(catalog)
      BY <1>3 DEF OwnClaims
    <2>3. QED
      BY <2>1, <2>2 DEF Backed, Fact
  <1>6. Backed(catalog, Fact(FieldSubject(d, f), "datahub.glossary_terms", <<field.category>>))
    <2>1. /\ TermsClaim(d, f, field).subject = FieldSubject(d, f)
          /\ TermsClaim(d, f, field).predicate = "datahub.glossary_terms"
          /\ TermsClaim(d, f, field).value = <<field.category>>
          /\ TermsClaim(d, f, field).complete = TRUE
      BY DEF TermsClaim, Claim
    <2>2. TermsClaim(d, f, field) \in Claims(catalog)
      BY <1>3 DEF OwnClaims
    <2>3. QED
      BY <2>1, <2>2 DEF Backed, Fact
  <1>7. Backed(catalog, Fact(FieldSubject(d, f), "toxicjoin.sensitivity_category",
                             <<field.category>>))
    <2>1. /\ CategoryClaim(d, f, field).subject = FieldSubject(d, f)
          /\ CategoryClaim(d, f, field).predicate = "toxicjoin.sensitivity_category"
          /\ CategoryClaim(d, f, field).value = <<field.category>>
          /\ CategoryClaim(d, f, field).complete = (field.category # Unclassified)
      BY DEF CategoryClaim, Claim
    <2>2. CategoryClaim(d, f, field) \in Claims(catalog)
      BY <1>3 DEF OwnClaims
    <2>3. QED
      BY <1>1, <2>1, <2>2 DEF Backed, Fact
  <1>8. Backed(catalog, Fact(FieldSubject(d, f), "datahub.lineage_transport_complete",
                             <<"true">>))
    <2>1. /\ TransportClaim(d, f, field).subject = FieldSubject(d, f)
          /\ TransportClaim(d, f, field).predicate = "datahub.lineage_transport_complete"
          /\ TransportClaim(d, f, field).value = <<"true">>
          /\ TransportClaim(d, f, field).complete = TRUE
      BY <1>2 DEF TransportClaim, Claim, Flag
    <2>2. TransportClaim(d, f, field) \in Claims(catalog)
      BY <1>3 DEF OwnClaims
    <2>3. QED
      BY <2>1, <2>2 DEF Backed, Fact
  <1>9. Backed(catalog, Fact(FieldSubject(d, f), "toxicjoin.lineage_governance_complete",
                             <<"true">>))
    <2>1. /\ CompleteClaim(d, f, field).subject = FieldSubject(d, f)
          /\ CompleteClaim(d, f, field).predicate = "toxicjoin.lineage_governance_complete"
          /\ CompleteClaim(d, f, field).value = <<"true">>
          /\ CompleteClaim(d, f, field).complete = TRUE
      BY <1>1 DEF CompleteClaim, Claim, Flag
    <2>2. CompleteClaim(d, f, field) \in Claims(catalog)
      BY <1>3 DEF OwnClaims
    <2>3. QED
      BY <2>1, <2>2 DEF Backed, Fact
  <1>10. QED
    BY <1>4, <1>5, <1>6, <1>7, <1>8, <1>9 DEF catalog, d, f, field

LEMMA SourceFactsAreBacked ==
    ASSUME NEW assets, UrnsAreNames(assets),
           NEW d \in DOMAIN Catalog(assets), NEW f \in DOMAIN Catalog(assets)[d],
           NEW s \in Catalog(assets)[d][f].lineage, s.category # Unclassified
    PROVE  LET catalog == Catalog(assets) IN
           /\ s.urn # NoUrn
           /\ Backed(catalog, Fact(DatasetSubject(s.urn), "datahub.logical_name", <<s.dataset>>))
           /\ Backed(catalog, Fact(FieldSubject(s.urn, s.field), "toxicjoin.sensitivity_category",
                                   <<s.category>>))
           /\ Backed(catalog, Fact(EdgeSubject(d, f, s), "datahub.lineage_source_ref",
                                   <<s.dataset, s.field>>))
           /\ Backed(catalog, Fact(EdgeSubject(d, f, s), "toxicjoin.lineage_source_category",
                                   <<s.category>>))
           /\ Backed(catalog, Fact(EdgeSubject(d, f, s), "datahub.lineage_source_urn", <<s.urn>>))
  <1> DEFINE catalog == Catalog(assets)
             u == s.urn
             c == s.field
  <1>1. /\ u # NoUrn /\ s.dataset = u
        /\ Known(assets, u, c) /\ s.category = CategoryIn(assets, u, c)
    BY CatalogFields, SourceIsClassified
  <1>2. /\ u \in DOMAIN catalog /\ c \in DOMAIN catalog[u]
        /\ catalog[u][c].category = s.category
    BY <1>1 DEF Known, Catalog
  <1>3. /\ DatasetClaim(u) \in Claims(catalog)
        /\ OwnClaims(u, c, catalog[u][c]) \subseteq Claims(catalog)
        /\ EdgeClaims(d, f, s) \subseteq Claims(catalog)
    BY <1>2, FamiliesAreClaims
  <1> HIDE DEF catalog, c, u
  <1>4. Backed(catalog, Fact(DatasetSubject(u), "datahub.logical_name", <<s.dataset>>))
    <2>1. /\ DatasetClaim(u).subject = DatasetSubject(u)
          /\ DatasetClaim(u).predicate = "datahub.logical_name"
          /\ DatasetClaim(u).value = <<s.dataset>> /\ DatasetClaim(u).complete = TRUE
      BY <1>1 DEF DatasetClaim, Claim
    <2>2. QED
      BY <1>3, <2>1 DEF Backed, Fact
  <1>5. Backed(catalog, Fact(FieldSubject(u, c), "toxicjoin.sensitivity_category",
                             <<s.category>>))
    <2> DEFINE claim == CategoryClaim(u, c, catalog[u][c])
    <2>1. /\ claim.subject = FieldSubject(u, c)
          /\ claim.predicate = "toxicjoin.sensitivity_category"
          /\ claim.value = <<catalog[u][c].category>>
          /\ claim.complete = (catalog[u][c].category # Unclassified)
      BY DEF CategoryClaim, Claim
    <2>2. claim \in Claims(catalog)
      BY <1>3 DEF OwnClaims
    <2> HIDE DEF claim
    <2>3. claim.value = <<s.category>> /\ claim.complete = TRUE
      BY <1>2, <2>1
    <2>4. QED
      BY <2>1, <2>2, <2>3 DEF Backed, Fact
  <1>6. Backed(catalog, Fact(EdgeSubject(d, f, s), "datahub.lineage_source_ref",
                             <<s.dataset, s.field>>))
    <2> DEFINE claim == Claim(EdgeSubject(d, f, s), "datahub.lineage_source_ref",
                              <<s.dataset, s.field>>, ExplicitMapping, s.category # Unclassified)
    <2>1. claim \in Claims(catalog)
      BY <1>3 DEF EdgeClaims
    <2>2. /\ claim.subject = EdgeSubject(d, f, s)
          /\ claim.predicate = "datahub.lineage_source_ref"
          /\ claim.value = <<s.dataset, s.field>> /\ claim.complete = TRUE
      BY DEF Claim
    <2> HIDE DEF claim
    <2>3. QED
      BY <2>1, <2>2 DEF Backed, Fact
  <1>7. Backed(catalog, Fact(EdgeSubject(d, f, s), "toxicjoin.lineage_source_category",
                             <<s.category>>))
    <2> DEFINE claim == Claim(EdgeSubject(d, f, s), "toxicjoin.lineage_source_category",
                              <<s.category>>, ExplicitMapping, s.category # Unclassified)
    <2>1. claim \in Claims(catalog)
      BY <1>3 DEF EdgeClaims
    <2>2. /\ claim.subject = EdgeSubject(d, f, s)
          /\ claim.predicate = "toxicjoin.lineage_source_category"
          /\ claim.value = <<s.category>> /\ claim.complete = TRUE
      BY DEF Claim
    <2> HIDE DEF claim
    <2>3. QED
      BY <2>1, <2>2 DEF Backed, Fact
  <1>8. Backed(catalog, Fact(EdgeSubject(d, f, s), "datahub.lineage_source_urn", <<u>>))
    <2> DEFINE claim == Claim(EdgeSubject(d, f, s), "datahub.lineage_source_urn",
                              <<u>>, ExplicitMapping, s.category # Unclassified)
    <2>1. claim \in Claims(catalog)
      <3>1. u \in {s.urn} \ {NoUrn}
        BY <1>1 DEF u
      <3>2. claim \in EdgeClaims(d, f, s)
        BY <3>1 DEF EdgeClaims
      <3>3. QED
        BY <1>3, <3>2
    <2>2. /\ claim.subject = EdgeSubject(d, f, s)
          /\ claim.predicate = "datahub.lineage_source_urn"
          /\ claim.value = <<u>> /\ claim.complete = TRUE
      BY DEF Claim
    <2> HIDE DEF claim
    <2>3. QED
      BY <2>1, <2>2 DEF Backed, Fact
  <1>9. QED
    BY <1>1, <1>4, <1>5, <1>6, <1>7, <1>8 DEF catalog, u, c

(* Governance that resolves is governance the trust authority accepts.     *)
LEMMA ResolvedIsTrusted ==
    ASSUME NEW assets, UrnsAreNames(assets), NEW plan,
           \A column \in plan : Resolved(Catalog(assets), column)
    PROVE  FactsTrusted(Claims(Catalog(assets)), Catalog(assets), plan)
  <1> DEFINE catalog == Catalog(assets)
  <1>1. ASSUME NEW column \in plan
        PROVE  /\ column[1] \in DOMAIN catalog /\ column[2] \in DOMAIN catalog[column[1]]
               /\ catalog[column[1]][column[2]].category # Unclassified
               /\ \A s \in catalog[column[1]][column[2]].lineage : s.category # Unclassified
    BY DEF Resolved
  <1>2. Groundable(catalog, plan)
    BY <1>1, SourceFactsAreBacked DEF Groundable
  <1>3. ASSUME NEW fact \in RequiredFacts(catalog, plan)
        PROVE  Backed(catalog, fact)
    <2>1. CASE fact \in {Fact(SourceIdentity, "datahub.snapshot_sha256", <<"snapshot">>),
                         Fact(SourceIdentity, "datahub.catalog_version", <<"version">>)}
      <3> DEFINE snapshot == Claim(SourceIdentity, "datahub.snapshot_sha256", <<"snapshot">>,
                                   RuntimeObserved, TRUE)
                 version == Claim(SourceIdentity, "datahub.catalog_version", <<"version">>,
                                  ExplicitMapping, TRUE)
      <3>1. snapshot \in Claims(catalog) /\ version \in Claims(catalog)
        BY FamiliesAreClaims DEF SourceClaims
      <3>2. /\ snapshot.subject = SourceIdentity /\ version.subject = SourceIdentity
            /\ snapshot.predicate = "datahub.snapshot_sha256"
            /\ version.predicate = "datahub.catalog_version"
            /\ snapshot.value = <<"snapshot">> /\ version.value = <<"version">>
            /\ snapshot.complete = TRUE /\ version.complete = TRUE
        BY DEF Claim
      <3> HIDE DEF snapshot, version, catalog
      <3>3. CASE fact = Fact(SourceIdentity, "datahub.snapshot_sha256", <<"snapshot">>)
        BY <3>1, <3>2, <3>3 DEF Backed, Fact
      <3>4. CASE fact = Fact(SourceIdentity, "datahub.catalog_version", <<"version">>)
        BY <3>1, <3>2, <3>4 DEF Backed, Fact
      <3>5. QED
        BY <2>1, <3>3, <3>4
    <2>2. ASSUME NEW column \in plan, fact \in ColumnFacts(catalog, column)
          PROVE  Backed(catalog, fact)
      <3> DEFINE d == column[1]
                 f == column[2]
                 field == catalog[d][f]
                 subject == FieldSubject(d, f)
                 OwnFacts ==
                    {Fact(DatasetSubject(d), "datahub.logical_name", <<d>>),
                     Fact(subject, "datahub.tags", <<field.category>>),
                     Fact(subject, "datahub.glossary_terms", <<field.category>>),
                     Fact(subject, "toxicjoin.sensitivity_category", <<field.category>>),
                     Fact(subject, "datahub.lineage_transport_complete", <<"true">>),
                     Fact(subject, "toxicjoin.lineage_governance_complete", <<"true">>)}
                 SourceFacts(s) ==
                    {Fact(DatasetSubject(s.urn), "datahub.logical_name", <<s.dataset>>),
                     Fact(FieldSubject(s.urn, s.field), "toxicjoin.sensitivity_category",
                          <<s.category>>),
                     Fact(EdgeSubject(d, f, s), "datahub.lineage_source_ref",
                          <<s.dataset, s.field>>),
                     Fact(EdgeSubject(d, f, s), "toxicjoin.lineage_source_category",
                          <<s.category>>),
                     Fact(EdgeSubject(d, f, s), "datahub.lineage_source_urn", <<s.urn>>)}
      <3>1. fact \in OwnFacts \/ \E s \in field.lineage : fact \in SourceFacts(s)
        BY <2>2 DEF ColumnFacts
      <3>2. ASSUME fact \in OwnFacts PROVE Backed(catalog, fact)
        BY <3>2, OwnFactsAreBacked
      <3>3. ASSUME NEW s \in field.lineage, fact \in SourceFacts(s) PROVE Backed(catalog, fact)
        BY <1>1, <3>3, SourceFactsAreBacked
      <3>4. QED
        BY <3>1, <3>2, <3>3
    <2>3. QED
      BY <2>1, <2>2 DEF RequiredFacts
  <1>4. Consistent(RequiredFacts(catalog, plan))
    <2> SUFFICES ASSUME NEW a \in RequiredFacts(catalog, plan),
                        NEW b \in RequiredFacts(catalog, plan),
                        a.subject = b.subject, a.predicate = b.predicate
                 PROVE  a.value = b.value
      BY DEF Consistent
    <2>1. PICK c \in Claims(catalog) :
              c.subject = a.subject /\ c.predicate = a.predicate /\ c.value = a.value
      BY <1>3 DEF Backed
    <2>2. PICK e \in Claims(catalog) :
              e.subject = b.subject /\ e.predicate = b.predicate /\ e.value = b.value
      BY <1>3 DEF Backed
    <2>3. c = e
      BY <2>1, <2>2, ClaimsAreUnique
    <2>4. QED
      BY <2>1, <2>2, <2>3
  <1>5. Replayed(Claims(catalog), catalog)
    BY ClaimsAreUnique DEF Replayed
  <1>6. QED
    BY <1>2, <1>3, <1>4, <1>5, BundleIsValid, BackedIsTrusted DEF FactsTrusted

(* A column resolves only if the answer about its lineage was whole.       *)
LEMMA ResolvedIsWhole ==
    ASSUME NEW assets, NEW column, column = <<column[1], column[2]>>,
           Resolved(Catalog(assets), column)
    PROVE  Whole(assets, column)
  <1> DEFINE d == column[1]
             f == column[2]
             payload == assets[d].lineage[f]
             complete == {r \in payload.relations : r.urn # NoUrn /\ r.columns # {}}
             Classed(u, c) == IF Known(assets, u, c) THEN CategoryIn(assets, u, c)
                              ELSE Unclassified
             Upstream(r) == {Source(r.urn, c, Classed(r.urn, c), r.urn) :
                                c \in {x \in r.columns : <<r.urn, x>> # <<d, f>>}}
             Readable == UNION {Upstream(r) : r \in complete}
             Unread == {Source(MissingLineage, <<f, r>>, Unclassified, r.urn) :
                            r \in payload.relations \ complete}
             Missing == {x \in {Source(MissingLineage, <<f>>, Unclassified, NoUrn)} :
                            Incomplete(payload)}
  <1>1. /\ d \in DOMAIN Catalog(assets) /\ f \in DOMAIN Catalog(assets)[d]
        /\ CategoryIn(assets, d, f) # Unclassified
        /\ \A s \in LineageSources(assets, d, f) : s.category # Unclassified
    BY CatalogFields DEF Resolved
  <1>2. /\ \A r \in payload.relations \ complete :
              Source(MissingLineage, <<f, r>>, Unclassified, r.urn) \in LineageSources(assets, d, f)
        /\ Incomplete(payload) =>
              Source(MissingLineage, <<f>>, Unclassified, NoUrn) \in LineageSources(assets, d, f)
        /\ \A r \in complete : \A c \in r.columns :
              <<r.urn, c>> # <<d, f>> =>
                 Source(r.urn, c, Classed(r.urn, c), r.urn) \in LineageSources(assets, d, f)
    <2>1. LineageSources(assets, d, f) = Readable \cup Unread \cup Missing
      BY DEF LineageSources
    <2>2. \A r \in payload.relations \ complete :
              Source(MissingLineage, <<f, r>>, Unclassified, r.urn) \in Unread
      OBVIOUS
    <2>3. Incomplete(payload) => Source(MissingLineage, <<f>>, Unclassified, NoUrn) \in Missing
      OBVIOUS
    <2>4. ASSUME NEW r \in complete, NEW c \in r.columns, <<r.urn, c>> # <<d, f>>
          PROVE  Source(r.urn, c, Classed(r.urn, c), r.urn) \in Readable
      <3> HIDE DEF Classed, complete
      <3>1. Source(r.urn, c, Classed(r.urn, c), r.urn) \in Upstream(r)
        BY <2>4
      <3>2. QED
        BY <3>1
    <2> HIDE DEF Readable, Unread, Missing
    <2>5. QED
      BY <2>1, <2>2, <2>3, <2>4
  <1>3. \A u, c : CategoryIn(assets, u, c) # Unclassified => assets[u].labels[c] # {}
    BY DEF CategoryIn
  <1>4. \A a, b, u, c : Source(a, b, c, u).category = c
    BY DEF Source
  <1>5. ~Incomplete(payload)
    BY <1>1, <1>2, <1>4
  <1>6. ~payload.truncated /\ \A r \in payload.relations : r.urn # NoUrn /\ r.columns # {}
    BY <1>5 DEF Incomplete
  <1>7. ASSUME NEW r \in payload.relations, NEW c \in r.columns, <<r.urn, c>> # <<d, f>>
        PROVE  Known(assets, r.urn, c) /\ assets[r.urn].labels[c] # {}
    <2>1. Classed(r.urn, c) # Unclassified
      BY <1>1, <1>2, <1>4, <1>6, <1>7
    <2>2. QED
      BY <1>3, <2>1
  <1>8. <<d, f>> = column
    OBVIOUS
  <1>9. QED
    BY <1>1, <1>3, <1>6, <1>7, <1>8 DEF Whole

-----------------------------------------------------------------------------
(* What an evaluation establishes about the columns of its query.          *)
EvaluatingStages == {"evaluate issue", "evaluate return"}

Resolves(x) ==
    /\ x.evaluation # None => Facts(x.evaluation) \in ResolvedIn
    /\ x.stage \in EvaluatingStages => Facts(x.draft) \in ResolvedIn

EvaluationsResolve == \A r \in Requests : Resolves(req[r])

(* A step that evaluates nothing.                                          *)
Elsewhere(r) ==
    \E x :
        /\ Gives(r, x) /\ x.stage \notin EvaluatingStages
        /\ x.evaluation \in {None, req[r].evaluation}

LEMMA ElsewhereResolves ==
    ASSUME ChainInv, EvaluationsResolve, NEW r \in Requests, Elsewhere(r)
    PROVE  EvaluationsResolve'
  <1>1. PICK x : Gives(r, x) /\ x.stage \notin EvaluatingStages
                    /\ x.evaluation \in {None, req[r].evaluation}
    BY DEF Elsewhere
  <1>2. req'[r] = x /\ \A q \in Requests \ {r} : req'[q] = req[q]
    BY <1>1 DEF Gives, ChainInv, ChainTypeOK
  <1>3. Resolves(x)
    BY <1>1 DEF Resolves, EvaluationsResolve
  <1>4. QED
    BY <1>2, <1>3 DEF EvaluationsResolve, Resolves

LEMMA BeginningElsewhere ==
    ASSUME ChainInv, NEW r \in Requests, NEW stage, NEW draft, stage \notin EvaluatingStages,
           Gives(r, Begin(r, stage, draft))
    PROVE  Elsewhere(r)
  <1> DEFINE x == Begin(r, stage, draft)
  <1>1. req[r] \in RequestStates
    BY DEF ChainInv, ChainTypeOK
  <1>2. x.evaluation = req[r].evaluation /\ x.stage = stage
    BY <1>1 DEF RequestStates, Begin
  <1> HIDE DEF x
  <1>3. QED
    BY <1>2 DEF Elsewhere, x

LEMMA DenyingElsewhere ==
    ASSUME ChainInv, NEW r \in Requests, Denied(r)
    PROVE  Elsewhere(r)
  <1> DEFINE x == [req[r] EXCEPT !.stage = "refused", !.draft = None]
  <1>1. req[r] \in RequestStates /\ req \in [Requests -> RequestStates]
    BY DEF ChainInv, ChainTypeOK
  <1>2. Gives(r, x)
    BY <1>1 DEF Denied, Refused, Gives
  <1>3. x.evaluation = req[r].evaluation /\ x.stage \notin EvaluatingStages
    BY <1>1 DEF RequestStates, EvaluatingStages
  <1> HIDE DEF x
  <1>4. QED
    BY <1>2, <1>3 DEF Elsewhere

LEMMA ReturningElsewhere ==
    ASSUME ChainInv, NEW r \in Requests, NEW stage, NEW field \in {"trust", "check", "capability"},
           stage \notin EvaluatingStages, Gives(r, Return(r, stage, field))
    PROVE  Elsewhere(r)
  <1> DEFINE x == Return(r, stage, field)
  <1>1. req[r] \in RequestStates
    BY DEF ChainInv, ChainTypeOK
  <1>2. x.evaluation = req[r].evaluation /\ x.stage = stage
    BY <1>1 DEF RequestStates, Return
  <1> HIDE DEF x
  <1>3. QED
    BY <1>2 DEF Elsewhere, x

(* The evaluation itself: its columns resolve when it begins.              *)
LEMMA EvaluateResolves ==
    ASSUME ChainInv, EvaluationsResolve, NEW r \in Requests, Evaluate(r), ~Denied(r)
    PROVE  EvaluationsResolve'
  <1>1. PICK q \in Holders("proposal") :
            /\ <<req[q].proposal.sql, world.authority.assets>> \in ResolvedIn
            /\ Gives(r, Begin(r, "evaluate issue",
                    AgentEvaluation(req[q].proposal, world.authority, PurposeOf[r])))
    BY DEF Evaluate, Sampled, Denied, Reads, Still, Gives, Authorities
  <1> DEFINE e == AgentEvaluation(req[q].proposal, world.authority, PurposeOf[r])
             x == Begin(r, "evaluate issue", e)
  <1>2. Facts(e) \in ResolvedIn
    BY <1>1 DEF Facts, AgentEvaluation
  <1> HIDE DEF e
  <1>3. req[r] \in RequestStates /\ req \in [Requests -> RequestStates]
    BY DEF ChainInv, ChainTypeOK
  <1>4. x.evaluation = req[r].evaluation /\ x.draft = e
    BY <1>3 DEF RequestStates, Begin
  <1> HIDE DEF x
  <1>5. req'[r] = x /\ \A s \in Requests \ {r} : req'[s] = req[s]
    BY <1>1, <1>3 DEF Gives, x, e
  <1>6. Resolves(x)
    BY <1>2, <1>4 DEF Resolves, EvaluationsResolve
  <1>7. QED
    BY <1>5, <1>6 DEF EvaluationsResolve, Resolves

LEMMA EvaluateIssueResolves ==
    ASSUME ChainInv, EvaluationsResolve, NEW r \in Requests, EvaluateIssue(r), ~Denied(r)
    PROVE  EvaluationsResolve'
  <1> DEFINE x == Begin(r, "evaluate return", req[r].draft)
  <1>1. Gives(r, x)
    BY EvaluateIssueSteps
  <1>2. Facts(req[r].draft) \in ResolvedIn
    BY DEF EvaluateIssue, EvaluationsResolve, Resolves, EvaluatingStages
  <1>3. req[r] \in RequestStates /\ req \in [Requests -> RequestStates]
    BY DEF ChainInv, ChainTypeOK
  <1>4. x.evaluation = req[r].evaluation /\ x.draft = req[r].draft
    BY <1>3 DEF RequestStates, Begin
  <1> HIDE DEF x
  <1>5. req'[r] = x /\ \A s \in Requests \ {r} : req'[s] = req[s]
    BY <1>1, <1>3 DEF Gives
  <1>6. Resolves(x)
    BY <1>2, <1>4 DEF Resolves, EvaluationsResolve
  <1>7. QED
    BY <1>5, <1>6 DEF EvaluationsResolve, Resolves

LEMMA EvaluateReturnResolves ==
    ASSUME ChainInv, EvaluationsResolve, NEW r \in Requests, EvaluateReturn(r), ~Denied(r)
    PROVE  EvaluationsResolve'
  <1> DEFINE x == Return(r, "bind", "evaluation")
  <1>1. Gives(r, x)
    BY EvaluateReturnSteps
  <1>2. Facts(req[r].draft) \in ResolvedIn
    BY DEF EvaluateReturn, EvaluationsResolve, Resolves, EvaluatingStages
  <1>3. req[r] \in RequestStates /\ req \in [Requests -> RequestStates]
    BY DEF ChainInv, ChainTypeOK
  <1>4. x.evaluation = req[r].draft /\ x.stage \notin EvaluatingStages
    BY <1>3 DEF RequestStates, Return, EvaluatingStages
  <1> HIDE DEF x
  <1>5. req'[r] = x /\ \A s \in Requests \ {r} : req'[s] = req[s]
    BY <1>1, <1>3 DEF Gives
  <1>6. Resolves(x)
    BY <1>2, <1>4 DEF Resolves
  <1>7. QED
    BY <1>5, <1>6 DEF EvaluationsResolve, Resolves

LEMMA OtherStepsElsewhere ==
    ASSUME ChainInv, NEW r \in Requests, RequestStep(r), ~Denied(r),
           ~Evaluate(r), ~EvaluateIssue(r), ~EvaluateReturn(r)
    PROVE  Elsewhere(r)
  <1>1. req \in [Requests -> RequestStates] /\ req[r] \in RequestStates
    BY DEF ChainInv, ChainTypeOK
  <1>0. {"bind issue", "bind return", "clear", "clear return", "search", "search return",
         "prove", "issue", "claim", "consume", "revalidate", "commit", "evaluate",
         "executed"}
            \cap EvaluatingStages = {}
    BY DEF EvaluatingStages
  <1>2. CASE Bind(r) \/ BindIssue(r)
    BY <1>2, BindSteps, BindIssueSteps, BeginningElsewhere, <1>0
  <1>3. CASE Clear(r)
    BY <1>3, ClearSteps, BeginningElsewhere, <1>0
  <1>4. CASE ClearReturn(r) \/ Search(r)
    BY <1>4, ClearReturnSteps, SearchSteps, BeginningElsewhere, <1>0
  <1>5. CASE Issue(r) \/ Consume(r) \/ Revalidate(r)
    BY <1>5, IssueSteps, ConsumeSteps, RevalidateSteps, BeginningElsewhere, <1>0
  <1>6. CASE BindReturn(r) \/ SearchReturn(r)
    BY <1>6, BindReturnSteps, SearchReturnSteps, ReturningElsewhere, <1>0
  <1>7. CASE Claim_(r)
    <2>1. Gives(r, Return(r, "consume", "capability"))
      BY <1>7 DEF Claim_, Step, Gives
    <2>2. QED
      BY <2>1, ReturningElsewhere, <1>0
  <1>8. CASE Propose(r)
    <2>1. PICK proposal :
            req' = [req EXCEPT ![r].stage = "evaluate", ![r].proposal = proposal]
      BY <1>8 DEF Propose
    <2> DEFINE x == [req[r] EXCEPT !.stage = "evaluate", !.proposal = proposal]
    <2>2. x.evaluation = req[r].evaluation /\ x.stage \notin EvaluatingStages
      BY <1>0, <1>1 DEF RequestStates
    <2>3. Gives(r, x)
      BY <1>1, <2>1 DEF Gives
    <2> HIDE DEF x
    <2>4. QED
      BY <2>2, <2>3 DEF Elsewhere
  <1>9. CASE Adapt(r)
    <2>1. PICK proposal :
            req' = [req EXCEPT ![r] =
                        [NoRequest EXCEPT !.stage = "evaluate", !.proposal = proposal]]
      BY <1>9 DEF Adapt
    <2> DEFINE x == [NoRequest EXCEPT !.stage = "evaluate", !.proposal = proposal]
    <2>2. x.evaluation = None /\ x.stage \notin EvaluatingStages
      BY <1>0 DEF NoRequest
    <2>3. Gives(r, x)
      BY <2>1 DEF Gives
    <2> HIDE DEF x
    <2>4. QED
      BY <2>2, <2>3 DEF Elsewhere
  <1>10. CASE Prove(r)
    <2>1. PICK proof : Gives(r, [req[r] EXCEPT !.stage = "issue", !.proof = proof])
      BY <1>10, ProveSteps
    <2> DEFINE x == [req[r] EXCEPT !.stage = "issue", !.proof = proof]
    <2>2. x.evaluation = req[r].evaluation /\ x.stage \notin EvaluatingStages
      BY <1>0, <1>1 DEF RequestStates
    <2> HIDE DEF x
    <2>3. QED
      BY <2>1, <2>2 DEF Elsewhere, x
  <1>11. CASE Commit(r)
    <2> DEFINE x == [req[r] EXCEPT !.stage = "executed", !.draft = None]
    <2>1. x.evaluation = req[r].evaluation /\ x.stage \notin EvaluatingStages
      BY <1>0, <1>1 DEF RequestStates
    <2>2. Gives(r, x)
      BY <1>11, CommitSteps
    <2> HIDE DEF x
    <2>3. QED
      BY <2>1, <2>2 DEF Elsewhere
  <1>12. QED
    BY <1>2, <1>3, <1>4, <1>5, <1>6, <1>7, <1>8, <1>9, <1>10, <1>11 DEF RequestStep

LEMMA StartsResolving ==
    ASSUME ChainInit
    PROVE  EvaluationsResolve
  <1>1. SUFFICES ASSUME NEW r \in Requests PROVE Resolves(req[r])
    BY DEF EvaluationsResolve
  <1>2. PICK s \in {"propose", "absent"} : req[r] = [NoRequest EXCEPT !.stage = s]
    BY DEF ChainInit
  <1>3. req[r].evaluation = None /\ req[r].stage = s
    BY <1>2 DEF NoRequest
  <1>4. QED
    BY <1>3 DEF Resolves, EvaluatingStages

LEMMA StepsResolve ==
    ASSUME ChainInv, EvaluationsResolve, [ChainNext]_chainVars
    PROVE  EvaluationsResolve'
  <1>1. CASE UNCHANGED req
    BY <1>1 DEF EvaluationsResolve
  <1>2. CASE Tick \/ SetBack \/ WorldChanges \/ Rediscover \/ UNCHANGED chainVars
    BY <1>1, <1>2 DEF Tick, SetBack, WorldChanges, Rediscover, chainVars
  <1>3. ASSUME NEW r \in Requests, RequestStep(r) PROVE EvaluationsResolve'
    BY <1>3, DenyingElsewhere, OtherStepsElsewhere, ElsewhereResolves, EvaluateResolves,
       EvaluateIssueResolves, EvaluateReturnResolves
  <1>4. QED
    BY <1>2, <1>3 DEF ChainNext

LEMMA ResolvedIsGrounded ==
    ASSUME NEW x \in ResolvedIn
    PROVE  /\ \A column \in PlanOf[x[1]] : Whole(AssetsOf[x[2]], column)
           /\ x \in GroundedIn
  <1>1. /\ x \in SqlStatements \X DOMAIN AssetsOf
        /\ \A column \in PlanOf[x[1]] : Resolved(Catalog(AssetsOf[x[2]]), column)
    BY DEF ResolvedIn, CatalogOf
  <1>2. x[1] \in DOMAIN PlanOf /\ x[2] \in DOMAIN AssetsOf
    BY <1>1 DEF SqlStatements
  <1>3. UrnsAreNames(AssetsOf[x[2]])
    BY <1>2, UrnAssumption DEF UrnsAreNames
  <1>4. FactsTrusted(Claims(CatalogOf(x[2])), CatalogOf(x[2]), PlanOf[x[1]])
    BY <1>1, <1>3, ResolvedIsTrusted DEF CatalogOf
  <1>5. \A column \in PlanOf[x[1]] : Whole(AssetsOf[x[2]], column)
    BY <1>1, <1>2, PlanAssumption, ResolvedIsWhole
  <1>6. QED
    BY <1>1, <1>4, <1>5 DEF GroundedIn

(* What was evaluated rests upon whole governance: DataHub's answer about  *)
(* the lineage of every column was complete and everything it names is     *)
(* classified; and nothing that was evaluated fails to be grounded, so the *)
(* resolution of context/, the claims of evidence/ and the facts required  *)
(* by agent/governance_trust.py agree, for any assets and any plan.        *)
THEOREM ChainGrounds == ChainSpec => []GroundedIsWhole
  <1>1. ChainInit => EvaluationsResolve
    BY StartsResolving
  <1>2. ChainInv /\ EvaluationsResolve /\ [ChainNext]_chainVars => EvaluationsResolve'
    BY StepsResolve
  <1>3. EvaluationsResolve => GroundedIsWhole
    <2>1. ASSUME EvaluationsResolve, NEW r \in Requests, req[r].evaluation # None
          PROVE  LET e == req[r].evaluation IN
                 /\ \A column \in PlanOf[e.proposal.sql] :
                        Whole(AssetsOf[e.snapshot.assets], column)
                 /\ Facts(e) \in GroundedIn
      <3> DEFINE e == req[r].evaluation
      <3>1. Facts(e) \in ResolvedIn
        BY <2>1 DEF EvaluationsResolve, Resolves
      <3>2. Facts(e)[1] = e.proposal.sql /\ Facts(e)[2] = e.snapshot.assets
        BY DEF Facts
      <3> HIDE DEF e
      <3>3. QED
        BY <3>1, <3>2, ResolvedIsGrounded DEF e
    <2>2. QED
      BY <2>1 DEF GroundedIsWhole
  <1>4. QED
    BY <1>1, <1>2, <1>3, ChainInvariant, PTL DEF ChainSpec
=============================================================================
