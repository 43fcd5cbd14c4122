-------------------------- MODULE ProspectiveSearch --------------------------
(***************************************************************************)
(* check_prospective_privacy of prospective/ppmc_search.py: a bounded      *)
(* breadth-first search for a forbidden state, over the states that        *)
(* locally admissible future actions reach.                                *)
(*                                                                         *)
(* The search is deterministic but for the order of the actions, which is  *)
(* that of their hashes and is any order here, the same at every node; and *)
(* for its collaborators, which may fail at any call.  One step considers  *)
(* one action.                                                             *)
(***************************************************************************)
EXTENDS PolicyOracle, ForbiddenPredicates, Sequences

CONSTANTS
    Inputs,             \* the calls of check_prospective_privacy
    Orders(_)           \* orders of a set, as sequences

(* A call: [ctx, history, governance, binding, bound, maxStates], as the   *)
(* models of prospective/ accept it.  What is shown as a group key is a    *)
(* column that is grouped by.                                              *)
ASSUME InputAssumption ==
    \A call \in Inputs :
        LET base == call.ctx.base.semantic IN
        /\ call.bound \in Nat /\ call.maxStates \in Nat \ {0}
        /\ base \in SemanticReleases
        /\ \A o \in base.outputs : o.kind = "GROUP_KEY" => o.sources \subseteq base.groups

OrdersOf(set) ==
    {order \in Orders(set) :
        order \in Seq(set) /\ set = {order[i] : i \in 1..Len(order)}}

VARIABLES
    input,      \* the arguments
    actions,    \* grammar.actions, in order
    allowed,    \* the semantic releases of actions the policy allows
    pc,         \* "start", "pop", "consider" or "done"
    queue,      \* queue of nodes [state, depth, steps, path]
    seen,       \* keys of the nodes discovered
    node,       \* the node being expanded
    next,       \* index of the next action to consider
    counters,   \* _SearchCounters
    result      \* the PpmcSearchResult, once pc is "done"

vars == <<input, actions, allowed, pc, queue, seen, node, next, counters, result>>

(* PolicyEngineLocalOracle.__call__: its answer on a release depends on the *)
(* release alone, whether it is one of those admitted.                     *)
AdmissibleAmong(admitted, state, a, ctx) ==
    /\ InModelUniverse(state, ctx)
    /\ IF a.kind = "SNAPSHOT_ADVANCE" THEN state.snapshot = a.from
       ELSE a.release.semantic \in admitted

Admissible(state, a, ctx) == AdmissibleAmong(allowed, state, a, ctx)

(* The semantic releases the policy allows, of some actions.               *)
AllowedAmong(grammar, ctx) ==
    {s \in Semantics({a.release : a \in {b \in grammar : b.kind # "SNAPSHOT_ADVANCE"}}) :
        PolicyAllows(s, ctx.subjects)}

InitialState(call) == BuildState(call.history, call.ctx.base, call.ctx.snapshot)

(* _semantic_is_sensitive                                                  *)
SemanticIsSensitive(semantic) == \E c \in OutputColumns(semantic) : IsSensitive(c)

Observation(step, semantic, snapshot) ==
    [step |-> step, semantic |-> semantic, snapshot |-> snapshot]

(* What a bug would make of it: history is not looked at.                  *)
MutInitialPath(call) ==
    TemporalPath({Observation(0, call.ctx.base.semantic, call.ctx.snapshot)})

(* _initial_temporal_path: no path when history holds a sensitive output   *)
(* that is no atom of the base release, or the snapshot is unknown.        *)
InitialPath(call) ==
    LET base == call.ctx.base.semantic
        historical == Semantics(InitialState(call).released) \ {base}
    IN  IF \E s \in historical : SemanticIsSensitive(s) THEN NoPath
        ELSE IF ~SemanticIsSensitive(base) THEN TemporalPath({})
        ELSE IF call.ctx.snapshot = NoSnapshot THEN NoPath
        ELSE TemporalPath({Observation(0, base, call.ctx.snapshot)})

(* _extend_temporal_path                                                   *)
ExtendPath(path, a, post, step) ==
    IF a.kind = "SNAPSHOT_ADVANCE" \/ ~SemanticIsSensitive(a.release.semantic) THEN path
    ELSE IF post.snapshot = NoSnapshot THEN NoPath
    ELSE TemporalPath(path.observations
                        \cup {Observation(step, a.release.semantic, post.snapshot)})

(* What a bug would make of it: states alone identify nodes.               *)
MutNodeKey(state, path) == <<state, {}>>

(* _search_node_key: the state, and what F5 tells apart in the path.       *)
NodeKey(state, path) == <<state, {<<o.semantic, o.snapshot>> : o \in path.observations}>>

EvaluationIn(call, state, path) ==
    EvaluateForbiddenState(state, call.governance, call.binding, path)

Evaluation(state, path) == EvaluationIn(input, state, path)

Grammar == {actions[i] : i \in 1..Len(actions)}

Unfinished == [status |-> "none", reason |-> "none", matched |-> {}, indeterminate |-> {},
               steps |-> <<>>]

NoCounters ==
    [discovered |-> 1, expanded |-> 0, considered |-> 0,
     transitionRejections |-> 0, oracleRejections |-> 0, admissions |-> 0]

Root(call) ==
    [state |-> InitialState(call), depth |-> 0, steps |-> <<>>, path |-> InitialPath(call)]

Init ==
    /\ input \in {c \in Inputs : ValidContext(c.ctx)}
    /\ actions \in OrdersOf(InstantiateActions(input.ctx))
    /\ allowed = AllowedAmong(Grammar, input.ctx)
    /\ pc = "start"
    /\ queue = <<>>
    /\ seen = {}
    /\ node = Root(input)
    /\ next = 1
    /\ counters = NoCounters
    /\ result = Unfinished

(* _result, for each of the three statuses.                                *)
Finish(status, reason, evaluation, steps) ==
    /\ pc' = "done"
    /\ result' = [status |-> status, reason |-> reason, matched |-> evaluation.matched,
                  indeterminate |-> evaluation.indeterminate, steps |-> steps]

NoEvaluation == [matched |-> {}, indeterminate |-> {}]
ReportUnsafe(evaluation, steps) ==
    Finish("PROSPECTIVE_UNSAFE", "none", [evaluation EXCEPT !.indeterminate = {}], steps)
ReportIndeterminate(evaluation) ==
    Finish("FAIL_CLOSED", "INDETERMINATE_SECURITY_PREDICATE",
           [evaluation EXCEPT !.matched = {}], <<>>)
ReportFailure(reason) == Finish("FAIL_CLOSED", reason, NoEvaluation, <<>>)
ReportNoCounterexample ==
    Finish("NO_COUNTEREXAMPLE_WITHIN_BOUND", "none", NoEvaluation, <<>>)

(* The initial state is evaluated: forbidden, indeterminate, nothing to    *)
(* search, or the root of the search.                                      *)
Start ==
    LET evaluation == Evaluation(node.state, node.path) IN
    /\ pc = "start"
    /\ \/ /\ evaluation.matched # {}
          /\ ReportUnsafe(evaluation, <<>>)
          /\ UNCHANGED <<queue, seen>>
       \/ /\ evaluation.matched = {} /\ evaluation.indeterminate # {}
          /\ ReportIndeterminate(evaluation)
          /\ UNCHANGED <<queue, seen>>
       \/ /\ evaluation.matched \cup evaluation.indeterminate = {} /\ input.bound = 0
          /\ ReportNoCounterexample
          /\ UNCHANGED <<queue, seen>>
       \/ /\ evaluation.matched \cup evaluation.indeterminate = {} /\ input.bound > 0
          /\ pc' = "pop"
          /\ queue' = <<node>>
          /\ seen' = {NodeKey(node.state, node.path)}
          /\ UNCHANGED result
    /\ UNCHANGED <<input, actions, allowed, node, next, counters>>

(* queue.popleft(); a node at the bound is not expanded.                   *)
Pop ==
    /\ pc = "pop" /\ queue # <<>>
    /\ node' = Head(queue)
    /\ queue' = Tail(queue)
    /\ next' = 1
    /\ counters' = [counters EXCEPT !.expanded = @ + 1]
    /\ pc' = IF Head(queue).depth >= input.bound THEN "pop" ELSE "consider"
    /\ UNCHANGED <<input, actions, allowed, seen, result>>

Exhausted ==
    /\ pc = "pop" /\ queue = <<>>
    /\ ReportNoCounterexample
    /\ UNCHANGED <<input, actions, allowed, queue, seen, node, next, counters>>

-----------------------------------------------------------------------------
(* One action of the node being expanded.                                  *)

action == actions[next]
child == Successor(node.state, action)
childDepth == node.depth + 1
childPath == ExtendPath(node.path, action, child, childDepth)
childSteps ==
    Append(node.steps, [index |-> node.depth, pre |-> node.state, action |-> action,
                        post |-> child])

MoveOn ==
    /\ next' = next + 1
    /\ pc' = IF next = Len(actions) THEN "pop" ELSE "consider"
    /\ UNCHANGED result

Count(field) ==
    counters' = [counters EXCEPT !.considered = @ + 1, ![field] = @ + 1]

(* FutureActionTransitionError: counted, and the search goes on.           *)
TransitionRejected ==
    /\ pc = "consider" /\ ~Applicable(node.state, action, input.ctx)
    /\ Count("transitionRejections")
    /\ MoveOn
    /\ UNCHANGED <<input, actions, allowed, queue, seen, node>>

OracleRejected ==
    /\ pc = "consider" /\ Applicable(node.state, action, input.ctx)
    /\ ~Admissible(node.state, action, input.ctx)
    /\ Count("oracleRejections")
    /\ MoveOn
    /\ UNCHANGED <<input, actions, allowed, queue, seen, node>>

Admit ==
    /\ pc = "consider"
    /\ Applicable(node.state, action, input.ctx)
    /\ Admissible(node.state, action, input.ctx)
    /\ Count("admissions")

(* The path has lost its provenance: nothing can be concluded but that a   *)
(* state is forbidden for another reason.                                  *)
ProvenanceLost ==
    LET evaluation == Evaluation(child, NoPath) IN
    /\ Admit /\ childPath = NoPath
    /\ \/ evaluation.matched # {} /\ ReportUnsafe(evaluation, childSteps)
       \/ evaluation.matched = {} /\ ReportIndeterminate(evaluation)
    /\ UNCHANGED <<input, actions, allowed, queue, seen, node, next>>

(* What a bug would make of it: the loop does not move on.                 *)
MutDeduplicated ==
    /\ pc = "consider"
    /\ Applicable(node.state, action, input.ctx)
    /\ Admissible(node.state, action, input.ctx)
    /\ childPath # NoPath /\ NodeKey(child, childPath) \in seen
    /\ UNCHANGED vars

Deduplicated ==
    /\ Admit /\ childPath # NoPath
    /\ NodeKey(child, childPath) \in seen
    /\ MoveOn
    /\ UNCHANGED <<input, actions, allowed, queue, seen, node>>

(* What a bug would make of it: an off-by-one.                             *)
MutBudgetSpent == Cardinality(seen) > input.maxStates

BudgetSpent == Cardinality(seen) >= input.maxStates

StateBudgetExhausted ==
    /\ Admit /\ childPath # NoPath
    /\ NodeKey(child, childPath) \notin seen
    /\ BudgetSpent
    /\ ReportFailure("STATE_BUDGET_EXHAUSTED")
    /\ UNCHANGED <<input, actions, allowed, queue, seen, node, next>>

(* What a bug would make of it: the last node discovered goes first.       *)
MutEnqueue(rest, new) == <<new>> \o rest

Enqueue(rest, new) == Append(rest, new)

(* A node that has not been seen, within the budget.                       *)
NewNode ==
    /\ pc = "consider"
    /\ Applicable(node.state, action, input.ctx)
    /\ Admissible(node.state, action, input.ctx)
    /\ childPath # NoPath
    /\ NodeKey(child, childPath) \notin seen
    /\ ~BudgetSpent
    /\ seen' = seen \cup {NodeKey(child, childPath)}
    /\ counters' = [counters EXCEPT !.considered = @ + 1, !.admissions = @ + 1,
                                    !.discovered = Cardinality(seen')]

(* It is forbidden, or queued when it is within the bound.                 *)
Discover ==
    LET evaluation == Evaluation(child, childPath) IN
    /\ NewNode
    /\ \/ /\ evaluation.matched # {}
          /\ ReportUnsafe(evaluation, childSteps)
          /\ UNCHANGED <<queue, next>>
       \/ /\ evaluation.matched = {}
          /\ queue' = IF childDepth < input.bound
                      THEN Enqueue(queue, [state |-> child, depth |-> childDepth,
                                           steps |-> childSteps, path |-> childPath])
                      ELSE queue
          /\ MoveOn
    /\ UNCHANGED <<input, actions, allowed, node>>

(* A collaborator fails: a transition or an evaluation raises, the oracle  *)
(* raises, or answers for another state or action.                         *)
StartFails ==
    /\ pc = "start"
    /\ ReportFailure("PREDICATE_EVALUATION_FAILURE")
    /\ UNCHANGED <<input, actions, allowed, queue, seen, node, next, counters>>

CollaboratorFails ==
    /\ pc = "consider"
    /\ counters' = [counters EXCEPT !.considered = @ + 1]
    /\ \/ ReportFailure("TRANSITION_FAILURE")
       \/ /\ Applicable(node.state, action, input.ctx)
          /\ ReportFailure("LOCAL_ORACLE_FAILURE")
    /\ UNCHANGED <<input, actions, allowed, queue, seen, node, next>>

EvaluationFails ==
    /\ \/ /\ Admit /\ childPath = NoPath
          /\ UNCHANGED seen
       \/ NewNode
    /\ ReportFailure("PREDICATE_EVALUATION_FAILURE")
    /\ UNCHANGED <<input, actions, allowed, queue, node, next>>

Search ==
    \/ Start \/ Pop \/ Exhausted
    \/ TransitionRejected \/ OracleRejected \/ ProvenanceLost \/ Deduplicated
    \/ StateBudgetExhausted \/ Discover

Next == Search \/ StartFails \/ CollaboratorFails \/ EvaluationFails

Spec == Init /\ [][Next]_vars

(* The search is one thread that keeps running; nothing makes it fail.     *)
FairSpec == Spec /\ WF_vars(Search)

-----------------------------------------------------------------------------
(* Every path of actions the policy admits, without merging nodes: the nth  *)
(* set holds the states after n actions, with the releases on the way.     *)
Paths(call, grammar) ==
    LET ctx == call.ctx
        admitted == AllowedAmong(grammar, ctx)
        Step(x, a) ==
            [state |-> Successor(x.state, a),
             path |-> IF x.path = NoPath THEN NoPath
                      ELSE ExtendPath(x.path, a, Successor(x.state, a), x.depth + 1),
             depth |-> x.depth + 1]
        reached[n \in 0..call.bound] ==
            IF n = 0
            THEN {[state |-> InitialState(call), path |-> InitialPath(call), depth |-> 0]}
            ELSE UNION {{Step(x, a) : a \in {b \in grammar :
                            /\ Applicable(x.state, b, ctx)
                            /\ AdmissibleAmong(admitted, x.state, b, ctx)}} :
                        x \in reached[n - 1]}
    IN  reached

Reached(call) == Paths(call, Grammar)

CleanIn(call, x) ==
    LET evaluation == EvaluationIn(call, x.state, x.path) IN
    evaluation.matched \cup evaluation.indeterminate = {}

Clean(x) == CleanIn(input, x)

(* The verdict that lets an execution go ahead is about every path of      *)
(* admissible actions within the bound, although nodes are merged, the     *)
(* queue is cut at the bound and the budget may run out (the docstring of  *)
(* check_prospective_privacy).                                             *)
VerdictIsExhaustive ==
    result.status = "NO_COUNTEREXAMPLE_WITHIN_BOUND" =>
        LET reached == Reached(input) IN
        \A n \in 0..input.bound : \A x \in reached[n] : Clean(x)

(* A counterexample is a path of admissible actions that ends in a         *)
(* forbidden state, and there is no shorter one (CounterexampleTrace, and  *)
(* "shortest-depth" in the docstring).                                     *)
CounterexampleIsShortest ==
    result.status = "PROSPECTIVE_UNSAFE" =>
        LET steps == result.steps
            reached == Reached(input)
            last == IF steps = <<>> THEN InitialState(input) ELSE steps[Len(steps)].post
        IN  /\ Len(steps) <= input.bound
            /\ \A i \in 1..Len(steps) :
                /\ steps[i].index = i - 1
                /\ steps[i].pre = IF i = 1 THEN InitialState(input) ELSE steps[i - 1].post
                /\ steps[i].post = Successor(steps[i].pre, steps[i].action)
                /\ Applicable(steps[i].pre, steps[i].action, input.ctx)
                /\ Admissible(steps[i].pre, steps[i].action, input.ctx)
            /\ \E x \in reached[Len(steps)] :
                x.state = last /\ Evaluation(x.state, x.path).matched = result.matched
            /\ result.matched # {}
            /\ \A n \in 0..(Len(steps) - 1) : \A x \in reached[n] : Clean(x)

(* A search that ends can report: PpmcSearchResult accepts its counters    *)
(* and its fields (ppmc_models.py), so that no result is lost to a         *)
(* ValidationError.                                                        *)
ResultIsValid ==
    pc = "done" =>
        /\ 1 <= counters.discovered /\ counters.discovered <= input.maxStates
        /\ counters.expanded <= counters.discovered
        /\ counters.oracleRejections + counters.admissions <= counters.considered
        /\ counters.transitionRejections <= counters.considered
        /\ CASE result.status = "PROSPECTIVE_UNSAFE" ->
                    result.reason = "none" /\ result.matched # {} /\ result.indeterminate = {}
             [] result.status = "NO_COUNTEREXAMPLE_WITHIN_BOUND" ->
                    result.reason = "none" /\ result.matched \cup result.indeterminate = {}
             [] result.status = "FAIL_CLOSED" ->
                    /\ result.reason # "none" /\ result.matched = {}
                    /\ (result.indeterminate # {}
                            <=> result.reason = "INDETERMINATE_SECURITY_PREDICATE")

(* A history that may already hold a sensitive release under another       *)
(* snapshot never yields the verdict that lets an execution go ahead,      *)
(* unless that release is the base itself (the comment of                  *)
(* _initial_temporal_path, and docs/vnext/ppmc-bfs-note.md).               *)
NoVerdictWithoutProvenance ==
    result.status = "NO_COUNTEREXAMPLE_WITHIN_BOUND" =>
        \A h \in input.history :
            \/ h.lifecycle = "ABORTED"
            \/ h.release.semantic = input.ctx.base.semantic
            \/ ~SemanticIsSensitive(h.release.semantic)

(* Two kernels agree where they overlap: a release that policy/engine.py   *)
(* allows matches none of the predicates that forbidden.py judges on one   *)
(* release alone, but for F2, which the engine does not apply to grouped   *)
(* queries.                                                                *)
AllowedIsLocallySafe ==
    pc = "start" =>
        \A i \in 1..Len(actions) :
            actions[i].kind # "SNAPSHOT_ADVANCE"
              /\ Admissible(InitialState(input), actions[i], input.ctx) =>
                LET s == actions[i].release.semantic IN
                /\ ~SameReleaseLinkage(s, "DIRECT_IDENTIFIER")
                /\ PredicateMinimum <= MinimumGroupSize => ~SmallCohortSensitive(s)
                /\ s.groups \cup s.aggregates = {}
                        => ~SameReleaseLinkage(s, "STABLE_PSEUDONYM")

(* What has been learnt is never unlearnt: along every path of the search  *)
(* the derived knowledge grows (least_fixed_point is monotone, and         *)
(* apply_future_action only adds).                                         *)
KnowledgeOnlyGrows ==
    queue # <<>> /\ queue[Len(queue)].steps # <<>> =>
        LET steps == queue[Len(queue)].steps IN
        DerivedAtoms(steps[Len(steps)].pre.released)
            \subseteq DerivedAtoms(queue[Len(queue)].state.released)

(* The search ends, although snapshots may advance in a cycle and releases *)
(* be repeated, without a collaborator failing.                            *)
SearchTerminates == pc = "start" ~> pc = "done"

(* The docstring of check_prospective_privacy: "Resource exhaustion and    *)
(* dependency failures return an explicit FAIL_CLOSED result."  An action  *)
(* the policy admits may be skipped because its successor exceeds the      *)
(* budget of atoms.                                                        *)
ExhaustionFailsClosed ==
    result.status = "NO_COUNTEREXAMPLE_WITHIN_BOUND" =>
        LET reached == Reached(input) IN
        \A n \in 0..(input.bound - 1) : \A x \in reached[n] :
            \A a \in Grammar :
                Admissible(x.state, a, input.ctx) =>
                    Representable(Successor(x.state, a).released)
=============================================================================
