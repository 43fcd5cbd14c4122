---------------------------- MODULE RepairCompiler ----------------------------
(***************************************************************************)
(* The finite grammar of repairs of repair/models.py and repair/cpcc.py,   *)
(* and their compilation: repair/compiler.py, and the threshold rewrite of *)
(* rewrite/engine.py.                                                      *)
(*                                                                         *)
(* A remediation action is [operator, field, minimum]; COUNT and           *)
(* COUNT_DISTINCT disclose the same.  A candidate is a set of one or two   *)
(* actions; what it compiles to is the set of the one query generated, or  *)
(* the empty set where the code raises CpccCompileError or RewriteError.   *)
(* A subject key is [column, alias].                                       *)
(***************************************************************************)
EXTENDS SqlAnalysis

(* remediation_operator_cost: goal loss, information loss, structure.      *)
OperatorCost(operator) ==
    CASE operator \in {"ADD_MINIMUM_GROUP_THRESHOLD", "INCREASE_MINIMUM_GROUP_THRESHOLD"}
            -> <<0, 1, 1>>
      [] operator = "COARSEN_QI" -> <<1, 2, 1>>
      [] operator = "AGGREGATE_SENSITIVE" -> <<2, 3, 2>>
      [] operator = "REMOVE_STABLE_IDENTIFIER" -> <<3, 4, 1>>
      [] operator = "REMOVE_PROJECTION" -> <<4, 4, 1>>
      [] operator = "REMOVE_SENSITIVE_PROJECTION" -> <<5, 5, 1>>

FieldOperators == {"REMOVE_PROJECTION", "COARSEN_QI", "AGGREGATE_SENSITIVE"}
ThresholdOperators == {"ADD_MINIMUM_GROUP_THRESHOLD", "INCREASE_MINIMUM_GROUP_THRESHOLD"}
Operators ==
    FieldOperators \cup ThresholdOperators
        \cup {"REMOVE_STABLE_IDENTIFIER", "REMOVE_SENSITIVE_PROJECTION"}

(* RemediationAction.validate_action and CpccRemediationSpace: at most 32  *)
(* actions, which have at most 528 singles and pairs.                      *)
ValidAction(a) ==
    /\ a.operator \in Operators /\ a.minimum \in Nat \ {1}
    /\ (a.operator \in FieldOperators) <=> (a.field # NoColumn)
    /\ (a.operator \in ThresholdOperators) <=> (a.minimum # 0)

ValidSpace(space) ==
    /\ space # {} /\ IsFiniteSet(space) /\ Cardinality(space) <= 32
    /\ \A a \in space : ValidAction(a)

(* enumerate_cpcc_candidates, without its order; and _build_candidate.     *)
Candidates(space) == kSubset(1, space) \cup kSubset(2, space)

(* The cost of a candidate: that of its one action, or of its two.         *)
CandidateCost(candidate) ==
    LET first == CHOOSE a \in candidate : TRUE
        rest == candidate \ {first}
        Cost(i) == OperatorCost(first.operator)[i]
    IN  [i \in 1..3 |->
            IF rest = {} THEN Cost(i)
            ELSE Cost(i) + OperatorCost((CHOOSE a \in rest : TRUE).operator)[i]]

(* CpccCandidate.ordering_key, up to the hash.                             *)
Cheaper(a, b) ==
    LET x == CandidateCost(a)
        y == CandidateCost(b)
    IN  \E i \in 1..3 : x[i] < y[i] /\ \A j \in 1..(i - 1) : x[j] = y[j]

-----------------------------------------------------------------------------
(* rewrite/engine.py                                                       *)

(* The aliases of a query's own references to the subject's field, and the *)
(* aliases of references to the subject itself, in any scope.              *)
RootAliases(query, column) ==
    {r.alias : r \in {x \in RefsOf(query) : x.field = FieldOf[column]}}

SubjectAliases(query, column) ==
    UNION {{AliasOf(s, r) :
                r \in {x \in RefsOf(s) : SelectedSource(s, x).table # NoTable
                                            /\ Resolve(s, x) = {column}}} :
           s \in Scopes(query)}

(* _root_subject_qualifier: no qualifier when it would be a guess.         *)
Qualifiers(query, subject) ==
    LET candidates == RootAliases(query, subject.column)
        matching == SubjectAliases(query, subject.column) \cap candidates
    IN  IF subject.alias \in candidates THEN {subject.alias}
        ELSE IF IsSingleton(matching) THEN matching
        ELSE {q \in candidates : IsSingleton(candidates)}

(* A query with other outputs, or with another HAVING clause.              *)
Showing(query, outputs) ==
    [from |-> query.from, outputs |-> outputs, on |-> query.on, where |-> query.where,
     groups |-> query.groups, having |-> query.having]

Requiring(query, having) ==
    [from |-> query.from, outputs |-> query.outputs, on |-> query.on, where |-> query.where,
     groups |-> query.groups, having |-> having]

AtLeast(ref, n) ==
    [op |-> "atLeast", args |-> <<>>, ref |-> ref, n |-> n, counted |-> "column"]

(* What a bug would make of it: the new condition replaces the old.        *)
MutConjoin(having, bound) == bound

Conjoin(having, bound) ==
    IF having = NoHaving THEN bound
    ELSE [op |-> "and", args |-> <<having, bound>>, ref |-> NoAlias, n |-> 0,
          counted |-> "nothing"]

Enforces(analysed, subject, n) ==
    analysed.threshold >= n /\ analysed.thresholdSubject = subject.column

(* enforce_minimum_group_size, of a query and its plan: what it rewrites   *)
(* is analysed, unless that is beyond the budget (SqlAnalysisError, which  *)
(* is no answer about the candidate).                                      *)
EnforceMinimum(query, plan, subject, n) ==
    LET Bound(q) == AtLeast([alias |-> q, field |-> FieldOf[subject.column]], n)
        rewritten == {Requiring(query, Conjoin(query.having, Bound(q))) :
                        q \in Qualifiers(query, subject)}
    IN  IF \/ ~plan.grouped \/ plan.wildcard \/ subject.column \notin plan.referenced
           \/ plan.thresholdSubject \notin {NoColumn, subject.column}
        THEN {}
        ELSE IF plan.threshold >= n THEN {query}
        ELSE IF plan.warnings # {} THEN {}
        ELSE {q \in rewritten : Analyzable(q) => Enforces(Analyze(q), subject, n)}

-----------------------------------------------------------------------------
(* repair/compiler.py                                                      *)

SourcesOf(query, projection) == ResolveAll(query, RefsIn(projection))

(* _ProjectionSlot.has_effective_category; and exact_field_key, which an   *)
(* output of a column under two aliases does not have.                     *)
HasEffectiveCategory(query, projection, category) ==
    \E c \in SourcesOf(query, projection) :
        category \in {CategoryOf[d] : d \in {c} \cup LineageOf[c]}

Slots(query, column) ==
    {i \in DOMAIN query.outputs :
        /\ SourcesOf(query, query.outputs[i]) = {column}
        /\ IsSingleton(ColumnRefs(query, RefsIn(query.outputs[i])))}

(* _remove_projection_indexes                                              *)
Removing(query, doomed) ==
    {Showing(query, [i \in kept |-> query.outputs[i]]) :
        kept \in {DOMAIN query.outputs \ doomed} \ {{}, DOMAIN query.outputs}}

RemovingCategory(query, category) ==
    Removing(query, {i \in DOMAIN query.outputs :
                        HasEffectiveCategory(query, query.outputs[i], category)})

(* AGGREGATE_SENSITIVE: a simple sensitive column, the only output, gives  *)
(* way to its count.                                                       *)
CountOf(projection, ref) ==
    [name |-> projection.name, form |-> "expression",
     operands |-> <<[wrap |-> "count", ref |-> ref]>>,
     filtered |-> projection.filtered, nested |-> projection.nested]

IsSimpleColumn(projection) == projection.form = "column" /\ IsSingleton(RefsIn(projection))

Counting(query, projection) ==
    IF /\ IsSingleton(DOMAIN query.outputs) /\ IsSimpleColumn(projection)
       /\ HasEffectiveCategory(query, projection, "SENSITIVE_ATTRIBUTE")
    THEN {Showing(query, [i \in DOMAIN query.outputs |-> CountOf(projection, ref)]) :
            ref \in RefsIn(projection)}
    ELSE {}

(* _compile_projection_action: every output has its exposure, and a field  *)
(* is that of one output.  COARSEN_QI is never compiled.                   *)
ProjectionRepairs(query, action, slots) ==
    LET slot == CHOOSE i \in slots : TRUE IN
    IF \E p \in OutputsOf(query) : Exposures(query, p) = {} THEN {}
    ELSE IF action.operator = "REMOVE_STABLE_IDENTIFIER"
    THEN RemovingCategory(query, "STABLE_PSEUDONYM")
    ELSE IF action.operator = "REMOVE_SENSITIVE_PROJECTION"
    THEN RemovingCategory(query, "SENSITIVE_ATTRIBUTE")
    ELSE IF ~IsSingleton(slots) THEN {}
    ELSE IF action.operator = "REMOVE_PROJECTION" THEN Removing(query, {slot})
    ELSE IF action.operator = "AGGREGATE_SENSITIVE" THEN Counting(query, query.outputs[slot])
    ELSE {}

(* _compile_threshold_action: one is added only where there is none, and   *)
(* only a weaker one is increased.                                         *)
ThresholdRepairs(query, plan, action, subject) ==
    IF IF action.operator = "ADD_MINIMUM_GROUP_THRESHOLD" THEN plan.threshold = 0
       ELSE plan.threshold \in 1..(action.minimum - 1)
    THEN EnforceMinimum(query, plan, subject, action.minimum) \ {query}
    ELSE {}

Repairs(query, action, subject) ==
    IF action.operator \in ThresholdOperators
    THEN ThresholdRepairs(query, Analyze(query), action, subject)
    ELSE ProjectionRepairs(query, action, Slots(query, action.field))

(* _PHASE: thresholds come last.                                           *)
Phase(action) ==
    CASE action.operator = "REMOVE_STABLE_IDENTIFIER" -> 10
      [] action.operator = "REMOVE_SENSITIVE_PROJECTION" -> 11
      [] action.operator = "REMOVE_PROJECTION" -> 12
      [] action.operator = "COARSEN_QI" -> 20
      [] action.operator = "AGGREGATE_SENSITIVE" -> 30
      [] action.operator = "ADD_MINIMUM_GROUP_THRESHOLD" -> 40
      [] action.operator = "INCREASE_MINIMUM_GROUP_THRESHOLD" -> 41

(* compile_cpcc_candidate                                                  *)
CompileFrom(query, candidate, subject, first) ==
    LET rest == candidate \ {first}
        Complete(q) == IF rest = {} THEN {q}
                       ELSE UNION {Repairs(q, a, subject) : a \in rest} \ {query}
    IN  UNION {Complete(q) : q \in Repairs(query, first, subject)}

Compile(query, candidate, subject) ==
    IF \/ \E p \in OutputsOf(query) : p.form = "star"
       \/ Cardinality({a \in candidate : a.operator \in ThresholdOperators}) > 1
    THEN {}
    ELSE CompileFrom(query, candidate, subject,
                     CHOOSE a \in candidate : \A b \in candidate : Phase(a) <= Phase(b))
=============================================================================
