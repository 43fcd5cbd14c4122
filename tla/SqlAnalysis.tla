----------------------------- MODULE SqlAnalysis -----------------------------
(***************************************************************************)
(* analyze_sql of sql/parser.py and sql/analyzer.py: from one SELECT, over *)
(* tables or over other SELECTs, to its QueryPlan; the governance of that  *)
(* plan; and what the HAVING clause that was analysed says of groups.      *)
(*                                                                         *)
(* The parse tree is given: a SELECT is a record                           *)
(*   [from, outputs, on, where, groups, having]                            *)
(* with from a function from aliases to sources [table, query], one of the *)
(* two being absent; on, where and groups sets of references [alias,       *)
(* field]; outputs a function from positions to projections                *)
(*   [name, form, operands, filtered, nested]                              *)
(* whose operands [wrap, ref] are the column references in their order and *)
(* the aggregate around each; and having a Boolean expression              *)
(*   [op, args, ref, n, counted]                                           *)
(* over other conditions and bounds COUNT(DISTINCT e) >= n, where ref is   *)
(* the one column reference in e and counted says whether e is that        *)
(* "column" itself or another expression.                                  *)
(*                                                                         *)
(* The code walks the tree with stacks and by recursion, never deeper than *)
(* its budget: here a function of the level does.                          *)
(***************************************************************************)
EXTENDS PolicyOracle, Sequences

CONSTANTS
    FieldOf,            \* the field path of each governed column
    UnresolvedRef,      \* a reference without governance
    NoAlias, NoTable, NoQuery, NoHaving, NoName,
    MaxDepth            \* MAX_SQL_AST_DEPTH, in levels of a tree

ASSUME DepthAssumption == MaxDepth \in Nat

OperandsOf(projection) ==
    {projection.operands[i] : i \in DOMAIN projection.operands}
RefsIn(projection) == {o.ref : o \in OperandsOf(projection)}
OutputsOf(query) == {query.outputs[i] : i \in DOMAIN query.outputs}

ArgsOf(condition) == {condition.args[i] : i \in DOMAIN condition.args}

(* The conditions at each level of a clause, going down through some       *)
(* operators; and at all levels.                                           *)
Levels(having, through) ==
    LET level[n \in 0..MaxDepth] ==
            IF n = 0 THEN {having}
            ELSE UNION {ArgsOf(h) : h \in {g \in level[n - 1] : g.op \in through}}
    IN  level

Within(having, through) == UNION {Levels(having, through)[n] : n \in 0..MaxDepth}

(* Every condition of a HAVING clause (body.walk()).                       *)
Nodes(having) == Within(having, {"and", "or", "not"})

HavingNodes(query) == IF query.having = NoHaving THEN {} ELSE Nodes(query.having)

(* Lower bounds on distinct counts, wherever they stand in the clause      *)
(* (_threshold_comparison: any expression of one column may be counted).   *)
Bounds(query) == {h \in HavingNodes(query) : h.op = "atLeast"}

(* _columns_belonging_to(select, select)                                   *)
RefsOf(query) ==
    UNION {RefsIn(p) : p \in OutputsOf(query)} \cup query.on \cup query.where \cup query.groups
        \cup {h.ref : h \in Bounds(query)}

(* traverse_scope: the query, its derived tables and its subqueries.       *)
InnerQueries(query) ==
    ({query.from[a].query : a \in DOMAIN query.from} \cup {p.nested : p \in OutputsOf(query)})
        \ {NoQuery}

Scopes(query) ==
    LET level[n \in 1..MaxDepth] ==
            IF n = 1 THEN InnerQueries(query) ELSE UNION {InnerQueries(s) : s \in level[n - 1]}
    IN  {query} \cup UNION {level[n] : n \in 1..MaxDepth}

(* enforce_sql_resource_budget: trees are finite, of no more levels.       *)
WithinBudget(query) ==
    /\ IsFiniteSet(HavingNodes(query))
    /\ \A h \in HavingNodes(query) : h.n \in Nat /\ ArgsOf(h) \subseteq HavingNodes(query)

(* _selected_source: a reference without alias has only one source.        *)
Ambiguous(query, ref) == ref.alias = NoAlias /\ ~IsSingleton(DOMAIN query.from)

AliasOf(query, ref) ==
    IF ref.alias = NoAlias THEN CHOOSE a \in DOMAIN query.from : TRUE ELSE ref.alias

NoSource == [table |-> NoTable, query |-> NoQuery]
SelectedSource(query, ref) ==
    LET alias == AliasOf(query, ref)
    IN  IF alias \in DOMAIN query.from THEN query.from[alias] ELSE NoSource

Named(query, name) == {p \in OutputsOf(query) : p.name = name}

(* Whether one output, and only one, has a name.                           *)
NamesOne(query, name) ==
    IsSingleton({i \in DOMAIN query.outputs : query.outputs[i].name = name})

(* _resolve_column: the columns a field of a source stands for, unless it  *)
(* is one output of a derived table.                                       *)
ColumnsAt(source, field) ==
    LET columns == {c \in Columns : DatasetOf[c] = source.table /\ FieldOf[c] = field}
        unresolved ==
            \/ source = NoSource
            \/ source.query = NoQuery /\ columns = {}
            \/ source.query # NoQuery /\ ~NamesOne(source.query, field)
    IN  IF unresolved THEN {UnresolvedRef} ELSE IF source.query = NoQuery THEN columns ELSE {}

(* What a reference selects: a field of a source, under an alias.          *)
Selected(query, ref) ==
    [source |-> SelectedSource(query, ref), field |-> ref.field, alias |-> AliasOf(query, ref)]

(* _resolve_derived_output: the output a field of a derived table is, if   *)
(* it is one, and what its references select.                              *)
OutputBehind(x) ==
    LET inner == x.source.query IN
    IF inner # NoQuery /\ NamesOne(inner, x.field) THEN Named(inner, x.field) ELSE {}

FieldsBehind(x) ==
    {Selected(x.source.query, r) : r \in UNION {RefsIn(p) : p \in OutputBehind(x)}}

(* What a reference selects, at any level of derived tables.               *)
ReachedBy(query, ref) ==
    LET behind[n \in 0..MaxDepth] ==
            IF n = 0 THEN {Selected(query, ref)}
            ELSE UNION {FieldsBehind(x) : x \in behind[n - 1]}
    IN  UNION {behind[n] : n \in 0..MaxDepth}

(* _resolve_columns: the columns that references stand for, each under the *)
(* aliases it is reached by; and without them.                             *)
ColumnRefs(query, refs) ==
    UNION {UNION {ColumnsAt(x.source, x.field) \X {x.alias} : x \in ReachedBy(query, r)} :
           r \in refs}

Resolve(query, ref) == UNION {ColumnsAt(x.source, x.field) : x \in ReachedBy(query, ref)}

ResolveAll(query, refs) == UNION {Resolve(query, r) : r \in refs}

(* _is_group_key                                                           *)
IsGroupKey(query, ref) ==
    Resolve(query, ref) \cap ResolveAll(query, query.groups) # {}

(* _aggregate_operand_kind: COUNT of a column alone is its cardinality, of *)
(* anything else a condition; another aggregate may show its operand.      *)
AggregateKind(wrap) ==
    CASE wrap = "count" -> "AGGREGATE_VALUE"
      [] wrap = "countOf" -> "CONDITIONAL_AGGREGATE"
      [] wrap = "fold" -> "AGGREGATE_OPERAND"

PassedOn == {"CONDITIONAL_AGGREGATE", "AGGREGATE_VALUE", "AGGREGATE_OPERAND", "NESTED_SCOPE"}

(* The first operand that is not a plain count decides for an expression.  *)
FirstTelling(kinds) ==
    IF \A i \in DOMAIN kinds : kinds[i] = "AGGREGATE_VALUE" THEN "AGGREGATE_VALUE"
    ELSE kinds[Min({i \in DOMAIN kinds : kinds[i] # "AGGREGATE_VALUE"})]

Transformed(kind) == IF kind \in PassedOn THEN kind ELSE "TRANSFORMED_RAW_VALUE"

(* _classify_projection_expression and _source_column_kind, of the         *)
(* projections of every scope that outputs may pass through.               *)
Classify(query, projection) ==
    LET kind[x \in UNION {{<<s, p>> : p \in OutputsOf(s)} : s \in Scopes(query)}] ==
            LET SourceKind(ref) ==
                    LET source == SelectedSource(x[1], ref) IN
                    IF source = NoSource THEN "NESTED_SCOPE"
                    ELSE IF source.query = NoQuery THEN "RAW_VALUE"
                    ELSE IF ~NamesOne(source.query, ref.field) THEN "NESTED_SCOPE"
                    ELSE kind[<<source.query, CHOOSE p \in Named(source.query, ref.field) : TRUE>>]
                OperandKind(o) ==
                    IF o.wrap = "none" THEN Transformed(SourceKind(o.ref))
                    ELSE AggregateKind(o.wrap)
                Keyed(found, ref) ==
                    IF found = "RAW_VALUE" /\ IsGroupKey(x[1], ref) THEN "GROUP_KEY" ELSE found
                first == x[2].operands[1].ref
            IN  IF x[2].filtered THEN "CONDITIONAL_AGGREGATE"
                ELSE IF x[2].form = "column" THEN Keyed(SourceKind(first), first)
                ELSE IF x[2].operands = <<>> THEN "NESTED_SCOPE"
                ELSE FirstTelling([i \in DOMAIN x[2].operands |->
                                        OperandKind(x[2].operands[i])])
    IN  kind[<<query, projection>>]

(* _projection_exposure: none for a literal, and for COUNT of all rows.    *)
ExposuresOf(query, projection, resolved) ==
    IF resolved # {} THEN {[kind |-> Classify(query, projection), sources |-> resolved]}
    ELSE {e \in {[kind |-> "NESTED_SCOPE", sources |-> {}]} : projection.nested # NoQuery}

Exposures(query, projection) ==
    ExposuresOf(query, projection, ResolveAll(query, RefsIn(projection)))

-----------------------------------------------------------------------------
(* What a bug would make of it: any part of the clause will do.            *)
MutConjunctiveTerms(having) == Nodes(having)

(* _conjunctive_terms: what must hold for a group to survive.              *)
ConjunctiveTerms(having) == {h \in Within(having, {"and"}) : h.op # "and"}

(* No threshold; the warnings are those that the rewriter looks at.         *)
Untrusted(warnings) == [least |-> 0, subject |-> NoColumn, warnings |-> warnings]

(* The bounds are about one subject, and the greatest holds.               *)
AgreedThreshold(bounds, subjects) ==
    IF ~IsSingleton(subjects) THEN Untrusted({"MULTIPLE_SUBJECTS"})
    ELSE [least |-> Max({t.n : t \in bounds}), subject |-> CHOOSE c \in subjects : TRUE,
          warnings |-> {}]

ThresholdAmong(query, ops, bounds) ==
    IF "or" \in ops THEN Untrusted({"OR_EXPRESSION"})
    ELSE IF bounds = {} THEN Untrusted({w \in {"NON_CONJUNCTIVE"} : "atLeast" \in ops})
    ELSE AgreedThreshold(bounds, ResolveAll(query, {t.ref : t \in bounds}))

(* _extract_minimum_group_threshold: bounds must hold for a group to       *)
(* survive, and be about one column.                                       *)
TrustedBounds(query) ==
    {t \in ConjunctiveTerms(query.having) :
        t.op = "atLeast" /\ IsSingleton(ColumnRefs(query, {t.ref}))}

ThresholdOf(query) ==
    IF query.having = NoHaving THEN Untrusted({})
    ELSE ThresholdAmong(query, {h.op : h \in Nodes(query.having)}, TrustedBounds(query))

AggregatesIn(query) ==
    LET wraps == UNION {{o.wrap : o \in OperandsOf(p)} : p \in OutputsOf(query)}
    IN  {f \in {"COUNT"} :
            \/ wraps \cap {"count", "countOf"} # {} \/ Bounds(query) # {}
            \/ \E p \in OutputsOf(query) : p.form = "countAll"}
        \cup {f \in {"AVG"} : "fold" \in wraps}

(* Whether analyze_sql returns a plan: the query is within the budget, and *)
(* no reference is ambiguous.                                              *)
Analyzable(query) ==
    \A s \in Scopes(query) :
        /\ WithinBudget(s) /\ InnerQueries(s) \subseteq Scopes(query)
        /\ \A r \in RefsOf(s) : ~Ambiguous(s, r)

(* analyze_sql, of all the scopes, and with the threshold, of a query.     *)
AnalyzeScopes(query, scopes, threshold) ==
    LET groups == UNION {ResolveAll(s, s.groups) : s \in scopes}
        aggregates == UNION {AggregatesIn(s) : s \in scopes}
    IN  [datasets |-> UNION {{s.from[a].table : a \in DOMAIN s.from} : s \in scopes}
                        \ {NoTable},
         projected |-> UNION {ResolveAll(query, RefsIn(p)) : p \in OutputsOf(query)},
         exposures |-> UNION {Exposures(query, p) : p \in OutputsOf(query)},
         referenced |-> UNION {ResolveAll(s, RefsOf(s)) : s \in scopes},
         joins |-> UNION {ResolveAll(s, s.on) : s \in scopes},
         groups |-> groups,
         aggregates |-> aggregates,
         threshold |-> threshold.least,
         thresholdSubject |-> threshold.subject,
         grouped |-> groups \cup aggregates # {},
         wildcard |-> \E p \in OutputsOf(query) : p.form = "star",
         warnings |-> threshold.warnings]

Analyze(query) == AnalyzeScopes(query, Scopes(query), ThresholdOf(query))

-----------------------------------------------------------------------------
(* FixtureContextResolver.resolve, over the catalog of a snapshot: whether *)
(* there are no failures, and to_policy_input then.                        *)
Grounded(plan) == plan.referenced \subseteq Governed /\ ~plan.wildcard

PlanInput(plan, subject) ==
    [upstream |-> {},
     projected |-> {GovernedContext(c) : c \in plan.projected},
     referenced |-> {GovernedContext(c) : c \in plan.referenced},
     exposures |-> plan.exposures,
     grouped |-> plan.grouped,
     threshold |-> plan.threshold,
     thresholdSubject |-> plan.thresholdSubject,
     subject |-> subject]

(* build_semantic_release_from_resolution: every dataset is that of some   *)
(* column with governance.                                                 *)
Releasable(plan) == plan.datasets \subseteq {DatasetOf[c] : c \in plan.referenced}

SemanticOf(plan) ==
    [datasets |-> plan.datasets, outputs |-> plan.exposures, referenced |-> plan.referenced,
     joins |-> plan.joins, groups |-> plan.groups, aggregates |-> plan.aggregates,
     minimum |-> plan.threshold]

(* resolve_governed_subject_domain: the columns of the plan's datasets that *)
(* are the subject's field, all identifiers of the subject's category.     *)
SubjectDomain(plan, subject) ==
    {c \in Governed : FieldOf[c] = FieldOf[subject] /\ DatasetOf[c] \in plan.datasets}

HasSubjectDomain(plan, subject) ==
    /\ subject \in Governed /\ CategoryOf[subject] \in SubjectCategories
    /\ plan.datasets \subseteq {DatasetOf[c] : c \in Governed}
    /\ {CategoryOf[c] : c \in SubjectDomain(plan, subject)} = {CategoryOf[subject]}

-----------------------------------------------------------------------------
(* What a HAVING clause means for a group in which what bound h counts has *)
(* values[h] distinct values, and the other conditions hold or do not:     *)
(* which of its conditions are true.  For a tree there is one answer.      *)
IsTruth(truth, query, values, other) ==
    \A h \in HavingNodes(query) :
        truth[h] = CASE h.op = "and" -> \A g \in ArgsOf(h) : truth[g]
                     [] h.op = "or" -> \E g \in ArgsOf(h) : truth[g]
                     [] h.op = "not" -> \A g \in ArgsOf(h) : ~truth[g]
                     [] h.op = "atLeast" -> values[h] >= h.n
                     [] h.op = "other" -> other

Survives(query, values, other) ==
    \/ query.having = NoHaving
    \/ \E truth \in [HavingNodes(query) -> BOOLEAN] :
            IsTruth(truth, query, values, other) /\ truth[query.having]

(* Whether a bound counts its column itself, a column of a derived table   *)
(* standing for the column it copies.  Other expressions of one column may *)
(* have more values than the column, and even one for every row.           *)
CountsItself(query, h) ==
    /\ h.counted = "column"
    /\ \A x \in ReachedBy(query, h.ref) : \A p \in OutputBehind(x) : p.form = "column"

(* A group may have so many distinct values of a column: what counts the   *)
(* column itself counts no more.                                           *)
MayHave(query, values, column, size) ==
    \A h \in Bounds(query) :
        CountsItself(query, h) /\ Resolve(query, h.ref) = {column} => values[h] <= size
=============================================================================
