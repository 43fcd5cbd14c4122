------------------------- MODULE MCProspectiveSearch -------------------------
(***************************************************************************)
(* Instances of ProspectiveSearch and PrivacyCut for TLC: searches alone,  *)
(* and repairs of queries with the searches they start.  One dataset has a *)
(* column of each category, one column without trusted governance and one  *)
(* derived from a sensitive one; another has the same subject's field.     *)
(***************************************************************************)
EXTENDS PrivacyCut, SequencesExt

CONSTANTS w0, w1, k0, k1

MCColumns ==
    {"id", "name", "diagnosis", "zip", "age", "shop", "extra", "score", "vid", "ward"}

MCCategoryOf ==
    [id |-> "STABLE_PSEUDONYM", name |-> "DIRECT_IDENTIFIER",
     diagnosis |-> "SENSITIVE_ATTRIBUTE", zip |-> "QUASI_IDENTIFIER",
     age |-> "QUASI_IDENTIFIER", shop |-> "PUBLIC_OR_LOW_RISK",
     extra |-> "QUASI_IDENTIFIER", score |-> "PUBLIC_OR_LOW_RISK",
     vid |-> "STABLE_PSEUDONYM", ward |-> "QUASI_IDENTIFIER"]

MCDatasetOf ==
    [c \in MCColumns |-> IF c \in {"vid", "ward"} THEN "visits" ELSE "patients"]
MCFieldOf == [c \in MCColumns |-> IF c = "vid" THEN "id" ELSE c]
MCGoverned == MCColumns \ {"extra"}
MCLineageOf == [c \in MCColumns |-> IF c = "score" THEN {"diagnosis"} ELSE {}]

Semantic(outputs, groups, aggregates, minimum) ==
    [datasets |-> {"patients"}, outputs |-> outputs,
     referenced |-> (UNION {o.sources : o \in outputs}) \cup groups
                        \cup (IF minimum > 0 THEN {"id"} ELSE {}),
     joins |-> {}, groups |-> groups, aggregates |-> aggregates, minimum |-> minimum]

Grouped(minimum) ==
    Semantic({Output("GROUP_KEY", "zip"), Output("AGGREGATE_OPERAND", "diagnosis")},
             {"zip"}, {"AVG"}, minimum)
Counted == Semantic({Output("AGGREGATE_VALUE", "diagnosis")}, {}, {"COUNT"}, 2)
Plain == Semantic({Output("RAW_VALUE", "zip"), Output("RAW_VALUE", "shop")}, {}, {}, 0)
Listed == Semantic({Output("RAW_VALUE", "id"), Output("RAW_VALUE", "zip")}, {}, {}, 0)
Diagnoses == Semantic({Output("RAW_VALUE", "diagnosis")}, {}, {}, 0)
Keyed ==
    Semantic({Output("GROUP_KEY", "id"), Output("CONDITIONAL_AGGREGATE", "shop")},
             {"id"}, {"SUM"}, 2)
Bases == {Grouped(1), Grouped(2), Counted, Plain, Listed, Keyed}

Release(semantic) == [semantic |-> semantic, cohort |-> k0]
Entry(semantic, lifecycle) == [release |-> Release(semantic), lifecycle |-> lifecycle]

(* Which variants the grammar may take: few, so that each search is small. *)
Shape(relevant, groupFields, aggregates, cohorts, edges) ==
    [relevant |-> relevant, groupFields |-> groupFields, aggregates |-> aggregates,
     cohorts |-> cohorts, edges |-> edges]
Shapes ==
    {Shape({}, {}, {}, {}, {<<w0, w1>>}),
     Shape({}, {}, {"COUNT"}, {k1}, {<<w0, w1>>, <<w1, w0>>}),
     Shape({"diagnosis", "name"}, {}, {}, {}, {}),
     Shape({"age", "score"}, {"age"}, {}, {k0}, {<<NoSnapshot, w0>>, <<w0, w1>>}),
     Shape({"extra", "id"}, {"extra"}, {}, {}, {})}

Context(semantic, shape, snapshot) ==
    [base |-> Release(semantic), snapshot |-> snapshot, relevant |-> shape.relevant,
     groupFields |-> shape.groupFields, aggregates |-> shape.aggregates,
     cohorts |-> shape.cohorts, edges |-> shape.edges, subjects |-> {"id"}]

Histories ==
    {{}, {Entry(Diagnoses, "ABORTED")}, {Entry(Diagnoses, "PENDING")},
     {Entry(Grouped(2), "RELEASED")}, {Entry(Plain, "RELEASED"), Entry(Listed, "RELEASED")}}

Bindings ==
    {NoBinding} \cup [governance : {"current", "other"}, trusted : BOOLEAN]

Call(ctx, history, binding, bound, maxStates) ==
    [ctx |-> ctx, history |-> history, governance |-> "current", binding |-> binding,
     bound |-> bound, maxStates |-> maxStates]

Trusted == [governance |-> "current", trusted |-> TRUE]

MCInputs ==
    {Call(Context(s, g, w), h, Trusted, b, m) :
        s \in Bases, g \in Shapes, w \in {w0, NoSnapshot}, h \in Histories,
        b \in {2}, m \in {3, 50}}
    \cup {Call(Context(s, g, w0), {}, Trusted, 3, 50) : s \in Bases, g \in Shapes}
    \cup {Call(Context(Plain, g, w0), {}, x, b, 1) : g \in Shapes, x \in Bindings, b \in {0, 1}}

AsSequence(set) == FoldSet(LAMBDA a, sequence : Append(sequence, a), <<>>, set)

MCOrders(set) == {AsSequence(set), Reverse(AsSequence(set))}

-----------------------------------------------------------------------------
(* Queries to repair, over patients as p and visits as v.                  *)

P(field) == [alias |-> "p", field |-> field]
V(field) == [alias |-> "v", field |-> field]
T(field) == [alias |-> "t", field |-> field]
D(field) == [alias |-> "d", field |-> field]

Projection(form, wrap, ref) ==
    [name |-> ref.field, form |-> form, operands |-> <<[wrap |-> wrap, ref |-> ref]>>,
     filtered |-> FALSE, nested |-> NoQuery]
Column(ref) == Projection("column", "none", ref)
Fold(ref) == Projection("expression", "fold", ref)
CountAll ==
    [name |-> NoName, form |-> "countAll", operands |-> <<>>, filtered |-> FALSE,
     nested |-> NoQuery]
Ratio(ref, count) ==
    [Fold(ref) EXCEPT !.operands = <<[wrap |-> "count", ref |-> count]>> \o @]

Table(name) == [table |-> name, query |-> NoQuery]
Subquery(query) == [table |-> NoTable, query |-> query]

Select(from, outputs, where, groups, having) ==
    [from |-> from, outputs |-> outputs, on |-> {}, where |-> where, groups |-> groups,
     having |-> having]
Patients == "p" :> Table("patients")

Condition(op, args) ==
    [op |-> op, args |-> args, ref |-> NoAlias, n |-> 0, counted |-> "nothing"]
Other == Condition("other", <<>>)
Negated(condition) == Condition("not", <<condition>>)

Linked == Select(Patients, <<Column(P("id")), Column(P("zip")), Column(P("diagnosis"))>>,
                 {}, {}, NoHaving)
Named4 == Select(Patients, <<Column(P("id")), Column(P("name")), Column(P("diagnosis"))>>,
                 {}, {}, NoHaving)
Single == Select(Patients, <<Column(P("diagnosis"))>>, {P("id")}, {}, NoHaving)
Averages(having) ==
    Select(Patients, <<Column(P("zip")), Column(P("shop")), Fold(P("diagnosis"))>>, {P("id")},
           {P("zip"), P("shop")}, having)
Scored(having) ==
    Select(Patients, <<Fold(P("age")), Ratio(P("score"), P("shop")), Fold(P("id"))>>, {}, {},
           having)
Sizes == Select(Patients, <<Column(P("zip")), CountAll, Fold(P("diagnosis"))>>, {P("id")},
                {P("zip")}, NoHaving)
Inner == Select(Patients, <<Column(P("id")), Column(P("zip")), Fold(P("diagnosis"))>>, {},
                {P("id"), P("zip")}, NoHaving)
Outer == Select("d" :> Subquery(Inner), <<Column(D("zip")), Fold(D("diagnosis"))>>,
                {D("id")}, {D("zip")}, NoHaving)
Scalar == [Linked EXCEPT !.outputs = @ \o <<[CountAll EXCEPT !.nested = Single]>>]
Joined ==
    [Select(Patients @@ ("v" :> Table("visits")), <<Column(V("ward")), Fold(P("diagnosis"))>>,
            {}, {V("ward")}, NoHaving) EXCEPT !.on = {P("id"), V("id")}]

Blurred == [Inner EXCEPT !.outputs[1] = Projection("expression", "none", P("id"))]
Around(query, having) ==
    [Outer EXCEPT !.from = "d" :> Subquery(query), !.having = having]
Twins ==
    Select(Patients @@ ("t" :> Table("patients")),
           <<Column(P("zip")), [Fold(P("diagnosis")) EXCEPT
                !.operands = @ \o <<[wrap |-> "fold", ref |-> T("diagnosis")]>>]>>,
           {P("id"), T("id")}, {P("zip")}, NoHaving)

Action(operator, field, minimum) ==
    [operator |-> operator, field |-> field, minimum |-> minimum]
Drop(field) == Action("REMOVE_PROJECTION", field, 0)
Anonymize == Action("REMOVE_STABLE_IDENTIFIER", NoColumn, 0)
Redact == Action("REMOVE_SENSITIVE_PROJECTION", NoColumn, 0)
Tally == Action("AGGREGATE_SENSITIVE", "diagnosis", 0)
Coarsen == Action("COARSEN_QI", "zip", 0)
Add(n) == Action("ADD_MINIMUM_GROUP_THRESHOLD", NoColumn, n)
Increase(n) == Action("INCREASE_MINIMUM_GROUP_THRESHOLD", NoColumn, n)

Subject(n) == AtLeast(P("id"), n)
Masked(n) == [Subject(n) EXCEPT !.counted = "expression"]
Tasks ==
    {<<Linked, {Anonymize, Redact, Drop("zip"), Coarsen}>>,
     <<Linked, {Drop("id"), Drop("zip"), Tally}>>,
     <<Named4, {Anonymize, Redact, Drop("name")}>>,
     <<Single, {Tally, Add(2), Redact}>>,
     <<Averages(NoHaving), {Add(2), Add(3), Redact}>>,
     <<Averages(Condition("and", <<Other, Subject(1)>>)), {Increase(2), Add(2), Redact}>>,
     <<Averages(Negated(Subject(3))), {Add(2), Drop("shop"), Redact}>>,
     <<Averages(Condition("or", <<Subject(3), Other>>)), {Increase(2), Drop("shop")}>>,
     <<Averages(Condition("and", <<Subject(3), AtLeast(P("zip"), 2)>>)), {Increase(2), Drop("shop")}>>,
     <<Averages(Other), {Add(2), Drop("shop")}>>,
     <<Averages(Negated(Negated(Negated(Other)))), {Add(2), Redact}>>,
     <<Scored(Subject(2)), {Drop("age"), Redact, Anonymize}>>,
     <<Sizes, {Add(2), Redact}>>,
     <<Outer, {Add(2), Drop("zip")}>>,
     <<Averages(Masked(3)), {Drop("shop"), Add(2)}>>,
     <<Averages(Condition("and", <<Masked(1), Other>>)), {Increase(2), Redact}>>,
     <<Around(Inner, AtLeast(D("id"), 2)), {Drop("zip"), Redact}>>,
     <<Around(Blurred, AtLeast(D("id"), 2)), {Drop("zip"), Redact}>>,
     <<Twins, {Drop("diagnosis"), Drop("zip"), Redact}>>,
     <<Scalar, {Redact, Anonymize}>>,
     <<Joined, {Add(2), Redact}>>}

Surroundings ==
    {[shape |-> g, history |-> h, trusted |-> t, bound |-> b] :
        g \in {Shape({}, {}, {}, {}, {})}, h \in {{}, {Entry(Listed, "RELEASED")}},
        t \in BOOLEAN, b \in {1}}
    \cup {[shape |-> g, history |-> {}, trusted |-> TRUE, bound |-> 2] : g \in Shapes}

MCRequests ==
    {[query |-> t[1], space |-> t[2], subject |-> [column |-> "id", alias |-> NoAlias],
      cohort |-> k0, history |-> e.history, relevant |-> e.shape.relevant,
      groupFields |-> e.shape.groupFields, aggregates |-> e.shape.aggregates,
      cohorts |-> e.shape.cohorts, edges |-> e.shape.edges, snapshot |-> w0,
      trusted |-> e.trusted, bound |-> e.bound, maxStates |-> 50] :
        t \in Tasks, e \in Surroundings}

-----------------------------------------------------------------------------
(* A search alone, or repairs with their searches.                         *)

SearchAlone ==
    /\ Init
    /\ request = NoCall /\ candidates = <<>> /\ stage = "off" /\ generated = NoQuery
    /\ plan = NoPlan
    /\ chain = {} /\ validations = <<>> /\ repair = Undecided

MCInit == SearchAlone \/ CutInit
SearchOnly == stage = "off" /\ Next /\ UNCHANGED cutVars
MCNext == SearchOnly \/ CutNext
MCSpec == MCInit /\ [][MCNext]_<<vars, cutVars>>
FairMCSpec == MCSpec /\ WF_<<vars, cutVars>>(Search /\ UNCHANGED cutVars)
=============================================================================
