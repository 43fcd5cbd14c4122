---------------------------- MODULE FutureGrammar ----------------------------
(***************************************************************************)
(* The finite grammar of future actions of prospective/grammar.py: the     *)
(* variants of a base release, and the declared advances of the warehouse  *)
(* snapshot.                                                               *)
(*                                                                         *)
(* A FutureActionGrammarContext is a record                                *)
(*   [base, snapshot, relevant, groupFields, aggregates, cohorts, edges,   *)
(*    subjects]                                                            *)
(* with base a release, edges pairs <<from, to>> of snapshots and subjects *)
(* the columns that match the subject of the scope.  An action is          *)
(* [kind, release, from, to]; a snapshot advance has no release and a      *)
(* release no snapshots.                                                   *)
(***************************************************************************)
EXTENDS DisclosureTwin

CONSTANTS
    MaxActions,         \* _MAX_ACTIONS_PER_STATE
    NoRelease,          \* semantic and composition of a snapshot advance
    NoSnapshot          \* a warehouse snapshot of None

RawProjectionKinds == LinkableKinds
GroupReplaceableKinds == {"RAW_VALUE", "TRANSFORMED_RAW_VALUE"}
SupportedAggregates == {"AVG", "COUNT", "MAX", "MIN", "SUM"}

Output(kind, column) == [kind |-> kind, sources |-> {column}]
SingleSource(output, column) == output.sources = {column}

(* The columns a variant still needs, of those the base references.        *)
StillReferenced(semantic) ==
    semantic.referenced \cap
        (OutputColumns(semantic) \cup semantic.joins \cup semantic.groups)

(* _with_added_projection                                                  *)
WithAddedProjection(base, column) ==
    [base EXCEPT !.outputs = @ \cup {Output("RAW_VALUE", column)},
                 !.referenced = @ \cup {column},
                 !.datasets = @ \cup {DatasetOf[column]}]

(* _with_removed_projection                                                *)
WithRemovedProjection(base, output) ==
    LET rest == [base EXCEPT !.outputs = @ \ {output}] IN
    [rest EXCEPT !.referenced = StillReferenced(rest)]

(* _with_added_group_key: raw outputs of the column give way to the key.   *)
WithAddedGroupKey(base, column) ==
    [base EXCEPT
        !.groups = @ \cup {column},
        !.referenced = @ \cup {column},
        !.datasets = @ \cup {DatasetOf[column]},
        !.outputs = {o \in @ : ~(SingleSource(o, column) /\ o.kind \in GroupReplaceableKinds)}
                        \cup {Output("GROUP_KEY", column)}]

(* _with_dropped_group_key                                                 *)
WithDroppedGroupKey(base, column) ==
    LET rest == [base EXCEPT !.groups = @ \ {column},
                             !.outputs = @ \ {Output("GROUP_KEY", column)}] IN
    [rest EXCEPT !.referenced = StillReferenced(rest)]

(* _with_changed_aggregate                                                 *)
WithChangedAggregate(base, current, replacement) ==
    [base EXCEPT !.aggregates = (@ \ {current}) \cup {replacement}]

ReleaseAction(kind, semantic, cohort) ==
    [kind |-> kind, release |-> [semantic |-> semantic, cohort |-> cohort],
     from |-> NoSnapshot, to |-> NoSnapshot]

(* The columns the base already shows raw.                                 *)
RawProjected(base) ==
    {c \in Columns : \E o \in base.outputs :
        o.kind \in RawProjectionKinds /\ SingleSource(o, c)}

(* _instantiate_actions                                                    *)
InstantiateActions(ctx) ==
    LET base == ctx.base.semantic
        Variant(kind, semantic) == ReleaseAction(kind, semantic, ctx.base.cohort)
        NonEmpty(actions) == {a \in actions : a.release.semantic.outputs # {}}
    IN  {Variant("REPLAY", base)}
        \cup {Variant("ADD_PROJECTION", WithAddedProjection(base, c)) :
                c \in ctx.relevant \ RawProjected(base)}
        \cup NonEmpty({Variant("REMOVE_PROJECTION", WithRemovedProjection(base, o)) :
                o \in {p \in base.outputs :
                        p.kind \in RawProjectionKinds /\ Cardinality(p.sources) = 1}})
        \cup {Variant("ADD_GROUP_KEY", WithAddedGroupKey(base, c)) :
                c \in ctx.groupFields \ base.groups}
        \cup NonEmpty({Variant("DROP_GROUP_KEY", WithDroppedGroupKey(base, c)) :
                c \in base.groups})
        \cup {Variant("CHANGE_AGGREGATE", WithChangedAggregate(base, f[1], f[2])) :
                f \in base.aggregates \X (ctx.aggregates \ base.aggregates)}
        \cup {ReleaseAction("COHORT_VARIANT", base, k) : k \in ctx.cohorts \ {ctx.base.cohort}}
        \cup {[kind |-> "SNAPSHOT_ADVANCE", release |-> NoRelease,
               from |-> e[1], to |-> e[2]] : e \in ctx.edges}

(* _reachable_snapshot_nodes                                               *)
ReachableSnapshots(ctx) ==
    LET reached[n \in 0..Cardinality(ctx.edges)] ==
            IF n = 0 THEN {ctx.snapshot}
            ELSE reached[n - 1] \cup {e[2] : e \in {d \in ctx.edges : d[1] \in reached[n - 1]}}
    IN  reached[Cardinality(ctx.edges)]

(* _validate_base_semantic                                                 *)
ValidSemantic(semantic) ==
    LET needed == OutputColumns(semantic) \cup semantic.joins \cup semantic.groups IN
    /\ semantic.outputs # {}
    /\ needed \subseteq semantic.referenced
    /\ {DatasetOf[c] : c \in semantic.referenced} \subseteq semantic.datasets

(* The validators of the context, its actions and the grammar.             *)
ValidContext(ctx) ==
    /\ ValidSemantic(ctx.base.semantic)
    /\ ctx.base.cohort # NoCohort
    /\ ctx.groupFields \subseteq
            {c \in ctx.relevant : CategoryOf[c] = "QUASI_IDENTIFIER"}
    /\ ctx.aggregates \subseteq SupportedAggregates
    /\ \A e \in ctx.edges : e[1] # e[2] /\ e[1] \in ReachableSnapshots(ctx)
    /\ Cardinality(InstantiateActions(ctx)) <= MaxActions

(* _require_state_in_model_universe: the base is released, and the         *)
(* snapshot is one the declared advances reach.                            *)
InModelUniverse(state, ctx) ==
    ctx.base \in state.released /\ state.snapshot \in ReachableSnapshots(ctx)

(* What a bug would make of it: the release replaces what was known.       *)
MutSuccessor(state, action) ==
    IF action.kind = "SNAPSHOT_ADVANCE"
    THEN [state EXCEPT !.snapshot = action.to]
    ELSE [state EXCEPT !.released = {action.release}]

(* apply_future_action: the successor, and whether it exists: an advance   *)
(* starts where the state is, and the successor is within its budgets.     *)
Successor(state, action) ==
    IF action.kind = "SNAPSHOT_ADVANCE"
    THEN [state EXCEPT !.snapshot = action.to]
    ELSE [state EXCEPT !.released = @ \cup {action.release}]

Applicable(state, action, ctx) ==
    /\ InModelUniverse(state, ctx)
    /\ action.kind = "SNAPSHOT_ADVANCE" => state.snapshot = action.from
    /\ Representable(Successor(state, action).released)
=============================================================================
