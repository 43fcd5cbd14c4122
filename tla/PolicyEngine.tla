---------------------------- MODULE PolicyEngine ----------------------------
(***************************************************************************)
(* PolicyEngine.evaluate of policy/engine.py: a pure decision over a       *)
(* PolicyInput, in the fixed priority BLOCK, REWRITE, ALLOW.               *)
(*                                                                         *)
(* A PolicyInput is a record                                               *)
(*   [upstream, projected, referenced, exposures, grouped,                 *)
(*    threshold, thresholdSubject, subject]                                *)
(* whose contexts are records [column, category, resolved, lineage], with  *)
(* lineage a set of [column, category], and whose exposures are records    *)
(* [kind, sources].  A threshold of 0 is one that is absent.  The evidence *)
(* a decision carries for its reader is left out.                          *)
(***************************************************************************)
EXTENDS Naturals, FiniteSets

CONSTANTS
    MinimumGroupSize,       \* minimum_group_size of the policy
    QuasiThreshold,         \* quasi_identifier_threshold
    FailClosed,             \* fail_closed
    NoColumn                \* the subject_key that is None

ASSUME PolicyAssumption ==
    /\ MinimumGroupSize \in Nat \ {0, 1}
    /\ QuasiThreshold \in Nat \ {0}
    /\ FailClosed \in BOOLEAN

SubjectCategories == {"DIRECT_IDENTIFIER", "STABLE_PSEUDONYM"}
ProtectedCategories ==
    SubjectCategories \cup {"QUASI_IDENTIFIER", "SENSITIVE_ATTRIBUTE", "UNCLASSIFIED"}
ExposedValueKinds ==
    {"RAW_VALUE", "TRANSFORMED_RAW_VALUE", "GROUP_KEY", "AGGREGATE_OPERAND",
     "CONDITIONAL_AGGREGATE", "NESTED_SCOPE"}

(* The (column, category) pairs of contexts and of what they derive from.  *)
EffectiveEntries(contexts) ==
    {[column |-> c.column, category |-> c.category] : c \in contexts}
        \cup UNION {c.lineage : c \in contexts}

EffectiveCategories(contexts) == {e.category : e \in EffectiveEntries(contexts)}

CategoryCount(contexts, category) ==
    Cardinality({e \in EffectiveEntries(contexts) : e.category = category})

Unresolved(in) ==
    {c \in in.referenced :
        \/ ~c.resolved
        \/ "UNCLASSIFIED" \in EffectiveCategories({c})}

(* Once the analysis says how each output exposes its sources, only the    *)
(* projected columns some output exposes the values of are at risk.        *)
SemanticMode(in) == in.exposures # {}

SemanticContext(in) ==
    IF SemanticMode(in)
    THEN {c \in in.projected : \E e \in in.exposures :
            e.kind \in ExposedValueKinds /\ c.column \in e.sources}
    ELSE in.projected

(* An aggregate over a CASE or FILTER of anything that is not public.      *)
ProtectedConditionalAggregate(in) ==
    \E e \in in.exposures : e.kind = "CONDITIONAL_AGGREGATE" /\
        \E column \in e.sources :
            \A c \in in.projected : c.column = column =>
                \/ ~c.resolved
                \/ EffectiveCategories({c}) \cap ProtectedCategories # {}

BlockReasons(in) ==
    LET risk == EffectiveCategories(SemanticContext(in))
        sensitive == "SENSITIVE_ATTRIBUTE" \in risk
        quasi == CategoryCount(SemanticContext(in), "QUASI_IDENTIFIER")
    IN  in.upstream
        \cup {r \in {"UNCLASSIFIED_COLUMN"} : FailClosed /\ Unresolved(in) # {}}
        \cup {r \in {"UNRESOLVED_COLUMN"} :
                FailClosed /\ \E e \in in.exposures : e.kind = "NESTED_SCOPE"}
        \cup {r \in {"COMPOSITIONAL_REIDENTIFICATION_RISK"} :
                \/ ProtectedConditionalAggregate(in)
                \/ /\ ~in.grouped /\ sensitive /\ "STABLE_PSEUDONYM" \in risk
                   /\ SemanticMode(in) \/ quasi >= QuasiThreshold}
        \cup {r \in {"DIRECT_SENSITIVE_LINKAGE"} :
                sensitive /\ "DIRECT_IDENTIFIER" \in risk}

(* The declared subject counts for a threshold only if governance          *)
(* classifies it as an identifier.                                         *)
SubjectIsGoverned(in) ==
    \E c \in in.referenced :
        c.column = in.subject /\ c.resolved /\ c.category \in SubjectCategories

(* What a bug would make of it: any threshold a query declares will do.    *)
MutTrustedThreshold(in) == IF in.threshold = 0 THEN 0 ELSE MinimumGroupSize

TrustedThreshold(in) ==
    IF /\ in.subject # NoColumn /\ in.thresholdSubject = in.subject
       /\ SubjectIsGoverned(in)
    THEN in.threshold
    ELSE 0

GroupsSensitive(in) ==
    in.grouped /\ "SENSITIVE_ATTRIBUTE" \in EffectiveCategories(in.referenced)

(* evaluate: the decision and its reason codes.                            *)
PolicyDecision(in) ==
    LET reasons == BlockReasons(in)
        untrusted == GroupsSensitive(in) /\ ~SubjectIsGoverned(in)
        small == GroupsSensitive(in) /\ TrustedThreshold(in) < MinimumGroupSize
    IN  IF reasons # {} THEN [decision |-> "BLOCK", reasons |-> reasons]
        ELSE IF untrusted THEN [decision |-> "BLOCK", reasons |-> {"UNTRUSTED_SUBJECT_KEY"}]
        ELSE IF small THEN [decision |-> "REWRITE", reasons |-> {"SMALL_GROUP_RISK"}]
        ELSE [decision |-> "ALLOW", reasons |-> {"NO_COMPOSITIONAL_RISK"}]
=============================================================================
