--------------------------- MODULE DisclosureTwin ---------------------------
(***************************************************************************)
(* The Disclosure Twin of prospective/twin.py: what has been released to a *)
(* scope, as canonical atoms, and what follows from them.                  *)
(*                                                                         *)
(* A semantic release is a record                                          *)
(*   [datasets, outputs, referenced, joins, groups, aggregates, minimum]   *)
(* of sets of columns, of outputs [kind, sources] and of aggregate names;  *)
(* minimum 0 is a minimum_group_size_present of None.  A release is        *)
(* [semantic, cohort].  Hashes are injective, so a semantic release is its *)
(* own hash.  A DisclosureState is [released, snapshot]: the code stores   *)
(* the atoms of the releases, which the releases determine.                *)
(***************************************************************************)
EXTENDS Naturals, FiniteSets, FiniteSetsExt

CONSTANTS
    Columns,            \* governed columns
    CategoryOf,         \* the SensitivityCategory of each
    DatasetOf,          \* the dataset of each
    MaxStateAtoms,      \* _MAX_STATE_ATOMS
    NoCohort            \* a DisclosureComposition of None

IsSingleton(set) == \E x \in set : set = {x}

Categories ==
    {"DIRECT_IDENTIFIER", "STABLE_PSEUDONYM", "QUASI_IDENTIFIER",
     "SENSITIVE_ATTRIBUTE", "PUBLIC_OR_LOW_RISK"}

ASSUME TwinAssumption ==
    /\ \A c \in Columns : CategoryOf[c] \in Categories
    /\ MaxStateAtoms \in Nat \ {0}

OutputKinds ==
    {"RAW_VALUE", "TRANSFORMED_RAW_VALUE", "GROUP_KEY", "AGGREGATE_OPERAND",
     "AGGREGATE_VALUE", "CONDITIONAL_AGGREGATE", "FILTER_ONLY", "JOIN_ONLY", "NESTED_SCOPE"}
SemanticReleases ==
    [datasets : SUBSET {DatasetOf[c] : c \in Columns},
     outputs : SUBSET [kind : OutputKinds, sources : SUBSET Columns],
     referenced : SUBSET Columns, joins : SUBSET Columns, groups : SUBSET Columns,
     aggregates : SUBSET STRING, minimum : Nat]

LinkableKinds == {"RAW_VALUE", "TRANSFORMED_RAW_VALUE", "GROUP_KEY", "NESTED_SCOPE"}
RevealingKinds ==
    LinkableKinds \cup {"AGGREGATE_OPERAND", "AGGREGATE_VALUE", "CONDITIONAL_AGGREGATE"}
IdentifierCategories == {"DIRECT_IDENTIFIER", "STABLE_PSEUDONYM"}
IsSensitive(column) == CategoryOf[column] = "SENSITIVE_ATTRIBUTE"

OutputColumns(semantic) == UNION {o.sources : o \in semantic.outputs}

(* is_protected_release: every aggregate, and every output of a column     *)
(* that is not public.                                                     *)
IsProtectedRelease(semantic) ==
    \/ semantic.aggregates # {}
    \/ \E c \in OutputColumns(semantic) : CategoryOf[c] # "PUBLIC_OR_LOW_RISK"

(* direct_atoms_for_release: a tuple <<kind, ...>> for each atom.  An atom   *)
(* also carries the semantic release it is of: atoms of one kind are those *)
(* of one release, and kept apart by release below.                        *)
DirectAtoms(release) ==
    LET s == release.semantic IN
    {<<"SEMANTIC_RELEASE">>}
    \cup {<<"SOURCE_DATASET", d>> : d \in s.datasets}
    \cup UNION {{<<"OUTPUT", c, o.kind>> : c \in o.sources} : o \in s.outputs}
    \cup {<<"REFERENCED", c>> : c \in s.referenced}
    \cup {<<"JOIN", c>> : c \in s.joins}
    \cup {<<"GROUP_KEY", c>> : c \in s.groups}
    \cup {<<"AGGREGATE_FUNCTION", f>> : f \in s.aggregates}
    \cup {<<"MINIMUM_GROUP_SIZE", n>> : n \in {s.minimum} \ {0}}
    \cup {<<"COHORT", k>> : k \in {release.cohort} \ {NoCohort}}

Semantics(releases) == {r.semantic : r \in releases}
AtomsOf(releases, semantic) ==
    UNION {DirectAtoms(r) : r \in {x \in releases : x.semantic = semantic}}

(* The budget of a DisclosureState.  Those of its rules and of its derived *)
(* atoms, twice and once as large, cannot be exceeded before it is.        *)
Representable(releases) ==
    FoldSet(LAMBDA s, n : n + Cardinality(AtomsOf(releases, s)), 0, Semantics(releases))
        <= MaxStateAtoms

(* The columns a release exposes through outputs of some kinds.            *)
Shown(semantic, kinds) == UNION {o.sources : o \in {p \in semantic.outputs : p.kind \in kinds}}
OfCategory(columns, category) == {c \in columns : CategoryOf[c] = category}

(* instantiate_disclosure_inference_rules: one hyperedge for each revealed *)
(* category, for each kind of identifier linkable to a sensitive value,    *)
(* and for each protected release known for two cohorts.  Where the code   *)
(* names the antecedents with the least hashes, any will do here.          *)
InferenceRules(releases) ==
    LET exposed(kinds) ==
            UNION {{<<s, c>> : c \in Shown(s, kinds)} : s \in Semantics(releases)}
        linked(category) == {e \in exposed(LinkableKinds) : CategoryOf[e[2]] = category}
        varied == {r \in releases : IsProtectedRelease(r.semantic) /\ r.cohort # NoCohort
                        /\ \E q \in releases : q.semantic = r.semantic
                                /\ q.cohort \notin {r.cohort, NoCohort}}
    IN  {[antecedents |-> {e}, consequent |-> <<"CATEGORY_PRESENCE", CategoryOf[e[2]]>>] :
            e \in exposed(RevealingKinds)}
        \cup {[antecedents |-> {CHOOSE e \in linked(i) : TRUE,
                                CHOOSE e \in linked("SENSITIVE_ATTRIBUTE") : TRUE},
               consequent |-> <<"IDENTIFIER_SENSITIVE_COEXPOSURE", i>>] :
            i \in {j \in IdentifierCategories :
                    linked("SENSITIVE_ATTRIBUTE") # {} /\ linked(j) # {}}}
        \cup {[antecedents |-> {<<s, c>> : c \in {r.cohort : r \in {q \in varied : q.semantic = s}}},
               consequent |-> <<"PROTECTED_COHORT_VARIATION", s>>] : s \in Semantics(varied)}

(* least_fixed_point: every antecedent is a released atom, so one pass     *)
(* over the rules reaches it.                                              *)
DerivedAtoms(releases) == {r.consequent : r \in InferenceRules(releases)}

(* build_disclosure_state: everything in the history that was not aborted, *)
(* and the candidate.                                                      *)
BuildState(history, candidate, snapshot) ==
    [released |-> {h.release : h \in {e \in history : e.lifecycle # "ABORTED"}}
                    \cup {candidate},
     snapshot |-> snapshot]
=============================================================================
