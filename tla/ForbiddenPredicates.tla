------------------------- MODULE ForbiddenPredicates -------------------------
(***************************************************************************)
(* The forbidden states of prospective/forbidden.py, over the releases of *)
(* a Disclosure Twin and, for F5, over what was observed along a path.       *)
(* Witnesses and their hashes are left out.                                *)
(***************************************************************************)
EXTENDS DisclosureTwin

CONSTANTS
    PredicateMinimum,   \* minimum_group_size of the ForbiddenPredicatePolicy
    NoBinding           \* a GovernanceTrustBinding of None

ASSUME PredicateAssumption == PredicateMinimum \in Nat \ {0, 1}

(* A TemporalPathContext, or the None that stands for one that is not      *)
(* known.                                                                  *)
TemporalPath(observations) == [known |-> TRUE, observations |-> observations]
NoPath == [known |-> FALSE, observations |-> {}]

Predicates == {"F1", "F2", "F3", "F4", "F5", "F6"}

(* F1 and F2: an identifier and a sensitive value linkable in one release. *)
SameReleaseLinkage(semantic, category) ==
    LET linkable == Shown(semantic, LinkableKinds) IN
    /\ OfCategory(linkable, category) # {}
    /\ OfCategory(linkable, "SENSITIVE_ATTRIBUTE") # {}

(* F3: a release reveals a sensitive value by group, and no minimum group  *)
(* size, or too small a one, is part of it.                                *)
SmallCohortSensitive(semantic) ==
    /\ OfCategory(Shown(semantic, RevealingKinds), "SENSITIVE_ATTRIBUTE") # {}
    /\ semantic.groups \cup Shown(semantic, {"GROUP_KEY"}) # {}
    /\ semantic.minimum = 0 \/ semantic.minimum < PredicateMinimum

(* F4: an identifier of one release and a sensitive value of another.      *)
CrossReleaseComposition(semantics) ==
    \E i, s \in semantics :
        /\ i # s
        /\ \E c \in IdentifierCategories : OfCategory(Shown(i, LinkableKinds), c) # {}
        /\ OfCategory(Shown(s, LinkableKinds), "SENSITIVE_ATTRIBUTE") # {}

(* F5: one sensitive release observed under two warehouse snapshots.       *)
TemporalDifferencing(path) ==
    \E a, b \in path.observations : a.semantic = b.semantic /\ a.snapshot # b.snapshot

(* F6: no binding, one of another governance, or one that is not trusted.  *)
UntrustedGovernance(governance, binding) ==
    \/ binding = NoBinding
    \/ binding.governance # governance
    \/ ~binding.trusted

(* evaluate_forbidden_state                                                *)
EvaluateForbiddenState(state, governance, binding, path) ==
    LET releases == Semantics(state.released) IN
    [matched |-> {p \in Predicates :
        CASE p = "F1" -> \E s \in releases : SameReleaseLinkage(s, "DIRECT_IDENTIFIER")
          [] p = "F2" -> \E s \in releases : SameReleaseLinkage(s, "STABLE_PSEUDONYM")
          [] p = "F3" -> \E s \in releases : SmallCohortSensitive(s)
          [] p = "F4" -> CrossReleaseComposition(releases)
          [] p = "F5" -> path # NoPath /\ TemporalDifferencing(path)
          [] p = "F6" -> UntrustedGovernance(governance, binding)},
     indeterminate |-> {p \in {"F5"} : path = NoPath}]
=============================================================================
