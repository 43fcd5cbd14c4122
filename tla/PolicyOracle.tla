---------------------------- MODULE PolicyOracle ----------------------------
(***************************************************************************)
(* The local-admissibility oracle of prospective/policy_oracle.py: it      *)
(* rebuilds the PolicyInput of a semantic release from trusted governance  *)
(* and asks the PolicyEngine.                                              *)
(***************************************************************************)
EXTENDS FutureGrammar, PolicyEngine

CONSTANTS
    Governed,           \* columns the PolicyOracleGovernanceContext covers
    LineageOf           \* the columns each derives from

ASSUME OracleAssumption ==
    /\ Governed \subseteq Columns
    /\ \A c \in Columns : LineageOf[c] \subseteq Columns

GovernedContext(column) ==
    [column |-> column, category |-> CategoryOf[column], resolved |-> TRUE,
     lineage |-> {[column |-> c, category |-> CategoryOf[c]] : c \in LineageOf[column]}]

(* _subject_key: the one referenced column that matches the subject of the *)
(* scope, of which subjects are the columns.                               *)
SubjectKey(semantic, subjects) ==
    LET candidates == semantic.referenced \cap subjects IN
    IF IsSingleton(candidates) THEN CHOOSE c \in candidates : TRUE ELSE NoColumn

(* Whether build_policy_input_from_semantic succeeds: every column and     *)
(* every dataset has trusted governance, and a minimum has its subject.    *)
Reconstructible(semantic, subjects) ==
    /\ semantic.referenced \cup semantic.joins \cup semantic.groups
            \cup OutputColumns(semantic) \subseteq Governed
    /\ semantic.datasets \subseteq {DatasetOf[c] : c \in Governed}
    /\ ValidSemantic(semantic)
    /\ semantic.minimum # 0 => SubjectKey(semantic, subjects) # NoColumn

(* What a bug would make of it: aggregates alone do not group.             *)
MutPolicyInputOf(semantic, subjects) ==
    [upstream |-> {},
     projected |-> {GovernedContext(c) : c \in OutputColumns(semantic)},
     referenced |-> {GovernedContext(c) : c \in semantic.referenced},
     exposures |-> semantic.outputs,
     grouped |-> semantic.groups # {},
     threshold |-> semantic.minimum,
     thresholdSubject |->
        IF semantic.minimum # 0 THEN SubjectKey(semantic, subjects) ELSE NoColumn,
     subject |-> SubjectKey(semantic, subjects)]

(* build_policy_input_from_semantic                                        *)
PolicyInputOf(semantic, subjects) ==
    [upstream |-> {},
     projected |-> {GovernedContext(c) : c \in OutputColumns(semantic)},
     referenced |-> {GovernedContext(c) : c \in semantic.referenced},
     exposures |-> semantic.outputs,
     grouped |-> semantic.groups # {} \/ semantic.aggregates # {},
     threshold |-> semantic.minimum,
     thresholdSubject |->
        IF semantic.minimum # 0 THEN SubjectKey(semantic, subjects) ELSE NoColumn,
     subject |-> SubjectKey(semantic, subjects)]

(* evaluate_semantic_with_policy, ALLOW.                                   *)
PolicyAllows(semantic, subjects) ==
    /\ Reconstructible(semantic, subjects)
    /\ PolicyDecision(PolicyInputOf(semantic, subjects)).decision = "ALLOW"
=============================================================================
