-------------------------- MODULE GovernanceEvidence --------------------------
(***************************************************************************)
(* From what DataHub answers to governance facts a query may rest upon:    *)
(* the catalog of context/datahub.py, the resolution of columns of         *)
(* context/fixture.py, the claims of evidence/datahub.py, their resolution *)
(* in evidence/resolver.py and the facts required by                       *)
(* agent/governance_trust.py.                                              *)
(*                                                                         *)
(* An Assets value is what DataHub holds: a function from logical names to *)
(*   [urn, labels, lineage]                                                *)
(* with labels and lineage functions of the fields; labels[f] is a set of  *)
(* sensitivity categories and lineage[f] a payload [truncated, relations], *)
(* a relation being [urn, columns].  A dataset has the logical name as its *)
(* urn when it is one of the asset map: the map is one to one.             *)
(* Subjects and values of claims are tuples, their hashes are left out,    *)
(* and a claim is named by its subject and predicate.                      *)
(***************************************************************************)
EXTENDS Naturals, FiniteSets

CONSTANTS
    Unclassified,       \* the SensitivityCategory UNCLASSIFIED
    NoUrn,              \* an urn of None
    MissingLineage      \* the dataset "@datahub-lineage"

(* _normalize_field: one category, or none; conflicting labels fail the    *)
(* load.                                                                   *)
Conflicting(assets) ==
    \E d \in DOMAIN assets : \E f \in DOMAIN assets[d].labels :
        Cardinality(assets[d].labels[f]) > 1

CategoryIn(assets, dataset, field) ==
    LET labels == assets[dataset].labels[field] IN
    IF labels = {} THEN Unclassified ELSE CHOOSE c \in labels : TRUE

Known(assets, urn, field) == urn \in DOMAIN assets /\ field \in DOMAIN assets[urn].labels

Source(dataset, field, category, urn) ==
    [dataset |-> dataset, field |-> field, category |-> category, urn |-> urn]

(* _lineage_payload_incomplete, and relationships without columns.         *)
Incomplete(payload) ==
    \/ payload.truncated
    \/ \E r \in payload.relations : r.urn = NoUrn \/ r.columns = {}

(* What a bug would make of it: a truncated answer is taken as it is.      *)
MutLineageSources(assets, dataset, field) ==
    UNION {{Source(r.urn, c, IF Known(assets, r.urn, c) THEN CategoryIn(assets, r.urn, c)
                             ELSE Unclassified, r.urn) :
                c \in {x \in r.columns : <<r.urn, x>> # <<dataset, field>>}} :
           r \in {x \in assets[dataset].lineage[field].relations : x.urn # NoUrn}}

(* _normalize_lineage_sources: every upstream column with its category, an *)
(* unclassified one for each that is unknown, and one of its own for every *)
(* relationship that cannot be read and for an answer that is incomplete.  *)
LineageSources(assets, dataset, field) ==
    LET payload == assets[dataset].lineage[field]
        complete == {r \in payload.relations : r.urn # NoUrn /\ r.columns # {}}
    IN  (UNION {{Source(r.urn, c,
                        IF Known(assets, r.urn, c) THEN CategoryIn(assets, r.urn, c)
                        ELSE Unclassified, r.urn) :
                     c \in {x \in r.columns : <<r.urn, x>> # <<dataset, field>>}} : r \in complete})
        \cup {Source(MissingLineage, <<field, r>>, Unclassified, r.urn) :
                r \in payload.relations \ complete}
        \cup {s \in {Source(MissingLineage, <<field>>, Unclassified, NoUrn)} : Incomplete(payload)}

(* The FixtureCatalog of a DataHubSnapshot: fields with their lineage.     *)
Catalog(assets) ==
    [d \in DOMAIN assets |->
        [f \in DOMAIN assets[d].labels |->
            [category |-> CategoryIn(assets, d, f), lineage |-> LineageSources(assets, d, f)]]]

(* FixtureContextResolver._resolve_one without a failure.  A column is a   *)
(* pair <<dataset, field>>.                                                *)
Resolved(catalog, column) ==
    /\ column[1] \in DOMAIN catalog
    /\ column[2] \in DOMAIN catalog[column[1]]
    /\ LET field == catalog[column[1]][column[2]] IN
       /\ field.category # Unclassified
       /\ \A s \in field.lineage : s.category # Unclassified

-----------------------------------------------------------------------------
(* Subjects of claims.                                                     *)
SourceIdentity == <<"identity">>
DatasetSubject(urn) == <<"dataset", urn>>
FieldSubject(urn, field) == <<"field", urn, field>>
EdgeSubject(urn, field, source) == <<"edge", urn, field, source.dataset, source.field>>

Flag(condition) == IF condition THEN <<"true">> ELSE <<"false">>

RuntimeObserved == "RUNTIME_OBSERVED"
ExplicitMapping == "EXPLICIT_MAPPING"

(* _claim: complete unless said otherwise, and supported by the root.      *)
Root == <<SourceIdentity, "datahub.snapshot_sha256">>
Claim(subject, predicate, value, derivation, complete) ==
    [subject |-> subject, predicate |-> predicate, value |-> value,
     source |-> "DATAHUB_MCP", derivation |-> derivation, complete |-> complete,
     supports |-> IF <<subject, predicate>> = Root THEN {} ELSE {Root}]

(* The claims about one edge of the lineage of a field.                    *)
EdgeClaims(urn, field, s) ==
    LET subject == EdgeSubject(urn, field, s)
        complete == s.category # Unclassified
    IN  {Claim(subject, "datahub.lineage_source_ref", <<s.dataset, s.field>>,
               ExplicitMapping, complete),
         Claim(subject, "toxicjoin.lineage_source_category", <<s.category>>,
               ExplicitMapping, complete)}
        \cup {Claim(subject, "datahub.lineage_source_urn", <<u>>, ExplicitMapping, complete) :
                u \in {s.urn} \ {NoUrn}}

(* The claims about one field; its tags and glossary terms are its labels, *)
(* which support its category.                                             *)
FieldClaims(urn, f, field) ==
    LET subject == FieldSubject(urn, f) IN
    {Claim(subject, "datahub.tags", <<field.category>>, RuntimeObserved, TRUE),
     Claim(subject, "datahub.glossary_terms", <<field.category>>, RuntimeObserved, TRUE),
     [Claim(subject, "toxicjoin.sensitivity_category", <<field.category>>, ExplicitMapping,
            field.category # Unclassified)
        EXCEPT !.supports = @ \cup {<<subject, "datahub.tags">>,
                                    <<subject, "datahub.glossary_terms">>}],
     Claim(subject, "datahub.lineage_transport_complete",
           Flag(\A s \in field.lineage : s.dataset # MissingLineage), ExplicitMapping, TRUE),
     Claim(subject, "toxicjoin.lineage_governance_complete",
           Flag(\A s \in field.lineage : s.category # Unclassified), ExplicitMapping, TRUE)}
    \cup UNION {EdgeClaims(urn, f, s) : s \in field.lineage}

(* build_datahub_evidence_bundle: owners and domains, which nothing        *)
(* requires, are left out.                                                 *)
Claims(catalog) ==
    {Claim(SourceIdentity, "datahub.snapshot_sha256", <<"snapshot">>, RuntimeObserved, TRUE),
     Claim(SourceIdentity, "datahub.catalog_version", <<"version">>, ExplicitMapping, TRUE)}
    \cup {Claim(DatasetSubject(d), "datahub.logical_name", <<d>>, ExplicitMapping, TRUE) :
            d \in DOMAIN catalog}
    \cup UNION {UNION {FieldClaims(d, f, catalog[d][f]) : f \in DOMAIN catalog[d]} :
                d \in DOMAIN catalog}

-----------------------------------------------------------------------------
(* The rules of datahub_governance_evidence_policy, as [source, derivation]. *)
GovernanceRules ==
    {[source |-> "DATAHUB_MCP", derivation |-> d] : d \in {ExplicitMapping, RuntimeObserved}}

Trusts(rules, claim) ==
    [source |-> claim.source, derivation |-> claim.derivation] \in rules

(* resolve_evidence on the claims of one subject and predicate; fresh are  *)
(* those whose time has come and has not passed.                           *)
ResolveEvidence(claims, rules, applicable, fresh) ==
    LET admissible == {c \in claims : Trusts(rules, c)}
        current == admissible \cap fresh
        values == {c.value : c \in current}
        state ==
            CASE admissible = {} ->
                    IF claims # {} /\ \A c \in claims : c.source = "AGENT"
                    THEN "AGENT_ASSERTED" ELSE "UNKNOWN"
              [] admissible # {} /\ current = {} ->
                    IF admissible \cap applicable # {} THEN "STALE" ELSE "UNKNOWN"
              [] current # {} /\ \E c \in current : ~c.complete -> "INCOMPLETE"
              [] current # {} /\ (\A c \in current : c.complete)
                    /\ Cardinality(values) # 1 -> "CONTESTED"
              [] OTHER -> "TRUSTED"
    IN  [state |-> state, value |-> IF state = "TRUSTED" THEN values ELSE {}]

Fact(subject, predicate, value) ==
    [subject |-> subject, predicate |-> predicate, value |-> value]

(* The facts _required_governance_facts asks for about a column.           *)
ColumnFacts(catalog, column) ==
    LET d == column[1]  f == column[2]  field == catalog[d][f]
        subject == FieldSubject(d, f)
        SourceFacts(s) ==
            {Fact(DatasetSubject(s.urn), "datahub.logical_name", <<s.dataset>>),
             Fact(FieldSubject(s.urn, s.field), "toxicjoin.sensitivity_category", <<s.category>>),
             Fact(EdgeSubject(d, f, s), "datahub.lineage_source_ref", <<s.dataset, s.field>>),
             Fact(EdgeSubject(d, f, s), "toxicjoin.lineage_source_category", <<s.category>>),
             Fact(EdgeSubject(d, f, s), "datahub.lineage_source_urn", <<s.urn>>)}
    IN  {Fact(DatasetSubject(d), "datahub.logical_name", <<d>>),
         Fact(subject, "datahub.tags", <<field.category>>),
         Fact(subject, "datahub.glossary_terms", <<field.category>>),
         Fact(subject, "toxicjoin.sensitivity_category", <<field.category>>),
         Fact(subject, "datahub.lineage_transport_complete", <<"true">>),
         Fact(subject, "toxicjoin.lineage_governance_complete", <<"true">>)}
        \cup UNION {SourceFacts(s) : s \in field.lineage}

(* Whether _required_governance_facts raises: a column it cannot ground,   *)
(* or one subject and predicate with two expected values.                  *)
Groundable(catalog, plan) ==
    /\ \A column \in plan :
        /\ column[1] \in DOMAIN catalog /\ column[2] \in DOMAIN catalog[column[1]]
        /\ catalog[column[1]][column[2]].category # Unclassified
        /\ \A s \in catalog[column[1]][column[2]].lineage :
            s.category # Unclassified /\ s.urn # NoUrn

RequiredFacts(catalog, plan) ==
    {Fact(SourceIdentity, "datahub.snapshot_sha256", <<"snapshot">>),
     Fact(SourceIdentity, "datahub.catalog_version", <<"version">>)}
    \cup UNION {ColumnFacts(catalog, column) : column \in plan}

Consistent(facts) ==
    \A a, b \in facts : a.subject = b.subject /\ a.predicate = b.predicate => a.value = b.value

(* DataHubEvidenceBundle.validate_bundle, and the supports of claims being *)
(* claims: one root, which all others rest upon.                           *)
BundleValid(claims) ==
    /\ Cardinality({c \in claims : <<c.subject, c.predicate>> = Root}) = 1
    /\ \A c \in claims :
        /\ c.source = "DATAHUB_MCP"
        /\ IF <<c.subject, c.predicate>> = Root THEN c.supports = {} ELSE Root \in c.supports
        /\ \A s \in c.supports : \E d \in claims : <<d.subject, d.predicate>> = s

(* validate_datahub_evidence_derivations: the claims are those the adapter *)
(* builds from the snapshot, one for a subject and predicate.              *)
Replayed(claims, catalog) ==
    /\ claims = Claims(catalog)
    /\ \A c, d \in claims : c.subject = d.subject /\ c.predicate = d.predicate => c = d

(* The check of DataHubGovernanceTrustAuthority._bind_impl, on claims that *)
(* are all fresh: every claim has the times of its bundle, which are       *)
(* checked first.                                                          *)
FactsTrusted(claims, catalog, plan) ==
    /\ BundleValid(claims)
    /\ Replayed(claims, catalog)
    /\ Groundable(catalog, plan)
    /\ Consistent(RequiredFacts(catalog, plan))
    /\ \A fact \in RequiredFacts(catalog, plan) :
        LET scope == {c \in claims : c.subject = fact.subject /\ c.predicate = fact.predicate}
            resolution == ResolveEvidence(scope, GovernanceRules, scope, scope)
        IN  resolution.state = "TRUSTED" /\ resolution.value = {fact.value}
=============================================================================
