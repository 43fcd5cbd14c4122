--------------------------- MODULE MCAuthorityChain ---------------------------
EXTENDS AuthorityChain

CONSTANTS a, b

MCIdentityOf == [r \in {a, b} |-> IF r = a THEN "alice" ELSE "bob"]
MCPurposeOf == [r \in {a, b} |-> "care"]
MCDrafts ==
    [r \in {a, b} |->
        IF r = a THEN {[sql |-> "visits", purpose |-> "care"]}
        ELSE {[sql |-> "visits", purpose |-> "audit"], [sql |-> "ages", purpose |-> "care"]}]
MCPlanOf == [visits |-> {<<"patients", "zip">>, <<"patients", "risk">>},
             ages |-> {<<"patients", "age">>}]

Payload(truncated, relations) == [truncated |-> truncated, relations |-> relations]
NoLineage == Payload(FALSE, {})
From(urn, columns) == [urn |-> urn, columns |-> columns]
DataHub(riskLineage, ageLabels) ==
    [patients |->
        [labels |-> [zip |-> {"QUASI_IDENTIFIER"}, risk |-> {"PUBLIC"}, age |-> ageLabels],
         lineage |-> [zip |-> NoLineage, risk |-> riskLineage, age |-> NoLineage]]]
MCAssetsOf ==
    [whole |-> DataHub(Payload(FALSE, {From("patients", {"zip", "risk"})}), {"QUASI_IDENTIFIER"}),
     truncated |-> DataHub(Payload(TRUE, {From("patients", {"zip"}), From("visits", {}),
                                           From("events", {})}), {"QUASI_IDENTIFIER"}),
     missing |-> DataHub(Payload(FALSE, {From("visits", {"score"})}), {})]
MCPermitted == {<<"visits", "whole">>, <<"ages", "whole">>, <<"ages", "truncated">>}
Active == {r \in Requests : req[r].stage = "propose"}
MCInit ==
    /\ ChainInit
    /\ \/ now = 1 /\ Active = {a} /\ world.detours = 0
       \/ /\ now = MaxNow /\ Active = Requests /\ world.detours = MaxDetours
          /\ world.authority.observed = MaxNow - 1
MCSpec == MCInit /\ [][ChainNext]_chainVars
MCChanges == {"installed", "warehouse"}
=============================================================================
