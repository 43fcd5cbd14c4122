------------------------ MODULE MCDisclosureLedger ------------------------
(* TLC instance of DisclosureLedger and of its refinement, and of the      *)
(* storage it starts from: a behaviour is one of the ledger or one of the  *)
(* storage.                                                                *)
EXTENDS LedgerRefinement, LocalStorage, TLC

CONSTANTS r1, r2, r3, s1, s2, a1, a2

VARIABLE part       \* "ledger" or "storage"

mcVars == <<vars, storageVars, part>>

MCInit ==
    /\ Init /\ StorageInit
    /\ part \in {"ledger", "storage"}
    /\ part = "ledger" => db.version = 0

MCNext ==
    \/ part = "ledger" /\ Next /\ UNCHANGED <<storageVars, part>>
    \/ part = "storage" /\ StorageNext /\ UNCHANGED <<vars, part>>

MCSpec == MCInit /\ [][MCNext]_mcVars

Ask(r, s, protected, composed) ==
    [receipt |-> r, scope |-> s, protected |-> protected, composed |-> composed]

MCReceipts == {r1, r2, r3}
MCScopes   == {s1, s2}
MCAuthIds  == {a1, a2}

(* Three receipts compete for the budget of s1; r1 may also be asked for   *)
(* in s2, unprotected, and r2 there without the metadata; each could have  *)
(* been written by append() before the metadata existed.                   *)
MCRequested == {Ask(r, s1, TRUE, TRUE) : r \in MCReceipts}
               \cup {Ask(r1, s2, FALSE, TRUE), Ask(r2, s2, TRUE, FALSE)}

Symmetry ==
    Permutations(MCAuthIds) \cup Permutations(Processes) \cup Permutations(Contents)
=============================================================================
