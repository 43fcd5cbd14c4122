--------------------------- MODULE MCApiAdmission ---------------------------
EXTENDS ApiAdmission, TLC

CONSTANTS w1, w2, p1, p2, a, MaxEvents

(* How many failures are recorded and attempts counted, all in all.        *)
EventBound ==
    Len(rejections[p1]) + Len(rejections[p2]) + Len(attempts[a]) <= MaxEvents

Symmetry == Permutations({w1, w2}) \cup Permutations({p1, p2})
=============================================================================
