----------------------- MODULE DisclosureLedgerProofs -----------------------
(***************************************************************************)
(* Theorems about the disclosure ledger, for every set of receipts,        *)
(* scopes, clock readings and events, every budget and every window.       *)
(***************************************************************************)
EXTENDS LedgerRefinement, FiniteSetTheorems, SequenceTheorems, TLAPS

(***************************************************************************)
(* What a writing step does to the tables: it appends one row, or advances *)
(* the journal of one pending row.                                         *)
(***************************************************************************)

(* AppendEvent adds one record and its journal entry, and keeps the rest.  *)
LEMMA AppendIndexes ==
    ASSUME TypeOK, NEW e \in Event, NEW c \in Times, NEW state \in JournalStates,
           AppendEvent(e, c, state)
    PROVE  LET n == Len(records) + 1 IN
           /\ DOMAIN records' = DOMAIN records \cup {n}
           /\ DOMAIN records = 1..(n - 1)
           /\ DOMAIN journal = DOMAIN records
           /\ n \notin DOMAIN records
           /\ \A i \in DOMAIN records : /\ records'[i] = records[i]
                                        /\ journal'[i] = journal[i]
           /\ records'[n].event = e
           /\ records'[n].created_at = c
           /\ journal'[n] = state
           /\ records' \in Seq(Record)
           /\ journal' \in Seq(JournalStates)
           /\ Len(journal') = Len(records')
  <1>1. PICK p \in 0..Len(records) :
              /\ records' = Append(records, [event |-> e, created_at |-> c, previous |-> p])
              /\ journal' = Append(journal, state)
    BY DEF AppendEvent
  <1>2. [event |-> e, created_at |-> c, previous |-> p] \in Record
    BY DEF Record, TypeOK
  <1>3. QED
    BY <1>1, <1>2 DEF TypeOK

(* A pending journal with one more row has two.                            *)
LEMMA AppendToSingleton ==
    ASSUME NEW S, NEW x \in S, NEW y \in S
    PROVE  Append(<<x>>, y) = <<x, y>>
  <1> DEFINE P == <<x>>
             Q == <<x, y>>
  <1>1. P \in Seq(S)
    OBVIOUS
  <1>2. Len(P) = 1
    OBVIOUS
  <1>3. P[1] = x
    OBVIOUS
  <1>4. Q \in Seq(S)
    OBVIOUS
  <1>5. Len(Q) = 2
    OBVIOUS
  <1>6. Q[1] = x /\ Q[2] = y
    OBVIOUS
  <1> HIDE DEF P, Q
  <1>7. /\ Append(P, y) \in Seq(S)
        /\ Len(Append(P, y)) = 2
        /\ Append(P, y)[1] = x
        /\ Append(P, y)[2] = y
    <2>1. /\ Append(P, y) \in Seq(S)
          /\ Len(Append(P, y)) = Len(P) + 1
          /\ \A i \in 1..Len(P) : Append(P, y)[i] = P[i]
          /\ Append(P, y)[Len(P) + 1] = y
     BY <1>1, AppendProperties
    <2>2. Append(P, y)[1] = P[1]
     BY <2>1, <1>2
    <2> QED BY <2>1, <2>2, <1>2, <1>3
  <1>8. \A i \in 1..2 : Append(P, y)[i] = Q[i]
    BY <1>6, <1>7
  <1>9. Append(P, y) = Q
    BY <1>4, <1>5, <1>7, <1>8, SeqEqual
  <1> QED BY <1>9 DEF P, Q

(* The journal of a record after its transition.                           *)
LEMMA AppendTransitions ==
    /\ Append(Pending, "RELEASED") = Released
    /\ Append(Pending, "ABORTED") = Aborted
  <1> DEFINE States == {"PENDING", "RELEASED", "ABORTED"}
  <1>1. /\ "PENDING" \in States
        /\ "RELEASED" \in States
        /\ "ABORTED" \in States
    OBVIOUS
  <1> HIDE DEF States
  <1>2. /\ Append(<<"PENDING">>, "RELEASED") = <<"PENDING", "RELEASED">>
        /\ Append(<<"PENDING">>, "ABORTED") = <<"PENDING", "ABORTED">>
    BY <1>1, AppendToSingleton
  <1>3. QED
    BY <1>2 DEF Pending, Released, Aborted

(* mark_released and mark_aborted take one pending row to its terminal     *)
(* state, and keep the rest.                                               *)
LEMMA TransitionIndexes ==
    ASSUME TypeOK, NEW i \in DOMAIN records, MarkReleased(i) \/ MarkAborted(i)
    PROVE  /\ DOMAIN journal = DOMAIN records
           /\ DOMAIN journal' = DOMAIN journal
           /\ journal' \in Seq(JournalStates)
           /\ Len(journal') = Len(journal)
           /\ journal[i] = Pending
           /\ \/ journal'[i] = Released /\ IsClaimed(i)
              \/ journal'[i] = Aborted
           /\ \A j \in DOMAIN records : j # i => journal'[j] = journal[j]
           /\ UNCHANGED <<records, claims, claiming>>
  <1>1. /\ Append(Pending, "RELEASED") = Released
        /\ Append(Pending, "ABORTED") = Aborted
    BY AppendTransitions
  <1>2. PICK state \in {Released, Aborted} :
              /\ journal' = [journal EXCEPT ![i] = state]
              /\ state = Released => IsClaimed(i)
    <2>1. CASE MarkReleased(i)
      BY <1>1, <2>1 DEF MarkReleased, InsertTransition, IsPending
    <2>2. CASE MarkAborted(i)
      <3>1. journal' = [journal EXCEPT ![i] = Aborted]
        BY <1>1, <2>2 DEF MarkAborted, InsertTransition, IsPending
      <3>2. Aborted # Released
        BY DEF Aborted, Released
      <3> QED
        BY <3>1, <3>2
    <2> QED
      BY <2>1, <2>2
  <1>3. DOMAIN journal = DOMAIN records
    BY DEF TypeOK
  <1>4. UNCHANGED <<records, claims, claiming>> /\ journal[i] = Pending
    BY DEF MarkReleased, MarkAborted, InsertTransition, IsPending
  <1> QED
    BY <1>2, <1>3, <1>4 DEF TypeOK, JournalStates

(* The tables keep their types: every claim and every claim in flight      *)
(* names a row of disclosure_records, and the journal has one entry per    *)
(* record.                                                                 *)
THEOREM TypeCorrect == Spec => []TypeOK
  <1>1. Init => TypeOK
    BY DEF Init, TypeOK
  <1>2. TypeOK /\ [Next]_vars => TypeOK'
    <2> SUFFICES ASSUME TypeOK, [Next]_vars PROVE TypeOK'
      OBVIOUS
    <2>1. ASSUME NEW e \in Requested, NEW t \in Times, NEW c \in Times,
                 EvaluateAndCommit(e, t, c)
          PROVE  TypeOK'
      BY <2>1, AppendIndexes, EventAssumption DEF EvaluateAndCommit, TypeOK, JournalStates
    <2>2. ASSUME NEW e \in Requested, NEW c \in Times, AppendLegacy(e, c)
          PROVE  TypeOK'
      BY <2>2, AppendIndexes, EventAssumption DEF AppendLegacy, TypeOK, JournalStates
    <2>3. ASSUME NEW i \in DOMAIN records, NEW a \in AuthIds, ClaimRequirePending(i, a)
          PROVE  TypeOK'
      BY <2>3 DEF ClaimRequirePending, TypeOK
    <2>4. ASSUME NEW k \in claiming, ClaimInsert(k) \/ ClaimReplayed(k) \/ ClaimLost(k)
          PROVE  TypeOK'
      BY <2>4 DEF ClaimInsert, ClaimReplayed, ClaimLost, TypeOK
    <2>5. ASSUME NEW i \in DOMAIN records, MarkReleased(i) \/ MarkAborted(i)
          PROVE  TypeOK'
      BY <2>5, TransitionIndexes DEF TypeOK
    <2>6. CASE UNCHANGED vars
      BY <2>6 DEF vars, TypeOK
    <2> QED
      BY <2>1, <2>2, <2>3, <2>4, <2>5, <2>6 DEF Next
  <1>3. QED
    BY <1>1, <1>2, PTL DEF Spec

-----------------------------------------------------------------------------
(***************************************************************************)
(* Budget.  The gate reasons about composed records only; that it may is   *)
(* an invariant of its own: append() leaves no journal, and only the gate  *)
(* starts one.                                                             *)
(***************************************************************************)
GatedIsComposed ==
    \A i \in DOMAIN records : IsGated(i) => records[i].event.composed

LEMMA GatedIsComposedInvariant == Spec => []GatedIsComposed
  <1>1. Init => GatedIsComposed
    BY DEF Init, GatedIsComposed
  <1>2. TypeOK /\ GatedIsComposed /\ [Next]_vars => GatedIsComposed'
    <2> SUFFICES ASSUME TypeOK, GatedIsComposed, [Next]_vars PROVE GatedIsComposed'
      OBVIOUS
    <2> USE DEF GatedIsComposed, IsGated
    <2>1. ASSUME NEW e \in Requested, NEW t \in Times, NEW c \in Times,
                 EvaluateAndCommit(e, t, c)
          PROVE  GatedIsComposed'
      BY <2>1, AppendIndexes, EventAssumption DEF EvaluateAndCommit, JournalStates
    <2>2. ASSUME NEW e \in Requested, NEW c \in Times, AppendLegacy(e, c)
          PROVE  GatedIsComposed'
      BY <2>2, AppendIndexes, EventAssumption DEF AppendLegacy, JournalStates
    <2>3. ASSUME NEW i \in DOMAIN records, MarkReleased(i) \/ MarkAborted(i)
          PROVE  GatedIsComposed'
      <3>1. Pending # Legacy
        BY DEF Pending, Legacy
      <3>2. records' = records
        BY <2>3, TransitionIndexes
      <3>3. \A j \in DOMAIN records : journal'[j] # Legacy => journal[j] # Legacy
        BY <2>3, <3>1, TransitionIndexes
      <3> QED
        BY <3>2, <3>3
    <2>4. CASE UNCHANGED <<records, journal>>
      BY <2>4
    <2> QED
      BY <2>1, <2>2, <2>3, <2>4
         DEF Next, vars, ClaimRequirePending, ClaimInsert, ClaimReplayed, ClaimLost
  <1>3. QED
    BY <1>1, <1>2, TypeCorrect, PTL DEF Spec

LEMMA WindowsAreFinite ==
    ASSUME TypeOK, NEW s, NEW x
    PROVE  /\ IsFiniteSet(ReleasesInWindow(s, x))
           /\ IsFiniteSet(PriorProtected(s, x))
  <1>1. IsFiniteSet(DOMAIN records)
    BY FS_Interval DEF TypeOK
  <1>2. /\ ReleasesInWindow(s, x) \subseteq DOMAIN records
        /\ PriorProtected(s, x) \subseteq DOMAIN records
    BY DEF ReleasesInWindow, PriorProtected, ActiveHistory, RecordsFor
  <1> QED
    BY <1>1, <1>2, FS_Subset

(* What an allowing evaluation establishes for a protected event.          *)
LEMMA GateCounts ==
    ASSUME NEW e, NEW t, Decision(e, t) \in NewReservationRules
    PROVE  /\ ExistingReceipt(e.receipt) = {}
           /\ UncomposedProtected(e.scope) = {}
           /\ e.protected => ~(Cardinality(PriorProtected(e.scope, t)) >= MaxProtected)
  BY DEF Decision, Evaluation, NewReservationRules

(* A reservation granted at clock reading t and stamped c keeps every      *)
(* window within the budget: those that hold c only hold records the gate  *)
(* counted at t.                                                           *)
LEMMA ReservationKeepsBudget ==
    ASSUME TypeOK, GatedIsComposed, BudgetBound,
           NEW e \in Event, NEW t \in Times, NEW c \in Times,
           EvaluateAndCommit(e, t, c),
           NEW s \in Scopes, NEW end \in Times
    PROVE  Cardinality(ReleasesInWindow(s, end)') <= MaxProtected
  <1> DEFINE n == Len(records) + 1
             W == ReleasesInWindow(s, end)
             WNext == ReleasesInWindow(s, end)'
  <1>1. /\ AppendEvent(e, c, Pending)
        /\ Pending \in JournalStates
    BY DEF EvaluateAndCommit, JournalStates
  <1>2. /\ DOMAIN records' = DOMAIN records \cup {n}
        /\ n \notin DOMAIN records
        /\ \A i \in DOMAIN records : /\ records'[i] = records[i]
                                     /\ journal'[i] = journal[i]
        /\ records'[n].event = e
        /\ records'[n].created_at = c
    BY <1>1, AppendIndexes
  <1>3. WNext \subseteq W \cup {n}
    BY <1>2 DEF ReleasesInWindow, ActiveHistory, RecordsFor, IsGated
  <1>4. IsFiniteSet(W) /\ Cardinality(W) \in Nat /\ Cardinality(W) <= MaxProtected
    BY WindowsAreFinite, FS_CardinalityType DEF BudgetBound
  <1>5. CASE n \notin WNext
    <2>1. WNext \subseteq W
      BY <1>3, <1>5
    <2>2. Cardinality(WNext) <= Cardinality(W)
      BY <1>4, <2>1, FS_Subset
    <2>3. Cardinality(WNext) \in Nat
      BY <1>4, <2>1, FS_Subset, FS_CardinalityType
    <2> QED
      BY <1>4, <2>2, <2>3, BudgetAssumption
  <1>6. CASE n \in WNext
    <2>1. e.scope = s /\ e.protected /\ c <= end
      BY <1>2, <1>6 DEF ReleasesInWindow, ActiveHistory, RecordsFor
    <2>2. W \subseteq PriorProtected(s, t)
      <3> SUFFICES ASSUME NEW i \in W
                   PROVE  i \in PriorProtected(s, t)
        OBVIOUS
      <3>1. /\ i \in ActiveHistory(s)
            /\ IsGated(i)
            /\ records[i].event.protected
            /\ records[i].created_at > end - (Window - ClockStep)
        BY DEF ReleasesInWindow
      <3>2. i \in DOMAIN records /\ records[i].created_at \in Int
        <4>1. i \in DOMAIN records
          BY <3>1 DEF ActiveHistory, RecordsFor
        <4>2. records[i] \in Record
          BY <4>1 DEF TypeOK
        <4> QED
          BY <4>1, <4>2, ClockAssumption DEF Record
      <3>3. c >= t - ClockStep
        BY DEF EvaluateAndCommit
      <3>4. records[i].created_at > t - Window
        BY <2>1, <3>1, <3>2, <3>3, ClockAssumption, BudgetAssumption
      <3> QED
        BY <3>1, <3>2, <3>4 DEF PriorProtected, GatedIsComposed
    <2>3. /\ IsFiniteSet(PriorProtected(s, t))
          /\ Cardinality(PriorProtected(s, t)) \in Nat
      BY WindowsAreFinite, FS_CardinalityType
    <2>4. Cardinality(W) <= Cardinality(PriorProtected(s, t))
      BY <2>2, <2>3, FS_Subset
    <2>5. Cardinality(PriorProtected(s, t)) < MaxProtected
      BY <2>1, <2>3, GateCounts, BudgetAssumption DEF EvaluateAndCommit
    <2>6. /\ IsFiniteSet(W \cup {n})
          /\ Cardinality(W \cup {n}) <= Cardinality(W) + 1
      <3> HIDE DEF W, n
      <3>1. /\ IsFiniteSet(W \cup {n})
            /\ \/ Cardinality(W \cup {n}) = Cardinality(W)
               \/ Cardinality(W \cup {n}) = Cardinality(W) + 1
        BY <1>4, FS_AddElement
      <3> QED
        BY <1>4, <3>1
    <2>7. /\ Cardinality(WNext) \in Nat
          /\ Cardinality(WNext) <= Cardinality(W \cup {n})
          /\ Cardinality(W \cup {n}) \in Nat
      BY <1>3, <2>6, FS_Subset, FS_CardinalityType
    <2> QED
      BY <1>4, <2>3, <2>4, <2>5, <2>6, <2>7, BudgetAssumption
  <1> QED
    BY <1>5, <1>6

(* Whatever the receipts, scopes, events, budget and window, no window of  *)
(* a scope's history holds more gated protected releases than the budget   *)
(* of secure_ledger.py, even under a wall clock that is set back between   *)
(* requests at will and by ClockStep within one.                           *)
THEOREM BudgetHolds == Spec => []BudgetBound
  <1>1. Init => BudgetBound
    <2> SUFFICES ASSUME Init, NEW s \in Scopes, NEW end \in Times
                 PROVE  Cardinality(ReleasesInWindow(s, end)) <= MaxProtected
      BY DEF BudgetBound
    <2>1. ReleasesInWindow(s, end) = {}
      BY DEF Init, ReleasesInWindow, ActiveHistory, RecordsFor
    <2> QED
      BY <2>1, FS_EmptySet, BudgetAssumption
  <1>2. TypeOK /\ GatedIsComposed /\ BudgetBound /\ [Next]_vars => BudgetBound'
    <2> SUFFICES ASSUME TypeOK, GatedIsComposed, BudgetBound, [Next]_vars,
                        NEW s \in Scopes, NEW end \in Times
                 PROVE  Cardinality(ReleasesInWindow(s, end)') <= MaxProtected
      BY DEF BudgetBound
    <2>1. ASSUME NEW e \in Requested, NEW t \in Times, NEW c \in Times,
                 EvaluateAndCommit(e, t, c)
          PROVE  Cardinality(ReleasesInWindow(s, end)') <= MaxProtected
      BY <2>1, ReservationKeepsBudget, EventAssumption
    <2>2. SUFFICES ASSUME ReleasesInWindow(s, end)' \subseteq ReleasesInWindow(s, end)
                   PROVE  Cardinality(ReleasesInWindow(s, end)') <= MaxProtected
      <3>1. ASSUME NEW e \in Requested, NEW c \in Times, AppendLegacy(e, c)
            PROVE  ReleasesInWindow(s, end)' \subseteq ReleasesInWindow(s, end)
        BY <3>1, AppendIndexes, EventAssumption
           DEF AppendLegacy, JournalStates, ReleasesInWindow, ActiveHistory, RecordsFor, IsGated
      <3>2. ASSUME NEW i \in DOMAIN records, MarkReleased(i) \/ MarkAborted(i)
            PROVE  ReleasesInWindow(s, end)' \subseteq ReleasesInWindow(s, end)
        <4>1. /\ Pending # Legacy
              /\ Pending # Aborted
          BY DEF Pending, Legacy, Aborted
        <4>2. /\ records' = records
              /\ \A j \in DOMAIN records :
                    /\ journal'[j] # Aborted => journal[j] # Aborted
                    /\ journal'[j] # Legacy => journal[j] # Legacy
          BY <3>2, <4>1, TransitionIndexes
        <4> QED
          BY <4>2 DEF ReleasesInWindow, ActiveHistory, RecordsFor, IsGated
      <3>3. ASSUME UNCHANGED <<records, journal>>
            PROVE  ReleasesInWindow(s, end)' \subseteq ReleasesInWindow(s, end)
        BY <3>3 DEF ReleasesInWindow, ActiveHistory, RecordsFor, IsGated
      <3> QED
        BY <2>1, <3>1, <3>2, <3>3
           DEF Next, vars, ClaimRequirePending, ClaimInsert, ClaimReplayed, ClaimLost
    <2>3. /\ IsFiniteSet(ReleasesInWindow(s, end))
          /\ Cardinality(ReleasesInWindow(s, end)) \in Nat
          /\ Cardinality(ReleasesInWindow(s, end)) <= MaxProtected
      BY WindowsAreFinite, FS_CardinalityType DEF BudgetBound
    <2>4. /\ Cardinality(ReleasesInWindow(s, end)') \in Nat
          /\ Cardinality(ReleasesInWindow(s, end)') <= Cardinality(ReleasesInWindow(s, end))
      BY <2>2, <2>3, FS_Subset, FS_CardinalityType
    <2> QED
      BY <2>3, <2>4, BudgetAssumption
  <1>3. QED
    BY <1>1, <1>2, TypeCorrect, GatedIsComposedInvariant, PTL DEF Spec

-----------------------------------------------------------------------------
(***************************************************************************)
(* The journal, the claims and the hash chain.                             *)
(***************************************************************************)

(* No reservation reaches RELEASED without an execution claim, for any     *)
(* interleaving of claim_commitment's two transactions with mark_released  *)
(* and mark_aborted.                                                       *)
THEOREM ReleasesAreClaimed == Spec => []ReleasedIsClaimed
  <1>1. Init => ReleasedIsClaimed
    BY DEF Init, ReleasedIsClaimed
  <1>2. TypeOK /\ ReleasedIsClaimed /\ [Next]_vars => ReleasedIsClaimed'
    <2> SUFFICES ASSUME TypeOK, ReleasedIsClaimed, [Next]_vars PROVE ReleasedIsClaimed'
      OBVIOUS
    <2> USE DEF ReleasedIsClaimed, IsClaimed
    <2>1. ASSUME NEW e \in Requested, NEW c \in Times, NEW state \in {Pending, Legacy},
                 AppendEvent(e, c, state), UNCHANGED claims
          PROVE  ReleasedIsClaimed'
      <3>1. state # Released /\ state \in JournalStates
        BY DEF Pending, Legacy, Released, JournalStates
      <3> QED
        BY <2>1, <3>1, AppendIndexes, EventAssumption
    <2>2. ASSUME NEW i \in DOMAIN records, MarkReleased(i) \/ MarkAborted(i)
          PROVE  ReleasedIsClaimed'
      <3>1. Aborted # Released
        BY DEF Aborted, Released
      <3> QED
        BY <2>2, <3>1, TransitionIndexes
    <2>3. ASSUME UNCHANGED <<records, journal>>, claims \subseteq claims'
          PROVE  ReleasedIsClaimed'
      BY <2>3
    <2> QED
      BY <2>1, <2>2, <2>3
         DEF Next, vars, EvaluateAndCommit, AppendLegacy,
             ClaimRequirePending, ClaimInsert, ClaimReplayed, ClaimLost
  <1>3. QED
    BY <1>1, <1>2, TypeCorrect, PTL DEF Spec

(* A reservation yields one execution capability at most, however many     *)
(* calls of claim_commitment saw it pending.                               *)
THEOREM CapabilityIsUnique == Spec => []OneCapabilityPerReservation
  <1>1. Init => OneCapabilityPerReservation
    BY DEF Init, OneCapabilityPerReservation
  <1>2. OneCapabilityPerReservation /\ [Next]_vars => OneCapabilityPerReservation'
    <2> SUFFICES ASSUME OneCapabilityPerReservation, [Next]_vars
                 PROVE  OneCapabilityPerReservation'
      OBVIOUS
    <2> USE DEF OneCapabilityPerReservation
    <2>1. ASSUME NEW k \in claiming, ClaimInsert(k)
          PROVE  OneCapabilityPerReservation'
      BY <2>1 DEF ClaimInsert, IsClaimed
    <2>2. CASE UNCHANGED claims
      BY <2>2
    <2> QED
      BY <2>1, <2>2
         DEF Next, vars, EvaluateAndCommit, AppendLegacy, ClaimRequirePending,
             ClaimReplayed, ClaimLost, MarkReleased, MarkAborted, InsertTransition
  <1>3. QED
    BY <1>1, <1>2, PTL DEF Spec

(* Once append() has left a protected record without composition metadata  *)
(* in a scope, the gate reserves nothing there.                            *)
THEOREM LegacyFailsClosed == Spec => []LegacyBlocksScope
  <1>1. Init => LegacyBlocksScope
    BY DEF Init, LegacyBlocksScope
  <1>2. TypeOK /\ GatedIsComposed /\ LegacyBlocksScope /\ [Next]_vars => LegacyBlocksScope'
    <2> SUFFICES ASSUME TypeOK, GatedIsComposed, LegacyBlocksScope, [Next]_vars
                 PROVE  LegacyBlocksScope'
      OBVIOUS
    <2> USE DEF LegacyBlocksScope, IsGated
    <2>1. ASSUME NEW e \in Requested, NEW t \in Times, NEW c \in Times,
                 EvaluateAndCommit(e, t, c)
          PROVE  LegacyBlocksScope'
      <3> DEFINE n == Len(records) + 1
      <3>1. AppendEvent(e, c, Pending) /\ Pending \in JournalStates
        BY <2>1 DEF EvaluateAndCommit, JournalStates
      <3>2. /\ DOMAIN records' = DOMAIN records \cup {n}
            /\ DOMAIN records = 1..(n - 1)
            /\ \A i \in DOMAIN records : /\ records'[i] = records[i]
                                         /\ journal'[i] = journal[i]
            /\ records'[n].event = e
        BY <3>1, AppendIndexes, EventAssumption
      <3>3. \A i \in DOMAIN records :
               records[i].event.scope = e.scope /\ records[i].event.protected
               => records[i].event.composed
        <4>1. UncomposedProtected(e.scope) = {}
          BY <2>1, GateCounts DEF EvaluateAndCommit
        <4>2. Aborted # Legacy
          BY DEF Aborted, Legacy
        <4> QED
          BY <4>1, <4>2 DEF UncomposedProtected, ActiveHistory, RecordsFor, GatedIsComposed
      <3>4. n \in Nat
        BY DEF TypeOK
      <3> QED
        BY <3>2, <3>3, <3>4
    <2>2. ASSUME NEW e \in Requested, NEW c \in Times, AppendLegacy(e, c)
          PROVE  LegacyBlocksScope'
      <3> DEFINE n == Len(records) + 1
      <3>1. AppendEvent(e, c, Legacy) /\ Legacy \in JournalStates
        BY <2>2 DEF AppendLegacy, JournalStates
      <3>2. /\ DOMAIN records' = DOMAIN records \cup {n}
            /\ DOMAIN records = 1..(n - 1)
            /\ \A i \in DOMAIN records : /\ records'[i] = records[i]
                                         /\ journal'[i] = journal[i]
            /\ journal'[n] = Legacy
        BY <3>1, AppendIndexes, EventAssumption
      <3>3. n \in Nat
        BY DEF TypeOK
      <3> QED
        BY <3>2, <3>3
    <2>3. ASSUME NEW i \in DOMAIN records, MarkReleased(i) \/ MarkAborted(i)
          PROVE  LegacyBlocksScope'
      <3>1. Pending # Legacy
        BY DEF Pending, Legacy
      <3>2. /\ records' = records
            /\ \A j \in DOMAIN records : journal'[j] # Legacy => journal[j] # Legacy
        BY <2>3, <3>1, TransitionIndexes
      <3> QED
        BY <3>2
    <2>4. CASE UNCHANGED <<records, journal>>
      BY <2>4
    <2> QED
      BY <2>1, <2>2, <2>3, <2>4
         DEF Next, vars, ClaimRequirePending, ClaimInsert, ClaimReplayed, ClaimLost
  <1>3. QED
    BY <1>1, <1>2, TypeCorrect, GatedIsComposedInvariant, PTL DEF Spec

(* The UNIQUE constraint of disclosure_records.receipt_id is never what     *)
(* refuses a write: gate and migration both look the receipt up first, in  *)
(* the transaction that appends it.                                        *)
OneRecordPerReceipt ==
    \A i, j \in DOMAIN records :
        records[i].event.receipt = records[j].event.receipt => i = j

(* Both writers keep it so.                                                *)
THEOREM ReceiptsAreUnique == Spec => []OneRecordPerReceipt
  <1>1. Init => OneRecordPerReceipt
    BY DEF Init, OneRecordPerReceipt
  <1>2. TypeOK /\ OneRecordPerReceipt /\ [Next]_vars => OneRecordPerReceipt'
    <2> SUFFICES ASSUME TypeOK, OneRecordPerReceipt, [Next]_vars
                 PROVE  OneRecordPerReceipt'
      OBVIOUS
    <2>1. ASSUME NEW e \in Requested, NEW c \in Times, NEW state \in JournalStates,
                 AppendEvent(e, c, state), ExistingReceipt(e.receipt) = {}
          PROVE  OneRecordPerReceipt'
      BY <2>1, AppendIndexes, EventAssumption DEF OneRecordPerReceipt, ExistingReceipt
    <2>2. CASE UNCHANGED records
      BY <2>2 DEF OneRecordPerReceipt
    <2> QED
      BY <2>1, <2>2, GateCounts
         DEF Next, vars, EvaluateAndCommit, AppendLegacy, JournalStates,
             ClaimRequirePending, ClaimInsert, ClaimReplayed, ClaimLost,
             MarkReleased, MarkAborted, InsertTransition
  <1>3. QED
    BY <1>1, <1>2, TypeCorrect, PTL DEF Spec

(* The per-scope hash chain _records_for_scope_connection walks is never   *)
(* broken by the ledger's own writes: an aborted record stays a link.      *)
THEOREM ChainHolds == Spec => []ChainIntact
  <1>1. Init => ChainIntact
    BY DEF Init, ChainIntact
  <1>2. TypeOK /\ ChainIntact /\ [Next]_vars => ChainIntact'
    <2> SUFFICES ASSUME TypeOK, ChainIntact, [Next]_vars PROVE ChainIntact'
      OBVIOUS
    <2>1. ASSUME NEW e \in Requested, NEW c \in Times, NEW state \in JournalStates,
                 AppendEvent(e, c, state)
          PROVE  ChainIntact'
      <3> DEFINE n == Len(records) + 1
      <3>1. PICK p \in 0..Len(records) :
                  /\ IsChainHead(p, e.scope)
                  /\ records' = Append(records,
                                 [event |-> e, created_at |-> c, previous |-> p])
        BY <2>1 DEF AppendEvent
      <3>2. /\ DOMAIN records' = DOMAIN records \cup {n}
            /\ DOMAIN records = 1..(n - 1)
            /\ n \notin DOMAIN records
            /\ \A i \in DOMAIN records : records'[i] = records[i]
            /\ records'[n].event = e
        BY <2>1, AppendIndexes, EventAssumption
      <3>3. records'[n].previous = p
        BY <3>1 DEF TypeOK
      <3>4. n \in Nat
        BY DEF TypeOK
      <3>5. ASSUME NEW i \in DOMAIN records'
            PROVE  LET before == {j \in RecordsFor(records[i].event.scope)' : j < i} IN
                   IF before = {} THEN records'[i].previous = 0
                   ELSE /\ records'[i].previous \in before
                        /\ \A j \in before : j <= records'[i].previous
        <4>1. CASE i = n
          <5> HIDE DEF n
          <5>1. ASSUME NEW j
                PROVE  j \in RecordsFor(records[i].event.scope)' /\ j < i
                       <=> j \in RecordsFor(e.scope)
            <6>1. j \in DOMAIN records' /\ j < n <=> j \in DOMAIN records
              BY <3>2, <3>4
            <6> QED
              BY <3>2, <4>1, <6>1 DEF RecordsFor
          <5>2. {j \in RecordsFor(records[i].event.scope)' : j < i} = RecordsFor(e.scope)
            BY <5>1
          <5> QED
            BY <4>1, <5>2, <3>1, <3>3 DEF IsChainHead
        <4>2. CASE i \in DOMAIN records
          <5>1. {j \in RecordsFor(records[i].event.scope)' : j < i}
                = {j \in RecordsFor(records[i].event.scope) : j < i}
            BY <3>2, <3>4, <4>2 DEF RecordsFor
          <5> QED
            BY <3>2, <4>2, <5>1 DEF ChainIntact
        <4> QED
          BY <3>2, <4>1, <4>2
      <3> QED
        BY <3>5 DEF ChainIntact
    <2>2. CASE UNCHANGED records
      BY <2>2 DEF ChainIntact, RecordsFor
    <2> QED
      BY <2>1, <2>2
         DEF Next, vars, EvaluateAndCommit, AppendLegacy, JournalStates,
             ClaimRequirePending, ClaimInsert, ClaimReplayed, ClaimLost,
             MarkReleased, MarkAborted, InsertTransition
  <1>3. QED
    BY <1>1, <1>2, TypeCorrect, PTL DEF Spec

(* PENDING is left once, for a terminal state, and no row is ever          *)
(* rewritten (the append-only triggers never have to fire).                *)
THEOREM JournalAdvances == Spec => JournalOnlyAdvances
  <1>1. TypeOK /\ [Next]_vars =>
          [\A i \in DOMAIN records :
             /\ records'[i] = records[i]
             /\ \/ journal'[i] = journal[i]
                \/ journal[i] = Pending /\ journal'[i] \in {Released, Aborted}]_vars
    <2> SUFFICES ASSUME TypeOK, Next, NEW i \in DOMAIN records
                 PROVE  /\ records'[i] = records[i]
                        /\ \/ journal'[i] = journal[i]
                           \/ journal[i] = Pending /\ journal'[i] \in {Released, Aborted}
      BY DEF vars
    <2>1. ASSUME NEW e \in Requested, NEW c \in Times, NEW state \in JournalStates,
                 AppendEvent(e, c, state)
          PROVE  records'[i] = records[i] /\ journal'[i] = journal[i]
      BY <2>1, AppendIndexes, EventAssumption
    <2>2. ASSUME NEW j \in DOMAIN records, MarkReleased(j) \/ MarkAborted(j)
          PROVE  /\ records'[i] = records[i]
                 /\ \/ journal'[i] = journal[i]
                    \/ journal[i] = Pending /\ journal'[i] \in {Released, Aborted}
      BY <2>2, TransitionIndexes
    <2> QED
      BY <2>1, <2>2
         DEF Next, EvaluateAndCommit, AppendLegacy, JournalStates,
             ClaimRequirePending, ClaimInsert, ClaimReplayed, ClaimLost
  <1>2. QED
    BY <1>1, TypeCorrect, PTL DEF Spec, JournalOnlyAdvances

-----------------------------------------------------------------------------
(***************************************************************************)
(* Refinement: every behaviour of the ledger is, through the mapping of    *)
(* LedgerRefinement, a behaviour of ReleaseBudget.  The mapping is taken   *)
(* receipt by receipt.                                                     *)
(***************************************************************************)

(* ReleaseBudget counts with the same Cardinality as the ledger.           *)
LEMMA SameCardinality == ASSUME NEW S PROVE Budget!Cardinality(S) = Cardinality(S)
  BY DEF Budget!Cardinality, Cardinality

(* The window counts of the abstraction are bounded by those of the ledger.*)
LEMMA HeldIsBounded ==
    ASSUME TypeOK, BudgetBound
    PROVE  Budget!WithinBudget
  <1> SUFFICES ASSUME NEW s \in Scopes, NEW end \in Times
               PROVE  Cardinality(Budget!HeldInWindow(s, end)) <= MaxProtected
    BY SameCardinality DEF Budget!WithinBudget
  <1> DEFINE W == ReleasesInWindow(s, end)
             H == Budget!HeldInWindow(s, end)
             receiptOf == [i \in W |-> records[i].event.receipt]
             T == {receiptOf[i] : i \in W}
  <1>1. IsFiniteSet(W) /\ Cardinality(W) \in Nat /\ Cardinality(W) <= MaxProtected
    BY WindowsAreFinite, FS_CardinalityType DEF BudgetBound
  <1>2. H \subseteq T
    <2> SUFFICES ASSUME NEW r \in H PROVE r \in T
      OBVIOUS
    <2> DEFINE i == ReservationOf(r)
    <2>1. /\ r \in Receipts
          /\ statusOf[r] \in {"pending", "released"}
          /\ placeOf[r].scope = s
          /\ placeOf[r].at > end - (Window - ClockStep)
          /\ placeOf[r].at <= end
      BY DEF Budget!HeldInWindow, Budget!Held
    <2>2. Reservations(r) # {}
      BY <2>1 DEF statusOf, StatusOfRecord
    <2>3. i \in Reservations(r)
      BY <2>2 DEF ReservationOf
    <2>4. journal[i] # Aborted
      <3>1. Aborted # Pending /\ Aborted # Released
        BY DEF Aborted, Pending, Released
      <3> QED
        BY <2>1, <2>2, <3>1 DEF statusOf, StatusOfRecord
    <2>5. placeOf[r] = [scope |-> records[i].event.scope, at |-> records[i].created_at]
      BY <2>1, <2>2 DEF placeOf
    <2>6. i \in W
      BY <2>1, <2>3, <2>4, <2>5
         DEF Reservations, ExistingReceipt, ReleasesInWindow, ActiveHistory, RecordsFor
    <2>7. receiptOf[i] = r
      BY <2>3, <2>6 DEF Reservations, ExistingReceipt
    <2> QED
      BY <2>6, <2>7
  <1>3. IsFiniteSet(T) /\ Cardinality(T) <= Cardinality(W)
    <2>1. receiptOf \in Surjection(W, T)
      BY DEF Surjection
    <2> QED
      BY <1>1, <2>1, FS_Surjection
  <1>4. /\ Cardinality(H) <= Cardinality(T)
        /\ Cardinality(H) \in Nat
        /\ Cardinality(T) \in Nat
    BY <1>2, <1>3, FS_Subset, FS_CardinalityType
  <1> QED
    BY <1>1, <1>3, <1>4, BudgetAssumption

(* A step that keeps the reservations of a receipt, and their journal,     *)
(* keeps what the receipt is mapped to.                                    *)
LEMMA MappingKept ==
    ASSUME NEW r \in Receipts,
           Reservations(r)' = Reservations(r),
           \A i \in Reservations(r) : /\ records'[i] = records[i]
                                      /\ journal'[i] = journal[i]
    PROVE  /\ statusOf'[r] = statusOf[r]
           /\ placeOf'[r] = placeOf[r]
  <1>1. ReservationOf(r)' = ReservationOf(r)
    BY DEF ReservationOf
  <1>2. Reservations(r) # {} => ReservationOf(r) \in Reservations(r)
    BY DEF ReservationOf
  <1>3. statusOf'[r] = statusOf[r]
    BY <1>1, <1>2 DEF statusOf, StatusOfRecord
  <1>4. placeOf'[r] = placeOf[r]
    BY <1>1, <1>2 DEF placeOf
  <1> QED
    BY <1>3, <1>4

LEMMA MappingIsFunction ==
    /\ statusOf = [r \in Receipts |-> statusOf[r]]
    /\ placeOf = [r \in Receipts |-> placeOf[r]]
    /\ statusOf' = [r \in Receipts |-> statusOf'[r]]
    /\ placeOf' = [r \in Receipts |-> placeOf'[r]]
  BY DEF statusOf, placeOf

(* A record that is no reservation (unprotected, or written by append())   *)
(* leaves the budget alone.                                                *)
LEMMA OtherAppendStutters ==
    ASSUME TypeOK, NEW e \in Event, NEW c \in Times, NEW state \in JournalStates,
           AppendEvent(e, c, state), state = Legacy \/ ~e.protected
    PROVE  UNCHANGED <<statusOf, placeOf>>
  <1>1. ASSUME NEW r \in Receipts
        PROVE  statusOf'[r] = statusOf[r] /\ placeOf'[r] = placeOf[r]
    <2>1. Reservations(r)' = Reservations(r)
      BY AppendIndexes DEF Reservations, ExistingReceipt, IsGated
    <2>2. \A i \in Reservations(r) : records'[i] = records[i] /\ journal'[i] = journal[i]
      BY AppendIndexes DEF Reservations, ExistingReceipt
    <2> QED
      BY <2>1, <2>2, MappingKept
  <1> QED
    BY <1>1, MappingIsFunction

(* A protected record the gate appends is a Reserve step.                  *)
LEMMA GateReserves ==
    ASSUME TypeOK, Budget!WithinBudget',
           NEW e \in Event, NEW t \in Times, NEW c \in Times,
           EvaluateAndCommit(e, t, c), e.protected
    PROVE  Budget!Reserve(e.receipt)
  <1> DEFINE n == Len(records) + 1
             q == e.receipt
  <1>1. /\ AppendEvent(e, c, Pending)
        /\ Pending \in JournalStates
        /\ ExistingReceipt(q) = {}
    BY GateCounts DEF EvaluateAndCommit, JournalStates
  <1>2. /\ DOMAIN records' = DOMAIN records \cup {n}
        /\ n \notin DOMAIN records
        /\ \A i \in DOMAIN records : /\ records'[i] = records[i]
                                     /\ journal'[i] = journal[i]
        /\ records'[n].event = e
        /\ records'[n].created_at = c
        /\ journal'[n] = Pending
    BY <1>1, AppendIndexes
  <1> HIDE DEF n
  <1>3. q \in Receipts
    BY DEF Event
  <1>4. Reservations(q) = {}
    BY <1>1 DEF Reservations
  <1>5. Reservations(q)' = {n}
    <2>1. Pending # Legacy
      BY DEF Pending, Legacy
    <2> QED
      BY <1>1, <1>2, <2>1 DEF Reservations, ExistingReceipt, IsGated
  <1>6. ReservationOf(q)' = n
    BY <1>5 DEF ReservationOf
  <1>7. /\ statusOf[q] = "unreserved"
        /\ statusOf'[q] = "pending"
        /\ placeOf'[q] = [scope |-> e.scope, at |-> c]
    BY <1>2, <1>3, <1>4, <1>5, <1>6 DEF statusOf, StatusOfRecord, placeOf
  <1>8. ASSUME NEW r \in Receipts, r # q
        PROVE  statusOf'[r] = statusOf[r] /\ placeOf'[r] = placeOf[r]
    <2>1. Reservations(r)' = Reservations(r)
      BY <1>2, <1>8 DEF Reservations, ExistingReceipt, IsGated
    <2>2. \A i \in Reservations(r) : records'[i] = records[i] /\ journal'[i] = journal[i]
      BY <1>2 DEF Reservations, ExistingReceipt
    <2> QED
      BY <2>1, <2>2, MappingKept
  <1>9. /\ statusOf' = [statusOf EXCEPT ![q] = "pending"]
        /\ placeOf' = [placeOf EXCEPT ![q] = [scope |-> e.scope, at |-> c]]
    BY <1>3, <1>7, <1>8, MappingIsFunction
  <1>10. \E s \in Scopes, at \in Times :
            placeOf' = [placeOf EXCEPT ![q] = [scope |-> s, at |-> at]]
    BY <1>9 DEF Event
  <1> QED
    BY <1>7, <1>9, <1>10 DEF Budget!Reserve, Budget!Unreserved

(* mark_released and mark_aborted settle the reservation of a protected    *)
(* record, and are invisible on any other.                                 *)
LEMMA MarkSettles ==
    ASSUME TypeOK, OneRecordPerReceipt, NEW i \in DOMAIN records,
           MarkReleased(i) \/ MarkAborted(i)
    PROVE  \/ \E r \in Receipts : \/ Budget!Settle(r, "released")
                                  \/ Budget!Settle(r, "withdrawn")
           \/ UNCHANGED <<statusOf, placeOf>>
  <1>1. /\ records' = records
        /\ journal[i] = Pending
        /\ journal'[i] \in {Released, Aborted}
        /\ \A j \in DOMAIN records : j # i => journal'[j] = journal[j]
    BY TransitionIndexes
  <1>2. /\ Pending # Legacy /\ Released # Legacy /\ Aborted # Legacy
        /\ Pending # Released /\ Aborted # Pending /\ Aborted # Released
    BY DEF Pending, Released, Aborted, Legacy
  <1>3. PICK q \in Receipts : q = records[i].event.receipt
    <2>1. records[i] \in Record
      BY DEF TypeOK
    <2> QED
      BY <2>1 DEF Record, Event
  <1>4. ASSUME NEW r \in Receipts
        PROVE  Reservations(r)' = Reservations(r)
    BY <1>1, <1>2 DEF Reservations, ExistingReceipt, IsGated
  <1>5. ASSUME NEW r \in Receipts, i \notin Reservations(r)
        PROVE  statusOf'[r] = statusOf[r] /\ placeOf'[r] = placeOf[r]
    <2>1. \A j \in Reservations(r) : records'[j] = records[j] /\ journal'[j] = journal[j]
      BY <1>1, <1>5 DEF Reservations, ExistingReceipt
    <2> QED
      BY <1>4, <2>1, MappingKept
  <1>6. CASE ~records[i].event.protected
    <2>1. \A r \in Receipts : i \notin Reservations(r)
      BY <1>6 DEF Reservations
    <2> QED
      BY <1>5, <2>1, MappingIsFunction
  <1>7. CASE records[i].event.protected
    <2>1. Reservations(q) = {i}
      BY <1>1, <1>2, <1>3, <1>7 DEF Reservations, ExistingReceipt, IsGated, OneRecordPerReceipt
    <2>2. ReservationOf(q) = i /\ ReservationOf(q)' = i
      BY <1>3, <1>4, <2>1 DEF ReservationOf
    <2>3. /\ statusOf[q] = "pending"
          /\ statusOf'[q] \in {"released", "withdrawn"}
      BY <1>1, <1>2, <1>3, <1>4, <2>1, <2>2 DEF statusOf, StatusOfRecord
    <2>4. placeOf'[q] = placeOf[q]
      BY <1>1, <1>3, <1>4, <2>1, <2>2 DEF placeOf
    <2>5. \A r \in Receipts : r # q => i \notin Reservations(r)
      BY <1>3 DEF Reservations, ExistingReceipt
    <2>6. placeOf' = placeOf
      BY <1>3, <1>5, <2>4, <2>5, MappingIsFunction
    <2>7. statusOf' = [statusOf EXCEPT ![q] = statusOf'[q]]
      BY <1>3, <1>5, <2>5, MappingIsFunction
    <2> QED
      BY <1>3, <2>3, <2>6, <2>7 DEF Budget!Settle
  <1> QED
    BY <1>6, <1>7

(* Every behavior of the ledger, whatever its events, budget and window,   *)
(* is a behavior of ReleaseBudget: what the callers of secure_ledger.py    *)
(* may rely on.                                                            *)
THEOREM LedgerImplementsBudget == Spec => ImplementsBudget
  <1>1. Init => Budget!Init
    <2> SUFFICES ASSUME Init PROVE Budget!Init
      OBVIOUS
    <2>1. \A r \in Receipts : Reservations(r) = {}
      BY DEF Init, Reservations, ExistingReceipt
    <2> QED
      BY <2>1 DEF statusOf, placeOf, Budget!Init, Budget!Unreserved
  <1>2. TypeOK /\ OneRecordPerReceipt /\ Budget!WithinBudget' /\ [Next]_vars
        => [Budget!Next]_<<statusOf, placeOf>>
    <2> SUFFICES ASSUME TypeOK, OneRecordPerReceipt, Budget!WithinBudget', [Next]_vars
                 PROVE  Budget!Next \/ UNCHANGED <<statusOf, placeOf>>
      OBVIOUS
    <2>1. ASSUME NEW e \in Requested, NEW t \in Times, NEW c \in Times,
                 EvaluateAndCommit(e, t, c)
          PROVE  Budget!Next \/ UNCHANGED <<statusOf, placeOf>>
      <3>1. e \in Event /\ e.receipt \in Receipts /\ e.scope \in Scopes
        BY EventAssumption DEF Event
      <3>2. CASE e.protected
        <4>1. Budget!Reserve(e.receipt)
          BY <2>1, <3>1, <3>2, GateReserves
        <4> QED
          BY <3>1, <4>1 DEF Budget!Next
      <3>3. CASE ~e.protected
        BY <2>1, <3>1, <3>3, OtherAppendStutters DEF EvaluateAndCommit, JournalStates
      <3> QED
        BY <3>2, <3>3
    <2>2. ASSUME NEW e \in Requested, NEW c \in Times, AppendLegacy(e, c)
          PROVE  UNCHANGED <<statusOf, placeOf>>
      BY <2>2, EventAssumption, OtherAppendStutters DEF AppendLegacy, JournalStates
    <2>3. ASSUME NEW i \in DOMAIN records, MarkReleased(i) \/ MarkAborted(i)
          PROVE  Budget!Next \/ UNCHANGED <<statusOf, placeOf>>
      BY <2>3, MarkSettles DEF Budget!Next
    <2>4. ASSUME UNCHANGED <<records, journal>>
          PROVE  UNCHANGED <<statusOf, placeOf>>
      <3>1. ASSUME NEW r \in Receipts
            PROVE  statusOf'[r] = statusOf[r] /\ placeOf'[r] = placeOf[r]
        <4>1. Reservations(r)' = Reservations(r)
          BY <2>4 DEF Reservations, ExistingReceipt, IsGated
        <4> QED
          BY <2>4, <4>1, MappingKept
      <3> QED
        BY <3>1, MappingIsFunction
    <2> QED
      BY <2>1, <2>2, <2>3, <2>4
         DEF Next, vars, ClaimRequirePending, ClaimInsert, ClaimReplayed, ClaimLost
  <1>3. TypeOK /\ BudgetBound => Budget!WithinBudget
    BY HeldIsBounded
  <1>4. QED
    BY <1>1, <1>2, <1>3, TypeCorrect, ReceiptsAreUnique, BudgetHolds, PTL
       DEF Spec, ImplementsBudget, Budget!Spec
=============================================================================
