---------------------- MODULE ExecutionAuthorizerProofs ----------------------
(***************************************************************************)
(* Proofs about ExecutionAuthorizer, for any number of authorizations,     *)
(* threads, restarts and uses.                                             *)
(***************************************************************************)
EXTENDS ExecutionAuthorizer, TLAPS

(* Calls between clock reading and lock hold an authorization of this      *)
(* process: a restart ends them and replaces the secret.                   *)
CallsAreOfThisProcess ==
    \A p \in Presenters : \A c \in presenting[p] : MacIsValid(c.auth)

OnlyIssuedAreUsed ==
    \A id \in AuthIds : uses[id] # <<>> => \E a \in issued : a.id = id

(* No authorization names a process that has not started.                  *)
KeysAreDrawn == \A a \in issued : a.key <= key

IInv ==
    /\ TypeOK
    /\ CallsAreOfThisProcess
    /\ OnlyIssuedAreUsed
    /\ KeysAreDrawn
    /\ FreshUseIsRemembered
    /\ SingleUseWhileFresh

LEMMA InitIInv == Init => IInv
  BY AuthorizerAssumption
     DEF Init, IInv, TypeOK, CallsAreOfThisProcess, OnlyIssuedAreUsed,
         KeysAreDrawn, FreshUseIsRemembered, SingleUseWhileFresh, Keys

LEMMA TypeStep == TypeOK /\ [Next]_vars => TypeOK'
<1> SUFFICES ASSUME TypeOK, [Next]_vars PROVE TypeOK'
  OBVIOUS
<1> USE AuthorizerAssumption DEF TypeOK, Keys
<1>1. ASSUME NEW id \in AuthIds, Issue(id) PROVE TypeOK'
  <2>1. [id |-> id, expires_at |-> clock + Ttl, key |-> key] \in Authorization
    BY DEF Authorization
  <2>2. issued' \subseteq Authorization
    BY <1>1, <2>1 DEF Issue
  <2>3. \A a, b \in issued' : a.id = b.id => a = b
    BY <1>1 DEF Issue
  <2>4. presenting' \in [Presenters -> SUBSET [auth : issued', now : 0..clock']]
    BY <1>1 DEF Issue
  <2> QED
    BY <1>1, <2>2, <2>3, <2>4 DEF Issue
<1>2. ASSUME NEW p \in Presenters, NEW a \in issued, Present(p, a) PROVE TypeOK'
  <2>1. [auth |-> a, now |-> clock] \in [auth : issued, now : 0..clock]
    OBVIOUS
  <2>2. presenting' \in [Presenters -> SUBSET [auth : issued, now : 0..clock]]
    BY <1>2, <2>1 DEF Present
  <2>3. \A q \in Presenters : \A c, d \in presenting'[q] : c = d
    BY <1>2 DEF Present
  <2> QED
    BY <1>2, <2>2, <2>3 DEF Present
<1>3. ASSUME NEW p \in Presenters, Refuse(p) PROVE TypeOK'
  BY <1>3 DEF Refuse
<1>4. ASSUME NEW p \in Presenters, Accept(p) PROVE TypeOK'
  <2>1. PICK c \in presenting[p] :
          /\ consumed' = Pruned(c.now) \cup {c.auth}
          /\ uses' = [uses EXCEPT ![c.auth.id] = Append(@, clock)]
          /\ presenting' = [presenting EXCEPT ![p] = {}]
          /\ UNCHANGED <<clock, key, issued>>
    BY <1>4 DEF Accept
  <2>2. c.auth \in issued /\ c.auth.id \in AuthIds
    BY DEF Authorization
  <2>3. consumed' \subseteq issued
    BY <2>1, <2>2 DEF Pruned
  <2>4. uses' \in [AuthIds -> Seq(0..clock)]
    BY <2>1, <2>2
  <2>5. presenting' \in [Presenters -> SUBSET [auth : issued, now : 0..clock]]
    BY <2>1
  <2>6. \A q \in Presenters : \A d, e \in presenting'[q] : d = e
    BY <2>1
  <2> QED
    BY <2>1, <2>3, <2>4, <2>5, <2>6
<1>5. ASSUME NEW p \in Presenters, Replayed(p) PROVE TypeOK'
  BY <1>5 DEF Replayed, Pruned
<1>6. CASE Restart
  BY <1>6 DEF Restart
<1>7. CASE Tick
  <2>1. presenting \in [Presenters -> SUBSET [auth : issued, now : 0..(clock + 1)]]
    <3>1. SUBSET [auth : issued, now : 0..clock]
            \subseteq SUBSET [auth : issued, now : 0..(clock + 1)]
      OBVIOUS
    <3> QED
      BY <3>1
  <2>2. uses \in [AuthIds -> Seq(0..(clock + 1))]
    <3>1. \A s \in Seq(0..clock) : s \in Seq(0..(clock + 1))
      OBVIOUS
    <3> QED
      BY <3>1
  <2> QED
    BY <1>7, <2>1, <2>2 DEF Tick
<1>8. CASE UNCHANGED vars
  BY <1>8 DEF vars
<1> QED
  BY <1>1, <1>2, <1>3, <1>4, <1>5, <1>6, <1>7, <1>8 DEF Next

LEMMA ProcessStep ==
    IInv /\ [Next]_vars =>
        CallsAreOfThisProcess' /\ OnlyIssuedAreUsed' /\ KeysAreDrawn'
<1> SUFFICES ASSUME IInv, [Next]_vars
             PROVE CallsAreOfThisProcess' /\ OnlyIssuedAreUsed' /\ KeysAreDrawn'
  OBVIOUS
<1> USE DEF IInv, CallsAreOfThisProcess, OnlyIssuedAreUsed, KeysAreDrawn, MacIsValid
<1>1. ASSUME NEW id \in AuthIds, Issue(id)
      PROVE CallsAreOfThisProcess' /\ OnlyIssuedAreUsed' /\ KeysAreDrawn'
  BY <1>1 DEF Issue, TypeOK, Keys
<1>2. ASSUME NEW p \in Presenters, NEW a \in issued, Present(p, a)
      PROVE CallsAreOfThisProcess' /\ OnlyIssuedAreUsed' /\ KeysAreDrawn'
  BY <1>2 DEF Present, TypeOK
<1>3. ASSUME NEW p \in Presenters, Refuse(p) \/ Replayed(p)
      PROVE CallsAreOfThisProcess' /\ OnlyIssuedAreUsed' /\ KeysAreDrawn'
  <2>1. /\ presenting' = [presenting EXCEPT ![p] = {}]
        /\ UNCHANGED <<key, issued, uses>>
    BY <1>3 DEF Refuse, Replayed
  <2> QED
    BY <2>1 DEF TypeOK
<1>4. ASSUME NEW p \in Presenters, Accept(p)
      PROVE CallsAreOfThisProcess' /\ OnlyIssuedAreUsed' /\ KeysAreDrawn'
  BY <1>4 DEF Accept, TypeOK
<1>5. CASE Restart
  BY <1>5 DEF Restart, TypeOK, Keys, Authorization
<1>6. CASE Tick
  BY <1>6 DEF Tick
<1>7. CASE UNCHANGED vars
  BY <1>7 DEF vars
<1> QED
  BY <1>1, <1>2, <1>3, <1>4, <1>5, <1>6, <1>7 DEF Next

LEMMA MemoryStep == IInv /\ [Next]_vars => FreshUseIsRemembered'
<1> SUFFICES ASSUME IInv, [Next]_vars,
                    NEW a \in issued',
                    MacIsValid(a)', ~Expired(a, clock)', uses'[a.id] # <<>>
             PROVE a \in consumed'
  BY DEF FreshUseIsRemembered
<1> USE DEF IInv, FreshUseIsRemembered, MacIsValid, Expired
<1> clock \in Int /\ key \in Int /\ Ttl \in Int
  BY AuthorizerAssumption DEF TypeOK, Keys
<1>1. ASSUME NEW id \in AuthIds, Issue(id) PROVE a \in consumed'
  BY <1>1 DEF Issue, OnlyIssuedAreUsed
<1>2. ASSUME NEW p \in Presenters, NEW b \in issued, Present(p, b) PROVE a \in consumed'
  BY <1>2 DEF Present
<1>3. ASSUME NEW p \in Presenters, Refuse(p) PROVE a \in consumed'
  BY <1>3 DEF Refuse
<1>4. ASSUME NEW p \in Presenters, Accept(p) \/ Replayed(p) PROVE a \in consumed'
  <2>1. PICK c \in presenting[p] :
          /\ Pruned(c.now) \subseteq consumed'
          /\ \/ /\ c.auth \in consumed'
                /\ uses' = [uses EXCEPT ![c.auth.id] = Append(@, clock)]
             \/ uses' = uses
          /\ UNCHANGED <<clock, key, issued>>
    BY <1>4 DEF Accept, Replayed
  <2>2. c.auth \in issued /\ c.now \in 0..clock
    BY DEF TypeOK
  <2>3. CASE a = c.auth /\ c.auth \in consumed'
    BY <2>3
  <2>4. CASE uses'[a.id] = uses[a.id]
    <3>1. a \in consumed
      BY <2>1, <2>4
    <3>2. a.expires_at > c.now
      BY <2>1, <2>2 DEF TypeOK, Authorization
    <3> QED
      BY <2>1, <3>1, <3>2 DEF Pruned
  <2>5. a # c.auth => a.id # c.auth.id
    BY <2>1, <2>2 DEF TypeOK
  <2> QED
    BY <2>1, <2>2, <2>3, <2>4, <2>5 DEF TypeOK, Authorization
<1>5. CASE Restart
  BY <1>5 DEF Restart, KeysAreDrawn
<1>6. CASE Tick
  BY <1>6 DEF Tick, TypeOK, Authorization
<1>7. CASE UNCHANGED vars
  BY <1>7 DEF vars
<1> QED
  BY <1>1, <1>2, <1>3, <1>4, <1>5, <1>6, <1>7 DEF Next

(* The first reading of a used authorization's history does not matter.    *)
LEMMA AppendedUse ==
    ASSUME NEW S, NEW s \in Seq(S), NEW t \in S
    PROVE  /\ Len(Append(s, t)) = Len(s) + 1
           /\ Append(s, t)[Len(s) + 1] = t
           /\ \A n \in 1..Len(s) : Append(s, t)[n] = s[n]
           /\ (Len(s) + 1 >= 2) => s # <<>>
  OBVIOUS

LEMMA UseStep == IInv /\ [Next]_vars => SingleUseWhileFresh'
<1> SUFFICES ASSUME IInv, [Next]_vars, NEW a \in issued', NEW n \in 2..Len(uses'[a.id])
             PROVE Expired(a, uses'[a.id][n])
  BY DEF SingleUseWhileFresh, Expired
<1> USE DEF IInv, SingleUseWhileFresh
<1>1. ASSUME NEW id \in AuthIds, Issue(id) PROVE Expired(a, uses'[a.id][n])
  <2>1. CASE a \in issued
    BY <1>1, <2>1 DEF Issue
  <2>2. CASE a \notin issued
    <3>1. a.id = id /\ uses'[a.id] = uses[id]
      BY <1>1, <2>2 DEF Issue
    <3>2. uses[id] = <<>>
      BY <1>1 DEF Issue, OnlyIssuedAreUsed
    <3> QED
      BY <3>1, <3>2
  <2> QED
    BY <2>1, <2>2
<1>2. ASSUME UNCHANGED <<issued, uses>> PROVE Expired(a, uses'[a.id][n])
  BY <1>2
<1>3. ASSUME NEW p \in Presenters, Accept(p) PROVE Expired(a, uses'[a.id][n])
  <2>1. PICK c \in presenting[p] :
          /\ c.auth \notin Pruned(c.now)
          /\ uses' = [uses EXCEPT ![c.auth.id] = Append(@, clock)]
          /\ UNCHANGED <<clock, issued>>
    BY <1>3 DEF Accept
  <2>2. /\ c.auth \in issued /\ c.now \in 0..clock
        /\ c.auth.id \in AuthIds /\ MacIsValid(c.auth)
        /\ clock \in Int /\ c.auth.expires_at \in Int
    BY AuthorizerAssumption DEF TypeOK, Authorization, CallsAreOfThisProcess
  <2>3. CASE a.id # c.auth.id
    BY <2>1, <2>3 DEF TypeOK, Authorization
  <2>4. CASE a.id = c.auth.id
    <3>1. a = c.auth
      BY <2>1, <2>2, <2>4 DEF TypeOK
    <3> DEFINE s == uses[c.auth.id]
    <3>2. s \in Seq(0..clock) /\ clock \in 0..clock /\ uses'[a.id] = Append(s, clock)
      BY <2>1, <2>2, <2>4 DEF TypeOK
    <3>3. CASE n \in 2..Len(s)
      <4>1. uses'[a.id][n] = s[n]
        BY <3>2, <3>3, AppendedUse
      <4> QED
        BY <2>2, <3>1, <3>3, <4>1
    <3>4. CASE n = Len(s) + 1
      <4>1. s # <<>> /\ uses'[a.id][n] = clock
        BY <3>2, <3>4, AppendedUse
      <4>2. ASSUME ~Expired(c.auth, clock) PROVE FALSE
        <5>1. c.auth \in consumed
          BY <2>2, <4>1, <4>2 DEF FreshUseIsRemembered
        <5>2. c.auth.expires_at > c.now
          BY <2>2, <4>2 DEF Expired
        <5> QED
          BY <2>1, <5>1, <5>2 DEF Pruned
      <4> QED
        BY <3>1, <4>1, <4>2
    <3>5. Len(uses'[a.id]) = Len(s) + 1 /\ Len(s) \in Nat
      BY <3>2, AppendedUse
    <3> QED
      BY <3>3, <3>4, <3>5
  <2> QED
    BY <2>3, <2>4
<1> QED
  BY <1>1, <1>2, <1>3
     DEF Next, Present, Refuse, Replayed, Restart, Tick, vars

-----------------------------------------------------------------------------
(* The inductive invariant of the authorizer.                              *)
THEOREM AuthorizerInvariant == Spec => []IInv
<1>1. IInv /\ [Next]_vars => IInv'
  BY TypeStep, ProcessStep, MemoryStep, UseStep DEF IInv
<1> QED
  BY InitIInv, <1>1, PTL DEF Spec

(* verify_and_consume keeps its records well formed, and no id is handed   *)
(* out twice.                                                              *)
THEOREM AuthorizerTypeCorrect == Spec => []TypeOK
  BY AuthorizerInvariant, PTL DEF IInv

(* The pruning in verify_and_consume never drops an authorization that was *)
(* accepted and has not expired.                                           *)
THEOREM PruningIsSafe == Spec => []FreshUseIsRemembered
  BY AuthorizerInvariant, PTL DEF IInv

(* An authorization is accepted once at most before it expires, whatever   *)
(* the interleaving of verify_and_consume calls and restarts.              *)
THEOREM AcceptedOnceWhileFresh == Spec => []SingleUseWhileFresh
  BY AuthorizerInvariant, PTL DEF IInv
=============================================================================
