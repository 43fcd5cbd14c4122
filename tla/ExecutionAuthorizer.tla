------------------------- MODULE ExecutionAuthorizer -------------------------
(***************************************************************************)
(* The single-use record of execute/authorization.py.  ExecutionAuthorizer *)
(* remembers the authorization ids it has consumed, in memory, until they  *)
(* expire.  Any holder may present an authorization any number of times,   *)
(* on any thread.  verify_and_consume reads the clock once, evaluates the  *)
(* request again, which may take long, and only then enters the lock.      *)
(*                                                                         *)
(* What the second evaluation checks is in SafeExecution; here it only     *)
(* takes time and may refuse.                                              *)
(***************************************************************************)
EXTENDS Integers, Sequences, FiniteSets

CONSTANTS
    AuthIds,        \* authorization ids, drawn at random
    Presenters,     \* threads that call verify_and_consume
    Ttl,            \* ttl_seconds
    MaxClock,       \* bound on the clock
    MaxRestarts,    \* bound on restarts of the process
    MaxUses         \* an id is not presented again once accepted this often

ASSUME AuthorizerAssumption ==
    /\ {Ttl, MaxClock} \subseteq Nat \ {0}
    /\ MaxRestarts \in Nat
    /\ MaxUses \in Nat

VARIABLES
    clock,          \* time.time, taken not to be set back
    key,            \* _secret_key: each process draws its own
    issued,         \* authorizations handed out
    consumed,       \* the ids in _consumed_ids
    presenting,     \* per thread, the call between its clock reading and the lock
    uses            \* history: when each id was accepted

vars == <<clock, key, issued, consumed, presenting, uses>>

Keys == 0..MaxRestarts
Authorization == [id : AuthIds, expires_at : 1..(MaxClock + Ttl), key : Keys]

TypeOK ==
    /\ clock \in 0..MaxClock
    /\ key \in Keys
    /\ issued \subseteq Authorization
    /\ \A a, b \in issued : a.id = b.id => a = b
    /\ consumed \subseteq issued
    /\ presenting \in [Presenters -> SUBSET [auth : issued, now : 0..clock]]
    /\ \A p \in Presenters : \A c, d \in presenting[p] : c = d
    /\ uses \in [AuthIds -> Seq(0..clock)]

Expired(a, now) == now >= a.expires_at

-----------------------------------------------------------------------------
(* The clock is read last, after everything else was checked and claimed.  *)
Issue(id) ==
    /\ \A a \in issued : a.id # id
    /\ issued' = issued \cup
         {[id |-> id, expires_at |-> clock + Ttl, key |-> key]}
    /\ UNCHANGED <<clock, key, consumed, presenting, uses>>

(* Mutant: the secret is configured, and survives a restart.               *)
MutMacOfAnyProcess(a) == a.key \in Keys

(* verify_and_consume up to its clock reading: the MAC, then the expiry.   *)
MacIsValid(a) == a.key = key

Present(p, a) ==
    /\ presenting[p] = {}
    /\ Len(uses[a.id]) < MaxUses
    /\ MacIsValid(a)
    /\ ~Expired(a, clock)
    /\ presenting' = [presenting EXCEPT ![p] = {[auth |-> a, now |-> clock]}]
    /\ UNCHANGED <<clock, key, issued, consumed, uses>>

(* The second evaluation refuses, or the request dies.                     *)
Refuse(p) ==
    /\ presenting[p] # {}
    /\ presenting' = [presenting EXCEPT ![p] = {}]
    /\ UNCHANGED <<clock, key, issued, consumed, uses>>

(* Mutant: an id is forgotten one clock reading before it expires.         *)
MutPrunedEarly(now) == {a \in consumed : a.expires_at > now + 1}

(* Under _consume_lock: forget what expired by the call's own reading of   *)
(* the clock, then refuse the id if it is still there.                     *)
Pruned(now) == {a \in consumed : a.expires_at > now}

Accept(p) ==
    \E c \in presenting[p] :
        /\ c.auth \notin Pruned(c.now)
        /\ consumed' = Pruned(c.now) \cup {c.auth}
        /\ uses' = [uses EXCEPT ![c.auth.id] = Append(@, clock)]
        /\ presenting' = [presenting EXCEPT ![p] = {}]
        /\ UNCHANGED <<clock, key, issued>>

(* AUTH_REPLAYED; what was pruned stays pruned.                            *)
Replayed(p) ==
    \E c \in presenting[p] :
        /\ c.auth \in Pruned(c.now)
        /\ consumed' = Pruned(c.now)
        /\ presenting' = [presenting EXCEPT ![p] = {}]
        /\ UNCHANGED <<clock, key, issued, uses>>

(* A new process: nothing consumed yet, calls gone, another secret.        *)
Restart ==
    /\ key < MaxRestarts
    /\ key' = key + 1
    /\ consumed' = {}
    /\ presenting' = [p \in Presenters |-> {}]
    /\ UNCHANGED <<clock, issued, uses>>

Tick ==
    /\ clock < MaxClock
    /\ clock' = clock + 1
    /\ UNCHANGED <<key, issued, consumed, presenting, uses>>

Init ==
    /\ clock = 0
    /\ key = 0
    /\ issued = {}
    /\ consumed = {}
    /\ presenting = [p \in Presenters |-> {}]
    /\ uses = [id \in AuthIds |-> <<>>]

Next ==
    \/ \E id \in AuthIds : Issue(id)
    \/ \E p \in Presenters, a \in issued : Present(p, a)
    \/ \E p \in Presenters : Refuse(p) \/ Accept(p) \/ Replayed(p)
    \/ Restart
    \/ Tick

Spec == Init /\ [][Next]_vars

-----------------------------------------------------------------------------
(***************************************************************************)
(* Properties.                                                             *)
(***************************************************************************)

(* The docstring of authorization.py: a capability is single-use.          *)
SingleUse == \A id \in AuthIds : Len(uses[id]) <= 1

(* What the code does guarantee of a clock that is not set back: as long   *)
(* as an authorization has not expired it is accepted once at most, over   *)
(* all threads and over restarts, whichever other calls prune the record   *)
(* in between.  Every further acceptance comes after expires_at, from a    *)
(* call that read the clock before.                                        *)
SingleUseWhileFresh ==
    \A a \in issued : \A n \in 2..Len(uses[a.id]) : Expired(a, uses[a.id][n])

(* Pruning is safe: an accepted authorization of this process is in        *)
(* _consumed_ids until it expires.                                         *)
FreshUseIsRemembered ==
    \A a \in issued :
        (MacIsValid(a) /\ ~Expired(a, clock) /\ uses[a.id] # <<>>)
            => a \in consumed
=============================================================================
