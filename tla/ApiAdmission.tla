---------------------------- MODULE ApiAdmission ----------------------------
(***************************************************************************)
(* Admission of requests to the HTTP API: the handlers of api/app.py, each *)
(* on a thread of the server's pool, pass AuthFailureLimiter before their  *)
(* credentials are looked at, and PrincipalTrafficLimiter before and after *)
(* they are served.                                                        *)
(*                                                                         *)
(* Both limiters read the clock first and take their lock afterwards, so   *)
(* readings reach a deque late and out of order.  Every step between two   *)
(* such points is an action.  An entry of a table that holds no stamp and  *)
(* no request is the same as no entry.                                     *)
(***************************************************************************)
EXTENDS Integers, Sequences, FiniteSets

CONSTANTS
    Workers,        \* threads of the pool
    Peers,          \* client addresses
    Principals,     \* who credentials can stand for
    Rejected,       \* credentials that stand for nobody, or lack the scope
    MaxFailures, FailureWindow,     \* auth_failure_limit, ..._window_seconds
    MaxTracked,                     \* max_tracked_keys
    RateLimit, RateWindow,          \* rate_limit_requests, ..._window_seconds
    MaxConcurrent,                  \* max_concurrent_per_principal
    MaxDelay,       \* longest a thread takes from the clock to the lock
    MaxClock        \* bound on the clock

ASSUME LimitAssumption ==
    /\ {MaxFailures, FailureWindow, MaxTracked} \subseteq Nat \ {0}
    /\ {RateLimit, RateWindow, MaxConcurrent, MaxClock} \subseteq Nat \ {0}
    /\ MaxDelay \in Nat
    /\ IsFiniteSet(Workers) /\ IsFiniteSet(Peers)
    /\ Rejected \notin Principals

VARIABLES
    clock,          \* time.monotonic
    pc,             \* where each thread is
    request,        \* peer and credentials of the request it handles
    reading,        \* its latest reading of the clock
    failures,       \* AuthFailureLimiter._failures
    stamps, active, \* PrincipalTrafficLimiter._states
    rejections,     \* history: when failures of a peer were recorded since
                    \* the peer was last evicted
    attempts        \* history: when attempts of a principal were counted

limiters == <<failures, stamps, active, rejections, attempts>>
vars == <<clock, pc, request, reading, limiters>>

Clocks == 0..MaxClock
Times == Seq(Clocks)

(* Between the clock and the lock.                                         *)
Waiting == {"checking", "failing", "acquiring", "finishing"}

Request == [peer : Peers, who : Principals \cup {Rejected}]
NoRequest == [peer |-> Rejected, who |-> Rejected]

TypeOK ==
    /\ clock \in Clocks
    /\ pc \in [Workers -> Waiting \cup {"idle", "authenticating", "serving"}]
    /\ request \in [Workers -> Request \cup {NoRequest}]
    /\ reading \in [Workers -> 0..clock]
    /\ failures \in [Peers -> Times] /\ rejections \in [Peers -> Times]
    /\ stamps \in [Principals -> Times] /\ attempts \in [Principals -> Times]
    /\ active \in [Principals -> 0..MaxConcurrent]

-----------------------------------------------------------------------------
(* _prune: expired stamps leave at the front, until one has not expired.   *)
Pruned(times, now, window) ==
    LET expired == CHOOSE n \in 0..Len(times) :
            /\ \A i \in 1..n : times[i] <= now - window
            /\ n < Len(times) => times[n + 1] > now - window
    IN  SubSeq(times, expired + 1, Len(times))

PeerOf(w) == request[w].peer
PrincipalOf(w) == request[w].who

(* The thread takes the clock and goes for a lock; or it leaves a lock, and *)
(* the reading behind, and perhaps the request.                            *)
Await(w, stage) ==
    /\ pc' = [pc EXCEPT ![w] = stage]
    /\ reading' = [reading EXCEPT ![w] = clock]
    /\ UNCHANGED <<clock, request, limiters>>

GoOn(w, stage) ==
    /\ pc' = [pc EXCEPT ![w] = stage]
    /\ reading' = [reading EXCEPT ![w] = 0]
    /\ UNCHANGED <<clock, request>>

Answer(w) ==
    /\ pc' = [pc EXCEPT ![w] = "idle"]
    /\ reading' = [reading EXCEPT ![w] = 0]
    /\ request' = [request EXCEPT ![w] = NoRequest]
    /\ UNCHANGED clock

-----------------------------------------------------------------------------
(* A request arrives; _require_scope calls AuthFailureLimiter.check.       *)
Arrive(w, peer, who) ==
    /\ pc[w] = "idle"
    /\ request' = [request EXCEPT ![w] = [peer |-> peer, who |-> who]]
    /\ pc' = [pc EXCEPT ![w] = "checking"]
    /\ reading' = [reading EXCEPT ![w] = clock]
    /\ UNCHANGED <<clock, limiters>>

(* Mutant: one failure more than allowed.                                  *)
MutExhausted(times) == Len(times) > MaxFailures

Exhausted(times) == Len(times) >= MaxFailures

Check(w) ==
    LET times == Pruned(failures[PeerOf(w)], reading[w], FailureWindow) IN
    /\ pc[w] = "checking"
    /\ failures' = [failures EXCEPT ![PeerOf(w)] = times]
    /\ IF Exhausted(times) THEN Answer(w) ELSE GoOn(w, "authenticating")
    /\ UNCHANGED <<stamps, active, rejections, attempts>>

(* require_scope accepts the credentials, or record_failure is called.     *)
Authenticate(w) ==
    /\ pc[w] = "authenticating"
    /\ Await(w, IF PrincipalOf(w) = Rejected THEN "failing" ELSE "acquiring")

Tracked(table) == {p \in Peers : table[p] # <<>>}

(* Mutant: only entries that expired are evicted.                          *)
MutEvictable(table) == {{}}

(* _evict_stalest: one of the entries with the oldest latest stamp, if     *)
(* removing what expired did not make room.                                *)
Evictable(table) ==
    IF Cardinality(Tracked(table)) < MaxTracked THEN {{}}
    ELSE {{p} : p \in {p \in Tracked(table) : \A q \in Tracked(table) :
                  table[p][Len(table[p])] <= table[q][Len(table[q])]}}

RecordFailure(w) ==
    LET peer == PeerOf(w)
        Prune(p) == Pruned(failures[p], reading[w], FailureWindow)
        full == /\ failures[peer] = <<>>
                /\ Cardinality(Tracked(failures)) >= MaxTracked
        kept == [p \in Peers |-> IF full \/ p = peer THEN Prune(p) ELSE failures[p]]
    IN
    /\ pc[w] = "failing"
    /\ \E evicted \in (IF full THEN Evictable(kept) ELSE {{}}) :
          /\ failures' = [p \in Peers |->
                IF p \in evicted THEN <<>>
                ELSE IF p = peer THEN Append(kept[p], reading[w])
                ELSE kept[p]]
          /\ rejections' = [p \in Peers |->
                IF p \in evicted THEN <<>>
                ELSE IF p = peer THEN Append(rejections[p], clock)
                ELSE rejections[p]]
    /\ Answer(w)
    /\ UNCHANGED <<stamps, active, attempts>>

-----------------------------------------------------------------------------
(* PrincipalTrafficLimiter.acquire, under its lock.                        *)
Recent(w) == Pruned(stamps[PrincipalOf(w)], reading[w], RateWindow)

(* Mutant: a refused attempt is stamped all the same.                      *)
MutRateExceeded(w) ==
    /\ pc[w] = "acquiring"
    /\ Len(Recent(w)) >= RateLimit
    /\ stamps' = [stamps EXCEPT ![PrincipalOf(w)] =
                      Append(Tail(Recent(w)), reading[w])]
    /\ Answer(w)
    /\ UNCHANGED <<failures, active, rejections, attempts>>

(* RATE_LIMIT_EXCEEDED.                                                    *)
RateExceeded(w) ==
    /\ pc[w] = "acquiring"
    /\ Len(Recent(w)) >= RateLimit
    /\ stamps' = [stamps EXCEPT ![PrincipalOf(w)] = Recent(w)]
    /\ Answer(w)
    /\ UNCHANGED <<failures, active, rejections, attempts>>

SlotsTaken(p) == active[p] >= MaxConcurrent

(* The attempt is counted, whether there is a slot for it or not.          *)
Count(w) ==
    /\ pc[w] = "acquiring"
    /\ Len(Recent(w)) < RateLimit
    /\ stamps' = [stamps EXCEPT ![PrincipalOf(w)] = Append(Recent(w), reading[w])]
    /\ attempts' = [attempts EXCEPT ![PrincipalOf(w)] = Append(@, clock)]
    /\ UNCHANGED <<failures, rejections>>

(* Mutants: an attempt without a slot is not counted; or it leaves through *)
(* the finally clause and gives back a slot it never had.                  *)
MutNoSlotUncounted(w) ==
    /\ pc[w] = "acquiring"
    /\ Len(Recent(w)) < RateLimit
    /\ SlotsTaken(PrincipalOf(w))
    /\ attempts' = [attempts EXCEPT ![PrincipalOf(w)] = Append(@, clock)]
    /\ Answer(w)
    /\ UNCHANGED <<failures, stamps, active, rejections>>

MutNoSlotReleases(w) ==
    /\ Count(w)
    /\ SlotsTaken(PrincipalOf(w))
    /\ active' = [active EXCEPT ![PrincipalOf(w)] = @ - 1]
    /\ Answer(w)

(* CONCURRENCY_LIMIT_EXCEEDED.                                             *)
NoSlot(w) ==
    /\ Count(w)
    /\ SlotsTaken(PrincipalOf(w))
    /\ Answer(w)
    /\ UNCHANGED active

Enter(w) ==
    /\ Count(w)
    /\ ~SlotsTaken(PrincipalOf(w))
    /\ active' = [active EXCEPT ![PrincipalOf(w)] = @ + 1]
    /\ GoOn(w, "serving")

(* The finally clause: the clock, then the lock.                           *)
Finish(w) ==
    /\ pc[w] = "serving"
    /\ Await(w, "finishing")

Leave(w) ==
    /\ pc[w] = "finishing"
    /\ stamps' = [stamps EXCEPT ![PrincipalOf(w)] = Recent(w)]
    /\ active' = [active EXCEPT ![PrincipalOf(w)] = IF @ = 0 THEN 0 ELSE @ - 1]
    /\ Answer(w)
    /\ UNCHANGED <<failures, rejections, attempts>>

-----------------------------------------------------------------------------
(* No thread waits longer than MaxDelay with a reading in hand.            *)
Tick ==
    /\ clock < MaxClock
    /\ \A w \in Workers : pc[w] \in Waiting => clock < reading[w] + MaxDelay
    /\ clock' = clock + 1
    /\ UNCHANGED <<pc, request, reading, limiters>>

Init ==
    /\ clock = 0
    /\ pc = [w \in Workers |-> "idle"]
    /\ request = [w \in Workers |-> NoRequest]
    /\ reading = [w \in Workers |-> 0]
    /\ failures = [p \in Peers |-> <<>>] /\ rejections = failures
    /\ stamps = [p \in Principals |-> <<>>] /\ attempts = stamps
    /\ active = [p \in Principals |-> 0]

Next ==
    \/ \E w \in Workers, peer \in Peers, who \in Principals \cup {Rejected} :
          Arrive(w, peer, who)
    \/ \E w \in Workers :
          \/ Check(w) \/ Authenticate(w) \/ RecordFailure(w)
          \/ RateExceeded(w) \/ NoSlot(w) \/ Enter(w) \/ Finish(w) \/ Leave(w)
    \/ Tick

Spec == Init /\ [][Next]_vars

-----------------------------------------------------------------------------
(***************************************************************************)
(* Properties.                                                             *)
(***************************************************************************)
Within(times, start, end) ==
    {i \in DOMAIN times : times[i] > start /\ times[i] <= end}

(* The rate limit in real time: although readings are late and unordered,  *)
(* no principal has more than RateLimit attempts counted, those refused    *)
(* for want of a slot included, in any time shorter than its window by the *)
(* longest delay.                                                          *)
AttemptsWithinRate ==
    \A p \in Principals, end \in Clocks :
        Cardinality(Within(attempts[p], end - (RateWindow - MaxDelay), end))
            <= RateLimit

(* Slots are neither lost nor invented by refusals, by exceptions or by    *)
(* the removal of idle entries: active counts the requests being served.   *)
Occupying(p) ==
    {w \in Workers : pc[w] \in {"serving", "finishing"} /\ PrincipalOf(w) = p}

SlotsAreExact ==
    \A p \in Principals : /\ active[p] = Cardinality(Occupying(p))
                          /\ active[p] <= MaxConcurrent

(* Credentials are checked after the lock of check is left and failures    *)
(* recorded later, so threads that passed together may overshoot the       *)
(* budget of a peer: by one for each of the other threads, and no more.    *)
FailuresWithinBudget ==
    \A p \in Peers, end \in Clocks :
        Cardinality(Within(rejections[p], end - (FailureWindow - MaxDelay), end))
            <= MaxFailures + Cardinality(Workers) - 1

(* However many addresses fail, the table of failures stays bounded.       *)
TableIsBounded == Cardinality(Tracked(failures)) <= MaxTracked

(* Nobody is locked out by retrying, or by stamps that an unordered deque  *)
(* holds on to: a refusal is explained by RateLimit attempts, or by        *)
(* MaxFailures failures, not older than the window and the longest delay.  *)
Refused(w) == pc[w] # "idle" /\ pc'[w] = "idle"

RefusalsAreDeserved ==
    [][\A w \in Workers :
        /\ (pc[w] = "checking" /\ Refused(w)) =>
              Cardinality(Within(rejections[PeerOf(w)],
                                 clock - (FailureWindow + MaxDelay), clock))
                  >= MaxFailures
        /\ (pc[w] = "acquiring" /\ Refused(w) /\ UNCHANGED attempts) =>
              Cardinality(Within(attempts[PrincipalOf(w)],
                                 clock - (RateWindow + MaxDelay), clock))
                  >= RateLimit]_vars
=============================================================================
