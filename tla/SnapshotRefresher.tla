------------------------- MODULE SnapshotRefresher -------------------------
(***************************************************************************)
(* context/refresher.py: the daemon thread that keeps the governance       *)
(* snapshot of a live server fresh.                                        *)
(*                                                                         *)
(* Time is kept as ages and timers, so behaviours are as long as one       *)
(* likes.  Time passes only while no loop has anything due: how long the   *)
(* operating system takes to run a thread is negligible beside the delays  *)
(* the code chooses.  One owner calls start and stop, one at a time, as    *)
(* the server's lifespan and the context manager do.                       *)
(***************************************************************************)
EXTENDS Integers, FiniteSets

CONSTANTS
    Loops,          \* threads that may run _run
    None,
    MaxAge,         \* max_age_seconds of the resolver
    Ratio,          \* 1 / refresh_ratio
    MinInterval,    \* _MIN_REFRESH_INTERVAL_SECONDS
    RetryBackoff,   \* retry_backoff_seconds
    MaxBackoff,     \* _MAX_RETRY_BACKOFF_SECONDS
    LoadTime,       \* longest a loader takes to observe DataHub, or to fail
    CloseTime,      \* longest it then takes to close its MCP session
    FailureCap      \* bound on _consecutive_failures, past the longest backoff

ASSUME DelayAssumption ==
    /\ {MaxAge, MinInterval, RetryBackoff, MaxBackoff} \subseteq Nat \ {0}
    /\ Ratio \in Nat \ {0, 1}
    /\ {LoadTime, CloseTime} \subseteq Nat
    /\ FailureCap \in Nat /\ FailureCap > 5
    /\ CloseTime < MaxAge

ASSUME LoopAssumption == None \notin Loops /\ Loops # {}

VARIABLES
    age,            \* of the installed snapshot; MaxAge is any age from there on
    loop,           \* what each thread does, and for how long
    failures,       \* _consecutive_failures
    thread,         \* _thread
    stopping,       \* _stop_event is set
    joining,        \* the thread stop() is joining
    gaveUp,         \* history: a join timed out
    interrupted,    \* history: stopped since the last installation
    reachable       \* DataHub answers

owner == <<thread, stopping, joining, gaveUp>>
vars == <<age, loop, failures, owner, interrupted, reachable>>

Smaller(m, n) == IF m <= n THEN m ELSE n

Interval ==
    LET fraction == MaxAge \div Ratio IN
    IF fraction < MinInterval THEN MinInterval ELSE fraction

(* timer: what is left of the wait, how long the load has taken, or the    *)
(* age of the snapshot the load observed.                                  *)
LoopState == [phase : {"idle", "waiting", "loading", "closing"}, timer : Nat]

TypeOK ==
    /\ age \in 0..MaxAge
    /\ loop \in [Loops -> LoopState]
    /\ \A l \in Loops :
          /\ loop[l].phase = "waiting" => loop[l].timer <= Interval
          /\ loop[l].phase = "loading" => loop[l].timer <= LoadTime
          /\ loop[l].phase = "closing" => loop[l].timer <= CloseTime
    /\ failures \in 0..FailureCap
    /\ thread \in Loops \cup {None}
    /\ joining \in Loops \cup {None}
    /\ stopping \in BOOLEAN /\ gaveUp \in BOOLEAN
    /\ interrupted \in BOOLEAN /\ reachable \in BOOLEAN

-----------------------------------------------------------------------------
In(l, phase) == loop[l].phase = phase
Alive(l) == ~In(l, "idle")

(* retry_backoff_seconds * 2 ** min(failures - 1, 4)                       *)
Backoff(n) == RetryBackoff * <<1, 2, 4, 8, 16>>[Smaller(n, 5)]

NextDelay(n) ==
    IF n = 0 THEN Interval
    ELSE Smaller(Backoff(n), Smaller(MaxBackoff, Interval))

Become(l, phase, timer) ==
    loop' = [loop EXCEPT ![l] = [phase |-> phase, timer |-> timer]]

-----------------------------------------------------------------------------
(***************************************************************************)
(* _run and _refresh_once.                                                 *)
(***************************************************************************)
Wake(l) ==
    /\ In(l, "waiting") /\ loop[l].timer = 0
    /\ ~stopping
    /\ Become(l, "loading", 0)
    /\ UNCHANGED <<age, failures, owner, interrupted, reachable>>

(* The wait returns at once when the event is set.                         *)
Exit(l) ==
    /\ In(l, "waiting")
    /\ stopping
    /\ Become(l, "idle", 0)
    /\ UNCHANGED <<age, failures, owner, interrupted, reachable>>

(* The loader stamps observed_at, then leaves its MCP session.             *)
Observe(l) ==
    /\ In(l, "loading")
    /\ reachable
    /\ Become(l, "closing", 0)
    /\ UNCHANGED <<age, failures, owner, interrupted, reachable>>

(* Mutant: the exception of the loader ends the thread.                    *)
MutFailEndsLoop(l) ==
    /\ In(l, "loading") \/ In(l, "closing")
    /\ ~reachable
    /\ failures' = Smaller(failures + 1, FailureCap)
    /\ Become(l, "idle", 0)
    /\ UNCHANGED <<age, owner, interrupted, reachable>>

(* Mutant: the next attempt comes when it would have come anyway.          *)
MutFailWaitsInterval(l) ==
    /\ In(l, "loading") \/ In(l, "closing")
    /\ ~reachable
    /\ failures' = Smaller(failures + 1, FailureCap)
    /\ Become(l, "waiting", NextDelay(0))
    /\ UNCHANGED <<age, owner, interrupted, reachable>>

(* A failed refresh leaves the snapshot alone.                             *)
Fail(l) ==
    /\ In(l, "loading") \/ In(l, "closing")
    /\ ~reachable
    /\ failures' = Smaller(failures + 1, FailureCap)
    /\ Become(l, "waiting", NextDelay(failures'))
    /\ UNCHANGED <<age, owner, interrupted, reachable>>

Install(l) ==
    /\ In(l, "closing")
    /\ age' = loop[l].timer
    /\ failures' = 0
    /\ Become(l, "waiting", NextDelay(0))
    /\ interrupted' = stopping
    /\ UNCHANGED <<owner, reachable>>

-----------------------------------------------------------------------------
(***************************************************************************)
(* start and stop.                                                         *)
(***************************************************************************)
(* Mutant: start does not look whether its thread is alive.                *)
MutStartUnchecked(l) ==
    /\ joining = None
    /\ ~Alive(l)
    /\ stopping' = FALSE
    /\ thread' = l
    /\ Become(l, "waiting", NextDelay(failures))
    /\ UNCHANGED <<age, failures, joining, gaveUp, interrupted, reachable>>

Start(l) ==
    /\ joining = None
    /\ thread # None => ~Alive(thread)
    /\ ~Alive(l)
    /\ stopping' = FALSE
    /\ thread' = l
    /\ Become(l, "waiting", NextDelay(failures))
    /\ UNCHANGED <<age, failures, joining, gaveUp, interrupted, reachable>>

Stop ==
    /\ thread # None
    /\ stopping' = TRUE
    /\ thread' = None
    /\ joining' = thread
    /\ interrupted' = TRUE
    /\ UNCHANGED <<age, loop, failures, gaveUp, reachable>>

(* The join returns when the thread has ended, or when it takes too long:  *)
(* a load cannot be interrupted.                                           *)
JoinReturns ==
    /\ joining # None
    /\ ~In(joining, "waiting")
    /\ gaveUp' = (gaveUp \/ Alive(joining))
    /\ joining' = None
    /\ UNCHANGED <<age, loop, failures, thread, stopping, interrupted, reachable>>

-----------------------------------------------------------------------------
Due(l) ==
    \/ In(l, "waiting") /\ (loop[l].timer = 0 \/ stopping)
    \/ In(l, "loading") /\ loop[l].timer = LoadTime
    \/ In(l, "closing") /\ loop[l].timer = CloseTime

Elapsed(state) ==
    CASE state.phase = "waiting" -> [state EXCEPT !.timer = @ - 1]
      [] state.phase = "idle"    -> state
      [] OTHER                   -> [state EXCEPT !.timer = @ + 1]

Tick ==
    /\ \A l \in Loops : ~Due(l)
    /\ age' = Smaller(age + 1, MaxAge)
    /\ loop' = [l \in Loops |-> Elapsed(loop[l])]
    /\ UNCHANGED <<failures, owner, interrupted, reachable>>

(* DataHub goes away, or comes back.                                       *)
Network ==
    /\ reachable' = ~reachable
    /\ UNCHANGED <<age, loop, failures, owner, interrupted>>

(* The lifespan has awaited its first snapshot and called start().         *)
Init ==
    /\ age \in 0..CloseTime
    /\ \E l \in Loops :
          /\ thread = l
          /\ loop = [m \in Loops |-> IF m = l
                                     THEN [phase |-> "waiting", timer |-> Interval]
                                     ELSE [phase |-> "idle", timer |-> 0]]
    /\ failures = 0
    /\ stopping = FALSE
    /\ joining = None
    /\ gaveUp = FALSE
    /\ interrupted = FALSE
    /\ reachable \in BOOLEAN

Turn(l) == Wake(l) \/ Exit(l) \/ Observe(l) \/ Fail(l) \/ Install(l)

Next ==
    \/ \E l \in Loops : Turn(l) \/ Start(l)
    \/ Stop \/ JoinReturns
    \/ Tick \/ Network

Spec == Init /\ [][Next]_vars

(* Threads run, time passes, and a load ends within its timeouts.          *)
FairSpec == Spec /\ WF_vars(Tick) /\ \A l \in Loops : WF_vars(Turn(l))

-----------------------------------------------------------------------------
(***************************************************************************)
(* Properties.                                                             *)
(***************************************************************************)
Fresh == age < MaxAge

(* The comment in __init__: the interval is such that a single failed      *)
(* attempt still leaves time for a retry before the snapshot expires, as   *)
(* long as the refresher has been left running.                            *)
SingleFailureLeavesTimeForRetry ==
    failures <= 1 /\ ~interrupted => Fresh

(* What that takes: the wait before the failed attempt, the wait before    *)
(* the retry, and two loads, all within the age of one snapshot.           *)
TimeForRetry ==
    Interval + NextDelay(1) + 2 * (LoadTime + CloseTime) + CloseTime < MaxAge

(* With that much time a live server never refuses a request for a stale   *)
(* snapshot on account of one failure, also when the refresher was stopped *)
(* and started in the middle of a load before.                             *)
SingleFailureIsTolerated == TimeForRetry => SingleFailureLeavesTimeForRetry

(* Governance does not go back in time: _install never replaces a snapshot *)
(* by an older observation, unless stop() gave up on a thread in a load    *)
(* and start() ran another beside it.                                      *)
SnapshotOnlyAdvances ==
    [][\A l \in Loops : (~gaveUp /\ In(l, "closing") /\ ~In(l, "closing")')
                            => age' <= age]_vars

(* However long DataHub was away and whatever the refresher was doing, it  *)
(* recovers by itself once DataHub answers again: from some time on the    *)
(* snapshot is always fresh.                                               *)
RecoversOnceReachable ==
    (<>[]reachable /\ <>[](thread # None)) => <>[]Fresh
=============================================================================
