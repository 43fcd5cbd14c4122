-------------------------- MODULE ApiAdmissionProofs --------------------------
(***************************************************************************)
(* Theorems about the admission of requests, for any number of threads,    *)
(* peers and principals, any limits, and any delay between reading the     *)
(* clock and taking a lock.                                                *)
(***************************************************************************)
EXTENDS ApiAdmission, FiniteSetTheorems, SequenceTheorems, WellFoundedInduction, TLAPS

(***************************************************************************)
(* What _prune does.                                                       *)
(***************************************************************************)

(* A set of naturals has a least element.                                  *)
LEMMA LeastNatural ==
    ASSUME NEW T, T \subseteq Nat, T # {}
    PROVE  \E m \in T : \A k \in T : m <= k
  <1> DEFINE R == {p \in Nat \X Nat : p[1] < p[2]}
  <1>1. R = OpToRel(<, Nat)
    BY DEF OpToRel
  <1>2. IsWellFoundedOn(R, Nat)
    BY <1>1, NatLessThanWellFounded
  <1> HIDE DEF R
  <1>3. \E m \in T : \A k \in T : <<k, m>> \notin R
    BY <1>2, WFMin
  <1>4. ASSUME NEW k \in Nat, NEW m \in Nat, <<k, m>> \notin R
        PROVE  m <= k
    <2>1. <<k, m>> \in Nat \X Nat
      OBVIOUS
    <2>2. ~(<<k, m>>[1] < <<k, m>>[2])
      BY <1>4, <2>1 DEF R
    <2>3. QED
      BY <2>2
  <1>5. QED
    BY <1>3, <1>4

(* Pruning drops a prefix of expired stamps.                               *)
LEMMA PrunedDropsExpired ==
    ASSUME NEW times \in Times, NEW now \in Int, NEW window \in Int
    PROVE  \E k \in 0..Len(times) :
              /\ \A i \in 1..k : times[i] <= now - window
              /\ k < Len(times) => times[k + 1] > now - window
              /\ Pruned(times, now, window) = SubSeq(times, k + 1, Len(times))
  <1> DEFINE Stops(k) == k < Len(times) => times[k + 1] > now - window
             Fits(k) == /\ \A i \in 1..k : times[i] <= now - window
                        /\ Stops(k)
             T == {k \in 0..Len(times) : Stops(k)}
  <1>1. Len(times) \in Nat /\ \A i \in 1..Len(times) : times[i] \in Int
    BY LimitAssumption DEF Times, Clocks
  <1>2. Len(times) \in T
    BY <1>1
  <1>3. PICK m \in T : \A k \in T : m <= k
    <2>1. T \subseteq Nat /\ T # {}
      BY <1>1, <1>2
    <2> HIDE DEF T
    <2>2. QED
      BY <2>1, LeastNatural
  <1>4. \A i \in 1..m : times[i] <= now - window
    <2> SUFFICES ASSUME NEW i \in 1..m PROVE times[i] <= now - window
      OBVIOUS
    <2>1. m \in 0..Len(times)
      OBVIOUS
    <2>2. i - 1 \in 0..Len(times) /\ ~(m <= i - 1) /\ (i - 1) + 1 = i
      BY <1>1, <2>1
    <2>3. ~Stops(i - 1)
      BY <1>3, <2>2
    <2>4. QED
      BY <1>1, <2>1, <2>2, <2>3
  <1>5. \E k \in 0..Len(times) : Fits(k)
    BY <1>3, <1>4
  <1> DEFINE expired == CHOOSE k \in 0..Len(times) : Fits(k)
  <1>6. expired \in 0..Len(times) /\ Fits(expired)
    BY <1>5
  <1>7. Pruned(times, now, window) = SubSeq(times, expired + 1, Len(times))
    BY DEF Pruned
  <1>8. QED
    BY <1>6, <1>7

(* A pruned deque is a deque, and its front has not expired.               *)
LEMMA PrunedIsTimes ==
    ASSUME NEW times \in Times, NEW now \in Int, NEW window \in Int
    PROVE  Pruned(times, now, window) \in Times
  <1>1. PICK k \in 0..Len(times) :
            Pruned(times, now, window) = SubSeq(times, k + 1, Len(times))
    BY PrunedDropsExpired
  <1>2. QED
    BY <1>1 DEF Times

LEMMA PrunedStops ==
    ASSUME NEW times \in Times, NEW now \in Int, NEW window \in Int,
           Len(Pruned(times, now, window)) > 0
    PROVE  Pruned(times, now, window)[1] > now - window
  <1>1. PICK k \in 0..Len(times) :
            /\ k < Len(times) => times[k + 1] > now - window
            /\ Pruned(times, now, window) = SubSeq(times, k + 1, Len(times))
    BY PrunedDropsExpired
  <1>2. Len(times) \in Nat
    BY DEF Times
  <1>3. k < Len(times) /\ SubSeq(times, k + 1, Len(times))[1] = times[k + 1]
    BY <1>1, <1>2 DEF Times
  <1>4. QED
    BY <1>1, <1>3

(***************************************************************************)
(* How the stamps a deque still holds follow the events that were counted: *)
(* they are the latest ones, stamped at most MaxDelay before, and the      *)
(* events they no longer show have left the window.  Events are counted in *)
(* the order of time, their readings arrive in any order.                  *)
(***************************************************************************)
Follows(counted, stamped, t, window) ==
    LET gone == Len(counted) - Len(stamped) IN
    /\ Len(stamped) <= Len(counted)
    /\ \A i \in 1..gone : counted[i] <= t - (window - MaxDelay)
    /\ \A i \in 1..Len(stamped) : /\ counted[gone + i] <= stamped[i] + MaxDelay
                                  /\ stamped[i] <= counted[gone + i]
    /\ \A i \in 1..Len(counted) : counted[i] <= t
    /\ \A i, j \in 1..Len(counted) : i <= j => counted[i] <= counted[j]

(* Pruning by a reading not later than the clock keeps the relation.       *)
LEMMA PruningFollows ==
    ASSUME NEW counted \in Times, NEW stamped \in Times, NEW t \in Clocks,
           NEW now \in 0..t, NEW window \in Nat, Follows(counted, stamped, t, window)
    PROVE  LET kept == Pruned(stamped, now, window) IN
           /\ kept \in Times
           /\ Len(kept) <= Len(stamped)
           /\ Follows(counted, kept, t, window)
  <1>1. MaxDelay \in Nat /\ MaxClock \in Nat
    BY LimitAssumption
  <1>2. PICK k \in 0..Len(stamped) :
              /\ \A i \in 1..k : stamped[i] <= now - window
              /\ Pruned(stamped, now, window) = SubSeq(stamped, k + 1, Len(stamped))
    <2>1. now \in Int /\ window \in Int
      BY <1>1 DEF Clocks
    <2>2. QED
      BY <2>1, PrunedDropsExpired
  <1> DEFINE kept == SubSeq(stamped, k + 1, Len(stamped))
             n == Len(stamped)
             gone == Len(counted) - n
  <1>3. /\ n \in Nat /\ Len(counted) \in Nat /\ t \in Int /\ now \in Int
        /\ \A i \in 1..n : stamped[i] \in Int
        /\ \A i \in 1..Len(counted) : counted[i] \in Int
    BY <1>1 DEF Times, Clocks
  <1>4. /\ kept \in Times
        /\ Len(kept) = n - k
        /\ \A i \in 1..(n - k) : kept[i] = stamped[k + i]
    BY <1>3 DEF Times
  <1> HIDE DEF kept
  <1>5. Len(counted) - Len(kept) = gone + k /\ gone \in Nat
    BY <1>3, <1>4 DEF Follows
  <1>6. ASSUME NEW i \in 1..(gone + k)
        PROVE  counted[i] <= t - (window - MaxDelay)
    <2>1. CASE i <= gone
      BY <1>3, <1>5, <2>1 DEF Follows
    <2>2. CASE i > gone
      <3>1. i - gone \in 1..k /\ i - gone \in 1..n /\ i \in 1..Len(counted)
        BY <1>3, <1>5, <2>2
      <3>2. counted[gone + (i - gone)] <= stamped[i - gone] + MaxDelay
        BY <3>1 DEF Follows
      <3>3. stamped[i - gone] <= now - window
        BY <1>2, <3>1
      <3>4. gone + (i - gone) = i
        BY <1>3, <1>5
      <3>5. counted[i] <= stamped[i - gone] + MaxDelay
        BY <3>2, <3>4
      <3>6. counted[i] \in Int /\ stamped[i - gone] \in Int
        BY <1>3, <3>1
      <3>7. ASSUME NEW x \in Int, NEW y \in Int, x <= y + MaxDelay, y <= now - window
            PROVE  x <= t - (window - MaxDelay)
        BY <1>1, <1>3, <3>7
      <3>8. QED
        BY <3>3, <3>5, <3>6, <3>7
    <2>3. QED
      BY <1>3, <1>5, <2>1, <2>2
  <1>7. ASSUME NEW i \in 1..(n - k)
        PROVE  /\ counted[(gone + k) + i] <= kept[i] + MaxDelay
               /\ kept[i] <= counted[(gone + k) + i]
    <2>1. k + i \in 1..n /\ gone + (k + i) = (gone + k) + i
      BY <1>3, <1>5
    <2>2. /\ counted[gone + (k + i)] <= stamped[k + i] + MaxDelay
          /\ stamped[k + i] <= counted[gone + (k + i)]
      BY <2>1 DEF Follows
    <2>3. QED
      BY <1>4, <2>1, <2>2
  <1>8. Follows(counted, kept, t, window)
    <2>1. Len(kept) <= Len(counted)
      BY <1>1, <1>3, <1>4 DEF Follows
    <2>2. /\ \A i \in 1..Len(counted) : counted[i] <= t
          /\ \A i, j \in 1..Len(counted) : i <= j => counted[i] <= counted[j]
      BY DEF Follows
    <2>3. QED
      BY <1>4, <1>5, <1>6, <1>7, <2>1, <2>2 DEF Follows
  <1>9. QED
    BY <1>2, <1>3, <1>4, <1>8 DEF kept

(* Counting an event whose reading is at most MaxDelay old keeps it.       *)
LEMMA CountingFollows ==
    ASSUME NEW counted \in Times, NEW stamped \in Times, NEW t \in Clocks,
           NEW now \in 0..t, t <= now + MaxDelay, NEW window \in Nat,
           Follows(counted, stamped, t, window)
    PROVE  /\ Append(counted, t) \in Times /\ Append(stamped, now) \in Times
           /\ Follows(Append(counted, t), Append(stamped, now), t, window)
  <1>1. MaxDelay \in Nat /\ MaxClock \in Nat
    BY LimitAssumption
  <1> DEFINE c == Append(counted, t)
             s == Append(stamped, now)
             gone == Len(counted) - Len(stamped)
  <1>2. /\ Len(stamped) \in Nat /\ Len(counted) \in Nat
        /\ gone \in Nat
        /\ now \in Clocks /\ now <= t /\ t \in Int /\ now \in Int
    BY <1>1 DEF Follows, Times, Clocks
  <1>3. /\ c \in Times /\ s \in Times
        /\ Len(c) = Len(counted) + 1 /\ Len(s) = Len(stamped) + 1
        /\ \A i \in 1..Len(counted) : c[i] = counted[i]
        /\ \A i \in 1..Len(stamped) : s[i] = stamped[i]
        /\ c[Len(counted) + 1] = t /\ s[Len(stamped) + 1] = now
    BY <1>2 DEF Times
  <1> HIDE DEF c, s
  <1>4. Len(c) - Len(s) = gone
    BY <1>2, <1>3
  <1>5. \A i \in 1..gone : c[i] <= t - (window - MaxDelay)
    BY <1>2, <1>3 DEF Follows
  <1>6. ASSUME NEW i \in 1..(Len(stamped) + 1)
        PROVE  c[gone + i] <= s[i] + MaxDelay /\ s[i] <= c[gone + i]
    <2>1. CASE i = Len(stamped) + 1
      <3>1. gone + i = Len(counted) + 1
        BY <1>2, <2>1
      <3>2. QED
        BY <1>2, <1>3, <2>1, <3>1
    <2>2. CASE i \in 1..Len(stamped)
      <3>1. gone + i \in 1..Len(counted)
        BY <1>2, <2>2
      <3>2. QED
        BY <1>3, <2>2, <3>1 DEF Follows
    <2>3. QED
      BY <1>2, <2>1, <2>2
  <1>7. Len(s) <= Len(c)
    BY <1>1, <1>2, <1>3 DEF Follows
  <1>8. ASSUME NEW i \in 1..Len(c) PROVE c[i] <= t
    <2>1. CASE i = Len(counted) + 1
      BY <1>2, <1>3, <2>1
    <2>2. CASE i \in 1..Len(counted)
      BY <1>3, <2>2 DEF Follows
    <2>3. QED
      BY <1>2, <1>3, <2>1, <2>2
  <1>9. ASSUME NEW i \in 1..Len(c), NEW j \in 1..Len(c), i <= j
        PROVE  c[i] <= c[j]
    <2>1. CASE j = Len(counted) + 1
      BY <1>3, <1>8, <2>1
    <2>2. CASE j \in 1..Len(counted)
      <3>1. i \in 1..Len(counted)
        BY <1>2, <1>9, <2>2
      <3>2. QED
        BY <1>3, <1>9, <2>2, <3>1 DEF Follows
    <2>3. QED
      BY <1>2, <1>3, <2>1, <2>2
  <1>10. Follows(c, s, t, window)
    BY <1>3, <1>4, <1>5, <1>6, <1>7, <1>8, <1>9 DEF Follows
  <1>11. QED
    BY <1>3, <1>10 DEF c, s

(* So does time.                                                           *)
LEMMA TimeFollows ==
    ASSUME NEW counted \in Times, NEW stamped \in Times, NEW t \in Clocks,
           NEW u \in Clocks, t <= u, NEW window \in Nat,
           Follows(counted, stamped, t, window)
    PROVE  Follows(counted, stamped, u, window)
  <1>1. MaxDelay \in Nat /\ MaxClock \in Nat /\ t \in Int /\ u \in Int
    BY LimitAssumption DEF Clocks
  <1>2. /\ Len(counted) \in Nat /\ Len(stamped) \in Nat
        /\ \A i \in 1..Len(counted) : counted[i] \in Int
    BY <1>1 DEF Times, Clocks
  <1>3. /\ \A i \in 1..(Len(counted) - Len(stamped)) :
               counted[i] <= u - (window - MaxDelay)
        /\ \A i \in 1..Len(counted) : counted[i] <= u
    BY <1>1, <1>2 DEF Follows
  <1>4. QED
    BY <1>3 DEF Follows

(* The indexes behind the first a of b.                                    *)
LEMMA IndexesBehind ==
    ASSUME NEW a \in Nat, NEW b \in Nat, a <= b
    PROVE  IsFiniteSet((a + 1)..b) /\ Cardinality((a + 1)..b) = b - a
  <1>1. a + 1 \in Int /\ b \in Int
    OBVIOUS
  <1>2. /\ IsFiniteSet((a + 1)..b)
        /\ Cardinality((a + 1)..b) = IF a + 1 > b THEN 0 ELSE b - (a + 1) + 1
    BY <1>1, FS_Interval
  <1>3. QED
    BY <1>2

(* No window that ends now or later holds more events than the deque.      *)
LEMMA WindowIsBounded ==
    ASSUME NEW counted \in Times, NEW stamped \in Times, NEW t \in Clocks,
           NEW end \in Clocks, t <= end, NEW window \in Nat,
           Follows(counted, stamped, t, window)
    PROVE  /\ Cardinality(Within(counted, end - (window - MaxDelay), end)) \in Nat
           /\ Cardinality(Within(counted, end - (window - MaxDelay), end)) <= Len(stamped)
  <1>1. MaxDelay \in Nat /\ MaxClock \in Nat
    BY LimitAssumption
  <1> DEFINE gone == Len(counted) - Len(stamped)
             seen == Within(counted, end - (window - MaxDelay), end)
             latest == (gone + 1)..Len(counted)
  <1>2. /\ Len(counted) \in Nat /\ Len(stamped) \in Nat /\ gone \in Nat
        /\ DOMAIN counted = 1..Len(counted)
        /\ \A i \in 1..Len(counted) : counted[i] \in Int
        /\ t \in Int /\ end \in Int
    BY <1>1 DEF Follows, Times, Clocks
  <1>3. seen \subseteq latest
    <2> SUFFICES ASSUME NEW i \in seen PROVE i \in latest
      OBVIOUS
    <2>1. i \in 1..Len(counted) /\ counted[i] > end - (window - MaxDelay)
      BY <1>2 DEF Within
    <2>2. ~(i \in 1..gone)
      BY <1>1, <1>2, <2>1 DEF Follows
    <2>3. QED
      BY <1>2, <2>1, <2>2
  <1>4. IsFiniteSet(latest) /\ Cardinality(latest) = Len(stamped)
    <2>1. gone <= Len(counted) /\ Len(counted) - gone = Len(stamped)
      BY <1>2
    <2>2. QED
      BY <1>2, <2>1, IndexesBehind
  <1>5. Cardinality(seen) <= Cardinality(latest) /\ Cardinality(seen) \in Nat
    BY <1>3, <1>4, FS_Subset, FS_CardinalityType
  <1>6. QED
    BY <1>4, <1>5

(* And what a deque still holds after pruning was counted not long ago:    *)
(* the first stamp kept has not expired, and no event kept behind it was   *)
(* counted before, however its own reading compares.                       *)
LEMMA KeptIsRecent ==
    ASSUME NEW counted \in Times, NEW stamped \in Times, NEW t \in Clocks,
           NEW now \in 0..t, t <= now + MaxDelay, NEW window \in Nat,
           Follows(counted, stamped, t, window)
    PROVE  Len(Pruned(stamped, now, window))
              <= Cardinality(Within(counted, t - (window + MaxDelay), t))
  <1> DEFINE kept == Pruned(stamped, now, window)
             gone == Len(counted) - Len(kept)
             seen == Within(counted, t - (window + MaxDelay), t)
             latest == (gone + 1)..Len(counted)
  <1>1. /\ MaxDelay \in Nat /\ MaxClock \in Nat /\ t \in Int /\ now \in Int
        /\ window \in Int
    BY LimitAssumption DEF Clocks
  <1>2. kept \in Times /\ Follows(counted, kept, t, window)
    BY PruningFollows
  <1>3. Len(kept) > 0 => kept[1] > now - window
    BY <1>1, PrunedStops
  <1> HIDE DEF kept
  <1>4. /\ Len(counted) \in Nat /\ Len(kept) \in Nat /\ gone \in Nat
        /\ DOMAIN counted = 1..Len(counted)
        /\ \A i \in 1..Len(counted) : counted[i] \in Int
        /\ \A i \in 1..Len(kept) : kept[i] \in Int
    <2>1. counted \in Seq(Int) /\ kept \in Seq(Int)
      BY <1>1, <1>2 DEF Times, Clocks
    <2>2. Len(kept) <= Len(counted)
      BY <1>2 DEF Follows
    <2>3. QED
      BY <2>1, <2>2
  <1>5. latest \subseteq seen
    <2> SUFFICES ASSUME NEW i \in latest PROVE i \in seen
      OBVIOUS
    <2>1. /\ i \in 1..Len(counted) /\ gone + 1 \in 1..Len(counted) /\ gone + 1 <= i
          /\ 1 \in 1..Len(kept)
      BY <1>4
    <2>2. counted[gone + 1] <= counted[i] /\ counted[i] <= t
      BY <1>2, <2>1 DEF Follows
    <2>3. kept[1] <= counted[gone + 1]
      BY <1>2, <2>1 DEF Follows
    <2>4. kept[1] > now - window
      BY <1>3, <1>4, <2>1
    <2>5. ASSUME NEW x \in Int, NEW y \in Int, NEW z \in Int,
                 x > now - window, x <= y, y <= z
          PROVE  z > t - (window + MaxDelay)
      BY <1>1, <2>5
    <2>6. counted[i] > t - (window + MaxDelay)
      BY <1>4, <2>1, <2>2, <2>3, <2>4, <2>5
    <2>7. QED
      BY <1>4, <2>1, <2>2, <2>6 DEF Within
  <1>6. IsFiniteSet(seen)
    <2>1. IsFiniteSet(1..Len(counted))
      BY <1>4, FS_Interval
    <2>2. seen \subseteq 1..Len(counted)
      BY <1>4 DEF Within
    <2>3. QED
      BY <2>1, <2>2, FS_Subset
  <1>7. Cardinality(latest) = Len(kept)
    <2>1. gone <= Len(counted) /\ Len(counted) - gone = Len(kept)
      BY <1>4
    <2>2. QED
      BY <1>4, <2>1, IndexesBehind
  <1>8. QED
    BY <1>5, <1>6, <1>7, FS_Subset DEF kept

(***************************************************************************)
(* The inductive invariant.                                                *)
(***************************************************************************)
Inside == {"acquiring", "serving", "finishing"}

RequestsAreKnown ==
    \A w \in Workers : /\ pc[w] # "idle" => request[w] \in Request
                       /\ pc[w] \in Inside => PrincipalOf(w) \in Principals

ReadingsAreRecent ==
    \A w \in Workers : pc[w] \in Waiting => clock <= reading[w] + MaxDelay

DequesFollow ==
    \A p \in Principals : /\ Follows(attempts[p], stamps[p], clock, RateWindow)
                          /\ Len(stamps[p]) <= RateLimit

IInv ==
    /\ TypeOK
    /\ RequestsAreKnown
    /\ ReadingsAreRecent
    /\ DequesFollow
    /\ AttemptsWithinRate
    /\ SlotsAreExact

(* Two requests never occupy a slot together on account of a step of a     *)
(* third: what one thread does changes its own place only.                 *)
LEMMA OthersStay ==
    ASSUME NEW w \in Workers, NEW p \in Principals,
           \A v \in Workers \ {w} : pc'[v] = pc[v] /\ request'[v] = request[v]
    PROVE  Occupying(p)' \ {w} = Occupying(p) \ {w}
  BY DEF Occupying, PrincipalOf

LEMMA OccupyingIsFinite ==
    ASSUME NEW p \in Principals
    PROVE  /\ IsFiniteSet(Occupying(p)) /\ Cardinality(Occupying(p)) \in Nat
  BY LimitAssumption, FS_Subset, FS_CardinalityType DEF Occupying

(* A thread that neither takes nor gives back a slot.                      *)
LEMMA SlotsUnchanged ==
    ASSUME SlotsAreExact, NEW w \in Workers,
           \A v \in Workers \ {w} : pc'[v] = pc[v] /\ request'[v] = request[v],
           \A p \in Principals : w \in Occupying(p)' <=> w \in Occupying(p),
           UNCHANGED active
    PROVE  SlotsAreExact'
  <1>1. ASSUME NEW p \in Principals PROVE Occupying(p)' = Occupying(p)
    <2>1. Occupying(p)' \ {w} = Occupying(p) \ {w}
      BY OthersStay
    <2>2. w \in Occupying(p)' <=> w \in Occupying(p)
      OBVIOUS
    <2>3. \A v : v \in Occupying(p)' <=> v \in Occupying(p)
      <3> SUFFICES ASSUME NEW v PROVE v \in Occupying(p)' <=> v \in Occupying(p)
        OBVIOUS
      <3>1. CASE v = w
        BY <2>2, <3>1
      <3>2. CASE v # w
        BY <2>1, <3>2
      <3>3. QED
        BY <3>1, <3>2
    <2>4. QED
      BY <2>3
  <1>2. QED
    BY <1>1 DEF SlotsAreExact

(* The traffic limiter untouched.                                          *)
LEMMA TrafficUnchanged ==
    ASSUME DequesFollow, AttemptsWithinRate, UNCHANGED <<clock, stamps, attempts>>
    PROVE  DequesFollow' /\ AttemptsWithinRate'
  BY DEF DequesFollow, AttemptsWithinRate

(* What a step of one thread leaves alone.                                 *)
LEMMA ReadingsStayRecent ==
    ASSUME TypeOK, ReadingsAreRecent, NEW w \in Workers, UNCHANGED clock,
           \A v \in Workers \ {w} : pc'[v] = pc[v] /\ reading'[v] = reading[v],
           pc'[w] \in Waiting => reading'[w] = clock
    PROVE  ReadingsAreRecent'
  <1>1. MaxDelay \in Nat /\ clock \in Int
    BY LimitAssumption DEF TypeOK, Clocks
  <1>2. QED
    BY <1>1 DEF ReadingsAreRecent

(***************************************************************************)
(* The traffic limiter.                                                    *)
(***************************************************************************)

(* What a thread finds in its principal's deque under the lock.            *)
LEMMA RecentFollows ==
    ASSUME IInv, NEW w \in Workers, pc[w] \in {"acquiring", "finishing"}
    PROVE  /\ PrincipalOf(w) \in Principals
           /\ Recent(w) \in Times
           /\ Follows(attempts[PrincipalOf(w)], Recent(w), clock, RateWindow)
           /\ Len(Recent(w)) <= RateLimit
  <1> DEFINE p == PrincipalOf(w)
  <1>1. p \in Principals
    BY DEF IInv, RequestsAreKnown, Inside
  <1> HIDE DEF p
  <1>2. /\ attempts[p] \in Times /\ stamps[p] \in Times
        /\ clock \in Clocks /\ reading[w] \in 0..clock
    BY <1>1 DEF IInv, TypeOK
  <1>3. /\ Follows(attempts[p], stamps[p], clock, RateWindow)
        /\ Len(stamps[p]) <= RateLimit
    BY <1>1 DEF IInv, DequesFollow
  <1>4. RateWindow \in Nat /\ RateLimit \in Nat
    BY LimitAssumption
  <1>5. /\ Recent(w) \in Times /\ Len(Recent(w)) <= Len(stamps[p])
        /\ Follows(attempts[p], Recent(w), clock, RateWindow)
    BY <1>2, <1>3, <1>4, PruningFollows DEF Recent, p
  <1>6. Len(Recent(w)) <= RateLimit
    BY <1>2, <1>3, <1>4, <1>5 DEF Times
  <1>7. QED
    BY <1>1, <1>5, <1>6 DEF p

(* Pruning the deque of one principal.                                     *)
LEMMA StampsArePruned ==
    ASSUME IInv, NEW w \in Workers, pc[w] \in {"acquiring", "finishing"},
           stamps' = [stamps EXCEPT ![PrincipalOf(w)] = Recent(w)],
           UNCHANGED <<clock, attempts>>
    PROVE  /\ stamps' \in [Principals -> Times]
           /\ DequesFollow' /\ AttemptsWithinRate'
  <1>1. /\ PrincipalOf(w) \in Principals
        /\ Recent(w) \in Times
        /\ Follows(attempts[PrincipalOf(w)], Recent(w), clock, RateWindow)
        /\ Len(Recent(w)) <= RateLimit
    BY RecentFollows
  <1>2. stamps \in [Principals -> Times]
    BY DEF IInv, TypeOK
  <1>3. stamps' \in [Principals -> Times]
    BY <1>1, <1>2
  <1>4. \A p \in Principals :
            stamps'[p] = IF p = PrincipalOf(w) THEN Recent(w) ELSE stamps[p]
    BY <1>2
  <1>5. DequesFollow'
    <2> SUFFICES ASSUME NEW p \in Principals
                 PROVE  /\ Follows(attempts[p], stamps'[p], clock, RateWindow)
                        /\ Len(stamps'[p]) <= RateLimit
      BY DEF DequesFollow
    <2>1. CASE p = PrincipalOf(w)
      BY <1>1, <1>4, <2>1
    <2>2. CASE p # PrincipalOf(w)
      BY <1>4, <2>2 DEF IInv, DequesFollow
    <2>3. QED
      BY <2>1, <2>2
  <1>6. AttemptsWithinRate'
    BY DEF IInv, AttemptsWithinRate
  <1>7. QED
    BY <1>3, <1>5, <1>6

(* Counting an attempt.                                                    *)
LEMMA AttemptIsCounted ==
    ASSUME IInv, NEW w \in Workers, Count(w), UNCHANGED clock
    PROVE  /\ stamps' \in [Principals -> Times]
           /\ attempts' \in [Principals -> Times]
           /\ DequesFollow' /\ AttemptsWithinRate'
  <1> DEFINE q == PrincipalOf(w)
  <1>1. /\ q \in Principals
        /\ Recent(w) \in Times
        /\ Follows(attempts[q], Recent(w), clock, RateWindow)
    BY RecentFollows DEF Count
  <1>2. /\ stamps \in [Principals -> Times] /\ attempts \in [Principals -> Times]
        /\ clock \in Clocks /\ reading[w] \in 0..clock
        /\ clock <= reading[w] + MaxDelay
    BY DEF IInv, TypeOK, ReadingsAreRecent, Count, Waiting
  <1>3. Len(Recent(w)) < RateLimit /\ RateLimit \in Nat /\ RateWindow \in Nat
    BY LimitAssumption DEF Count
  <1> DEFINE c == Append(attempts[q], clock)
             s == Append(Recent(w), reading[w])
  <1>4. /\ c \in Times /\ s \in Times /\ Follows(c, s, clock, RateWindow)
        /\ Len(s) \in Nat /\ Len(s) <= RateLimit
    <2>1. attempts[q] \in Times
      BY <1>1, <1>2
    <2>2. c \in Times /\ s \in Times /\ Follows(c, s, clock, RateWindow)
      BY <1>1, <1>2, <1>3, <2>1, CountingFollows
    <2>3. Len(s) = Len(Recent(w)) + 1 /\ Len(Recent(w)) \in Nat
      BY <1>1 DEF Times
    <2>4. QED
      BY <1>3, <2>2, <2>3
  <1>5. /\ stamps' = [stamps EXCEPT ![q] = s]
        /\ attempts' = [attempts EXCEPT ![q] = c]
    BY DEF Count
  <1>6. \A p \in Principals :
            /\ stamps'[p] = IF p = q THEN s ELSE stamps[p]
            /\ attempts'[p] = IF p = q THEN c ELSE attempts[p]
    BY <1>2, <1>5
  <1>7. stamps' \in [Principals -> Times] /\ attempts' \in [Principals -> Times]
    BY <1>1, <1>2, <1>4, <1>5
  <1>8. DequesFollow'
    <2> SUFFICES ASSUME NEW p \in Principals
                 PROVE  /\ Follows(attempts'[p], stamps'[p], clock, RateWindow)
                        /\ Len(stamps'[p]) <= RateLimit
      BY DEF DequesFollow
    <2>1. CASE p = q
      BY <1>4, <1>6, <2>1
    <2>2. CASE p # q
      BY <1>6, <2>2 DEF IInv, DequesFollow
    <2>3. QED
      BY <2>1, <2>2
  <1>9. AttemptsWithinRate'
    <2> SUFFICES ASSUME NEW p \in Principals, NEW end \in Clocks
                 PROVE  Cardinality(Within(attempts'[p],
                            end - (RateWindow - MaxDelay), end)) <= RateLimit
      BY DEF AttemptsWithinRate
    <2>1. CASE p # q
      BY <1>6, <2>1 DEF IInv, AttemptsWithinRate
    <2>2. CASE p = q /\ clock <= end
      <3>1. attempts'[p] = c
        BY <1>6, <2>2
      <3> HIDE DEF c, s
      <3>2. Cardinality(Within(c, end - (RateWindow - MaxDelay), end)) \in Nat
        BY <1>2, <1>3, <1>4, <2>2, WindowIsBounded
      <3>3. Cardinality(Within(c, end - (RateWindow - MaxDelay), end)) <= Len(s)
        BY <1>2, <1>3, <1>4, <2>2, WindowIsBounded
      <3>4. QED
        BY <1>3, <1>4, <3>1, <3>2, <3>3
    <2>3. CASE p = q /\ end < clock
      <3> DEFINE n == Len(attempts[q])
      <3>1. attempts[q] \in Times /\ n \in Nat
        BY <1>1, <1>2 DEF Times
      <3>2. /\ DOMAIN c = 1..(n + 1) /\ DOMAIN attempts[q] = 1..n
            /\ c[n + 1] = clock
            /\ \A i \in 1..n : c[i] = attempts[q][i]
        BY <1>2, <3>1 DEF Times
      <3>3. clock \in Int /\ end \in Int
        BY <1>2, LimitAssumption DEF Clocks
      <3>4. Within(c, end - (RateWindow - MaxDelay), end)
              = Within(attempts[q], end - (RateWindow - MaxDelay), end)
        BY <2>3, <3>1, <3>2, <3>3 DEF Within
      <3>5. QED
        BY <1>6, <2>3, <3>4 DEF IInv, AttemptsWithinRate
    <2>4. QED
      <3>1. clock <= end \/ end < clock
        BY <1>2, LimitAssumption DEF Clocks
      <3>2. QED
        BY <2>1, <2>2, <2>3, <3>1
  <1>10. QED
    BY <1>7, <1>8, <1>9

(***************************************************************************)
(* The steps.                                                              *)
(***************************************************************************)

(* Moving a thread along, or back to idle.                                 *)
LEMMA ThreadMoves ==
    ASSUME IInv, NEW w \in Workers, NEW stage \in {"authenticating", "serving"},
           GoOn(w, stage),
           pc[w] # "idle", stage = "serving" => PrincipalOf(w) \in Principals
    PROVE  /\ clock' \in Clocks
           /\ pc' \in [Workers -> Waiting \cup {"idle", "authenticating", "serving"}]
           /\ request' \in [Workers -> Request \cup {NoRequest}]
           /\ reading' \in [Workers -> 0..clock']
           /\ RequestsAreKnown' /\ ReadingsAreRecent'
           /\ pc'[w] = stage /\ UNCHANGED <<clock, request>>
           /\ \A v \in Workers \ {w} : pc'[v] = pc[v] /\ request'[v] = request[v]
  <1>1. clock \in Clocks /\ 0 \in 0..clock
    BY LimitAssumption DEF IInv, TypeOK, Clocks
  <1>2. /\ pc' = [pc EXCEPT ![w] = stage] /\ reading' = [reading EXCEPT ![w] = 0]
        /\ UNCHANGED <<clock, request>>
    BY DEF GoOn
  <1>3. /\ pc'[w] = stage
        /\ \A v \in Workers \ {w} : /\ pc'[v] = pc[v] /\ request'[v] = request[v]
                                     /\ reading'[v] = reading[v]
    BY <1>2 DEF IInv, TypeOK
  <1>4. RequestsAreKnown'
    BY <1>2, <1>3 DEF IInv, RequestsAreKnown, PrincipalOf, Inside
  <1>5. ReadingsAreRecent'
    BY <1>2, <1>3, ReadingsStayRecent DEF IInv, Waiting
  <1>6. /\ pc' \in [Workers -> Waiting \cup {"idle", "authenticating", "serving"}]
        /\ reading' \in [Workers -> 0..clock']
    BY <1>1, <1>2 DEF IInv, TypeOK
  <1>7. QED
    BY <1>1, <1>2, <1>3, <1>4, <1>5, <1>6 DEF IInv, TypeOK

LEMMA ThreadAnswers ==
    ASSUME IInv, NEW w \in Workers, Answer(w)
    PROVE  /\ clock' \in Clocks
           /\ pc' \in [Workers -> Waiting \cup {"idle", "authenticating", "serving"}]
           /\ request' \in [Workers -> Request \cup {NoRequest}]
           /\ reading' \in [Workers -> 0..clock']
           /\ RequestsAreKnown' /\ ReadingsAreRecent'
           /\ pc'[w] = "idle" /\ UNCHANGED clock
           /\ \A v \in Workers \ {w} : pc'[v] = pc[v] /\ request'[v] = request[v]
  <1>1. clock \in Clocks /\ 0 \in 0..clock
    BY LimitAssumption DEF IInv, TypeOK, Clocks
  <1>2. /\ pc' = [pc EXCEPT ![w] = "idle"] /\ reading' = [reading EXCEPT ![w] = 0]
        /\ request' = [request EXCEPT ![w] = NoRequest] /\ UNCHANGED clock
    BY DEF Answer
  <1>3. /\ pc'[w] = "idle"
        /\ \A v \in Workers \ {w} : /\ pc'[v] = pc[v] /\ request'[v] = request[v]
                                     /\ reading'[v] = reading[v]
    BY <1>2 DEF IInv, TypeOK
  <1>4. RequestsAreKnown'
    BY <1>2, <1>3 DEF IInv, RequestsAreKnown, PrincipalOf, Inside
  <1>5. ReadingsAreRecent'
    BY <1>2, <1>3, ReadingsStayRecent DEF IInv, Waiting
  <1>6. /\ pc' \in [Workers -> Waiting \cup {"idle", "authenticating", "serving"}]
        /\ reading' \in [Workers -> 0..clock']
        /\ request' \in [Workers -> Request \cup {NoRequest}]
    BY <1>1, <1>2 DEF IInv, TypeOK
  <1>7. QED
    BY <1>1, <1>2, <1>3, <1>4, <1>5, <1>6

LEMMA ThreadAwaits ==
    ASSUME IInv, NEW w \in Workers, NEW stage \in Waiting, Await(w, stage),
           pc[w] # "idle", stage \in Inside => PrincipalOf(w) \in Principals
    PROVE  /\ clock' \in Clocks
           /\ pc' \in [Workers -> Waiting \cup {"idle", "authenticating", "serving"}]
           /\ request' \in [Workers -> Request \cup {NoRequest}]
           /\ reading' \in [Workers -> 0..clock']
           /\ RequestsAreKnown' /\ ReadingsAreRecent'
           /\ pc'[w] = stage /\ UNCHANGED <<clock, request, limiters>>
           /\ \A v \in Workers \ {w} : pc'[v] = pc[v] /\ request'[v] = request[v]
  <1>1. clock \in Clocks /\ clock \in 0..clock
    BY LimitAssumption DEF IInv, TypeOK, Clocks
  <1>2. /\ pc' = [pc EXCEPT ![w] = stage] /\ reading' = [reading EXCEPT ![w] = clock]
        /\ UNCHANGED <<clock, request, limiters>>
    BY DEF Await
  <1>3. /\ pc'[w] = stage /\ reading'[w] = clock
        /\ \A v \in Workers \ {w} : /\ pc'[v] = pc[v] /\ request'[v] = request[v]
                                     /\ reading'[v] = reading[v]
    BY <1>2 DEF IInv, TypeOK
  <1>4. RequestsAreKnown'
    BY <1>2, <1>3 DEF IInv, RequestsAreKnown, PrincipalOf, Inside
  <1>5. ReadingsAreRecent'
    BY <1>2, <1>3, ReadingsStayRecent DEF IInv
  <1>6. /\ pc' \in [Workers -> Waiting \cup {"idle", "authenticating", "serving"}]
        /\ reading' \in [Workers -> 0..clock']
    BY <1>1, <1>2 DEF IInv, TypeOK
  <1>7. QED
    BY <1>1, <1>2, <1>3, <1>4, <1>5, <1>6 DEF IInv, TypeOK

(* A request arrives.                                                      *)
LEMMA ArriveKeeps ==
    ASSUME IInv, NEW w \in Workers, NEW peer \in Peers,
           NEW who \in Principals \cup {Rejected}, Arrive(w, peer, who)
    PROVE  IInv'
  <1>1. clock \in Clocks /\ clock \in 0..clock
    BY LimitAssumption DEF IInv, TypeOK, Clocks
  <1>2. [peer |-> peer, who |-> who] \in Request
    BY DEF Request
  <1>3. /\ pc[w] = "idle"
        /\ pc' = [pc EXCEPT ![w] = "checking"]
        /\ reading' = [reading EXCEPT ![w] = clock]
        /\ request' = [request EXCEPT ![w] = [peer |-> peer, who |-> who]]
        /\ UNCHANGED <<clock, failures, stamps, active, rejections, attempts>>
    BY DEF Arrive, limiters
  <1>4. /\ pc'[w] = "checking" /\ reading'[w] = clock /\ request'[w] \in Request
        /\ \A v \in Workers \ {w} : /\ pc'[v] = pc[v] /\ request'[v] = request[v]
                                     /\ reading'[v] = reading[v]
    BY <1>2, <1>3 DEF IInv, TypeOK
  <1>5. TypeOK'
    BY <1>1, <1>2, <1>3 DEF IInv, TypeOK, Waiting
  <1>6. RequestsAreKnown'
    BY <1>4 DEF IInv, RequestsAreKnown, PrincipalOf, Inside
  <1>7. ReadingsAreRecent'
    BY <1>3, <1>4, ReadingsStayRecent DEF IInv
  <1>8. DequesFollow' /\ AttemptsWithinRate'
    BY <1>3, TrafficUnchanged DEF IInv
  <1>9. SlotsAreExact'
    <2>1. \A p \in Principals : w \in Occupying(p)' <=> w \in Occupying(p)
      BY <1>3, <1>4 DEF Occupying
    <2>2. QED
      BY <1>3, <1>4, <2>1, SlotsUnchanged DEF IInv
  <1>10. QED
    BY <1>5, <1>6, <1>7, <1>8, <1>9 DEF IInv

(* The failure limiter lets the request pass, or answers it.               *)
LEMMA CheckKeeps ==
    ASSUME IInv, NEW w \in Workers, Check(w)
    PROVE  IInv'
  <1> DEFINE times == Pruned(failures[PeerOf(w)], reading[w], FailureWindow)
  <1>1. /\ pc[w] = "checking"
        /\ failures' = [failures EXCEPT ![PeerOf(w)] = times]
        /\ UNCHANGED <<stamps, active, rejections, attempts>>
        /\ Answer(w) \/ GoOn(w, "authenticating")
    BY DEF Check
  <1>2. times \in Times
    <2>1. PeerOf(w) \in Peers
      BY <1>1 DEF IInv, RequestsAreKnown, PeerOf, Request
    <2>2. failures[PeerOf(w)] \in Times /\ reading[w] \in Int /\ FailureWindow \in Int
      BY <2>1, LimitAssumption DEF IInv, TypeOK, Clocks
    <2>3. QED
      BY <2>2, PrunedIsTimes
  <1>3. /\ clock' \in Clocks
        /\ pc' \in [Workers -> Waiting \cup {"idle", "authenticating", "serving"}]
        /\ request' \in [Workers -> Request \cup {NoRequest}]
        /\ reading' \in [Workers -> 0..clock']
        /\ RequestsAreKnown' /\ ReadingsAreRecent'
        /\ pc'[w] \in {"idle", "authenticating"} /\ UNCHANGED clock
        /\ \A v \in Workers \ {w} : pc'[v] = pc[v] /\ request'[v] = request[v]
    BY <1>1, ThreadAnswers, ThreadMoves
  <1>4. TypeOK'
    <2>1. failures' \in [Peers -> Times]
      BY <1>1, <1>2 DEF IInv, TypeOK
    <2>2. QED
      BY <1>1, <1>3, <2>1 DEF IInv, TypeOK
  <1>5. DequesFollow' /\ AttemptsWithinRate'
    BY <1>1, <1>3, TrafficUnchanged DEF IInv
  <1>6. SlotsAreExact'
    <2>1. \A p \in Principals : w \in Occupying(p)' <=> w \in Occupying(p)
      BY <1>1, <1>3 DEF Occupying
    <2>2. QED
      BY <1>1, <1>3, <2>1, SlotsUnchanged DEF IInv
  <1>7. QED
    BY <1>3, <1>4, <1>5, <1>6 DEF IInv

(* The credentials are looked at.                                          *)
LEMMA AuthenticateKeeps ==
    ASSUME IInv, NEW w \in Workers, Authenticate(w)
    PROVE  IInv'
  <1> DEFINE stage == IF PrincipalOf(w) = Rejected THEN "failing" ELSE "acquiring"
  <1>1. pc[w] = "authenticating" /\ Await(w, stage)
    BY DEF Authenticate
  <1>2. stage \in Waiting /\ (stage \in Inside => PrincipalOf(w) \in Principals)
    BY <1>1 DEF IInv, RequestsAreKnown, PrincipalOf, Request, Waiting, Inside
  <1>3. stage \in {"failing", "acquiring"}
    OBVIOUS
  <1> HIDE DEF stage
  <1>4. /\ clock' \in Clocks
        /\ pc' \in [Workers -> Waiting \cup {"idle", "authenticating", "serving"}]
        /\ request' \in [Workers -> Request \cup {NoRequest}]
        /\ reading' \in [Workers -> 0..clock']
        /\ RequestsAreKnown' /\ ReadingsAreRecent'
        /\ pc'[w] = stage /\ UNCHANGED <<clock, request, limiters>>
        /\ \A v \in Workers \ {w} : pc'[v] = pc[v] /\ request'[v] = request[v]
    BY <1>1, <1>2, ThreadAwaits
  <1>5. UNCHANGED <<failures, stamps, active, rejections, attempts>>
    BY <1>4 DEF limiters
  <1>6. TypeOK'
    BY <1>4, <1>5 DEF IInv, TypeOK
  <1>7. DequesFollow' /\ AttemptsWithinRate'
    BY <1>4, <1>5, TrafficUnchanged DEF IInv
  <1>8. SlotsAreExact'
    <2>1. \A p \in Principals : w \in Occupying(p)' <=> w \in Occupying(p)
      BY <1>1, <1>3, <1>4 DEF Occupying
    <2>2. QED
      BY <1>4, <1>5, <2>1, SlotsUnchanged DEF IInv
  <1>9. QED
    BY <1>4, <1>6, <1>7, <1>8 DEF IInv

(* A failure is recorded, and perhaps another peer's are forgotten.        *)
LEMMA RecordFailureKeeps ==
    ASSUME IInv, NEW w \in Workers, RecordFailure(w)
    PROVE  IInv'
  <1> DEFINE peer == PeerOf(w)
             Prune(p) == Pruned(failures[p], reading[w], FailureWindow)
             full == /\ failures[peer] = <<>>
                     /\ Cardinality(Tracked(failures)) >= MaxTracked
             kept == [p \in Peers |-> IF full \/ p = peer THEN Prune(p)
                                      ELSE failures[p]]
  <1>1. /\ pc[w] = "failing" /\ Answer(w)
        /\ UNCHANGED <<stamps, active, attempts>>
    BY DEF RecordFailure
  <1>2. PICK evicted :
            /\ failures' = [p \in Peers |->
                  IF p \in evicted THEN <<>>
                  ELSE IF p = peer THEN Append(kept[p], reading[w])
                  ELSE kept[p]]
            /\ rejections' = [p \in Peers |->
                  IF p \in evicted THEN <<>>
                  ELSE IF p = peer THEN Append(rejections[p], clock)
                  ELSE rejections[p]]
    BY DEF RecordFailure
  <1>3. /\ clock \in Clocks /\ reading[w] \in Clocks
        /\ reading[w] \in Int /\ FailureWindow \in Int
    BY LimitAssumption DEF IInv, TypeOK, Clocks
  <1>4. \A p \in Peers : kept[p] \in Times /\ rejections[p] \in Times
    <2> SUFFICES ASSUME NEW p \in Peers
                 PROVE  kept[p] \in Times /\ rejections[p] \in Times
      OBVIOUS
    <2>1. failures[p] \in Times /\ rejections[p] \in Times
      BY DEF IInv, TypeOK
    <2>2. Prune(p) \in Times
      BY <1>3, <2>1, PrunedIsTimes
    <2>3. kept[p] = Prune(p) \/ kept[p] = failures[p]
      OBVIOUS
    <2>4. QED
      BY <2>1, <2>2, <2>3
  <1> HIDE DEF kept
  <1>5. failures' \in [Peers -> Times] /\ rejections' \in [Peers -> Times]
    <2>1. <<>> \in Times
      BY DEF Times
    <2>2. \A p \in Peers : /\ Append(kept[p], reading[w]) \in Times
                           /\ Append(rejections[p], clock) \in Times
      BY <1>3, <1>4 DEF Times
    <2>3. QED
      BY <1>2, <1>4, <2>1, <2>2
  <1>6. /\ clock' \in Clocks
        /\ pc' \in [Workers -> Waiting \cup {"idle", "authenticating", "serving"}]
        /\ request' \in [Workers -> Request \cup {NoRequest}]
        /\ reading' \in [Workers -> 0..clock']
        /\ RequestsAreKnown' /\ ReadingsAreRecent'
        /\ pc'[w] = "idle" /\ UNCHANGED clock
        /\ \A v \in Workers \ {w} : pc'[v] = pc[v] /\ request'[v] = request[v]
    BY <1>1, ThreadAnswers
  <1>7. TypeOK'
    BY <1>1, <1>5, <1>6 DEF IInv, TypeOK
  <1>8. DequesFollow' /\ AttemptsWithinRate'
    BY <1>1, <1>6, TrafficUnchanged DEF IInv
  <1>9. SlotsAreExact'
    <2>1. \A p \in Principals : w \in Occupying(p)' <=> w \in Occupying(p)
      BY <1>1, <1>6 DEF Occupying
    <2>2. QED
      BY <1>1, <1>6, <2>1, SlotsUnchanged DEF IInv
  <1>10. QED
    BY <1>6, <1>7, <1>8, <1>9 DEF IInv

(* Both refusals of the traffic limiter.                                   *)
LEMMA RateExceededKeeps ==
    ASSUME IInv, NEW w \in Workers, RateExceeded(w)
    PROVE  IInv'
  <1>1. /\ pc[w] = "acquiring" /\ Answer(w)
        /\ stamps' = [stamps EXCEPT ![PrincipalOf(w)] = Recent(w)]
        /\ UNCHANGED <<failures, active, rejections, attempts>>
    BY DEF RateExceeded
  <1>2. /\ clock' \in Clocks
        /\ pc' \in [Workers -> Waiting \cup {"idle", "authenticating", "serving"}]
        /\ request' \in [Workers -> Request \cup {NoRequest}]
        /\ reading' \in [Workers -> 0..clock']
        /\ RequestsAreKnown' /\ ReadingsAreRecent'
        /\ pc'[w] = "idle" /\ UNCHANGED clock
        /\ \A v \in Workers \ {w} : pc'[v] = pc[v] /\ request'[v] = request[v]
    BY <1>1, ThreadAnswers
  <1>3. stamps' \in [Principals -> Times] /\ DequesFollow' /\ AttemptsWithinRate'
    BY <1>1, <1>2, StampsArePruned
  <1>4. TypeOK'
    BY <1>1, <1>2, <1>3 DEF IInv, TypeOK
  <1>5. SlotsAreExact'
    <2>1. \A p \in Principals : w \in Occupying(p)' <=> w \in Occupying(p)
      BY <1>1, <1>2 DEF Occupying
    <2>2. QED
      BY <1>1, <1>2, <2>1, SlotsUnchanged DEF IInv
  <1>6. QED
    BY <1>2, <1>3, <1>4, <1>5 DEF IInv

LEMMA NoSlotKeeps ==
    ASSUME IInv, NEW w \in Workers, NoSlot(w)
    PROVE  IInv'
  <1>1. /\ pc[w] = "acquiring" /\ Answer(w) /\ Count(w)
        /\ UNCHANGED <<failures, active, rejections>>
    BY DEF NoSlot, Count
  <1>2. /\ clock' \in Clocks
        /\ pc' \in [Workers -> Waiting \cup {"idle", "authenticating", "serving"}]
        /\ request' \in [Workers -> Request \cup {NoRequest}]
        /\ reading' \in [Workers -> 0..clock']
        /\ RequestsAreKnown' /\ ReadingsAreRecent'
        /\ pc'[w] = "idle" /\ UNCHANGED clock
        /\ \A v \in Workers \ {w} : pc'[v] = pc[v] /\ request'[v] = request[v]
    BY <1>1, ThreadAnswers
  <1>3. /\ stamps' \in [Principals -> Times] /\ attempts' \in [Principals -> Times]
        /\ DequesFollow' /\ AttemptsWithinRate'
    BY <1>1, <1>2, AttemptIsCounted
  <1>4. TypeOK'
    BY <1>1, <1>2, <1>3 DEF IInv, TypeOK
  <1>5. SlotsAreExact'
    <2>1. \A p \in Principals : w \in Occupying(p)' <=> w \in Occupying(p)
      BY <1>1, <1>2 DEF Occupying
    <2>2. QED
      BY <1>1, <1>2, <2>1, SlotsUnchanged DEF IInv
  <1>6. QED
    BY <1>2, <1>3, <1>4, <1>5 DEF IInv

(* A slot is taken.                                                        *)
LEMMA EnterKeeps ==
    ASSUME IInv, NEW w \in Workers, Enter(w)
    PROVE  IInv'
  <1> DEFINE q == PrincipalOf(w)
  <1>1. /\ pc[w] = "acquiring" /\ GoOn(w, "serving") /\ Count(w)
        /\ active[q] < MaxConcurrent
        /\ active' = [active EXCEPT ![q] = @ + 1]
        /\ UNCHANGED <<failures, rejections>>
    <2>1. /\ pc[w] = "acquiring" /\ GoOn(w, "serving") /\ Count(w)
          /\ ~SlotsTaken(q)
          /\ active' = [active EXCEPT ![q] = @ + 1]
          /\ UNCHANGED <<failures, rejections>>
      BY DEF Enter, Count
    <2>2. active[q] \in Int /\ MaxConcurrent \in Int
      BY <2>1, LimitAssumption DEF IInv, TypeOK, RequestsAreKnown, Inside
    <2>3. QED
      BY <2>1, <2>2 DEF SlotsTaken
  <1>2. q \in Principals
    BY <1>1 DEF IInv, RequestsAreKnown, Inside
  <1>3. active[q] + 1 \in 0..MaxConcurrent /\ active[q] \in Nat
    BY <1>1, <1>2, LimitAssumption DEF IInv, TypeOK
  <1>4. /\ clock' \in Clocks
        /\ pc' \in [Workers -> Waiting \cup {"idle", "authenticating", "serving"}]
        /\ request' \in [Workers -> Request \cup {NoRequest}]
        /\ reading' \in [Workers -> 0..clock']
        /\ RequestsAreKnown' /\ ReadingsAreRecent'
        /\ pc'[w] = "serving" /\ UNCHANGED <<clock, request>>
        /\ \A v \in Workers \ {w} : pc'[v] = pc[v] /\ request'[v] = request[v]
    BY <1>1, <1>2, ThreadMoves
  <1>5. /\ stamps' \in [Principals -> Times] /\ attempts' \in [Principals -> Times]
        /\ DequesFollow' /\ AttemptsWithinRate'
    BY <1>1, <1>4, AttemptIsCounted
  <1>6. TypeOK'
    <2>1. active' \in [Principals -> 0..MaxConcurrent]
      BY <1>1, <1>2, <1>3 DEF IInv, TypeOK
    <2>2. QED
      BY <1>1, <1>4, <1>5, <2>1 DEF IInv, TypeOK
  <1>7. SlotsAreExact'
    <2> SUFFICES ASSUME NEW p \in Principals
                 PROVE  /\ active'[p] = Cardinality(Occupying(p)')
                        /\ active'[p] <= MaxConcurrent
      BY DEF SlotsAreExact
    <2>1. active'[p] = IF p = q THEN active[q] + 1 ELSE active[p]
      BY <1>1 DEF IInv, TypeOK
    <2>2. Occupying(p)' \ {w} = Occupying(p) \ {w}
      BY <1>4, OthersStay
    <2>3. w \notin Occupying(p) /\ (w \in Occupying(p)' <=> p = q)
      BY <1>1, <1>4 DEF Occupying, PrincipalOf
    <2>4. active[p] = Cardinality(Occupying(p)) /\ active[p] <= MaxConcurrent
      BY DEF IInv, SlotsAreExact
    <2>5. CASE p = q
      <3>1. Occupying(p)' = Occupying(p) \cup {w}
        BY <2>2, <2>3, <2>5
      <3>2. Cardinality(Occupying(p) \cup {w}) = Cardinality(Occupying(p)) + 1
        BY <2>3, OccupyingIsFinite, FS_AddElement
      <3>3. QED
        BY <1>3, <2>1, <2>4, <2>5, <3>1, <3>2
    <2>6. CASE p # q
      <3>1. Occupying(p)' = Occupying(p)
        BY <2>2, <2>3, <2>6
      <3>2. QED
        BY <2>1, <2>4, <2>6, <3>1
    <2>7. QED
      BY <2>5, <2>6
  <1>8. QED
    BY <1>4, <1>5, <1>6, <1>7 DEF IInv

(* The request has been served, and the slot is given back.                *)
LEMMA FinishKeeps ==
    ASSUME IInv, NEW w \in Workers, Finish(w)
    PROVE  IInv'
  <1>1. pc[w] = "serving" /\ Await(w, "finishing")
    BY DEF Finish
  <1>2. PrincipalOf(w) \in Principals /\ "finishing" \in Waiting
    BY <1>1 DEF IInv, RequestsAreKnown, Inside, Waiting
  <1>3. /\ clock' \in Clocks
        /\ pc' \in [Workers -> Waiting \cup {"idle", "authenticating", "serving"}]
        /\ request' \in [Workers -> Request \cup {NoRequest}]
        /\ reading' \in [Workers -> 0..clock']
        /\ RequestsAreKnown' /\ ReadingsAreRecent'
        /\ pc'[w] = "finishing" /\ UNCHANGED <<clock, request, limiters>>
        /\ \A v \in Workers \ {w} : pc'[v] = pc[v] /\ request'[v] = request[v]
    BY <1>1, <1>2, ThreadAwaits
  <1>4. UNCHANGED <<failures, stamps, active, rejections, attempts>>
    BY <1>3 DEF limiters
  <1>5. TypeOK'
    BY <1>3, <1>4 DEF IInv, TypeOK
  <1>6. DequesFollow' /\ AttemptsWithinRate'
    BY <1>3, <1>4, TrafficUnchanged DEF IInv
  <1>7. SlotsAreExact'
    <2>1. \A p \in Principals : w \in Occupying(p)' <=> w \in Occupying(p)
      BY <1>1, <1>3 DEF Occupying, PrincipalOf
    <2>2. QED
      BY <1>3, <1>4, <2>1, SlotsUnchanged DEF IInv
  <1>8. QED
    BY <1>3, <1>5, <1>6, <1>7 DEF IInv

LEMMA LeaveKeeps ==
    ASSUME IInv, NEW w \in Workers, Leave(w)
    PROVE  IInv'
  <1> DEFINE q == PrincipalOf(w)
  <1>1. /\ pc[w] = "finishing" /\ Answer(w)
        /\ stamps' = [stamps EXCEPT ![q] = Recent(w)]
        /\ active' = [active EXCEPT ![q] = IF @ = 0 THEN 0 ELSE @ - 1]
        /\ UNCHANGED <<failures, rejections, attempts>>
    BY DEF Leave
  <1>2. q \in Principals
    BY <1>1 DEF IInv, RequestsAreKnown, Inside
  <1>3. active[q] \in 0..MaxConcurrent /\ MaxConcurrent \in Nat
    BY <1>2, LimitAssumption DEF IInv, TypeOK
  <1>4. /\ clock' \in Clocks
        /\ pc' \in [Workers -> Waiting \cup {"idle", "authenticating", "serving"}]
        /\ request' \in [Workers -> Request \cup {NoRequest}]
        /\ reading' \in [Workers -> 0..clock']
        /\ RequestsAreKnown' /\ ReadingsAreRecent'
        /\ pc'[w] = "idle" /\ UNCHANGED clock
        /\ \A v \in Workers \ {w} : pc'[v] = pc[v] /\ request'[v] = request[v]
    BY <1>1, ThreadAnswers
  <1>5. stamps' \in [Principals -> Times] /\ DequesFollow' /\ AttemptsWithinRate'
    BY <1>1, <1>4, StampsArePruned
  <1>6. TypeOK'
    <2>1. (IF active[q] = 0 THEN 0 ELSE active[q] - 1) \in 0..MaxConcurrent
      BY <1>3
    <2>2. active' \in [Principals -> 0..MaxConcurrent]
      BY <1>1, <2>1 DEF IInv, TypeOK
    <2>3. QED
      BY <1>1, <1>4, <1>5, <2>2 DEF IInv, TypeOK
  <1>7. SlotsAreExact'
    <2> SUFFICES ASSUME NEW p \in Principals
                 PROVE  /\ active'[p] = Cardinality(Occupying(p)')
                        /\ active'[p] <= MaxConcurrent
      BY DEF SlotsAreExact
    <2>1. active'[p] = IF p = q THEN IF active[q] = 0 THEN 0 ELSE active[q] - 1
                       ELSE active[p]
      BY <1>1, <1>2 DEF IInv, TypeOK
    <2>2. Occupying(p)' \ {w} = Occupying(p) \ {w}
      BY <1>4, OthersStay
    <2>3. w \notin Occupying(p)' /\ (w \in Occupying(p) <=> p = q)
      BY <1>1, <1>4 DEF Occupying, PrincipalOf
    <2>4. active[p] = Cardinality(Occupying(p)) /\ active[p] <= MaxConcurrent
      BY DEF IInv, SlotsAreExact
    <2>5. CASE p = q
      <3>1. Occupying(p)' = Occupying(p) \ {w}
        BY <2>2, <2>3
      <3>2. /\ Cardinality(Occupying(p) \ {w}) = Cardinality(Occupying(p)) - 1
            /\ Cardinality(Occupying(p) \ {w}) \in Nat
        <4>1. w \in Occupying(p)
          BY <2>3, <2>5
        <4>2. /\ IsFiniteSet(Occupying(p) \ {w})
              /\ Cardinality(Occupying(p) \ {w}) = Cardinality(Occupying(p)) - 1
          BY <4>1, OccupyingIsFinite, FS_RemoveElement
        <4>3. QED
          BY <4>2, FS_CardinalityType
      <3>3. QED
        BY <1>3, <2>1, <2>4, <2>5, <3>1, <3>2
    <2>6. CASE p # q
      <3>1. Occupying(p)' = Occupying(p)
        BY <2>2, <2>3, <2>6
      <3>2. QED
        BY <2>1, <2>4, <2>6, <3>1
    <2>7. QED
      BY <2>5, <2>6
  <1>8. QED
    BY <1>4, <1>5, <1>6, <1>7 DEF IInv

(* Time passes.                                                            *)
LEMMA TickKeeps ==
    ASSUME IInv, Tick
    PROVE  IInv'
  <1>1. /\ clock < MaxClock /\ clock' = clock + 1
        /\ \A w \in Workers : pc[w] \in Waiting => clock < reading[w] + MaxDelay
        /\ UNCHANGED <<pc, request, reading, failures, stamps, active,
                       rejections, attempts>>
    BY DEF Tick, limiters
  <1>2. /\ clock \in Clocks /\ clock' \in Clocks /\ clock <= clock'
        /\ clock \in Nat /\ MaxDelay \in Nat /\ 0..clock \subseteq 0..clock'
    BY <1>1, LimitAssumption DEF IInv, TypeOK, Clocks
  <1>3. reading' \in [Workers -> 0..clock']
    BY <1>1, <1>2 DEF IInv, TypeOK
  <1>4. TypeOK'
    BY <1>1, <1>2, <1>3 DEF IInv, TypeOK
  <1>5. RequestsAreKnown'
    BY <1>1 DEF IInv, RequestsAreKnown, PrincipalOf
  <1>6. ReadingsAreRecent'
    BY <1>1, <1>2 DEF IInv, TypeOK, ReadingsAreRecent
  <1>7. DequesFollow'
    <2> SUFFICES ASSUME NEW p \in Principals
                 PROVE  /\ Follows(attempts[p], stamps[p], clock', RateWindow)
                        /\ Len(stamps[p]) <= RateLimit
      BY <1>1 DEF DequesFollow
    <2>1. /\ attempts[p] \in Times /\ stamps[p] \in Times
          /\ Follows(attempts[p], stamps[p], clock, RateWindow)
          /\ Len(stamps[p]) <= RateLimit /\ RateWindow \in Nat
      BY LimitAssumption DEF IInv, TypeOK, DequesFollow
    <2>2. QED
      BY <1>2, <2>1, TimeFollows
  <1>8. AttemptsWithinRate'
    BY <1>1 DEF IInv, AttemptsWithinRate
  <1>9. SlotsAreExact'
    BY <1>1 DEF IInv, SlotsAreExact, Occupying, PrincipalOf
  <1>10. QED
    BY <1>4, <1>5, <1>6, <1>7, <1>8, <1>9 DEF IInv

LEMMA InitHolds == Init => IInv
  <1> SUFFICES ASSUME Init PROVE IInv
    OBVIOUS
  <1>1. /\ MaxClock \in Nat /\ RateLimit \in Nat /\ MaxConcurrent \in Nat
        /\ MaxDelay \in Nat
    BY LimitAssumption
  <1>2. <<>> \in Times /\ Len(<<>>) = 0 /\ DOMAIN <<>> = {}
    BY DEF Times
  <1>3. TypeOK
    BY <1>1, <1>2 DEF Init, TypeOK, Clocks, Waiting
  <1>4. RequestsAreKnown /\ ReadingsAreRecent
    BY DEF Init, RequestsAreKnown, ReadingsAreRecent, Inside, Waiting
  <1>5. DequesFollow
    BY <1>1, <1>2 DEF Init, DequesFollow, Follows
  <1>6. AttemptsWithinRate
    <2> SUFFICES ASSUME NEW p \in Principals, NEW end \in Clocks
                 PROVE  Cardinality(Within(attempts[p],
                            end - (RateWindow - MaxDelay), end)) <= RateLimit
      BY DEF AttemptsWithinRate
    <2>1. attempts[p] = <<>>
      BY DEF Init
    <2>2. Within(attempts[p], end - (RateWindow - MaxDelay), end) = {}
      BY <1>2, <2>1 DEF Within
    <2>3. QED
      BY <1>1, <2>2, FS_EmptySet
  <1>7. SlotsAreExact
    <2> SUFFICES ASSUME NEW p \in Principals
                 PROVE  /\ active[p] = Cardinality(Occupying(p))
                        /\ active[p] <= MaxConcurrent
      BY DEF SlotsAreExact
    <2>1. active[p] = 0 /\ Occupying(p) = {}
      BY DEF Init, Occupying
    <2>2. QED
      BY <1>1, <2>1, FS_EmptySet
  <1>8. QED
    BY <1>3, <1>4, <1>5, <1>6, <1>7 DEF IInv

LEMMA NextKeeps == IInv /\ [Next]_vars => IInv'
  <1> SUFFICES ASSUME IInv, [Next]_vars PROVE IInv'
    OBVIOUS
  <1>1. ASSUME NEW w \in Workers, NEW peer \in Peers,
               NEW who \in Principals \cup {Rejected}, Arrive(w, peer, who)
        PROVE  IInv'
    BY <1>1, ArriveKeeps
  <1>2. ASSUME NEW w \in Workers, Check(w) \/ Authenticate(w) \/ RecordFailure(w)
        PROVE  IInv'
    BY <1>2, CheckKeeps, AuthenticateKeeps, RecordFailureKeeps
  <1>3. ASSUME NEW w \in Workers,
               RateExceeded(w) \/ NoSlot(w) \/ Enter(w) \/ Finish(w) \/ Leave(w)
        PROVE  IInv'
    BY <1>3, RateExceededKeeps, NoSlotKeeps, EnterKeeps, FinishKeeps, LeaveKeeps
  <1>4. CASE Tick
    BY <1>4, TickKeeps
  <1>5. CASE UNCHANGED vars
    <2>1. UNCHANGED <<clock, pc, request, reading, failures, stamps, active,
                      rejections, attempts>>
      BY <1>5 DEF vars, limiters
    <2>2. TypeOK' /\ RequestsAreKnown' /\ ReadingsAreRecent'
      BY <2>1 DEF IInv, TypeOK, RequestsAreKnown, ReadingsAreRecent, PrincipalOf
    <2>3. DequesFollow' /\ AttemptsWithinRate'
      BY <2>1, TrafficUnchanged DEF IInv
    <2>4. SlotsAreExact'
      BY <2>1 DEF IInv, SlotsAreExact, Occupying, PrincipalOf
    <2>5. QED
      BY <2>2, <2>3, <2>4 DEF IInv
  <1>6. QED
    BY <1>1, <1>2, <1>3, <1>4, <1>5 DEF Next

(***************************************************************************)
(* The failure limiter.                                                    *)
(*                                                                         *)
(* check leaves its lock before the credentials are looked at, so the      *)
(* requests that passed it and may yet fail count against the budget too.  *)
(***************************************************************************)
InFlight(p) ==
    {w \in Workers : pc[w] \in {"authenticating", "failing"} /\ PeerOf(w) = p}

FailureBudget == MaxFailures + Cardinality(Workers) - 1

FailuresFollow ==
    \A p \in Peers : Follows(rejections[p], failures[p], clock, FailureWindow)

RoomForInFlight ==
    \A p \in Peers : Len(failures[p]) + Cardinality(InFlight(p)) <= FailureBudget

FInv ==
    /\ FailuresFollow
    /\ RoomForInFlight
    /\ FailuresWithinBudget
    /\ TableIsBounded

LEMMA WorkersAreCounted ==
    /\ IsFiniteSet(Workers) /\ Cardinality(Workers) \in Nat
    /\ MaxFailures \in Nat \ {0} /\ FailureBudget \in Nat
    /\ FailureWindow \in Nat /\ MaxTracked \in Nat \ {0} /\ MaxDelay \in Nat
  BY LimitAssumption, FS_CardinalityType DEF FailureBudget

LEMMA InFlightIsFinite ==
    ASSUME NEW p
    PROVE  /\ IsFiniteSet(InFlight(p))
           /\ Cardinality(InFlight(p)) \in Nat
           /\ Cardinality(InFlight(p)) <= Cardinality(Workers)
  BY WorkersAreCounted, FS_Subset, FS_CardinalityType DEF InFlight

LEMMA TrackedIsFinite ==
    ASSUME NEW table
    PROVE  IsFiniteSet(Tracked(table)) /\ Cardinality(Tracked(table)) \in Nat
  BY LimitAssumption, FS_Subset, FS_CardinalityType DEF Tracked

(* A step that leaves the table alone and lets no further request pass.    *)
LEMMA TableUntouched ==
    ASSUME TypeOK, FInv, UNCHANGED <<clock, failures, rejections>>,
           NEW w \in Workers,
           \A v \in Workers \ {w} : pc'[v] = pc[v] /\ request'[v] = request[v],
           \A p \in Peers : w \in InFlight(p)' => w \in InFlight(p)
    PROVE  FInv'
  <1>1. FailuresFollow' /\ FailuresWithinBudget' /\ TableIsBounded'
    BY DEF FInv, FailuresFollow, FailuresWithinBudget, TableIsBounded, Tracked
  <1>2. ASSUME NEW p \in Peers
        PROVE  Len(failures'[p]) + Cardinality(InFlight(p)') <= FailureBudget
    <2>1. InFlight(p)' \subseteq InFlight(p)
      <3> SUFFICES ASSUME NEW v \in InFlight(p)' PROVE v \in InFlight(p)
        OBVIOUS
      <3>1. CASE v = w
        BY <3>1
      <3>2. CASE v # w
        BY <3>2 DEF InFlight, PeerOf
      <3>3. QED
        BY <3>1, <3>2
    <2>2. /\ Cardinality(InFlight(p)') <= Cardinality(InFlight(p))
          /\ Cardinality(InFlight(p)') \in Nat /\ Cardinality(InFlight(p)) \in Nat
      BY <2>1, InFlightIsFinite, FS_Subset, FS_CardinalityType
    <2>3. Len(failures[p]) \in Nat /\ FailureBudget \in Nat
      BY WorkersAreCounted DEF TypeOK, Times
    <2>4. Len(failures[p]) + Cardinality(InFlight(p)) <= FailureBudget
      BY DEF FInv, RoomForInFlight
    <2>5. failures'[p] = failures[p]
      OBVIOUS
    <2>6. QED
      BY <2>2, <2>3, <2>4, <2>5
  <1>3. RoomForInFlight'
    BY <1>2 DEF RoomForInFlight, FailureBudget
  <1>4. QED
    BY <1>1, <1>3 DEF FInv

(* What a thread finds in a deque of failures under the lock.              *)
LEMMA PrunedFailuresFollow ==
    ASSUME IInv, FInv, NEW w \in Workers, NEW p \in Peers
    PROVE  LET times == Pruned(failures[p], reading[w], FailureWindow) IN
           /\ times \in Times
           /\ Len(times) \in Nat /\ Len(times) <= Len(failures[p])
           /\ failures[p] = <<>> => times = <<>>
           /\ Follows(rejections[p], times, clock, FailureWindow)
  <1> DEFINE times == Pruned(failures[p], reading[w], FailureWindow)
  <1>1. /\ failures[p] \in Times /\ rejections[p] \in Times
        /\ clock \in Clocks /\ reading[w] \in 0..clock /\ FailureWindow \in Nat
    BY WorkersAreCounted DEF IInv, TypeOK
  <1>2. Follows(rejections[p], failures[p], clock, FailureWindow)
    BY DEF FInv, FailuresFollow
  <1>3. /\ times \in Times /\ Len(times) <= Len(failures[p])
        /\ Follows(rejections[p], times, clock, FailureWindow)
    BY <1>1, <1>2, PruningFollows
  <1> HIDE DEF times
  <1>4. Len(times) \in Nat
    BY <1>3 DEF Times
  <1>5. failures[p] = <<>> => times = <<>>
    <2> SUFFICES ASSUME failures[p] = <<>> PROVE times = <<>>
      OBVIOUS
    <2>1. Len(times) = 0
      BY <1>3, <1>4
    <2>2. QED
      BY <1>3, <2>1, EmptySeq DEF Times
  <1>6. QED
    BY <1>3, <1>4, <1>5 DEF times

(* check prunes the deque, and lets a request pass only below the limit.   *)
LEMMA CheckKeepsTable ==
    ASSUME IInv, FInv, NEW w \in Workers, Check(w)
    PROVE  FInv'
  <1> DEFINE q == PeerOf(w)
             times == Pruned(failures[q], reading[w], FailureWindow)
  <1>1. /\ pc[w] = "checking"
        /\ failures' = [failures EXCEPT ![q] = times]
        /\ UNCHANGED <<clock, rejections>>
        /\ IF Exhausted(times) THEN Answer(w) ELSE GoOn(w, "authenticating")
    BY DEF Check, Answer, GoOn
  <1>2. /\ pc'[w] = (IF Exhausted(times) THEN "idle" ELSE "authenticating")
        /\ \A v \in Workers \ {w} : pc'[v] = pc[v] /\ request'[v] = request[v]
        /\ ~Exhausted(times) => request' = request
    BY <1>1 DEF Answer, GoOn, IInv, TypeOK
  <1>3. q \in Peers
    BY <1>1 DEF IInv, RequestsAreKnown, PeerOf, Request
  <1>4. /\ times \in Times
        /\ Len(times) \in Nat /\ Len(times) <= Len(failures[q])
        /\ failures[q] = <<>> => times = <<>>
        /\ Follows(rejections[q], times, clock, FailureWindow)
    BY <1>3, PrunedFailuresFollow
  <1> HIDE DEF times
  <1>5. \A p \in Peers : failures'[p] = IF p = q THEN times ELSE failures[p]
    BY <1>1 DEF IInv, TypeOK
  <1>6. FailuresFollow'
    BY <1>1, <1>4, <1>5 DEF FInv, FailuresFollow
  <1>7. FailuresWithinBudget'
    BY <1>1 DEF FInv, FailuresWithinBudget
  <1>8. TableIsBounded'
    <2>1. Tracked(failures') \subseteq Tracked(failures)
      BY <1>4, <1>5 DEF Tracked
    <2>2. Cardinality(Tracked(failures')) <= Cardinality(Tracked(failures))
      BY <2>1, TrackedIsFinite, FS_Subset
    <2>3. /\ Cardinality(Tracked(failures)) \in Nat
          /\ Cardinality(Tracked(failures')) \in Nat /\ MaxTracked \in Nat
      BY TrackedIsFinite, WorkersAreCounted
    <2>4. QED
      BY <2>2, <2>3 DEF FInv, TableIsBounded
  <1>9. RoomForInFlight'
    <2> SUFFICES ASSUME NEW p \in Peers
                 PROVE  Len(failures'[p]) + Cardinality(InFlight(p)') <= FailureBudget
      BY DEF RoomForInFlight, FailureBudget
    <2>1. /\ Len(failures[p]) \in Nat /\ Len(failures[p]) + Cardinality(InFlight(p)) <= FailureBudget
          /\ Cardinality(InFlight(p)) \in Nat /\ FailureBudget \in Nat
      BY InFlightIsFinite, WorkersAreCounted DEF IInv, TypeOK, Times, FInv, RoomForInFlight
    <2>2. CASE p = q /\ ~Exhausted(times)
      <3>1. InFlight(p)' \subseteq Workers
        BY DEF InFlight
      <3>2. /\ Cardinality(InFlight(p)') <= Cardinality(Workers)
            /\ Cardinality(InFlight(p)') \in Nat
        BY <3>1, WorkersAreCounted, FS_Subset, FS_CardinalityType
      <3>3. Len(failures'[p]) = Len(times) /\ Len(times) < MaxFailures
        BY <1>4, <1>5, <2>2, WorkersAreCounted DEF Exhausted
      <3>4. Len(times) + Cardinality(InFlight(p)') <= MaxFailures + Cardinality(Workers) - 1
        BY <1>4, <3>2, <3>3, WorkersAreCounted
      <3>5. QED
        BY <3>3, <3>4 DEF FailureBudget
    <2>3. CASE ~(p = q /\ ~Exhausted(times))
      <3>1. w \notin InFlight(p)'
        BY <1>2, <2>3 DEF InFlight, PeerOf
      <3>2. InFlight(p)' \subseteq InFlight(p)
        BY <1>2, <3>1 DEF InFlight, PeerOf
      <3>3. /\ Cardinality(InFlight(p)') <= Cardinality(InFlight(p))
            /\ Cardinality(InFlight(p)') \in Nat
        BY <3>2, InFlightIsFinite, FS_Subset, FS_CardinalityType
      <3>4. Len(failures'[p]) <= Len(failures[p]) /\ Len(failures'[p]) \in Nat
        BY <1>4, <1>5, <2>1
      <3>5. QED
        BY <2>1, <3>3, <3>4
    <2>4. QED
      BY <2>2, <2>3
  <1>10. QED
    BY <1>6, <1>7, <1>8, <1>9 DEF FInv

(* record_failure: the deques that are kept, those that are dropped.       *)
Recording(w, kept, evicted) ==
    /\ \A p \in Peers :
          /\ Len(kept[p]) <= Len(failures[p])
          /\ failures[p] = <<>> => kept[p] = <<>>
          /\ Follows(rejections[p], kept[p], clock, FailureWindow)
    /\ failures' = [p \in Peers |->
          IF p \in evicted THEN <<>>
          ELSE IF p = PeerOf(w) THEN Append(kept[p], reading[w])
          ELSE kept[p]]
    /\ rejections' = [p \in Peers |->
          IF p \in evicted THEN <<>>
          ELSE IF p = PeerOf(w) THEN Append(rejections[p], clock)
          ELSE rejections[p]]

(* One deque is dropped, when another one is needed and the table is full. *)
LEMMA FailureIsRecorded ==
    ASSUME IInv, FInv, NEW w \in Workers, RecordFailure(w)
    PROVE  /\ PeerOf(w) \in Peers
           /\ \E kept \in [Peers -> Times], evicted \in SUBSET Peers :
                /\ Recording(w, kept, evicted)
                /\ \/ PeerOf(w) \in Tracked(failures)
                   \/ Cardinality(Tracked(failures)) < MaxTracked
                   \/ Cardinality(Tracked(kept)) < MaxTracked
                   \/ \E q \in Tracked(kept) : evicted = {q}
  <1> DEFINE peer == PeerOf(w)
             Prune(p) == Pruned(failures[p], reading[w], FailureWindow)
             full == /\ failures[peer] = <<>>
                     /\ Cardinality(Tracked(failures)) >= MaxTracked
             kept == [p \in Peers |-> IF full \/ p = peer THEN Prune(p)
                                      ELSE failures[p]]
  <1>1. peer \in Peers
    BY DEF RecordFailure, IInv, RequestsAreKnown, PeerOf, Request
  <1>2. PICK evicted \in (IF full THEN Evictable(kept) ELSE {{}}) :
            /\ failures' = [p \in Peers |->
                  IF p \in evicted THEN <<>>
                  ELSE IF p = peer THEN Append(kept[p], reading[w])
                  ELSE kept[p]]
            /\ rejections' = [p \in Peers |->
                  IF p \in evicted THEN <<>>
                  ELSE IF p = peer THEN Append(rejections[p], clock)
                  ELSE rejections[p]]
    BY DEF RecordFailure
  <1>3. ASSUME NEW p \in Peers
        PROVE  /\ kept[p] \in Times
               /\ Len(kept[p]) <= Len(failures[p])
               /\ failures[p] = <<>> => kept[p] = <<>>
               /\ Follows(rejections[p], kept[p], clock, FailureWindow)
    <2>1. CASE full \/ p = peer
      <3>1. kept[p] = Prune(p)
        BY <2>1
      <3>2. QED
        BY <3>1, PrunedFailuresFollow
    <2>2. CASE ~(full \/ p = peer)
      <3>1. kept[p] = failures[p]
        BY <2>2
      <3>2. failures[p] \in Times /\ Len(failures[p]) \in Nat
        BY DEF IInv, TypeOK, Times
      <3>3. QED
        BY <3>1, <3>2 DEF FInv, FailuresFollow
    <2>3. QED
      BY <2>1, <2>2
  <1>4. kept \in [Peers -> Times]
    BY <1>3
  <1>5. /\ evicted \in SUBSET Peers
        /\ \/ peer \in Tracked(failures)
           \/ Cardinality(Tracked(failures)) < MaxTracked
           \/ Cardinality(Tracked(kept)) < MaxTracked
           \/ \E q \in Tracked(kept) : evicted = {q}
    <2> HIDE DEF kept
    <2>1. CASE ~full
      <3>1. evicted = {}
        BY <1>2, <2>1
      <3>2. peer \in Tracked(failures) \/ Cardinality(Tracked(failures)) < MaxTracked
        <4>1. Cardinality(Tracked(failures)) \in Nat /\ MaxTracked \in Nat
          BY TrackedIsFinite, WorkersAreCounted
        <4>2. CASE failures[peer] # <<>>
          BY <1>1, <4>2 DEF Tracked
        <4>3. CASE ~(Cardinality(Tracked(failures)) >= MaxTracked)
          BY <4>1, <4>3
        <4>4. QED
          BY <2>1, <4>2, <4>3
      <3>3. QED
        BY <3>1, <3>2
    <2>2. CASE full /\ Cardinality(Tracked(kept)) < MaxTracked
      BY <1>2, <2>2 DEF Evictable
    <2>3. CASE full /\ ~(Cardinality(Tracked(kept)) < MaxTracked)
      <3>1. PICK q \in Tracked(kept) : evicted = {q}
        BY <1>2, <2>3 DEF Evictable
      <3>2. QED
        BY <3>1 DEF Tracked
    <2>4. QED
      BY <2>1, <2>2, <2>3
  <1> HIDE DEF kept
  <1>6. QED
    <2>1. Recording(w, kept, evicted)
      BY <1>2, <1>3 DEF Recording
    <2>2. QED
      BY <1>1, <1>4, <1>5, <2>1

(* A full table forgets one peer before it tracks another.                 *)
LEMMA RecordingKeepsBound ==
    ASSUME IInv, FInv, NEW w \in Workers, RecordFailure(w)
    PROVE  TableIsBounded'
  <1> DEFINE peer == PeerOf(w)
  <1>1. PICK kept \in [Peers -> Times], evicted \in SUBSET Peers :
            /\ Recording(w, kept, evicted)
            /\ \/ peer \in Tracked(failures)
               \/ Cardinality(Tracked(failures)) < MaxTracked
               \/ Cardinality(Tracked(kept)) < MaxTracked
               \/ \E q \in Tracked(kept) : evicted = {q}
    BY FailureIsRecorded
  <1>2. Tracked(failures') \subseteq (Tracked(kept) \ evicted) \cup {peer}
    BY <1>1 DEF Tracked, Recording
  <1>3. Tracked(kept) \subseteq Tracked(failures)
    BY <1>1 DEF Tracked, Recording
  <1>4. /\ Cardinality(Tracked(failures)) \in Nat /\ IsFiniteSet(Tracked(failures))
        /\ Cardinality(Tracked(kept)) \in Nat /\ IsFiniteSet(Tracked(kept))
        /\ Cardinality(Tracked(failures')) \in Nat /\ IsFiniteSet(Tracked(failures'))
        /\ Cardinality(Tracked(failures)) <= MaxTracked
        /\ MaxTracked \in Nat \ {0}
    BY TrackedIsFinite, WorkersAreCounted DEF FInv, TableIsBounded
  <1>5. Cardinality(Tracked(kept)) <= Cardinality(Tracked(failures))
    BY <1>3, <1>4, FS_Subset
  <1>6. ASSUME NEW S, IsFiniteSet(S), Tracked(failures') \subseteq S \cup {peer},
               Cardinality(S) < MaxTracked
        PROVE  Cardinality(Tracked(failures')) <= MaxTracked
    <2>1. /\ IsFiniteSet(S \cup {peer}) /\ Cardinality(S) \in Nat
          /\ Cardinality(S \cup {peer}) <= Cardinality(S) + 1
      <3>1. CASE peer \in S
        <4>1. S \cup {peer} = S
          BY <3>1
        <4>2. QED
          <5>1. Cardinality(S) \in Nat
            BY <1>6, FS_CardinalityType
          <5>2. Cardinality(S) <= Cardinality(S) + 1
            BY <5>1
          <5>3. QED
            BY <1>6, <4>1, <5>1, <5>2
      <3>2. CASE peer \notin S
        <4>1. /\ IsFiniteSet(S \cup {peer})
              /\ Cardinality(S \cup {peer}) = Cardinality(S) + 1
          BY <1>6, <3>2, FS_AddElement
        <4>2. Cardinality(S) \in Nat
          BY <1>6, FS_CardinalityType
        <4>3. QED
          BY <4>1, <4>2
      <3>3. QED
        BY <3>1, <3>2
    <2>2. Cardinality(Tracked(failures')) <= Cardinality(S \cup {peer})
      BY <1>6, <2>1, FS_Subset
    <2>3. Cardinality(S \cup {peer}) \in Nat
      BY <2>1, FS_CardinalityType
    <2>4. QED
      BY <1>4, <1>6, <2>1, <2>2, <2>3
  <1>7. Cardinality(Tracked(failures')) <= MaxTracked
    <2>1. CASE peer \in Tracked(failures)
      <3>1. Tracked(failures') \subseteq Tracked(failures)
        BY <1>2, <1>3, <2>1
      <3>2. Cardinality(Tracked(failures')) <= Cardinality(Tracked(failures))
        BY <1>4, <3>1, FS_Subset
      <3>3. QED
        BY <1>4, <3>2
    <2>2. CASE Cardinality(Tracked(failures)) < MaxTracked
      BY <1>2, <1>3, <1>4, <1>6, <2>2
    <2>3. CASE Cardinality(Tracked(kept)) < MaxTracked
      BY <1>2, <1>4, <1>6, <2>3
    <2>4. CASE \E q \in Tracked(kept) : evicted = {q}
      <3>1. PICK q \in Tracked(kept) : evicted = {q}
        BY <2>4
      <3>2. /\ IsFiniteSet(Tracked(kept) \ {q})
            /\ Cardinality(Tracked(kept) \ {q}) = Cardinality(Tracked(kept)) - 1
        BY <1>4, <3>1, FS_RemoveElement
      <3>3. Cardinality(Tracked(kept) \ {q}) < MaxTracked
        BY <1>4, <1>5, <3>2
      <3>4. Tracked(failures') \subseteq (Tracked(kept) \ {q}) \cup {peer}
        BY <1>2, <3>1
      <3>5. QED
        BY <1>6, <3>2, <3>3, <3>4
    <2>5. QED
      BY <1>1, <2>1, <2>2, <2>3, <2>4
  <1>8. QED
    BY <1>7 DEF TableIsBounded

(* The failure recorded is one of those there was room for.                *)
LEMMA RecordFailureKeepsTable ==
    ASSUME IInv, FInv, NEW w \in Workers, RecordFailure(w)
    PROVE  FInv'
  <1> DEFINE peer == PeerOf(w)
  <1>1. /\ pc[w] = "failing" /\ Answer(w) /\ UNCHANGED clock
    BY DEF RecordFailure, Answer
  <1>2. PICK kept \in [Peers -> Times], evicted \in SUBSET Peers :
            Recording(w, kept, evicted)
    BY FailureIsRecorded
  <1>3. /\ clock \in Clocks /\ reading[w] \in 0..clock
        /\ clock <= reading[w] + MaxDelay /\ clock \in Int
    BY <1>1, LimitAssumption DEF IInv, TypeOK, ReadingsAreRecent, Waiting, Clocks
  <1>4. /\ pc'[w] = "idle" /\ w \notin InFlight(peer)'
        /\ \A v \in Workers \ {w} : pc'[v] = pc[v] /\ request'[v] = request[v]
        /\ w \in InFlight(peer)
    BY <1>1 DEF Answer, IInv, TypeOK, InFlight
  <1>5. ASSUME NEW p \in Peers
        PROVE  /\ Follows(rejections'[p], failures'[p], clock, FailureWindow)
               /\ Len(failures'[p]) + Cardinality(InFlight(p)') <= FailureBudget
               /\ Len(failures'[p]) \in Nat /\ Cardinality(InFlight(p)') \in Nat
    <2>1. /\ Len(failures[p]) \in Nat /\ Len(kept[p]) \in Nat
          /\ kept[p] \in Times /\ rejections[p] \in Times
          /\ Len(failures[p]) + Cardinality(InFlight(p)) <= FailureBudget
          /\ FailureBudget \in Nat /\ FailureWindow \in Nat
          /\ Len(kept[p]) <= Len(failures[p])
          /\ Follows(rejections[p], kept[p], clock, FailureWindow)
      BY <1>2, WorkersAreCounted
         DEF IInv, TypeOK, Times, FInv, RoomForInFlight, Recording
    <2>2. InFlight(p)' = InFlight(p) \ {w}
      BY <1>4 DEF InFlight, PeerOf
    <2>3. /\ Cardinality(InFlight(p)') <= Cardinality(InFlight(p))
          /\ Cardinality(InFlight(p)') \in Nat /\ Cardinality(InFlight(p)) \in Nat
      <3>1. InFlight(p)' \subseteq InFlight(p)
        BY <2>2
      <3>2. QED
        BY <3>1, InFlightIsFinite, FS_Subset, FS_CardinalityType
    <2>4. CASE p \in evicted
      <3>1. failures'[p] = <<>> /\ rejections'[p] = <<>> /\ Len(<<>>) = 0
        BY <1>2, <2>4 DEF Recording
      <3>2. Follows(<<>>, <<>>, clock, FailureWindow)
        BY DEF Follows
      <3>3. QED
        BY <2>1, <2>3, <3>1, <3>2
    <2>5. CASE p \notin evicted /\ p = peer
      <3>1. /\ failures'[p] = Append(kept[p], reading[w])
            /\ rejections'[p] = Append(rejections[p], clock)
        BY <1>2, <2>5 DEF Recording
      <3>2. Follows(rejections'[p], failures'[p], clock, FailureWindow)
        BY <1>3, <2>1, <3>1, CountingFollows
      <3>3. Len(failures'[p]) = Len(kept[p]) + 1
        BY <2>1, <3>1 DEF Times
      <3>4. /\ Cardinality(InFlight(p) \ {w}) = Cardinality(InFlight(p)) - 1
        BY <1>4, <2>5, InFlightIsFinite, FS_RemoveElement
      <3>5. QED
        BY <2>1, <2>2, <2>3, <3>2, <3>3, <3>4
    <2>6. CASE p \notin evicted /\ p # peer
      <3>1. failures'[p] = kept[p] /\ rejections'[p] = rejections[p]
        BY <1>2, <2>6 DEF Recording
      <3>2. QED
        BY <2>1, <2>3, <3>1
    <2>7. QED
      BY <2>4, <2>5, <2>6
  <1>6. FailuresFollow'
    BY <1>1, <1>5 DEF FailuresFollow
  <1>7. RoomForInFlight'
    BY <1>5 DEF RoomForInFlight, FailureBudget
  <1>8. FailuresWithinBudget'
    <2> SUFFICES ASSUME NEW p \in Peers, NEW end \in Clocks
                 PROVE  Cardinality(Within(rejections'[p],
                            end - (FailureWindow - MaxDelay), end)) <= FailureBudget
      BY DEF FailuresWithinBudget, FailureBudget
    <2>1. end \in Int
      BY LimitAssumption DEF Clocks
    <2>2. CASE clock <= end
      <3>1. rejections'[p] \in Times /\ failures'[p] \in Times
        BY RecordFailureKeeps DEF IInv, TypeOK
      <3>2. Cardinality(Within(rejections'[p],
                end - (FailureWindow - MaxDelay), end)) \in Nat
        BY <1>3, <1>5, <2>2, <3>1, WorkersAreCounted, WindowIsBounded
      <3>3. Cardinality(Within(rejections'[p],
                end - (FailureWindow - MaxDelay), end)) <= Len(failures'[p])
        BY <1>3, <1>5, <2>2, <3>1, WorkersAreCounted, WindowIsBounded
      <3>4. Len(failures'[p]) <= FailureBudget
        BY <1>5, WorkersAreCounted
      <3>5. QED
        BY <1>5, <3>2, <3>3, <3>4, WorkersAreCounted
    <2>3. CASE end < clock
      <3>1. CASE p \in evicted
        <4>1. rejections'[p] = <<>> /\ DOMAIN <<>> = {}
          BY <1>2, <3>1 DEF Recording
        <4>2. Within(rejections'[p], end - (FailureWindow - MaxDelay), end) = {}
          BY <4>1 DEF Within
        <4>3. QED
          BY <4>2, WorkersAreCounted, FS_EmptySet
      <3>2. CASE p \notin evicted
        <4> DEFINE old == rejections[p]
                   n == Len(old)
        <4>1. old \in Times /\ n \in Nat
          BY DEF IInv, TypeOK, Times
        <4>2. rejections'[p] = Append(old, clock) \/ rejections'[p] = old
          BY <1>2, <3>2 DEF Recording
        <4>3. /\ DOMAIN old = 1..n /\ DOMAIN Append(old, clock) = 1..(n + 1)
              /\ Append(old, clock)[n + 1] = clock
              /\ \A i \in 1..n : Append(old, clock)[i] = old[i]
          BY <1>3, <4>1 DEF Times
        <4>4. Within(Append(old, clock), end - (FailureWindow - MaxDelay), end)
                = Within(old, end - (FailureWindow - MaxDelay), end)
          BY <1>3, <2>1, <2>3, <4>1, <4>3 DEF Within
        <4>5. Within(rejections'[p], end - (FailureWindow - MaxDelay), end)
                = Within(old, end - (FailureWindow - MaxDelay), end)
          BY <4>2, <4>4
        <4>6. QED
          BY <4>5 DEF FInv, FailuresWithinBudget, FailureBudget
      <3>3. QED
        BY <3>1, <3>2
    <2>4. QED
      BY <1>3, <2>1, <2>2, <2>3
  <1>9. QED
    BY <1>6, <1>7, <1>8, RecordingKeepsBound DEF FInv

(* Moves of the other handlers: the table is not theirs.                   *)
LEMMA OtherStepsKeepTable ==
    ASSUME IInv, FInv, NEW w \in Workers,
           \/ \E peer \in Peers, who \in Principals \cup {Rejected} : Arrive(w, peer, who)
           \/ Authenticate(w) \/ RateExceeded(w) \/ NoSlot(w)
           \/ Enter(w) \/ Finish(w) \/ Leave(w)
    PROVE  FInv'
  <1>1. /\ UNCHANGED <<clock, failures, rejections>>
        /\ \/ pc[w] = "authenticating" /\ request' = request
           \/ pc'[w] \in {"idle", "checking", "serving", "finishing"}
        /\ \A v \in Workers \ {w} : pc'[v] = pc[v] /\ request'[v] = request[v]
    <2>1. /\ pc \in [Workers -> Waiting \cup {"idle", "authenticating", "serving"}]
          /\ request \in [Workers -> Request \cup {NoRequest}]
      BY DEF IInv, TypeOK
    <2>2. CASE \E peer \in Peers, who \in Principals \cup {Rejected} : Arrive(w, peer, who)
      BY <2>1, <2>2 DEF Arrive, limiters
    <2>3. CASE Authenticate(w)
      BY <2>1, <2>3 DEF Authenticate, Await, limiters
    <2>4. CASE RateExceeded(w)
      BY <2>1, <2>4 DEF RateExceeded, Answer
    <2>5. CASE NoSlot(w)
      BY <2>1, <2>5 DEF NoSlot, Count, Answer
    <2>6. CASE Enter(w)
      BY <2>1, <2>6 DEF Enter, Count, GoOn
    <2>7. CASE Finish(w)
      BY <2>1, <2>7 DEF Finish, Await, limiters
    <2>8. CASE Leave(w)
      BY <2>1, <2>8 DEF Leave, Answer
    <2>9. QED
      BY <2>2, <2>3, <2>4, <2>5, <2>6, <2>7, <2>8
  <1>2. \A p \in Peers : w \in InFlight(p)' => w \in InFlight(p)
    BY <1>1 DEF InFlight, PeerOf
  <1>3. QED
    BY <1>1, <1>2, TableUntouched DEF IInv

LEMMA TickKeepsTable ==
    ASSUME IInv, FInv, Tick
    PROVE  FInv'
  <1>1. /\ clock < MaxClock /\ clock' = clock + 1
        /\ UNCHANGED <<pc, request, failures, rejections>>
    BY DEF Tick, limiters
  <1>2. clock \in Clocks /\ clock' \in Clocks /\ clock <= clock'
    BY <1>1, LimitAssumption DEF IInv, TypeOK, Clocks
  <1>3. FailuresFollow'
    <2> SUFFICES ASSUME NEW p \in Peers
                 PROVE  Follows(rejections[p], failures[p], clock', FailureWindow)
      BY <1>1 DEF FailuresFollow
    <2>1. /\ rejections[p] \in Times /\ failures[p] \in Times
          /\ Follows(rejections[p], failures[p], clock, FailureWindow)
      BY DEF IInv, TypeOK, FInv, FailuresFollow
    <2>2. QED
      BY <1>2, <2>1, WorkersAreCounted, TimeFollows
  <1>4. RoomForInFlight'
    BY <1>1 DEF FInv, RoomForInFlight, InFlight, PeerOf, FailureBudget
  <1>5. FailuresWithinBudget' /\ TableIsBounded'
    BY <1>1 DEF FInv, FailuresWithinBudget, TableIsBounded, Tracked
  <1>6. QED
    BY <1>3, <1>4, <1>5 DEF FInv

LEMMA TableInitHolds == Init => FInv
  <1> SUFFICES ASSUME Init PROVE FInv
    OBVIOUS
  <1>1. <<>> \in Times /\ Len(<<>>) = 0 /\ DOMAIN <<>> = {}
    BY DEF Times
  <1>2. \A p \in Peers : failures[p] = <<>> /\ rejections[p] = <<>>
    BY DEF Init
  <1>3. FailuresFollow
    <2>1. Follows(<<>>, <<>>, clock, FailureWindow)
      BY <1>1 DEF Follows
    <2>2. QED
      BY <1>2, <2>1 DEF FailuresFollow
  <1>4. RoomForInFlight
    <2> SUFFICES ASSUME NEW p \in Peers
                 PROVE  Len(failures[p]) + Cardinality(InFlight(p)) <= FailureBudget
      BY DEF RoomForInFlight
    <2>1. InFlight(p) = {}
      BY DEF Init, InFlight
    <2>2. QED
      BY <1>1, <1>2, <2>1, FS_EmptySet, WorkersAreCounted
  <1>5. FailuresWithinBudget
    <2> SUFFICES ASSUME NEW p \in Peers, NEW end \in Clocks
                 PROVE  Cardinality(Within(rejections[p],
                            end - (FailureWindow - MaxDelay), end)) <= FailureBudget
      BY DEF FailuresWithinBudget, FailureBudget
    <2>1. Within(rejections[p], end - (FailureWindow - MaxDelay), end) = {}
      BY <1>1, <1>2 DEF Within
    <2>2. QED
      BY <2>1, FS_EmptySet, WorkersAreCounted
  <1>6. TableIsBounded
    <2>1. Tracked(failures) = {}
      BY <1>2 DEF Tracked
    <2>2. QED
      BY <2>1, FS_EmptySet, WorkersAreCounted DEF TableIsBounded
  <1>7. QED
    BY <1>3, <1>4, <1>5, <1>6 DEF FInv

LEMMA NextKeepsTable == IInv /\ FInv /\ [Next]_vars => FInv'
  <1> SUFFICES ASSUME IInv, FInv, [Next]_vars PROVE FInv'
    OBVIOUS
  <1>1. ASSUME NEW w \in Workers, NEW peer \in Peers,
               NEW who \in Principals \cup {Rejected}, Arrive(w, peer, who)
        PROVE  FInv'
    BY <1>1, OtherStepsKeepTable
  <1>2. ASSUME NEW w \in Workers, Check(w) \/ RecordFailure(w)
        PROVE  FInv'
    BY <1>2, CheckKeepsTable, RecordFailureKeepsTable
  <1>3. ASSUME NEW w \in Workers,
               \/ Authenticate(w) \/ RateExceeded(w) \/ NoSlot(w)
               \/ Enter(w) \/ Finish(w) \/ Leave(w)
        PROVE  FInv'
    BY <1>3, OtherStepsKeepTable
  <1>4. CASE Tick
    BY <1>4, TickKeepsTable
  <1>5. CASE UNCHANGED vars
    <2>1. UNCHANGED <<clock, pc, request, failures, rejections>>
      BY <1>5 DEF vars, limiters
    <2>2. FailuresFollow' /\ FailuresWithinBudget' /\ TableIsBounded'
      BY <2>1 DEF FInv, FailuresFollow, FailuresWithinBudget, TableIsBounded, Tracked
    <2>3. RoomForInFlight'
      BY <2>1 DEF FInv, RoomForInFlight, InFlight, PeerOf, FailureBudget
    <2>4. QED
      BY <2>2, <2>3 DEF FInv
  <1>6. QED
    BY <1>1, <1>2, <1>3, <1>4, <1>5 DEF Next

(***************************************************************************)
(* Refusals.                                                               *)
(***************************************************************************)

(* Only these answer a request before it is served.                        *)
LEMMA WhoRefuses ==
    ASSUME IInv, Next, NEW w \in Workers, pc[w] \in {"checking", "acquiring"},
           pc'[w] = "idle"
    PROVE  Check(w) \/ RateExceeded(w) \/ NoSlot(w)
  <1>1. /\ pc \in [Workers -> Waiting \cup {"idle", "authenticating", "serving"}]
        /\ pc'[w] # pc[w]
    BY DEF IInv, TypeOK
  <1>2. ASSUME NEW v \in Workers,
               \/ \E peer \in Peers, who \in Principals \cup {Rejected} :
                     Arrive(v, peer, who)
               \/ Authenticate(v) \/ RecordFailure(v) \/ Enter(v)
               \/ Finish(v) \/ Leave(v)
        PROVE  FALSE
    <2>1. CASE \E peer \in Peers, who \in Principals \cup {Rejected} :
                  Arrive(v, peer, who)
      BY <1>1, <2>1 DEF Arrive
    <2>2. CASE Authenticate(v)
      BY <1>1, <2>2 DEF Authenticate, Await
    <2>3. CASE RecordFailure(v)
      BY <1>1, <2>3 DEF RecordFailure, Answer
    <2>4. CASE Enter(v)
      BY <1>1, <2>4 DEF Enter, Count, GoOn
    <2>5. CASE Finish(v)
      BY <1>1, <2>5 DEF Finish, Await
    <2>6. CASE Leave(v)
      BY <1>1, <2>6 DEF Leave, Answer
    <2>7. QED
      BY <1>2, <2>1, <2>2, <2>3, <2>4, <2>5, <2>6
  <1>3. ASSUME NEW v \in Workers, Check(v) \/ RateExceeded(v) \/ NoSlot(v)
        PROVE  v = w
    <2>1. CASE Check(v)
      BY <1>1, <2>1 DEF Check, Answer, GoOn
    <2>2. CASE RateExceeded(v)
      BY <1>1, <2>2 DEF RateExceeded, Answer
    <2>3. CASE NoSlot(v)
      BY <1>1, <2>3 DEF NoSlot, Answer
    <2>4. QED
      BY <1>3, <2>1, <2>2, <2>3
  <1>4. ~Tick
    BY <1>1 DEF Tick
  <1>5. QED
    BY <1>2, <1>3, <1>4 DEF Next

LEMMA NextRefusesDeserved ==
    IInv /\ FInv /\ [Next]_vars =>
        [\A w \in Workers :
            /\ (pc[w] = "checking" /\ Refused(w)) =>
                  Cardinality(Within(rejections[PeerOf(w)],
                                     clock - (FailureWindow + MaxDelay), clock))
                      >= MaxFailures
            /\ (pc[w] = "acquiring" /\ Refused(w) /\ UNCHANGED attempts) =>
                  Cardinality(Within(attempts[PrincipalOf(w)],
                                     clock - (RateWindow + MaxDelay), clock))
                      >= RateLimit]_vars
  <1> SUFFICES ASSUME IInv, FInv, Next, NEW w \in Workers
               PROVE  /\ (pc[w] = "checking" /\ Refused(w)) =>
                            Cardinality(Within(rejections[PeerOf(w)],
                                clock - (FailureWindow + MaxDelay), clock))
                                    >= MaxFailures
                      /\ (pc[w] = "acquiring" /\ Refused(w) /\ UNCHANGED attempts) =>
                            Cardinality(Within(attempts[PrincipalOf(w)],
                                clock - (RateWindow + MaxDelay), clock))
                                    >= RateLimit
    OBVIOUS
  <1>1. /\ clock \in Clocks /\ reading[w] \in 0..clock
        /\ pc[w] \in {"checking", "acquiring"} => clock <= reading[w] + MaxDelay
        /\ RateWindow \in Nat /\ RateLimit \in Nat /\ MaxFailures \in Nat
        /\ FailureWindow \in Nat
    BY LimitAssumption DEF IInv, TypeOK, ReadingsAreRecent, Waiting
  <1>2. ASSUME NEW n \in Nat, NEW k \in Nat, NEW S, IsFiniteSet(S), n >= k,
               n <= Cardinality(S)
        PROVE  Cardinality(S) >= k
    <2>1. Cardinality(S) \in Nat
      BY <1>2, FS_CardinalityType
    <2>2. QED
      BY <1>2, <2>1
  <1>3. ASSUME NEW counted \in Times, NEW start, NEW end
        PROVE  IsFiniteSet(Within(counted, start, end))
    <2>1. DOMAIN counted = 1..Len(counted) /\ Len(counted) \in Nat
      BY DEF Times
    <2>2. IsFiniteSet(1..Len(counted))
      BY <2>1, FS_Interval
    <2>3. Within(counted, start, end) \subseteq 1..Len(counted)
      BY <2>1 DEF Within
    <2>4. QED
      BY <2>2, <2>3, FS_Subset
  <1>4. ASSUME pc[w] = "checking", Refused(w)
        PROVE  Cardinality(Within(rejections[PeerOf(w)],
                   clock - (FailureWindow + MaxDelay), clock)) >= MaxFailures
    <2> DEFINE q == PeerOf(w)
               times == Pruned(failures[q], reading[w], FailureWindow)
    <2>1. Check(w)
      BY <1>4, WhoRefuses DEF Refused, RateExceeded, NoSlot, Count
    <2>2. q \in Peers
      BY <1>4 DEF IInv, RequestsAreKnown, PeerOf, Request
    <2>3. Exhausted(times)
      <3>1. ~Exhausted(times) => pc' = [pc EXCEPT ![w] = "authenticating"]
        BY <2>1 DEF Check, GoOn
      <3>2. pc'[w] = "idle"
        BY <1>4 DEF Refused
      <3>3. QED
        BY <3>1, <3>2 DEF IInv, TypeOK
    <2>4. /\ failures[q] \in Times /\ rejections[q] \in Times
          /\ Follows(rejections[q], failures[q], clock, FailureWindow)
      BY <2>2 DEF IInv, TypeOK, FInv, FailuresFollow
    <2>5. Len(times) <= Cardinality(Within(rejections[q],
                            clock - (FailureWindow + MaxDelay), clock))
      BY <1>1, <1>4, <2>4, KeptIsRecent
    <2>6. Len(times) \in Nat /\ Len(times) >= MaxFailures
      BY <2>2, <2>3, PrunedFailuresFollow DEF Exhausted
    <2> HIDE DEF q, times
    <2>7. Cardinality(Within(rejections[q],
              clock - (FailureWindow + MaxDelay), clock)) >= MaxFailures
      BY <1>1, <1>2, <1>3, <2>4, <2>5, <2>6
    <2>8. QED
      BY <2>7 DEF q
  <1>5. ASSUME pc[w] = "acquiring", Refused(w), UNCHANGED attempts
        PROVE  Cardinality(Within(attempts[PrincipalOf(w)],
                   clock - (RateWindow + MaxDelay), clock)) >= RateLimit
    <2> DEFINE q == PrincipalOf(w)
    <2>1. Check(w) \/ RateExceeded(w) \/ NoSlot(w)
      BY <1>5, WhoRefuses DEF Refused
    <2>2. /\ q \in Principals /\ Recent(w) \in Times
      BY <1>5, RecentFollows
    <2>3. /\ stamps[q] \in Times /\ attempts[q] \in Times
          /\ Follows(attempts[q], stamps[q], clock, RateWindow)
      BY <2>2 DEF IInv, TypeOK, DequesFollow
    <2>4. ~NoSlot(w)
      <3> SUFFICES ASSUME NoSlot(w) PROVE FALSE
        OBVIOUS
      <3>1. attempts' = [attempts EXCEPT ![q] = Append(attempts[q], clock)]
        BY DEF NoSlot, Count
      <3>2. attempts'[q] = Append(attempts[q], clock)
        BY <2>2, <3>1 DEF IInv, TypeOK
      <3>3. Len(Append(attempts[q], clock)) = Len(attempts[q]) + 1
            /\ Len(attempts[q]) \in Nat
        BY <2>3 DEF Times
      <3>4. QED
        BY <1>5, <3>2, <3>3
    <2>5. Len(Recent(w)) >= RateLimit
      BY <1>5, <2>1, <2>4 DEF RateExceeded, Check
    <2>6. Len(Recent(w)) <= Cardinality(Within(attempts[q],
                                clock - (RateWindow + MaxDelay), clock))
      BY <1>1, <1>5, <2>3, KeptIsRecent DEF Recent
    <2>7. Len(Recent(w)) \in Nat
      BY <2>2 DEF Times
    <2> HIDE DEF q
    <2>8. Cardinality(Within(attempts[q],
              clock - (RateWindow + MaxDelay), clock)) >= RateLimit
      BY <1>1, <1>2, <1>3, <2>3, <2>5, <2>6, <2>7
    <2>9. QED
      BY <2>8 DEF q
  <1>6. QED
    BY <1>4, <1>5

(***************************************************************************)
(* The theorems.                                                           *)
(***************************************************************************)
(* The strengthening: the deques follow the attempts, readings are recent, *)
(* and the slots are exact.                                                *)
THEOREM AdmissionInvariant == Spec => []IInv
  BY InitHolds, NextKeeps, PTL DEF Spec

(* The tables of both limiters are well formed.                            *)
THEOREM AdmissionTypeCorrect == Spec => []TypeOK
  <1>1. IInv => TypeOK
    BY DEF IInv
  <1>2. QED
    BY <1>1, AdmissionInvariant, PTL

(* PrincipalTrafficLimiter.acquire keeps every principal to its rate in    *)
(* real time, although it reads the clock before it takes the lock.        *)
THEOREM RateIsKept == Spec => []AttemptsWithinRate
  <1>1. IInv => AttemptsWithinRate
    BY DEF IInv
  <1>2. QED
    BY <1>1, AdmissionInvariant, PTL

(* The count of active requests is exact on every path out of acquire.     *)
THEOREM SlotsAreKept == Spec => []SlotsAreExact
  <1>1. IInv => SlotsAreExact
    BY DEF IInv
  <1>2. QED
    BY <1>1, AdmissionInvariant, PTL

(* The strengthening of the failure limiter: its deques follow the failures *)
(* recorded, and there is room in the budget for every request in flight.  *)
THEOREM FailureInvariant == Spec => [](IInv /\ FInv)
  BY InitHolds, NextKeeps, TableInitHolds, NextKeepsTable, PTL DEF Spec

(* AuthFailureLimiter.check leaves its lock before the credentials are     *)
(* looked at: the failures recorded of one peer in any time shorter than   *)
(* the window by the longest delay overshoot the limit by one for each of  *)
(* the other threads at most, whatever record_failure evicts.              *)
THEOREM FailuresAreBounded == Spec => []FailuresWithinBudget
  <1>1. FInv => FailuresWithinBudget
    BY DEF FInv
  <1>2. QED
    BY <1>1, FailureInvariant, PTL

(* record_failure never lets its table outgrow max_tracked_keys.           *)
THEOREM TableStaysBounded == Spec => []TableIsBounded
  <1>1. FInv => TableIsBounded
    BY DEF FInv
  <1>2. QED
    BY <1>1, FailureInvariant, PTL

(* Neither limiter refuses a request but for failures, or for attempts, of *)
(* the last window and the longest delay, however unordered its deque.     *)
THEOREM RefusalsAreExplained == Spec => RefusalsAreDeserved
  BY FailureInvariant, NextRefusesDeserved, PTL DEF Spec, RefusalsAreDeserved
=============================================================================
