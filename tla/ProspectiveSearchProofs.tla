------------------------ MODULE ProspectiveSearchProofs ------------------------
(***************************************************************************)
(* Theorems about the search, for any grammar, bound, budget, policy and   *)
(* history, and any order of the actions; and about the repair that starts *)
(* searches, for any query, governance and space of remediations.          *)
(***************************************************************************)
EXTENDS PrivacyCut, FiniteSetTheorems, WellFoundedInduction, TLAPS

(* Every set of natural numbers that is not empty has a least element.     *)
LEMMA LeastNatural ==
    ASSUME NEW T, T \subseteq Nat, T # {}
    PROVE  \E m \in T : \A k \in T : m <= k
  <1> DEFINE R == {p \in Nat \X Nat : p[1] < p[2]}
  <1>1. IsWellFoundedOn(R, Nat)
    <2>1. R = OpToRel(<, Nat)
      BY DEF OpToRel
    <2>2. QED
      BY <2>1, NatLessThanWellFounded
  <1> HIDE DEF R
  <1>2. PICK m \in T : \A k \in T : <<k, m>> \notin R
    BY <1>1, WFMin
  <1>3. ASSUME NEW k \in T PROVE ~(k < m)
    <2>1. <<k, m>> \in Nat \X Nat /\ <<k, m>>[1] = k /\ <<k, m>>[2] = m
      OBVIOUS
    <2>2. QED
      BY <1>2, <2>1 DEF R
  <1>4. QED
    BY <1>3

-----------------------------------------------------------------------------
(* What paths reach: the recursive function of Paths exists.               *)

Enabled(state, a) == Applicable(state, a, input.ctx) /\ Admissible(state, a, input.ctx)

Follow(x, a) ==
    [state |-> Successor(x.state, a),
     path |-> IF x.path = NoPath THEN NoPath
              ELSE ExtendPath(x.path, a, Successor(x.state, a), x.depth + 1),
     depth |-> x.depth + 1]

Origin == [state |-> InitialState(input), path |-> InitialPath(input), depth |-> 0]

Onward(set) == UNION {{Follow(x, a) : a \in {b \in Grammar : Enabled(x.state, b)}} : x \in set}

(* The recursive function of Paths exists: a least bound for which it does *)
(* not would have a predecessor for which it does.                         *)
LEMMA ReachedExists ==
    ASSUME NEW bound \in Nat
    PROVE  \E f : f = [n \in 0..bound |-> IF n = 0 THEN {Origin} ELSE Onward(f[n - 1])]
  <1> DEFINE Is(f, m) == f = [n \in 0..m |-> IF n = 0 THEN {Origin} ELSE Onward(f[n - 1])]
             Bad == {m \in Nat : ~\E f : Is(f, m)}
  <1>1. SUFFICES ASSUME Bad # {} PROVE FALSE
    OBVIOUS
  <1>2. PICK m \in Bad : \A k \in Bad : m <= k
    BY <1>1, LeastNatural
  <1>3. CASE m = 0
    <2>1. PICK f : f = [n \in 0..m |-> {Origin}]
      OBVIOUS
    <2> DEFINE h == [n \in 0..m |-> IF n = 0 THEN {Origin} ELSE Onward(f[n - 1])]
    <2>2. \A n \in 0..m : n = 0
      BY <1>3
    <2>3. f = h
      <3>1. \A n \in 0..m : f[n] = h[n]
        BY <2>1, <2>2
      <3>2. QED
        BY <2>1, <3>1
    <2>4. Is(f, m)
      BY <2>3
    <2>5. QED
      BY <1>2, <2>4
  <1>4. CASE m # 0
    <2>1. m - 1 \in Nat /\ m \in Nat
      BY <1>4
    <2>2. PICK f : Is(f, m - 1)
      <3> HIDE DEF Is
      <3>1. m - 1 \notin Bad
        <4> HIDE DEF Bad
        <4>1. QED
          BY <1>2, <2>1
      <3>2. QED
        BY <2>1, <3>1
    <2> DEFINE g == [n \in 0..m |-> IF n = m THEN Onward(f[m - 1]) ELSE f[n]]
               h == [n \in 0..m |-> IF n = 0 THEN {Origin} ELSE Onward(g[n - 1])]
    <2>3. \A n \in 0..(m - 1) : f[n] = IF n = 0 THEN {Origin} ELSE Onward(f[n - 1])
      BY <2>2
    <2>4. \A n \in 0..m : g[n] = IF n = 0 THEN {Origin} ELSE Onward(g[n - 1])
      <3> HIDE DEF Is
      <3>1. ASSUME NEW n \in 0..m, n # m PROVE g[n] = f[n] /\ n \in 0..(m - 1)
        BY <2>1, <3>1
      <3>2. g[m] = Onward(f[m - 1]) /\ g[m - 1] = f[m - 1]
        BY <1>4, <2>1
      <3>3. ASSUME NEW n \in 0..m, n # 0, n # m PROVE g[n - 1] = f[n - 1]
        BY <2>1, <3>3
      <3> HIDE DEF g
      <3>4. QED
        BY <1>4, <2>1, <2>3, <3>1, <3>2, <3>3
    <2>5. g = h
      <3>1. \A n \in 0..m : g[n] = h[n]
        BY <2>4
      <3>2. QED
        BY <3>1
    <2>6. Is(g, m)
      BY <2>5
    <2>7. QED
      BY <1>2, <2>6
  <1>5. QED
    BY <1>3, <1>4

(* What it is at the start, and at each further level.                     *)
LEMMA ReachedUnfolds ==
    ASSUME input.bound \in Nat, allowed = AllowedAmong(Grammar, input.ctx)
    PROVE  /\ Reached(input)[0] = {Origin}
           /\ \A n \in 1..input.bound : Reached(input)[n] = Onward(Reached(input)[n - 1])
  <1> DEFINE Is(f) ==
                f = [n \in 0..input.bound |-> IF n = 0 THEN {Origin} ELSE Onward(f[n - 1])]
  <1>1. Reached(input) = CHOOSE f : Is(f)
    BY DEF Reached, Paths, Onward, Follow, Enabled, Admissible, Origin
  <1>2. \E f : Is(f)
    BY ReachedExists
  <1>3. Is(Reached(input))
    BY <1>1, <1>2
  <1>4. \A n \in 0..input.bound :
            Reached(input)[n] = IF n = 0 THEN {Origin} ELSE Onward(Reached(input)[n - 1])
    BY <1>3
  <1>5. QED
    BY <1>4

-----------------------------------------------------------------------------
(* Nodes with one key have one future: nothing that is merged is lost.     *)

Key(x) == NodeKey(x.state, x.path)
IsPath(path) == path = NoPath \/ path = TemporalPath(path.observations)
Known_(x) == IsPath(x.path) /\ x.path # NoPath
Pairs(path) == {<<o.semantic, o.snapshot>> : o \in path.observations}

(* A path that is known is not the unknown one.                            *)
LEMMA KnownPath ==
    ASSUME NEW observations
    PROVE  /\ TemporalPath(observations) # NoPath
           /\ TemporalPath(observations).observations = observations
           /\ IsPath(TemporalPath(observations))
  <1>1. /\ TemporalPath(observations).known # NoPath.known
        /\ TemporalPath(observations).observations = observations
    BY DEF TemporalPath, NoPath
  <1>2. QED
    BY <1>1 DEF IsPath

(* Two nodes have one key when they agree on state and sensitive releases. *)
LEMMA KeyIs ==
    ASSUME NEW x, NEW y
    PROVE  Key(x) = Key(y) <=> x.state = y.state /\ Pairs(x.path) = Pairs(y.path)
  BY DEF Key, NodeKey, Pairs

(* How a path is extended.                                                 *)
Adds(a) == a.kind # "SNAPSHOT_ADVANCE" /\ SemanticIsSensitive(a.release.semantic)

(* A path extended by a release with a known snapshot is known again.      *)
LEMMA Extending ==
    ASSUME NEW path, IsPath(path), path # NoPath, NEW a, NEW post, NEW step
    PROVE  LET longer == ExtendPath(path, a, post, step) IN
           /\ IsPath(longer)
           /\ longer = NoPath <=> Adds(a) /\ post.snapshot = NoSnapshot
           /\ longer # NoPath =>
                Pairs(longer) = Pairs(path) \cup
                    {p \in {<<a.release.semantic, post.snapshot>>} : Adds(a)}
  <1> DEFINE longer == ExtendPath(path, a, post, step)
             new == Observation(step, a.release.semantic, post.snapshot)
  <1>1. CASE ~Adds(a)
    <2>1. longer = path
      BY <1>1 DEF ExtendPath, Adds
    <2>2. QED
      BY <1>1, <2>1
  <1>2. CASE Adds(a) /\ post.snapshot = NoSnapshot
    <2>1. longer = NoPath
      BY <1>2 DEF ExtendPath, Adds
    <2>2. QED
      BY <1>2, <2>1 DEF IsPath
  <1>3. CASE Adds(a) /\ post.snapshot # NoSnapshot
    <2>1. longer = TemporalPath(path.observations \cup {new})
      BY <1>3 DEF ExtendPath, Adds
    <2>2. /\ longer # NoPath /\ IsPath(longer)
          /\ longer.observations = path.observations \cup {new}
      BY <2>1, KnownPath
    <2>3. new.semantic = a.release.semantic /\ new.snapshot = post.snapshot
      BY DEF Observation
    <2> HIDE DEF longer, new
    <2>4. Pairs(longer) = Pairs(path) \cup {<<a.release.semantic, post.snapshot>>}
      BY <2>2, <2>3 DEF Pairs
    <2>5. QED
      BY <1>3, <2>2, <2>4 DEF longer
  <1>4. QED
    BY <1>1, <1>2, <1>3

(* F5 looks at pairs only.                                                 *)
LEMMA DifferencingIs ==
    ASSUME NEW path
    PROVE  TemporalDifferencing(path)
             <=> \E p, q \in Pairs(path) : p[1] = q[1] /\ p[2] # q[2]
  <1>1. ASSUME NEW o \in path.observations PROVE <<o.semantic, o.snapshot>> \in Pairs(path)
    BY DEF Pairs
  <1>2. ASSUME NEW p \in Pairs(path)
        PROVE  \E o \in path.observations : p[1] = o.semantic /\ p[2] = o.snapshot
    BY DEF Pairs
  <1>3. ASSUME TemporalDifferencing(path)
        PROVE  \E p, q \in Pairs(path) : p[1] = q[1] /\ p[2] # q[2]
    <2>1. PICK a \in path.observations, b \in path.observations :
                a.semantic = b.semantic /\ a.snapshot # b.snapshot
      BY <1>3 DEF TemporalDifferencing
    <2> DEFINE p == <<a.semantic, a.snapshot>>
               q == <<b.semantic, b.snapshot>>
    <2>2. p \in Pairs(path) /\ q \in Pairs(path)
      BY <1>1
    <2>3. p[1] = q[1] /\ p[2] # q[2]
      BY <2>1
    <2> HIDE DEF p, q
    <2>4. QED
      BY <2>2, <2>3
  <1>4. ASSUME NEW p \in Pairs(path), NEW q \in Pairs(path), p[1] = q[1], p[2] # q[2]
        PROVE  TemporalDifferencing(path)
    BY <1>2, <1>4 DEF TemporalDifferencing
  <1>5. QED
    BY <1>3, <1>4

(* Nodes with one key, which the search merges, have the same evaluation,  *)
(* the same actions and, after each, one key again.                        *)
LEMMA TwinsAreAlike ==
    ASSUME NEW x, NEW y, Known_(x), Known_(y), Key(x) = Key(y)
    PROVE  /\ EvaluationIn(input, x.state, x.path) = EvaluationIn(input, y.state, y.path)
           /\ Clean(x) <=> Clean(y)
           /\ \A a : Enabled(x.state, a) <=> Enabled(y.state, a)
           /\ \A a : Known_(Follow(x, a)) <=> Known_(Follow(y, a))
           /\ \A a : Known_(Follow(x, a)) => Key(Follow(x, a)) = Key(Follow(y, a))
  <1>1. x.state = y.state /\ Pairs(x.path) = Pairs(y.path)
    BY KeyIs
  <1>2. TemporalDifferencing(x.path) <=> TemporalDifferencing(y.path)
    BY <1>1, DifferencingIs
  <1>3. EvaluationIn(input, x.state, x.path) = EvaluationIn(input, y.state, y.path)
    BY <1>1, <1>2 DEF EvaluationIn, EvaluateForbiddenState, Known_
  <1>4. Clean(x) <=> Clean(y)
    BY <1>3 DEF Clean, CleanIn
  <1>5. ASSUME NEW a
        PROVE  /\ Known_(Follow(x, a)) <=> Known_(Follow(y, a))
               /\ Known_(Follow(x, a)) => Key(Follow(x, a)) = Key(Follow(y, a))
    <2> DEFINE post == Successor(x.state, a)
               p == ExtendPath(x.path, a, post, x.depth + 1)
               q == ExtendPath(y.path, a, post, y.depth + 1)
    <2>1. /\ Follow(x, a).state = post /\ Follow(x, a).path = p
          /\ Follow(y, a).state = post /\ Follow(y, a).path = q
      BY <1>1 DEF Follow, Known_
    <2>2. /\ IsPath(p) /\ (p = NoPath <=> Adds(a) /\ post.snapshot = NoSnapshot)
          /\ p # NoPath => Pairs(p) = Pairs(x.path) \cup
                    {z \in {<<a.release.semantic, post.snapshot>>} : Adds(a)}
      BY Extending DEF Known_
    <2>3. /\ IsPath(q) /\ (q = NoPath <=> Adds(a) /\ post.snapshot = NoSnapshot)
          /\ q # NoPath => Pairs(q) = Pairs(y.path) \cup
                    {z \in {<<a.release.semantic, post.snapshot>>} : Adds(a)}
      BY Extending DEF Known_
    <2> HIDE DEF p, q, post
    <2>4. p # NoPath => Pairs(p) = Pairs(q)
      BY <1>1, <2>2, <2>3
    <2>5. QED
      BY <2>1, <2>2, <2>3, <2>4, KeyIs DEF Known_
  <1>6. QED
    BY <1>1, <1>3, <1>4, <1>5

-----------------------------------------------------------------------------
(* Sequences of no matter what.                                            *)

IsSeq(q) == \E S : q \in Seq(S)

(* Sequences of any elements, as the queue is one.                         *)
LEMMA AppendIs ==
    ASSUME NEW q, IsSeq(q), NEW e
    PROVE  /\ IsSeq(Append(q, e))
           /\ Len(q) \in Nat /\ Len(Append(q, e)) = Len(q) + 1
           /\ \A i \in 1..Len(q) : Append(q, e)[i] = q[i]
           /\ Append(q, e)[Len(q) + 1] = e
  <1>1. PICK S : q \in Seq(S)
    BY DEF IsSeq
  <1> DEFINE T == S \cup {e}
  <1>2. q \in Seq(T) /\ e \in T
    BY <1>1
  <1> HIDE DEF T
  <1>3. Append(q, e) \in Seq(T)
    BY <1>2
  <1>4. QED
    BY <1>2, <1>3 DEF IsSeq

(* The queue without its first node.                                       *)
LEMMA TailIs ==
    ASSUME NEW q, IsSeq(q), q # <<>>
    PROVE  /\ IsSeq(Tail(q))
           /\ Len(q) \in Nat \ {0} /\ Len(Tail(q)) = Len(q) - 1
           /\ \A i \in 1..(Len(q) - 1) : Tail(q)[i] = q[i + 1]
           /\ Head(q) = q[1]
  <1>1. PICK S : q \in Seq(S)
    BY DEF IsSeq
  <1>2. Tail(q) \in Seq(S)
    BY <1>1
  <1>3. QED
    BY <1>1, <1>2 DEF IsSeq

(* The queue at the start.                                                 *)
LEMMA SingletonIs ==
    ASSUME NEW e
    PROVE  /\ IsSeq(<<>>) /\ Len(<<>>) = 0
           /\ IsSeq(<<e>>) /\ Len(<<e>>) = 1 /\ <<e>>[1] = e
  <1>1. <<>> \in Seq({e}) /\ <<e>> \in Seq({e})
    OBVIOUS
  <1>2. QED
    BY <1>1 DEF IsSeq

-----------------------------------------------------------------------------
(* The call and its grammar do not change.                                 *)

Statuses == {"start", "pop", "consider", "done"}

StaticInv ==
    /\ input.bound \in Nat /\ input.maxStates \in Nat \ {0}
    /\ actions \in OrdersOf(InstantiateActions(input.ctx))
    /\ allowed = AllowedAmong(Grammar, input.ctx)

(* What the call and its grammar are.                                      *)
LEMMA StaticFacts ==
    ASSUME StaticInv
    PROVE  /\ input.bound \in Nat /\ input.maxStates \in Nat \ {0}
           /\ Grammar = InstantiateActions(input.ctx)
           /\ Len(actions) \in Nat \ {0}
           /\ \A i \in 1..Len(actions) : actions[i] \in Grammar
           /\ \A a \in Grammar : \E i \in 1..Len(actions) : actions[i] = a
  <1> DEFINE set == InstantiateActions(input.ctx)
  <1>1. actions \in OrdersOf(set)
    BY DEF StaticInv
  <1>2. input.bound \in Nat /\ input.maxStates \in Nat \ {0}
    BY DEF StaticInv
  <1>3. actions \in Seq(set) /\ set = {actions[i] : i \in 1..Len(actions)}
    BY <1>1 DEF OrdersOf
  <1>4. set # {}
    BY DEF InstantiateActions
  <1> HIDE DEF set
  <1>5. Len(actions) \in Nat \ {0}
    BY <1>3, <1>4
  <1>6. Grammar = set
    BY <1>3 DEF Grammar
  <1>7. /\ \A i \in 1..Len(actions) : actions[i] \in Grammar
        /\ \A a \in Grammar : \E i \in 1..Len(actions) : actions[i] = a
    BY DEF Grammar
  <1>8. QED
    BY <1>2, <1>5, <1>6, <1>7 DEF set

(* Every step leaves them alone, and what is defined from them.            *)
LEMMA StepsKeepCall ==
    ASSUME [Next]_vars
    PROVE  UNCHANGED <<input, actions, allowed>>
  BY DEF Next, Search, Start, Pop, Exhausted, TransitionRejected, OracleRejected,
         ProvenanceLost, Deduplicated, StateBudgetExhausted, NewNode, Discover, StartFails,
         CollaboratorFails, EvaluationFails, vars

(* While call and grammar stay, so does everything defined from them.      *)
LEMMA Frame ==
    ASSUME UNCHANGED <<input, actions, allowed>>
    PROVE  /\ Grammar' = Grammar /\ Reached(input)' = Reached(input) /\ Origin' = Origin
           /\ \A x : Clean(x)' <=> Clean(x)
           /\ \A s, a : Enabled(s, a)' <=> Enabled(s, a)
           /\ StaticInv' <=> StaticInv
  <1>1. Grammar' = Grammar
    BY DEF Grammar
  <1>2. Reached(input)' = Reached(input)
    BY <1>1 DEF Reached
  <1>3. Origin' = Origin
    BY DEF Origin
  <1>4. \A x : Clean(x)' <=> Clean(x)
    BY DEF Clean
  <1>5. \A s, a : Enabled(s, a)' <=> Enabled(s, a)
    BY DEF Enabled, Admissible
  <1>6. StaticInv' <=> StaticInv
    BY <1>1 DEF StaticInv
  <1>7. QED
    BY <1>1, <1>2, <1>3, <1>4, <1>5, <1>6

(* How a search begins, on its own or in a repair.                         *)
Begun ==
    /\ StaticInv /\ pc = "start" /\ queue = <<>> /\ seen = {} /\ node = Root(input)
    /\ counters = NoCounters /\ result = Unfinished

(* Init is such a beginning.                                               *)
LEMMA InitBegins == Init => Begun
  BY InputAssumption DEF Init, StaticInv, Begun

(* The arguments of a search, its grammar and what the policy allows of it *)
(* stay what they are throughout (check_prospective_privacy computes the   *)
(* actions once).                                                          *)
THEOREM CallIsStatic == Spec => []StaticInv
  <1>1. Init => StaticInv
    BY InitBegins DEF Begun
  <1>2. StaticInv /\ [Next]_vars => StaticInv'
    BY StepsKeepCall, Frame
  <1>3. QED
    BY <1>1, <1>2, PTL DEF Spec

-----------------------------------------------------------------------------
(* A node stands for a path of admissible actions, which its steps record. *)

IsState(state) ==
    \E released, snapshot : state = [released |-> released, snapshot |-> snapshot]

IsStep(steps, i) ==
    /\ steps[i].index = i - 1
    /\ steps[i].pre = IF i = 1 THEN InitialState(input) ELSE steps[i - 1].post
    /\ steps[i].post = Successor(steps[i].pre, steps[i].action)
    /\ Applicable(steps[i].pre, steps[i].action, input.ctx)
    /\ Admissible(steps[i].pre, steps[i].action, input.ctx)
    /\ IsState(steps[i].pre)

IsChain(steps, end) ==
    /\ IsSeq(steps) /\ IsState(end)
    /\ \A i \in 1..Len(steps) : IsStep(steps, i)
    /\ end = IF steps = <<>> THEN InitialState(input) ELSE steps[Len(steps)].post

At(x) == [state |-> x.state, path |-> x.path, depth |-> x.depth]

Traced(x) ==
    /\ x.depth \in Nat /\ x.depth < input.bound
    /\ Len(x.steps) = x.depth
    /\ IsChain(x.steps, x.state)
    /\ Known_(x)
    /\ At(x) \in Reached(input)[x.depth]

Longer(x, a) ==
    Append(x.steps, [index |-> x.depth, pre |-> x.state, action |-> a,
                     post |-> Successor(x.state, a)])

(* A successor is a state, and forgets no release.                         *)
LEMMA SuccessorIs ==
    ASSUME NEW state, IsState(state), NEW a
    PROVE  /\ IsState(Successor(state, a))
           /\ state.released \subseteq Successor(state, a).released
  <1>1. PICK r, w : state = [released |-> r, snapshot |-> w]
    BY DEF IsState
  <1>2. CASE a.kind = "SNAPSHOT_ADVANCE"
    <2>1. Successor(state, a) = [released |-> r, snapshot |-> a.to]
      BY <1>1, <1>2 DEF Successor
    <2>2. IsState(Successor(state, a))
      BY <2>1 DEF IsState
    <2>3. state.released \subseteq Successor(state, a).released
      BY <1>1, <2>1
    <2>4. QED
      BY <2>2, <2>3
  <1>3. CASE a.kind # "SNAPSHOT_ADVANCE"
    <2>1. Successor(state, a) = [released |-> r \cup {a.release}, snapshot |-> w]
      BY <1>1, <1>3 DEF Successor
    <2>2. IsState(Successor(state, a))
      BY <2>1 DEF IsState
    <2>3. state.released \subseteq Successor(state, a).released
      BY <1>1, <2>1
    <2>4. QED
      BY <2>2, <2>3
  <1>4. QED
    BY <1>2, <1>3

(* The state a search starts from is one.                                  *)
LEMMA InitialIsState == IsState(InitialState(input))
  BY DEF IsState, InitialState, BuildState

(* What grounds a node depends on call and grammar only.                   *)
LEMMA TracedFrame ==
    ASSUME UNCHANGED <<input, actions, allowed>>
    PROVE  \A x : Traced(x)' <=> Traced(x)
  <1>1. \A steps, i : IsStep(steps, i)' <=> IsStep(steps, i)
    BY DEF IsStep, Admissible
  <1>2. \A steps, end : IsChain(steps, end)' <=> IsChain(steps, end)
    BY <1>1 DEF IsChain
  <1>3. QED
    BY <1>2, Frame DEF Traced

(* A node seen as a point of the enumeration of paths.                     *)
LEMMA AtIs ==
    ASSUME NEW x
    PROVE  /\ At(x).state = x.state /\ At(x).path = x.path /\ At(x).depth = x.depth
           /\ Key(At(x)) = Key(x)
           /\ Known_(At(x)) <=> Known_(x)
           /\ \A a : Follow(At(x), a) = Follow(x, a)
  <1>1. At(x).state = x.state /\ At(x).path = x.path /\ At(x).depth = x.depth
    BY DEF At
  <1>2. QED
    BY <1>1 DEF Key, Known_, Follow

(* What follows a point whose path is known.                               *)
LEMMA FollowIs ==
    ASSUME NEW x, Known_(x), NEW a
    PROVE  /\ Follow(x, a).state = Successor(x.state, a)
           /\ Follow(x, a).path = ExtendPath(x.path, a, Successor(x.state, a), x.depth + 1)
           /\ Follow(x, a).depth = x.depth + 1
           /\ IsPath(Follow(x, a).path)
  <1> DEFINE path == ExtendPath(x.path, a, Successor(x.state, a), x.depth + 1)
  <1>1. IsPath(path)
    BY Extending DEF Known_
  <1>2. /\ Follow(x, a).state = Successor(x.state, a)
        /\ Follow(x, a).path = path
        /\ Follow(x, a).depth = x.depth + 1
    BY DEF Follow, Known_
  <1>3. QED
    BY <1>1, <1>2

(* An action that is enabled leads from one level into the next.           *)
LEMMA FollowIsReached ==
    ASSUME StaticInv, NEW n \in 0..(input.bound - 1), NEW x \in Reached(input)[n],
           NEW a \in Grammar, Enabled(x.state, a)
    PROVE  Follow(x, a) \in Reached(input)[n + 1]
  <1>1. input.bound \in Nat /\ allowed = AllowedAmong(Grammar, input.ctx)
    BY StaticFacts DEF StaticInv
  <1>2. n + 1 \in 1..input.bound /\ (n + 1) - 1 = n
    BY <1>1
  <1>3. Reached(input)[n + 1] = Onward(Reached(input)[n])
    BY <1>1, <1>2, ReachedUnfolds
  <1>4. QED
    BY <1>3 DEF Onward

(* A point of a level was reached from one of the level before.            *)
LEMMA ReachedIsFollowed ==
    ASSUME StaticInv, NEW n \in 0..(input.bound - 1), NEW y \in Reached(input)[n + 1]
    PROVE  \E x \in Reached(input)[n], a \in Grammar :
                Enabled(x.state, a) /\ y = Follow(x, a)
  <1>1. input.bound \in Nat /\ allowed = AllowedAmong(Grammar, input.ctx)
    BY StaticFacts DEF StaticInv
  <1>2. n + 1 \in 1..input.bound /\ (n + 1) - 1 = n
    BY <1>1
  <1>3. Reached(input)[n + 1] = Onward(Reached(input)[n])
    BY <1>1, <1>2, ReachedUnfolds
  <1>4. QED
    BY <1>3 DEF Onward

(* The first level.                                                        *)
LEMMA OriginIsReached == StaticInv => Reached(input)[0] = {Origin}
  BY StaticFacts, ReachedUnfolds DEF StaticInv

(* A grounded node and an action enabled in it make a grounded child.      *)
LEMMA ChildIsReached ==
    ASSUME StaticInv, NEW x, Traced(x), NEW a \in Grammar, Enabled(x.state, a)
    PROVE  /\ Follow(x, a) \in Reached(input)[x.depth + 1]
           /\ IsChain(Longer(x, a), Successor(x.state, a))
           /\ Len(Longer(x, a)) = x.depth + 1
  <1> DEFINE d == x.depth
             step == [index |-> x.depth, pre |-> x.state, action |-> a,
                      post |-> Successor(x.state, a)]
             steps == Longer(x, a)
  <1>1. /\ d \in Nat /\ d < input.bound /\ input.bound \in Nat
        /\ Len(x.steps) = d /\ IsChain(x.steps, x.state)
    BY StaticFacts DEF Traced
  <1>2. Follow(x, a) \in Reached(input)[d + 1]
    <2>1. At(x) \in Reached(input)[d] /\ Enabled(At(x).state, a) /\ d \in 0..(input.bound - 1)
      BY <1>1, AtIs DEF Traced
    <2>2. Follow(At(x), a) \in Reached(input)[d + 1]
      BY <2>1, FollowIsReached
    <2>3. QED
      BY <2>2, AtIs
  <1>3. step.index = d /\ step.pre = x.state /\ step.action = a
            /\ step.post = Successor(x.state, a)
    OBVIOUS
  <1>4. steps = Append(x.steps, step)
    BY DEF Longer
  <1> HIDE DEF step, steps
  <1>5. /\ IsSeq(steps) /\ Len(steps) = d + 1
        /\ \A i \in 1..d : steps[i] = x.steps[i]
        /\ steps[d + 1] = step
    BY <1>1, <1>4, AppendIs DEF IsChain
  <1>6. ASSUME NEW i \in 1..d PROVE IsStep(steps, i)
    <2>1. IsStep(x.steps, i)
      BY <1>1 DEF IsChain
    <2>2. i # 1 => i - 1 \in 1..d
      <3>1. d \in Nat
        BY <1>1
      <3>2. QED
        BY <3>1
    <2>3. steps[i] = x.steps[i] /\ (i # 1 => steps[i - 1] = x.steps[i - 1])
      BY <1>5, <2>2
    <2>4. QED
      BY <2>1, <2>3 DEF IsStep
  <1>7. x.state = IF d = 0 THEN InitialState(input) ELSE x.steps[d].post
    <2>1. x.steps = <<>> <=> d = 0
      <3>1. PICK S : x.steps \in Seq(S)
        BY <1>1 DEF IsChain, IsSeq
      <3>2. QED
        BY <1>1, <3>1
    <2>2. QED
      BY <1>1, <2>1 DEF IsChain
  <1>8. IsStep(steps, d + 1)
    <2>1. (d + 1) - 1 = d /\ (d + 1 = 1 <=> d = 0) /\ (d # 0 => d \in 1..d)
      BY <1>1
    <2>2. steps[d + 1].pre = IF d + 1 = 1 THEN InitialState(input) ELSE steps[d].post
      BY <1>3, <1>5, <1>7, <2>1
    <2>3. QED
      BY <1>1, <1>3, <1>5, <2>1, <2>2 DEF IsStep, IsChain, Enabled
  <1>9. \A i \in 1..Len(steps) : IsStep(steps, i)
    <2>1. ASSUME NEW i \in 1..Len(steps) PROVE i \in 1..d \/ i = d + 1
      BY <1>1, <1>5
    <2>2. QED
      BY <1>6, <1>8, <2>1
  <1>10. steps # <<>>
    BY <1>1, <1>5, SingletonIs
  <1>11. IsChain(steps, Successor(x.state, a))
    <2>1. IsState(Successor(x.state, a))
      BY <1>1, SuccessorIs DEF IsChain
    <2>2. QED
      BY <1>3, <1>5, <1>9, <1>10, <2>1 DEF IsChain
  <1>12. QED
    BY <1>2, <1>5, <1>11 DEF steps

-----------------------------------------------------------------------------
(* Every node of the search is traced.                                   *)

NodesInv ==
    /\ StaticInv
    /\ pc \in Statuses
    /\ IsSeq(queue) /\ \A i \in 1..Len(queue) : Traced(queue[i])
    /\ pc \in {"pop", "consider"} => Traced(node)
    /\ pc = "start" => node = Root(input) /\ queue = <<>>
    /\ pc = "consider" => next \in 1..Len(actions)
    /\ pc # "done" => result = Unfinished

(* What the step at hand makes of the node.                                *)
NewOne == [state |-> child, depth |-> childDepth, steps |-> childSteps, path |-> childPath]

(* The node a search starts from.                                          *)
LEMMA RootIs ==
    /\ Root(input).state = InitialState(input) /\ Root(input).path = InitialPath(input)
    /\ Root(input).depth = 0 /\ Root(input).steps = <<>>
    /\ Origin.state = InitialState(input) /\ Origin.path = InitialPath(input)
    /\ Origin.depth = 0
    /\ At(Root(input)) = Origin
    /\ IsPath(InitialPath(input))
  <1>1. /\ Root(input).state = InitialState(input) /\ Root(input).path = InitialPath(input)
        /\ Root(input).depth = 0 /\ Root(input).steps = <<>>
        /\ Origin.state = InitialState(input) /\ Origin.path = InitialPath(input)
        /\ Origin.depth = 0
    BY DEF Root, Origin
  <1>2. At(Root(input)) = Origin
    BY <1>1 DEF At, Origin
  <1>3. \/ InitialPath(input) = NoPath
        \/ \E observations : InitialPath(input) = TemporalPath(observations)
    BY DEF InitialPath
  <1>4. IsPath(InitialPath(input))
    BY <1>3, KnownPath DEF IsPath
  <1>5. QED
    BY <1>1, <1>2, <1>4

(* It is traced.                                                         *)
LEMMA RootIsTraced ==
    ASSUME StaticInv, 0 < input.bound, InitialPath(input) # NoPath
    PROVE  Traced(Root(input))
  <1>1. IsChain(<<>>, InitialState(input)) /\ Len(<<>>) = 0
    <2>1. IsSeq(<<>>) /\ Len(<<>>) = 0
      BY SingletonIs
    <2>2. \A i \in 1..Len(<<>>) : IsStep(<<>>, i)
      BY <2>1
    <2>3. QED
      BY <2>1, <2>2, InitialIsState DEF IsChain
  <1>2. At(Root(input)) \in Reached(input)[0]
    BY OriginIsReached, RootIs
  <1>3. QED
    BY <1>1, <1>2, RootIs DEF Traced, Known_

(* What the loop computes for the action at hand is what follows.          *)
LEMMA ChildIs ==
    ASSUME NodesInv, pc = "consider"
    PROVE  /\ action \in Grammar
           /\ Enabled(node.state, action)
                <=> Applicable(node.state, action, input.ctx)
                        /\ Admissible(node.state, action, input.ctx)
           /\ node.depth \in Nat /\ node.depth < input.bound /\ input.bound \in Nat
           /\ Follow(node, action).state = child /\ Follow(node, action).path = childPath
           /\ Follow(node, action).depth = childDepth /\ IsPath(childPath)
           /\ NewOne.state = child /\ NewOne.path = childPath /\ NewOne.depth = childDepth
           /\ NewOne.steps = childSteps
           /\ At(NewOne) = Follow(node, action)
           /\ Enabled(node.state, action) =>
                /\ Follow(node, action) \in Reached(input)[childDepth]
                /\ IsChain(childSteps, child) /\ Len(childSteps) = childDepth
                /\ childDepth < input.bound /\ childPath # NoPath => Traced(NewOne)
  <1>1. Traced(node) /\ StaticInv /\ next \in 1..Len(actions)
    BY DEF NodesInv
  <1>2. action \in Grammar
    BY <1>1, StaticFacts DEF action
  <1>3. Enabled(node.state, action)
                <=> Applicable(node.state, action, input.ctx)
                        /\ Admissible(node.state, action, input.ctx)
    BY DEF Enabled
  <1>4. node.depth \in Nat /\ node.depth < input.bound /\ input.bound \in Nat /\ Known_(node)
    BY <1>1, StaticFacts DEF Traced
  <1>5. /\ Follow(node, action).state = child /\ Follow(node, action).path = childPath
        /\ Follow(node, action).depth = childDepth /\ IsPath(childPath)
    BY <1>4, FollowIs DEF child, childPath, childDepth
  <1>6. /\ NewOne.state = child /\ NewOne.path = childPath /\ NewOne.depth = childDepth
        /\ NewOne.steps = childSteps
    BY DEF NewOne
  <1>7. At(NewOne) = Follow(node, action)
    <2>1. Follow(node, action) = [state |-> child, path |-> childPath, depth |-> childDepth]
      BY <1>4 DEF Follow, Known_, child, childPath, childDepth
    <2>2. QED
      BY <1>6, <2>1 DEF At
  <1>8. ASSUME Enabled(node.state, action)
        PROVE  /\ Follow(node, action) \in Reached(input)[childDepth]
               /\ IsChain(childSteps, child) /\ Len(childSteps) = childDepth
               /\ childDepth < input.bound /\ childPath # NoPath => Traced(NewOne)
    <2>1. childSteps = Longer(node, action)
      BY DEF childSteps, Longer, child
    <2>2. /\ Follow(node, action) \in Reached(input)[childDepth]
          /\ IsChain(childSteps, child) /\ Len(childSteps) = childDepth
      BY <1>1, <1>2, <1>8, <2>1, ChildIsReached DEF childDepth, child
    <2>3. childDepth \in Nat
      BY <1>4 DEF childDepth
    <2>4. childPath # NoPath => Known_(NewOne)
      BY <1>5, <1>6 DEF Known_
    <2>5. QED
      BY <1>6, <1>7, <2>2, <2>3, <2>4 DEF Traced
  <1>9. QED
    BY <1>2, <1>3, <1>4, <1>5, <1>6, <1>7, <1>8

(* It holds before the search.                                             *)
LEMMA NodesInitially == Begun => NodesInv
  <1> SUFFICES ASSUME Begun PROVE NodesInv
    OBVIOUS
  <1>1. IsSeq(queue) /\ Len(queue) = 0
    BY SingletonIs DEF Begun
  <1>2. QED
    BY <1>1 DEF Begun, NodesInv, Statuses

(* Every step preserves it.                                                *)
LEMMA NodesStep == NodesInv /\ [Next]_vars => NodesInv'
  <1> SUFFICES ASSUME NodesInv, [Next]_vars PROVE NodesInv'
    OBVIOUS
  <1>1. UNCHANGED <<input, actions, allowed>> /\ StaticInv /\ StaticInv'
    BY StepsKeepCall, Frame DEF NodesInv
  <1>2. \A x : Traced(x)' <=> Traced(x)
    BY <1>1, TracedFrame
  <1>3. input.bound \in Nat /\ Len(actions) \in Nat \ {0}
    BY <1>1, StaticFacts
  <1>4. CASE UNCHANGED vars
    BY <1>1, <1>2, <1>4 DEF NodesInv, vars
  <1>5. CASE Start
    <2> DEFINE evaluation == Evaluation(node.state, node.path)
    <2>1. node = Root(input) /\ queue = <<>> /\ node' = node /\ next' = next
      BY <1>5 DEF Start, NodesInv
    <2>2. CASE pc' = "done" /\ queue' = queue
      BY <1>1, <1>2, <2>1, <2>2 DEF NodesInv, Statuses
    <2>3. CASE /\ pc' = "pop" /\ queue' = <<node>> /\ input.bound > 0
               /\ evaluation.indeterminate = {} /\ result' = result
      <3>1. InitialPath(input) # NoPath
        <4>1. "F5" \in evaluation.indeterminate <=> node.path = NoPath
          BY DEF Evaluation, EvaluationIn, EvaluateForbiddenState
        <4>2. QED
          BY <2>1, <2>3, <4>1, RootIs
      <3>2. Traced(node)
        BY <1>1, <1>3, <2>1, <2>3, <3>1, RootIsTraced
      <3>3. IsSeq(<<node>>) /\ Len(<<node>>) = 1 /\ <<node>>[1] = node
        BY SingletonIs
      <3>4. result = Unfinished
        BY <1>5 DEF NodesInv, Start
      <3>5. QED
        BY <1>1, <1>2, <2>1, <2>3, <3>2, <3>3, <3>4 DEF NodesInv, Statuses
    <2>4. QED
      BY <1>5, <2>2, <2>3 DEF Start, ReportUnsafe, ReportIndeterminate, ReportNoCounterexample,
                              Finish
  <1>6. CASE Pop
    <2>1. /\ IsSeq(queue') /\ Len(queue) \in Nat \ {0} /\ Len(queue') = Len(queue) - 1
          /\ \A i \in 1..(Len(queue) - 1) : queue'[i] = queue[i + 1]
          /\ node' = queue[1]
      BY <1>6, TailIs DEF Pop, NodesInv
    <2>2. Traced(queue[1])
      BY <2>1 DEF NodesInv
    <2>3. ASSUME NEW i \in 1..Len(queue') PROVE Traced(queue'[i])
      <3>1. i + 1 \in 1..Len(queue) /\ queue'[i] = queue[i + 1]
        BY <2>1
      <3>2. QED
        BY <3>1 DEF NodesInv
    <2>4. pc' \in {"pop", "consider"} /\ next' = 1 /\ result' = result /\ pc = "pop"
      BY <1>6 DEF Pop
    <2>5. QED
      BY <1>1, <1>2, <1>3, <2>1, <2>2, <2>3, <2>4 DEF NodesInv, Statuses
  <1>7. CASE Exhausted \/ StartFails
    <2>1. UNCHANGED <<queue, node, next>> /\ pc' = "done"
      BY <1>7 DEF Exhausted, StartFails, ReportNoCounterexample, ReportFailure, Finish
    <2>2. QED
      BY <1>1, <1>2, <2>1 DEF NodesInv, Statuses
  <1>8. CASE ProvenanceLost \/ StateBudgetExhausted \/ CollaboratorFails \/ EvaluationFails
    <2>1. UNCHANGED <<queue, node, next>> /\ pc' = "done"
      BY <1>8 DEF ProvenanceLost, StateBudgetExhausted, CollaboratorFails, EvaluationFails,
                  ReportUnsafe, ReportIndeterminate, ReportFailure, Finish
    <2>2. QED
      BY <1>1, <1>2, <2>1 DEF NodesInv, Statuses
  <1>9. CASE TransitionRejected \/ OracleRejected \/ Deduplicated
    <2>1. /\ UNCHANGED <<queue, node>> /\ pc = "consider" /\ MoveOn
      BY <1>9 DEF TransitionRejected, OracleRejected, Deduplicated, Admit
    <2>2. /\ pc' \in {"pop", "consider"} /\ result' = result
          /\ pc' = "consider" => next' \in 1..Len(actions)
      BY <1>3, <2>1 DEF MoveOn, NodesInv
    <2>3. QED
      BY <1>1, <1>2, <2>1, <2>2 DEF NodesInv, Statuses
  <1>10. CASE Discover
    <2>1. /\ pc = "consider" /\ childPath # NoPath /\ node' = node
          /\ Enabled(node.state, action)
      BY <1>10 DEF Discover, NewNode, Enabled
    <2>2. CASE pc' = "done" /\ queue' = queue
      BY <1>1, <1>2, <2>1, <2>2 DEF NodesInv, Statuses
    <2>3. CASE /\ queue' = IF childDepth < input.bound THEN Append(queue, NewOne) ELSE queue
               /\ MoveOn
      <3>1. /\ pc' \in {"pop", "consider"} /\ result' = result
            /\ pc' = "consider" => next' \in 1..Len(actions)
        BY <1>3, <2>1, <2>3 DEF MoveOn, NodesInv
      <3>2. IsSeq(queue') /\ \A i \in 1..Len(queue') : Traced(queue'[i])
        <4>1. CASE queue' = queue
          BY <4>1 DEF NodesInv
        <4>2. CASE childDepth < input.bound /\ queue' = Append(queue, NewOne)
          <5>1. Traced(NewOne)
            BY <2>1, <4>2, ChildIs
          <5>2. /\ IsSeq(queue') /\ Len(queue) \in Nat /\ Len(queue') = Len(queue) + 1
                /\ \A i \in 1..Len(queue) : queue'[i] = queue[i]
                /\ queue'[Len(queue) + 1] = NewOne
            BY <4>2, AppendIs DEF NodesInv
          <5>3. ASSUME NEW i \in 1..Len(queue') PROVE i \in 1..Len(queue) \/ i = Len(queue) + 1
            BY <5>2
          <5>4. QED
            BY <5>1, <5>2, <5>3 DEF NodesInv
        <4>3. QED
          BY <2>3, <4>1, <4>2
      <3>3. QED
        BY <1>1, <1>2, <2>1, <3>1, <3>2 DEF NodesInv, Statuses
    <2>4. QED
      BY <1>10, <2>2, <2>3 DEF Discover, ReportUnsafe, Finish, Enqueue, NewOne
  <1>11. QED
    BY <1>4, <1>5, <1>6, <1>7, <1>8, <1>9, <1>10 DEF Next, Search

(* Every node in the queue of the search and the one being expanded are    *)
(* reached by the actions recorded in their steps, each admissible where   *)
(* it was taken (SearchNode's steps in ppmc_search.py, which become the    *)
(* counterexample).                                                        *)
THEOREM NodesAreTraced == Spec => []NodesInv
  BY InitBegins, NodesInitially, NodesStep, PTL DEF Spec

-----------------------------------------------------------------------------
(* The search goes level by level, and leaves nothing of a level behind.   *)

Found(x) == Known_(x) /\ Key(x) \in seen

(* The action a of the nodes of a key is still to be considered.           *)
Waiting(k, a) ==
    \/ \E i \in 1..Len(queue) : queue[i].depth = node.depth /\ Key(queue[i]) = k
    \/ /\ pc = "consider" /\ Key(node) = k
       /\ \E i \in next..Len(actions) : actions[i] = a

(* The queue holds the rest of a level, and then the next one's.           *)
TwoLevels ==
    /\ \A i \in 1..Len(queue) : queue[i].depth \in {node.depth, node.depth + 1}
    /\ \A i, j \in 1..Len(queue) : i < j => queue[i].depth <= queue[j].depth

LevelsFound == \A m \in 0..node.depth : \A x \in Reached(input)[m] : Found(x)

LevelPursued ==
    \A x \in Reached(input)[node.depth] : \A a \in Grammar :
        Enabled(x.state, a) => Found(Follow(x, a)) \/ Waiting(Key(x), a)

SeenKey(k) ==
    \/ \E m \in 0..node.depth : \E x \in Reached(input)[m] : Key(x) = k
    \/ \E i \in 1..Len(queue) : queue[i].depth = node.depth + 1 /\ Key(queue[i]) = k

SeenExplained == node.depth + 1 < input.bound => \A k \in seen : SeenKey(k)

FoundIsClean == \A x : Found(x) => Clean(x)

LevelInv ==
    pc \in {"pop", "consider"} =>
        TwoLevels /\ LevelsFound /\ LevelPursued /\ SeenExplained /\ FoundIsClean

(* What is found after a node is found after each of its twins.            *)
LEMMA TwinsAreFound ==
    ASSUME NEW x, NEW y, Known_(x), Known_(y), Key(x) = Key(y), NEW a
    PROVE  /\ Enabled(x.state, a) <=> Enabled(y.state, a)
           /\ Found(Follow(x, a)) <=> Found(Follow(y, a))
  BY TwinsAreAlike DEF Found

(* A grounded node is a point of its level.                                *)
LEMMA TracedIsAt ==
    ASSUME NEW x, Traced(x)
    PROVE  /\ Known_(x) /\ At(x) \in Reached(input)[x.depth]
           /\ Key(At(x)) = Key(x) /\ Known_(At(x))
  BY AtIs DEF Traced

(* Nothing is left when the queue is empty: a state no search found, at    *)
(* the least depth there is one, would follow a state that was.            *)
LEMMA NothingIsLeft ==
    ASSUME NodesInv, LevelInv, pc = "pop", queue = <<>>
    PROVE  \A n \in 0..input.bound : \A x \in Reached(input)[n] : Clean(x)
  <1> DEFINE R == Reached(input)
             d == node.depth
             Lost == {n \in 0..input.bound : \E x \in R[n] : ~Found(x)}
  <1>1. StaticInv /\ input.bound \in Nat /\ d \in Nat /\ d < input.bound /\ Len(queue) = 0
    BY StaticFacts, SingletonIs DEF NodesInv, Traced
  <1>2. LevelsFound /\ LevelPursued /\ SeenExplained /\ FoundIsClean
    BY DEF LevelInv
  <1>3. \A k, a : ~Waiting(k, a)
    BY <1>1 DEF Waiting
  <1>4. \A m \in 0..d : \A x \in R[m] : Found(x)
    BY <1>2 DEF LevelsFound
  <1>5. ASSUME NEW x \in R[d], NEW a \in Grammar, Enabled(x.state, a)
        PROVE  Found(Follow(x, a))
    BY <1>2, <1>3, <1>5 DEF LevelPursued
  <1> HIDE DEF d, R
  <1>6. ASSUME NEW x \in R[d + 1] PROVE Found(x)
    <2>1. PICK y \in R[d], a \in Grammar : Enabled(y.state, a) /\ x = Follow(y, a)
      BY <1>1, ReachedIsFollowed DEF R
    <2>2. QED
      BY <1>5, <2>1
  <1>7. Lost = {}
    <2>1. SUFFICES ASSUME Lost # {} PROVE FALSE
      OBVIOUS
    <2>2. Lost \subseteq Nat
      BY <1>1
    <2>3. PICK n \in Lost : \A k \in Lost : n <= k
      <3> HIDE DEF Lost
      <3>1. QED
        BY <2>1, <2>2, LeastNatural
    <2>4. PICK x \in R[n] : ~Found(x)
      BY <2>3
    <2>5. n \in 0..input.bound
      BY <2>3
    <2>6. n > d + 1
      BY <1>1, <1>4, <1>6, <2>4, <2>5
    <2>7. n - 1 \in 0..(input.bound - 1) /\ (n - 1) + 1 = n /\ n - 1 \in 0..input.bound
      BY <1>1, <2>5, <2>6
    <2>8. PICK y \in R[n - 1], a \in Grammar : Enabled(y.state, a) /\ x = Follow(y, a)
      BY <1>1, <2>7, ReachedIsFollowed DEF R
    <2>9. Found(y)
      <3>1. n - 1 \notin Lost
        <4> HIDE DEF Lost
        <4>1. QED
          BY <2>2, <2>3, <2>7
      <3>2. QED
        BY <2>7, <3>1
    <2>10. d + 1 < input.bound
      BY <1>1, <2>5, <2>6
    <2>11. SeenKey(Key(y))
      BY <1>2, <2>9, <2>10 DEF SeenExplained, Found, d
    <2>12. PICK m \in 0..d : \E z \in R[m] : Key(z) = Key(y)
      BY <1>1, <2>11 DEF SeenKey, d, R
    <2>13. PICK z \in R[m] : Key(z) = Key(y)
      BY <2>12
    <2>14. Known_(y) /\ Known_(z)
      BY <1>4, <2>9 DEF Found
    <2>15. Enabled(z.state, a) /\ (Found(Follow(z, a)) => Found(Follow(y, a)))
      BY <2>8, <2>13, <2>14, TwinsAreFound
    <2>16. m + 1 \in 0..(d + 1) /\ m \in 0..(input.bound - 1)
      BY <1>1
    <2>17. Follow(z, a) \in R[m + 1]
      BY <1>1, <2>15, <2>16, FollowIsReached DEF R
    <2>18. Found(Follow(z, a))
      <3>1. m + 1 \in 0..d \/ m + 1 = d + 1
        BY <1>1, <2>16
      <3>2. QED
        BY <1>4, <1>6, <2>17, <3>1
    <2>19. QED
      BY <2>4, <2>8, <2>15, <2>18
  <1>8. ASSUME NEW n \in 0..input.bound, NEW x \in R[n] PROVE Clean(x)
    BY <1>2, <1>7 DEF FoundIsClean
  <1>9. QED
    BY <1>8 DEF R

(* The action at hand of the node at hand has been dealt with, for every   *)
(* state that has the node's key.                                          *)
LEMMA ActionDone ==
    ASSUME NodesInv, LevelInv, pc = "consider", UNCHANGED <<input, actions, allowed, node>>,
           MoveOn, seen \subseteq seen',
           Len(queue) \in Nat, Len(queue') \in Nat, Len(queue) <= Len(queue'),
           \A i \in 1..Len(queue) : queue'[i] = queue[i],
           Enabled(node.state, action) =>
                Known_(Follow(node, action)) /\ Key(Follow(node, action)) \in seen'
    PROVE  LevelsFound' /\ LevelPursued'
  <1> DEFINE d == node.depth
             R == Reached(input)
  <1>1. R' = R /\ d' = d /\ Grammar' = Grammar
        /\ \A s, a : Enabled(s, a)' <=> Enabled(s, a)
    BY Frame
  <1>2. \A x : Found(x) => Found(x)'
    BY DEF Found
  <1>3. LevelsFound /\ LevelPursued
    BY DEF LevelInv
  <1>4. next \in 1..Len(actions) /\ Len(actions) \in Nat /\ Traced(node) /\ d \in Nat
    BY StaticFacts DEF NodesInv, Traced
  <1>5. LevelsFound'
    BY <1>1, <1>2, <1>3 DEF LevelsFound
  <1>6. ASSUME NEW x \in R[d], NEW a \in Grammar, Enabled(x.state, a)
        PROVE  Found(Follow(x, a))' \/ Waiting(Key(x), a)'
    <2>1. Found(Follow(x, a)) \/ Waiting(Key(x), a)
      BY <1>3, <1>6 DEF LevelPursued
    <2>2. CASE Found(Follow(x, a))
      BY <1>2, <2>2
    <2>3. CASE \E i \in 1..Len(queue) : queue[i].depth = node.depth /\ Key(queue[i]) = Key(x)
      <3>1. PICK i \in 1..Len(queue) : queue[i].depth = node.depth /\ Key(queue[i]) = Key(x)
        BY <2>3
      <3>2. i \in 1..Len(queue') /\ queue'[i] = queue[i] /\ node' = node
        OBVIOUS
      <3>3. Waiting(Key(x), a)'
        BY <3>1, <3>2 DEF Waiting, Key
      <3>4. QED
        BY <3>3
    <2>4. CASE Key(node) = Key(x) /\ \E i \in next..Len(actions) : actions[i] = a
      <3>1. PICK i \in next..Len(actions) : actions[i] = a
        BY <2>4
      <3>2. CASE i = next
        <4>1. a = action
          BY <3>1, <3>2 DEF action
        <4>2. Known_(x) /\ Known_(node)
          BY <1>3, <1>4 DEF LevelsFound, Found, Traced
        <4>3. Enabled(node.state, action)
          BY <1>6, <2>4, <4>1, <4>2, TwinsAreAlike
        <4>4. Known_(Follow(node, a)) /\ Key(Follow(node, a)) \in seen'
          BY <4>1, <4>3
        <4>5. Known_(Follow(x, a)) /\ Key(Follow(x, a)) \in seen'
          BY <2>4, <4>2, <4>4, TwinsAreAlike
        <4>6. QED
          BY <4>5 DEF Found
      <3>3. CASE i # next
        <4>1. i \in (next + 1)..Len(actions) /\ next # Len(actions)
          BY <1>4, <3>1, <3>3
        <4>2. pc' = "consider" /\ next' = next + 1 /\ node' = node /\ actions' = actions
          BY <4>1 DEF MoveOn
        <4>3. Waiting(Key(x), a)'
          BY <2>4, <3>1, <4>1, <4>2 DEF Waiting, Key
        <4>4. QED
          BY <4>3
      <3>4. QED
        BY <3>2, <3>3
    <2>5. QED
      BY <2>1, <2>2, <2>3, <2>4 DEF Waiting
  <1>7. LevelPursued'
    BY <1>1, <1>6 DEF LevelPursued
  <1>8. QED
    BY <1>5, <1>7

(* A search begins with a level that is the origin alone.                  *)
LEMMA LevelBegins ==
    ASSUME NodesInv, NodesInv', Start, pc' = "pop"
    PROVE  LevelInv'
  <1> DEFINE k == NodeKey(node.state, node.path)
             R == Reached(input)
  <1>1. /\ UNCHANGED <<input, actions, allowed, node>> /\ pc = "start"
        /\ queue' = <<node>> /\ seen' = {k} /\ input.bound > 0
        /\ Evaluation(node.state, node.path).matched
                \cup Evaluation(node.state, node.path).indeterminate = {}
    BY DEF Start, ReportUnsafe, ReportIndeterminate, ReportNoCounterexample, Finish
  <1>2. R' = R /\ Grammar' = Grammar
        /\ (\A x : Clean(x)' <=> Clean(x)) /\ (\A s, a : Enabled(s, a)' <=> Enabled(s, a))
    BY <1>1, Frame
  <1>3. StaticInv /\ node = Root(input) /\ Traced(node)
    <2>1. Traced(node)' /\ StaticInv /\ node = Root(input)
      BY <1>1 DEF NodesInv
    <2>2. QED
      BY <1>1, <2>1, TracedFrame
  <1>4. R[0] = {Origin} /\ node.depth = 0 /\ At(node) = Origin
    BY <1>3, OriginIsReached, RootIs
  <1>5. Key(node) = k /\ Key(Origin) = k /\ Known_(Origin) /\ Known_(node)
    BY <1>3, <1>4, AtIs, TracedIsAt DEF Key
  <1>6. Len(queue') = 1 /\ queue'[1] = node
    BY <1>1, SingletonIs
  <1>7. TwoLevels'
    <2>1. \A i \in 1..Len(queue') : queue'[i] = node /\ i = 1
      BY <1>6
    <2>2. QED
      BY <1>1, <1>4, <2>1 DEF TwoLevels
  <1>8. LevelsFound'
    BY <1>1, <1>2, <1>4, <1>5 DEF LevelsFound, Found, Key
  <1>9. LevelPursued'
    <2>1. ASSUME NEW a PROVE Waiting(k, a)'
      <3>1. queue'[1].depth = node'.depth /\ Key(queue'[1]) = k /\ 1 \in 1..Len(queue')
        BY <1>1, <1>5, <1>6
      <3>2. \E i \in 1..Len(queue') : queue'[i].depth = node'.depth /\ Key(queue'[i]) = k
        BY <3>1
      <3> HIDE DEF k
      <3>3. QED
        BY <3>2, <1>1 DEF Waiting, k, Key
    <2>2. QED
      BY <1>1, <1>2, <1>4, <1>5, <2>1 DEF LevelPursued
  <1>10. SeenExplained'
    <2>1. \A z \in seen' : z = Key(Origin)
      BY <1>1, <1>5
    <2>2. \A z \in seen' : \E m \in 0..node.depth : \E x \in R[m] : Key(x) = z
      BY <1>4, <2>1
    <2>3. QED
      BY <1>1, <1>2, <2>2 DEF SeenExplained, SeenKey
  <1>11. FoundIsClean'
    <2>1. ASSUME NEW x, Known_(x), Key(x) = k PROVE Clean(x)
      <3>1. Clean(x) <=> Clean(node)
        BY <1>5, <2>1, TwinsAreAlike
      <3>2. QED
        BY <1>1, <3>1 DEF Clean, CleanIn, Evaluation
    <2>2. QED
      BY <1>1, <1>2, <2>1 DEF FoundIsClean, Found
  <1>12. QED
    BY <1>7, <1>8, <1>9, <1>10, <1>11 DEF LevelInv

(* Taking a node begins the next level when it is the first of it.         *)
LEMMA LevelGoesOn ==
    ASSUME NodesInv, NodesInv', LevelInv, Pop
    PROVE  LevelInv'
  <1> DEFINE d == node.depth
             e == node'.depth
             R == Reached(input)
             Q == Len(queue)
  <1>1. /\ UNCHANGED <<input, actions, allowed, seen>> /\ pc = "pop" /\ queue # <<>>
        /\ node' = Head(queue) /\ queue' = Tail(queue) /\ next' = 1
        /\ pc' = IF Head(queue).depth >= input.bound THEN "pop" ELSE "consider"
    BY DEF Pop
  <1>2. R' = R /\ Grammar' = Grammar
        /\ (\A x : Clean(x)' <=> Clean(x)) /\ (\A s, a : Enabled(s, a)' <=> Enabled(s, a))
    BY <1>1, Frame
  <1>3. StaticInv /\ Traced(node) /\ \A i \in 1..Q : Traced(queue[i])
    BY <1>1 DEF NodesInv
  <1>4. /\ Q \in Nat \ {0} /\ Len(queue') = Q - 1
        /\ \A i \in 1..(Q - 1) : queue'[i] = queue[i + 1]
        /\ node' = queue[1]
    BY <1>1, TailIs DEF NodesInv
  <1>5. /\ \A i \in 1..Q : queue[i].depth \in {d, d + 1}
        /\ \A i, j \in 1..Q : i < j => queue[i].depth <= queue[j].depth
        /\ LevelsFound /\ LevelPursued /\ SeenExplained /\ FoundIsClean
    BY <1>1 DEF LevelInv, TwoLevels
  <1>6. d \in Nat /\ d < input.bound /\ input.bound \in Nat
    BY <1>3, StaticFacts DEF Traced
  <1>7. Traced(queue[1]) /\ e \in {d, d + 1} /\ e < input.bound
    BY <1>3, <1>4, <1>5 DEF Traced
  <1>8. pc' = "consider"
    BY <1>1, <1>4, <1>6, <1>7, TailIs DEF NodesInv
  <1>9. \A k \in 1..Q : k = 1 \/ (k - 1 \in 1..(Q - 1) /\ queue[k] = queue'[k - 1])
    BY <1>4
  <1>10. TwoLevels'
    <2>1. \A i \in 1..(Q - 1) : queue'[i].depth \in {d, d + 1} /\ e <= queue'[i].depth
      <3>1. ASSUME NEW i \in 1..(Q - 1)
            PROVE  i + 1 \in 1..Q /\ 1 \in 1..Q /\ 1 < i + 1 /\ queue'[i] = queue[i + 1]
        BY <1>4
      <3>2. QED
        BY <1>4, <1>5, <3>1
    <2>2. \A i \in 1..(Q - 1) : queue'[i].depth \in {e, e + 1}
      BY <1>6, <1>7, <2>1
    <2>3. ASSUME NEW i \in 1..(Q - 1), NEW j \in 1..(Q - 1), i < j
          PROVE  queue'[i].depth <= queue'[j].depth
      <3>1. i + 1 \in 1..Q /\ j + 1 \in 1..Q /\ i + 1 < j + 1
        BY <1>4, <2>3
      <3>2. QED
        BY <1>4, <1>5, <3>1
    <2>4. QED
      BY <1>4, <2>2, <2>3 DEF TwoLevels
  <1>11. \A i \in 1..Len(actions) : actions[i] \in Grammar
    BY <1>3, StaticFacts
  <1>12. Known_(queue[1]) /\ Key(At(queue[1])) = Key(queue[1]) /\ At(queue[1]) \in R[e]
            /\ Known_(At(queue[1]))
    BY <1>4, <1>7, TracedIsAt
  (* What waits in the queue, or is taken from it, is not lost.            *)
  <1>13. ASSUME NEW k, NEW a \in Grammar, NEW i \in 1..Q, queue[i].depth = e, Key(queue[i]) = k
         PROVE  Waiting(k, a)'
    <2>1. CASE i = 1
      <3>1. PICK j \in 1..Len(actions) : actions[j] = a
        BY <1>3, StaticFacts
      <3>2. j \in next'..Len(actions)' /\ actions'[j] = a
        BY <1>1, <1>3, <3>1, StaticFacts
      <3>3. Key(node') = k
        BY <1>4, <1>13, <2>1
      <3>4. QED
        BY <1>8, <3>2, <3>3 DEF Waiting, Key
    <2>2. CASE i # 1
      <3>1. i - 1 \in 1..Len(queue') /\ queue'[i - 1] = queue[i]
        BY <1>4, <1>9, <2>2
      <3>2. \E j \in 1..Len(queue') : queue'[j].depth = node'.depth /\ Key(queue'[j]) = k
        BY <1>13, <3>1
      <3>3. QED
        BY <3>2 DEF Waiting, Key
    <2>3. QED
      BY <2>1, <2>2
  <1>14. FoundIsClean' /\ \A x : Found(x)' <=> Found(x)
    <2>1. \A x : Found(x)' <=> Found(x)
      BY <1>1 DEF Found
    <2>2. QED
      BY <1>2, <1>5, <2>1 DEF FoundIsClean
  <1>15. ASSUME e = d PROVE LevelsFound' /\ LevelPursued' /\ SeenExplained'
    <2>1. LevelsFound'
      BY <1>2, <1>5, <1>14, <1>15 DEF LevelsFound
    <2>2. ASSUME NEW x \in R[d], NEW a \in Grammar, Enabled(x.state, a)
          PROVE  Found(Follow(x, a))' \/ Waiting(Key(x), a)'
      <3>1. Found(Follow(x, a)) \/ Waiting(Key(x), a)
        BY <1>5, <2>2 DEF LevelPursued
      <3>2. CASE Found(Follow(x, a))
        BY <1>14, <3>2
      <3>3. CASE Waiting(Key(x), a)
        <4>1. PICK i \in 1..Q : queue[i].depth = d /\ Key(queue[i]) = Key(x)
          BY <1>1, <3>3 DEF Waiting
        <4>2. QED
          BY <1>13, <1>15, <4>1
      <3>4. QED
        BY <3>1, <3>2, <3>3
    <2>3. LevelPursued'
      BY <1>2, <1>15, <2>2 DEF LevelPursued
    <2>4. ASSUME e + 1 < input.bound, NEW k \in seen PROVE SeenKey(k)'
      <3>1. SeenKey(k)
        BY <1>5, <1>15, <2>4 DEF SeenExplained
      <3>2. CASE \E m \in 0..d : \E x \in R[m] : Key(x) = k
        <4>1. PICK m \in 0..d : \E x \in R[m] : Key(x) = k
          BY <3>2
        <4>2. PICK x \in R[m] : Key(x) = k
          BY <4>1
        <4>3. m \in 0..node'.depth /\ x \in Reached(input)'[m]
          BY <1>2, <1>15
        <4>4. QED
          BY <4>2, <4>3 DEF SeenKey, Key
      <3>3. CASE \E i \in 1..Q : queue[i].depth = d + 1 /\ Key(queue[i]) = k
        <4>1. PICK i \in 1..Q : queue[i].depth = d + 1 /\ Key(queue[i]) = k
          BY <3>3
        <4>2. i # 1
          BY <1>4, <1>6, <1>15, <4>1
        <4>3. i - 1 \in 1..Len(queue') /\ queue'[i - 1] = queue[i]
          BY <1>4, <1>9, <4>2
        <4>4. \E j \in 1..Len(queue') : queue'[j].depth = node'.depth + 1 /\ Key(queue'[j]) = k
          BY <1>15, <4>1, <4>3
        <4>5. QED
          BY <4>4 DEF SeenKey, Key
      <3>4. QED
        BY <3>1, <3>2, <3>3 DEF SeenKey
    <2>5. SeenExplained'
      BY <1>1, <2>4 DEF SeenExplained
    <2>6. QED
      BY <2>1, <2>3, <2>5
  <1>16. ASSUME e = d + 1 PROVE LevelsFound' /\ LevelPursued' /\ SeenExplained'
    <2>1. \A i \in 1..Q : queue[i].depth = d + 1
      <3>1. ASSUME NEW i \in 1..Q, i # 1 PROVE queue[1].depth <= queue[i].depth
        BY <1>4, <1>5, <3>1
      <3>2. QED
        BY <1>4, <1>5, <1>6, <1>16, <3>1
    <2>2. \A k, a : ~Waiting(k, a)
      BY <1>1, <1>6, <2>1 DEF Waiting
    <2>3. ASSUME NEW x \in R[d], NEW a \in Grammar, Enabled(x.state, a)
          PROVE  Found(Follow(x, a))
      BY <1>5, <2>2, <2>3 DEF LevelPursued
    <2>4. ASSUME NEW x \in R[d + 1] PROVE Found(x)
      <3>1. d \in 0..(input.bound - 1)
        BY <1>6
      <3>2. PICK y \in R[d], a \in Grammar : Enabled(y.state, a) /\ x = Follow(y, a)
        BY <1>3, <3>1, ReachedIsFollowed
      <3>3. QED
        BY <2>3, <3>2
    <2>5. ASSUME NEW m \in 0..(d + 1), NEW x \in R[m] PROVE Found(x)
      <3>1. m \in 0..d \/ m = d + 1
        BY <1>6
      <3>2. QED
        BY <1>5, <2>4, <3>1 DEF LevelsFound
    <2>6. LevelsFound'
      BY <1>2, <1>14, <1>16, <2>5 DEF LevelsFound
    <2>7. \A k \in seen : SeenKey(k)
      BY <1>5, <1>7, <1>16 DEF SeenExplained
    <2>8. ASSUME NEW x \in R[e], NEW a \in Grammar, Enabled(x.state, a)
          PROVE  Found(Follow(x, a))' \/ Waiting(Key(x), a)'
      <3>1. Found(x)
        BY <1>6, <1>16, <2>4
      <3>2. SeenKey(Key(x))
        BY <2>7, <3>1 DEF Found
      <3>3. CASE \E m \in 0..d : \E z \in R[m] : Key(z) = Key(x)
        <4>1. PICK m \in 0..d : \E z \in R[m] : Key(z) = Key(x)
          BY <3>3
        <4>2. PICK z \in R[m] : Key(z) = Key(x)
          BY <4>1
        <4>3. /\ m \in 0..(d + 1) /\ m + 1 \in 0..(d + 1) /\ m \in 0..(input.bound - 1)
          BY <1>6
        <4>4. Known_(z) /\ Known_(x)
          BY <2>5, <3>1, <4>3 DEF Found
        <4>5. Enabled(z.state, a) /\ (Found(Follow(z, a)) => Found(Follow(x, a)))
          BY <2>8, <4>2, <4>4, TwinsAreFound
        <4>6. Follow(z, a) \in R[m + 1]
          BY <1>3, <4>3, <4>5, FollowIsReached
        <4>7. Found(Follow(z, a))
          BY <2>5, <4>3, <4>6
        <4>8. QED
          BY <1>14, <4>5, <4>7
      <3>4. CASE \E i \in 1..Q : queue[i].depth = d + 1 /\ Key(queue[i]) = Key(x)
        BY <1>13, <1>16, <3>4
      <3>5. QED
        BY <3>2, <3>3, <3>4 DEF SeenKey
    <2>9. LevelPursued'
      BY <1>2, <2>8 DEF LevelPursued
    <2>10. ASSUME NEW k \in seen PROVE \E m \in 0..e : \E x \in R[m] : Key(x) = k
      <3>1. SeenKey(k)
        BY <2>7
      <3>2. CASE \E m \in 0..d : \E z \in R[m] : Key(z) = k
        BY <1>6, <1>16, <3>2
      <3>3. CASE \E i \in 1..Q : queue[i].depth = d + 1 /\ Key(queue[i]) = k
        <4>1. PICK i \in 1..Q : queue[i].depth = d + 1 /\ Key(queue[i]) = k
          BY <3>3
        <4>2. At(queue[i]) \in R[d + 1] /\ Key(At(queue[i])) = k
          BY <1>3, <4>1, TracedIsAt
        <4>3. d + 1 \in 0..e
          BY <1>6, <1>16
        <4>4. QED
          BY <4>2, <4>3
      <3>4. QED
        BY <3>1, <3>2, <3>3 DEF SeenKey
    <2>11. SeenExplained'
      <3>1. ASSUME NEW k \in seen' PROVE SeenKey(k)'
        <4>1. PICK m \in 0..e : \E x \in R[m] : Key(x) = k
          BY <1>1, <2>10
        <4>2. PICK x \in R[m] : Key(x) = k
          BY <4>1
        <4>3. x \in Reached(input)'[m]
          BY <1>2
        <4>4. QED
          BY <4>2, <4>3 DEF SeenKey, Key
      <3>2. QED
        BY <3>1 DEF SeenExplained
    <2>12. QED
      BY <2>6, <2>9, <2>11
  <1>17. LevelsFound' /\ LevelPursued' /\ SeenExplained'
    BY <1>7, <1>15, <1>16
  <1>18. QED
    BY <1>10, <1>14, <1>17 DEF LevelInv

(* A node that is discovered joins the level after the one at hand.        *)
LEMMA LevelGrows ==
    ASSUME NodesInv, NodesInv', LevelInv, Discover, pc' # "done"
    PROVE  LevelInv'
  <1> DEFINE d == node.depth
             R == Reached(input)
             k == NodeKey(child, childPath)
             Q == Len(queue)
             y == Follow(node, action)
  <1>1. /\ UNCHANGED <<input, actions, allowed, node>> /\ pc = "consider"
        /\ childPath # NoPath /\ seen' = seen \cup {k} /\ Enabled(node.state, action)
        /\ MoveOn
        /\ Evaluation(child, childPath).matched = {}
        /\ queue' = IF childDepth < input.bound THEN Append(queue, NewOne) ELSE queue
    BY DEF Discover, NewNode, ReportUnsafe, Finish, Enabled, Enqueue, NewOne
  <1>2. R' = R /\ \A x : Clean(x)' <=> Clean(x)
    BY <1>1, Frame
  <1>3. /\ IsSeq(queue) /\ d \in Nat /\ d < input.bound /\ input.bound \in Nat
        /\ childDepth = d + 1
    BY <1>1, ChildIs DEF NodesInv, childDepth
  <1>4. /\ y.state = child /\ y.path = childPath /\ y \in R[childDepth]
        /\ Known_(y) /\ Key(y) = k
        /\ NewOne.depth = childDepth /\ Key(NewOne) = k
    BY <1>1, ChildIs DEF Known_, Key
  <1>5. /\ Q \in Nat /\ Len(queue') \in Nat /\ Q <= Len(queue')
        /\ \A i \in 1..Q : queue'[i] = queue[i]
        /\ \A i \in 1..Len(queue') : i \notin 1..Q => queue'[i] = NewOne /\ i = Q + 1
        /\ childDepth < input.bound => Q + 1 \in 1..Len(queue') /\ queue'[Q + 1] = NewOne
    <2>1. /\ Q \in Nat /\ Len(Append(queue, NewOne)) = Q + 1
          /\ \A i \in 1..Q : Append(queue, NewOne)[i] = queue[i]
          /\ Append(queue, NewOne)[Q + 1] = NewOne
      BY <1>3, AppendIs
    <2>2. QED
      BY <1>1, <2>1
  <1>6. TwoLevels /\ LevelsFound /\ SeenExplained /\ FoundIsClean
    BY <1>1 DEF LevelInv
  <1>7. TwoLevels'
    <2>1. \A i \in 1..Len(queue') : queue'[i].depth \in {d, d + 1}
      BY <1>3, <1>4, <1>5, <1>6 DEF TwoLevels
    <2>2. ASSUME NEW i \in 1..Len(queue'), NEW j \in 1..Len(queue'), i < j
          PROVE  queue'[i].depth <= queue'[j].depth
      <3>1. CASE j \in 1..Q
        <4>1. i \in 1..Q
          BY <1>5, <2>2, <3>1
        <4>2. QED
          BY <1>5, <1>6, <2>2, <3>1, <4>1 DEF TwoLevels
      <3>2. CASE j \notin 1..Q
        <4>1. queue'[j].depth = d + 1
          BY <1>3, <1>4, <1>5, <3>2
        <4>2. QED
          BY <1>3, <2>1, <4>1
      <3>3. QED
        BY <3>1, <3>2
    <2>3. QED
      BY <1>1, <2>1, <2>2 DEF TwoLevels
  <1>8. LevelsFound' /\ LevelPursued'
    BY <1>1, <1>4, <1>5, ActionDone
  <1>9. ASSUME d + 1 < input.bound, NEW z \in seen' PROVE SeenKey(z)'
    <2>1. CASE z = k
      <3>1. \E i \in 1..Len(queue') : queue'[i].depth = node'.depth + 1 /\ Key(queue'[i]) = z
        BY <1>1, <1>3, <1>4, <1>5, <1>9, <2>1
      <3>2. QED
        BY <3>1 DEF SeenKey, Key
    <2>2. CASE z \in seen
      <3>1. SeenKey(z)
        BY <1>6, <1>9, <2>2 DEF SeenExplained
      <3>2. CASE \E m \in 0..d : \E x \in R[m] : Key(x) = z
        <4>1. \E m \in 0..node'.depth : \E x \in Reached(input)'[m] : Key(x) = z
          BY <1>1, <1>2, <3>2
        <4>2. QED
          BY <4>1 DEF SeenKey, Key
      <3>3. CASE \E i \in 1..Q : queue[i].depth = d + 1 /\ Key(queue[i]) = z
        <4>1. PICK i \in 1..Q : queue[i].depth = d + 1 /\ Key(queue[i]) = z
          BY <3>3
        <4>2. i \in 1..Len(queue') /\ queue'[i] = queue[i] /\ node'.depth = d
          BY <1>1, <1>5
        <4>3. \E j \in 1..Len(queue') : queue'[j].depth = node'.depth + 1 /\ Key(queue'[j]) = z
          BY <4>1, <4>2
        <4>4. QED
          BY <4>3 DEF SeenKey, Key
      <3>4. QED
        BY <3>1, <3>2, <3>3 DEF SeenKey
    <2>3. QED
      BY <1>1, <1>9, <2>1, <2>2
  <1>10. SeenExplained'
    BY <1>1, <1>9 DEF SeenExplained
  <1>11. FoundIsClean'
    <2>1. Clean(y)
      <3>1. Evaluation(child, childPath).indeterminate = {}
        BY <1>1 DEF Evaluation, EvaluationIn, EvaluateForbiddenState
      <3>2. QED
        BY <1>1, <1>4, <3>1 DEF Clean, CleanIn, Evaluation
    <2>2. ASSUME NEW x, Known_(x), Key(x) = k PROVE Clean(x)
      BY <1>4, <2>1, <2>2, TwinsAreAlike
    <2>3. QED
      BY <1>1, <1>2, <1>6, <2>2 DEF FoundIsClean, Found
  <1>12. QED
    BY <1>7, <1>8, <1>10, <1>11 DEF LevelInv

(* An action that is rejected or leads to a key already seen.              *)
LEMMA LevelKept ==
    ASSUME NodesInv, NodesInv', LevelInv, UNCHANGED <<input, actions, allowed>>,
           TransitionRejected \/ OracleRejected \/ Deduplicated
    PROVE  LevelInv'
  <1>1. /\ UNCHANGED <<queue, seen, node>> /\ pc = "consider" /\ MoveOn
    BY DEF TransitionRejected, OracleRejected, Deduplicated, Admit
  <1>2. Enabled(node.state, action) =>
            Known_(Follow(node, action)) /\ Key(Follow(node, action)) \in seen'
    <2>1. CASE Deduplicated
      <3>1. childPath # NoPath /\ NodeKey(child, childPath) \in seen
        BY <2>1 DEF Deduplicated
      <3>2. QED
        BY <1>1, <3>1, ChildIs DEF Known_, Key
    <2>2. CASE TransitionRejected \/ OracleRejected
      BY <2>2 DEF TransitionRejected, OracleRejected, Enabled
    <2>3. QED
      BY <2>1, <2>2
  <1>3. IsSeq(queue)
    BY DEF NodesInv
  <1>4. Len(queue) \in Nat
    BY <1>3, AppendIs
  <1>5. LevelsFound' /\ LevelPursued'
    BY <1>1, <1>2, <1>4, ActionDone
  <1>6. TwoLevels /\ SeenExplained /\ FoundIsClean
    BY <1>1 DEF LevelInv
  <1>7. Reached(input)' = Reached(input) /\ \A x : Clean(x)' <=> Clean(x)
    BY Frame
  <1>8. TwoLevels'
    BY <1>1, <1>6 DEF TwoLevels
  <1>9. SeenExplained'
    BY <1>1, <1>6, <1>7 DEF SeenExplained, SeenKey, Key
  <1>10. FoundIsClean'
    BY <1>1, <1>6, <1>7 DEF FoundIsClean, Found
  <1>11. QED
    BY <1>5, <1>8, <1>9, <1>10 DEF LevelInv

(* It holds before the search.                                             *)
LEMMA LevelInitially == Begun => LevelInv
  BY DEF Begun, LevelInv

(* Every step preserves it.                                                *)
LEMMA LevelStep ==
    ASSUME NodesInv, NodesInv', LevelInv, [Next]_vars
    PROVE  LevelInv'
  <1>1. UNCHANGED <<input, actions, allowed>>
    BY StepsKeepCall
  <1>2. CASE UNCHANGED vars
    <2>1. UNCHANGED <<actions, pc, queue, seen, node, next>> /\ input' = input
      BY <1>2 DEF vars
    <2>2. /\ Reached(input)' = Reached(input) /\ Grammar' = Grammar
          /\ \A x : Clean(x)' <=> Clean(x)
          /\ \A s, a : Enabled(s, a)' <=> Enabled(s, a)
      BY <1>1, Frame
    <2>3. /\ \A x : Found(x)' <=> Found(x)
          /\ \A k, a : Waiting(k, a)' <=> Waiting(k, a)
          /\ \A k : SeenKey(k)' <=> SeenKey(k)
      BY <2>1, <2>2 DEF Found, Waiting, SeenKey, Key
    <2>4. TwoLevels' <=> TwoLevels
      BY <2>1 DEF TwoLevels
    <2>5. (LevelsFound' <=> LevelsFound) /\ (LevelPursued' <=> LevelPursued)
      BY <2>1, <2>2, <2>3 DEF LevelsFound, LevelPursued
    <2>6. (SeenExplained' <=> SeenExplained) /\ (FoundIsClean' <=> FoundIsClean)
      BY <2>1, <2>2, <2>3 DEF SeenExplained, FoundIsClean
    <2>7. QED
      BY <2>1, <2>4, <2>5, <2>6 DEF LevelInv
  <1>3. CASE Start
    <2>1. pc' = "done" \/ pc' = "pop"
      BY <1>3 DEF Start, ReportUnsafe, ReportIndeterminate, ReportNoCounterexample, Finish
    <2>2. QED
      BY <1>3, <2>1, LevelBegins DEF LevelInv
  <1>4. CASE Pop
    BY <1>4, LevelGoesOn
  <1>5. CASE Exhausted \/ StartFails
    BY <1>5 DEF Exhausted, StartFails, ReportNoCounterexample, ReportFailure, Finish, LevelInv
  <1>6. CASE ProvenanceLost \/ StateBudgetExhausted \/ CollaboratorFails \/ EvaluationFails
    <2>1. pc' = "done"
      BY <1>6 DEF ProvenanceLost, StateBudgetExhausted, CollaboratorFails, EvaluationFails,
                  ReportUnsafe, ReportIndeterminate, ReportFailure, Finish
    <2>2. QED
      BY <2>1 DEF LevelInv
  <1>7. CASE TransitionRejected \/ OracleRejected \/ Deduplicated
    BY <1>1, <1>7, LevelKept
  <1>8. CASE Discover
    BY <1>8, LevelGrows DEF LevelInv
  <1>9. QED
    BY <1>2, <1>3, <1>4, <1>5, <1>6, <1>7, <1>8 DEF Next, Search

-----------------------------------------------------------------------------
(* What the search reports.                                                *)

(* A chain that ends in a matched state, while all shorter paths are       *)
(* clean, is a shortest counterexample.                                    *)
LEMMA CounterexampleEnds ==
    ASSUME UNCHANGED <<input, actions, allowed>>, NEW steps, NEW x,
           result'.steps = steps, Len(steps) <= input.bound, IsChain(steps, x.state),
           x \in Reached(input)[Len(steps)],
           Evaluation(x.state, x.path).matched = result'.matched, result'.matched # {},
           \A n \in 0..(Len(steps) - 1) : \A z \in Reached(input)[n] : Clean(z)
    PROVE  CounterexampleIsShortest'
  <1>1. Reached(input)' = Reached(input) /\ \A z : Clean(z)' <=> Clean(z)
    BY Frame
  <1>2. \A s, p : Evaluation(s, p)' = Evaluation(s, p)
    BY DEF Evaluation
  <1>3. \A i \in 1..Len(steps) : IsStep(steps, i)
    BY DEF IsChain
  <1>4. ASSUME NEW i \in 1..Len(steps)
        PROVE  /\ steps[i].index = i - 1
               /\ steps[i].pre = IF i = 1 THEN InitialState(input) ELSE steps[i - 1].post
               /\ steps[i].post = Successor(steps[i].pre, steps[i].action)
               /\ Applicable(steps[i].pre, steps[i].action, input.ctx)
               /\ Admissible(steps[i].pre, steps[i].action, input.ctx)'
    BY <1>3 DEF IsStep, Admissible
  <1>5. x.state = IF steps = <<>> THEN InitialState(input) ELSE steps[Len(steps)].post
    BY DEF IsChain
  <1>6. \E y \in Reached(input)[Len(steps)] :
            y.state = x.state /\ Evaluation(y.state, y.path)'.matched = result'.matched
    BY <1>2
  <1>7. \A n \in 0..(Len(steps) - 1) : \A z \in Reached(input)'[n] : Clean(z)'
    BY <1>1
  <1>8. QED
    BY <1>1, <1>4, <1>5, <1>6, <1>7 DEF CounterexampleIsShortest

VerdictsInv == VerdictIsExhaustive /\ CounterexampleIsShortest

(* Steps that leave the result leave the verdicts.                         *)
LEMMA VerdictsFrame ==
    ASSUME UNCHANGED <<input, actions, allowed, result>>
    PROVE  VerdictsInv' <=> VerdictsInv
  <1>1. Reached(input)' = Reached(input) /\ \A x : Clean(x)' <=> Clean(x)
    BY Frame
  <1>2. VerdictIsExhaustive' <=> VerdictIsExhaustive
    BY <1>1 DEF VerdictIsExhaustive
  <1>3. \A s, a : Admissible(s, a, input.ctx)' <=> Admissible(s, a, input.ctx)
    BY DEF Admissible
  <1>4. \A s, p : Evaluation(s, p)' = Evaluation(s, p)
    BY DEF Evaluation
  <1>5. CounterexampleIsShortest' <=> CounterexampleIsShortest
    BY <1>1, <1>3, <1>4 DEF CounterexampleIsShortest
  <1>6. QED
    BY <1>2, <1>5 DEF VerdictsInv

(* A counterexample found from the node at hand.                           *)
LEMMA NodeIsUnsafe ==
    ASSUME NodesInv, LevelInv, UNCHANGED <<input, actions, allowed>>,
           pc = "consider", Enabled(node.state, action),
           Evaluation(child, childPath).matched # {},
           ReportUnsafe(Evaluation(child, childPath), childSteps)
    PROVE  VerdictsInv'
  <1> DEFINE y == Follow(node, action)
             d == node.depth
  <1>1. /\ d \in Nat /\ d < input.bound /\ input.bound \in Nat
        /\ childDepth = d + 1 /\ y.state = child /\ y.path = childPath
        /\ y \in Reached(input)[childDepth]
        /\ IsChain(childSteps, child) /\ Len(childSteps) = childDepth
    BY ChildIs DEF childDepth
  <1>2. /\ result'.steps = childSteps
        /\ result'.matched = Evaluation(child, childPath).matched
        /\ result'.status = "PROSPECTIVE_UNSAFE"
    <2> DEFINE evaluation == Evaluation(child, childPath)
               cut == [evaluation EXCEPT !.indeterminate = {}]
    <2>1. cut.matched = evaluation.matched
      BY DEF Evaluation, EvaluationIn, EvaluateForbiddenState
    <2> HIDE DEF evaluation
    <2>2. Finish("PROSPECTIVE_UNSAFE", "none", cut, childSteps)
      BY DEF ReportUnsafe, evaluation
    <2> HIDE DEF cut
    <2>3. QED
      BY <2>1, <2>2 DEF Finish, evaluation
  <1>3. \A n \in 0..d : \A z \in Reached(input)[n] : Clean(z)
    BY DEF LevelInv, LevelsFound, FoundIsClean
  <1> HIDE DEF y
  <1>4. \A n \in 0..(Len(childSteps) - 1) : \A z \in Reached(input)[n] : Clean(z)
    BY <1>1, <1>3
  <1>5. Len(childSteps) <= input.bound
    BY <1>1
  <1>6. CounterexampleIsShortest'
    BY <1>1, <1>2, <1>4, <1>5, CounterexampleEnds
  <1>7. QED
    BY <1>2, <1>6 DEF VerdictsInv, VerdictIsExhaustive

(* It holds before the search.                                             *)
LEMMA VerdictsInitially == Begun => VerdictsInv
  BY DEF Begun, VerdictsInv, VerdictIsExhaustive, CounterexampleIsShortest, Unfinished

(* Both are about two of the three statuses.                               *)
LEMMA NoVerdict ==
    ASSUME result'.status # "PROSPECTIVE_UNSAFE",
           result'.status # "NO_COUNTEREXAMPLE_WITHIN_BOUND"
    PROVE  VerdictsInv'
  BY DEF VerdictsInv, VerdictIsExhaustive, CounterexampleIsShortest

(* A failure is of the third.                                              *)
LEMMA FailureIsNoVerdict ==
    ASSUME NEW reason, ReportFailure(reason)
    PROVE  VerdictsInv'
  BY NoVerdict DEF ReportFailure, Finish

(* So is an indeterminate predicate.                                       *)
LEMMA IndeterminateIsNoVerdict ==
    ASSUME NEW evaluation, ReportIndeterminate(evaluation)
    PROVE  VerdictsInv'
  <1> DEFINE cut == [evaluation EXCEPT !.matched = {}]
  <1>1. Finish("FAIL_CLOSED", "INDETERMINATE_SECURITY_PREDICATE", cut, <<>>)
    BY DEF ReportIndeterminate
  <1> HIDE DEF cut
  <1>2. result'.status = "FAIL_CLOSED"
    BY <1>1 DEF Finish
  <1>3. QED
    BY <1>2, NoVerdict

(* Every step preserves them.                                              *)
LEMMA VerdictsStep ==
    ASSUME NodesInv, NodesInv', LevelInv, VerdictsInv, [Next]_vars
    PROVE  VerdictsInv'
  <1>1. UNCHANGED <<input, actions, allowed>> /\ StaticInv
    BY StepsKeepCall DEF NodesInv
  <1>2. Reached(input)' = Reached(input) /\ \A x : Clean(x)' <=> Clean(x)
    BY <1>1, Frame
  <1>3. ASSUME result' = result PROVE VerdictsInv'
    BY <1>1, <1>3, VerdictsFrame
  <1>4. CASE UNCHANGED vars
    BY <1>3, <1>4 DEF vars
  <1>5. CASE Start
    <2> DEFINE evaluation == Evaluation(node.state, node.path)
    <2>1. node = Root(input) /\ pc = "start" /\ input.bound \in Nat
      BY <1>1, <1>5, StaticFacts DEF Start, NodesInv
    <2>2. /\ Origin.state = node.state /\ Origin.path = node.path
          /\ node.state = InitialState(input) /\ Reached(input)[0] = {Origin}
      BY <1>1, <2>1, RootIs, OriginIsReached
    <2>3. CASE evaluation.matched # {} /\ ReportUnsafe(evaluation, <<>>)
      <3>1. /\ result'.steps = <<>> /\ result'.matched = evaluation.matched
            /\ result'.status = "PROSPECTIVE_UNSAFE"
        <4> DEFINE cut == [evaluation EXCEPT !.indeterminate = {}]
        <4>1. cut.matched = evaluation.matched
          BY DEF Evaluation, EvaluationIn, EvaluateForbiddenState
        <4> HIDE DEF evaluation
        <4>2. Finish("PROSPECTIVE_UNSAFE", "none", cut, <<>>)
          BY <2>3 DEF ReportUnsafe
        <4> HIDE DEF cut
        <4>3. QED
          BY <4>1, <4>2 DEF Finish
      <3>2. Len(<<>>) = 0 /\ IsSeq(<<>>)
        BY SingletonIs
      <3>3. IsChain(<<>>, Origin.state)
        <4>1. \A i \in 1..Len(<<>>) : IsStep(<<>>, i)
          BY <3>2
        <4>2. QED
          BY <2>2, <3>2, <4>1, InitialIsState DEF IsChain
      <3>4. \A n \in 0..(Len(<<>>) - 1) : \A z \in Reached(input)[n] : Clean(z)
        BY <3>2
      <3>5. Origin \in Reached(input)[Len(<<>>)] /\ Len(<<>>) <= input.bound
        BY <2>1, <2>2, <3>2
      <3>6. CounterexampleIsShortest'
        BY <1>1, <2>2, <2>3, <3>1, <3>3, <3>4, <3>5, CounterexampleEnds
      <3>7. QED
        BY <3>1, <3>6 DEF VerdictsInv, VerdictIsExhaustive
    <2>4. CASE ReportIndeterminate(evaluation)
      BY <2>4, IndeterminateIsNoVerdict
    <2>5. CASE /\ evaluation.matched \cup evaluation.indeterminate = {} /\ input.bound = 0
               /\ ReportNoCounterexample
      <3>1. Clean(Origin)
        BY <2>2, <2>5 DEF Clean, CleanIn, Evaluation
      <3>2. \A n \in 0..input.bound : \A x \in Reached(input)[n] : Clean(x)
        BY <2>2, <2>5, <3>1
      <3>3. VerdictIsExhaustive'
        BY <1>1, <1>2, <3>2 DEF VerdictIsExhaustive
      <3>4. result'.status = "NO_COUNTEREXAMPLE_WITHIN_BOUND"
        BY <2>5 DEF ReportNoCounterexample, Finish
      <3>5. QED
        BY <3>3, <3>4 DEF VerdictsInv, CounterexampleIsShortest
    <2>6. CASE result' = result
      BY <1>3, <2>6
    <2>7. QED
      BY <1>5, <2>3, <2>4, <2>5, <2>6 DEF Start
  <1>6. CASE Pop
    BY <1>3, <1>6 DEF Pop
  <1>7. CASE Exhausted
    <2>1. \A n \in 0..input.bound : \A x \in Reached(input)[n] : Clean(x)
      BY <1>7, NothingIsLeft DEF Exhausted
    <2>2. VerdictIsExhaustive'
      BY <1>1, <1>2, <2>1 DEF VerdictIsExhaustive
    <2>3. result'.status = "NO_COUNTEREXAMPLE_WITHIN_BOUND"
      BY <1>7 DEF Exhausted, ReportNoCounterexample, Finish
    <2>4. QED
      BY <2>2, <2>3 DEF VerdictsInv, CounterexampleIsShortest
  <1>8. CASE StartFails \/ CollaboratorFails \/ EvaluationFails \/ StateBudgetExhausted
    <2>1. \E reason : ReportFailure(reason)
      BY <1>8 DEF StartFails, CollaboratorFails, EvaluationFails, StateBudgetExhausted
    <2>2. QED
      BY <2>1, FailureIsNoVerdict
  <1>9. CASE TransitionRejected \/ OracleRejected \/ Deduplicated
    BY <1>3, <1>9 DEF TransitionRejected, OracleRejected, Deduplicated, MoveOn
  <1>10. CASE ProvenanceLost
    <2>1. pc = "consider" /\ Enabled(node.state, action) /\ childPath = NoPath
      BY <1>10 DEF ProvenanceLost, Admit, Enabled
    <2>2. CASE /\ Evaluation(child, NoPath).matched # {}
               /\ ReportUnsafe(Evaluation(child, NoPath), childSteps)
      BY <1>1, <2>1, <2>2, NodeIsUnsafe
    <2>3. CASE ReportIndeterminate(Evaluation(child, NoPath))
      BY <2>3, IndeterminateIsNoVerdict
    <2>4. QED
      BY <1>10, <2>2, <2>3 DEF ProvenanceLost
  <1>11. CASE Discover
    <2>1. pc = "consider" /\ Enabled(node.state, action)
      BY <1>11 DEF Discover, NewNode, Enabled
    <2>2. CASE /\ Evaluation(child, childPath).matched # {}
               /\ ReportUnsafe(Evaluation(child, childPath), childSteps)
      BY <1>1, <2>1, <2>2, NodeIsUnsafe
    <2>3. CASE result' = result
      BY <1>3, <2>3
    <2>4. QED
      BY <1>11, <2>2, <2>3 DEF Discover, MoveOn
  <1>12. QED
    BY <1>4, <1>5, <1>6, <1>7, <1>8, <1>9, <1>10, <1>11 DEF Next, Search

(* The queue of check_prospective_privacy works level by level: nodes      *)
(* queued are grounded, every shorter path has been found, by a twin at    *)
(* least, what was found is clean, and what of a level is not found is     *)
(* still waiting.                                                          *)
THEOREM SearchInvariant == Spec => [](NodesInv /\ LevelInv /\ VerdictsInv)
  <1> DEFINE SearchInv == NodesInv /\ LevelInv /\ VerdictsInv
  <1>1. Init => SearchInv
    BY InitBegins, NodesInitially, LevelInitially, VerdictsInitially
  <1>2. SearchInv /\ [Next]_vars => SearchInv'
    <2> SUFFICES ASSUME SearchInv, [Next]_vars PROVE SearchInv'
      OBVIOUS
    <2>1. NodesInv'
      BY NodesStep
    <2>2. LevelInv'
      BY <2>1, LevelStep
    <2>3. VerdictsInv'
      BY <2>1, VerdictsStep
    <2>4. QED
      BY <2>1, <2>2, <2>3
  <1>3. QED
    BY <1>1, <1>2, PTL DEF Spec

(* The verdict that lets an execution go ahead (PpmcSearchResult,          *)
(* NO_COUNTEREXAMPLE_WITHIN_BOUND) is about every path of admissible       *)
(* actions within the bound, although nodes are merged by their key, the   *)
(* queue is cut at the bound and the actions come in any order.            *)
THEOREM VerdictsCoverEveryPath == Spec => []VerdictIsExhaustive
  <1>1. NodesInv /\ LevelInv /\ VerdictsInv => VerdictIsExhaustive
    BY DEF VerdictsInv
  <1>2. QED
    BY <1>1, SearchInvariant, PTL

(* A counterexample is a path of actions that the grammar and the policy   *)
(* admit one after the other, it ends in a forbidden state, and no shorter *)
(* one exists (check_prospective_privacy, "shortest-depth").               *)
THEOREM CounterexamplesAreShortest == Spec => []CounterexampleIsShortest
  <1>1. NodesInv /\ LevelInv /\ VerdictsInv => CounterexampleIsShortest
    BY DEF VerdictsInv
  <1>2. QED
    BY <1>1, SearchInvariant, PTL

(* The verdict is never given on a history that holds a sensitive release  *)
(* other than the base: the initial state would be indeterminate for F5    *)
(* (_initial_temporal_path).                                               *)
THEOREM VerdictsHaveProvenance == Spec => []NoVerdictWithoutProvenance
  <1>1. NodesInv /\ VerdictsInv => NoVerdictWithoutProvenance
    <2> SUFFICES ASSUME NodesInv, VerdictsInv,
                        result.status = "NO_COUNTEREXAMPLE_WITHIN_BOUND",
                        NEW h \in input.history, h.lifecycle # "ABORTED",
                        h.release.semantic # input.ctx.base.semantic
                 PROVE  ~SemanticIsSensitive(h.release.semantic)
      BY DEF NoVerdictWithoutProvenance
    <2>1. StaticInv /\ input.bound \in Nat
      BY StaticFacts DEF NodesInv
    <2>2. Clean(Origin)
      <3>1. 0 \in 0..input.bound /\ Origin \in Reached(input)[0]
        BY <2>1, OriginIsReached
      <3>2. QED
        BY <3>1 DEF VerdictsInv, VerdictIsExhaustive
    <2>3. InitialPath(input) # NoPath
      BY <2>2, RootIs DEF Clean, CleanIn, EvaluationIn, EvaluateForbiddenState
    <2>4. h.release \in InitialState(input).released
      BY DEF InitialState, BuildState
    <2>5. h.release.semantic
                \in Semantics(InitialState(input).released) \ {input.ctx.base.semantic}
      BY <2>4 DEF Semantics
    <2>6. QED
      BY <2>3, <2>5 DEF InitialPath
  <1>2. QED
    BY <1>1, SearchInvariant, PTL

-----------------------------------------------------------------------------
(* The counters and the fields of a result.                                *)

Counters ==
    [discovered : Nat, expanded : Nat, considered : Nat,
     transitionRejections : Nat, oracleRejections : Nat, admissions : Nat]

CountersInv ==
    /\ counters \in Counters /\ IsFiniteSet(seen)
    /\ 1 <= counters.discovered /\ counters.discovered <= input.maxStates
    /\ counters.expanded + Len(queue) <= counters.discovered
    /\ pc \in {"pop", "consider"} => counters.discovered = Cardinality(seen)
    /\ counters.oracleRejections + counters.admissions <= counters.considered
    /\ counters.transitionRejections <= counters.considered
    /\ pc = "start" => counters = NoCounters

ResultInv ==
    pc = "done" =>
        \/ /\ result.status = "PROSPECTIVE_UNSAFE" /\ result.reason = "none"
           /\ result.matched # {} /\ result.indeterminate = {} /\ IsSeq(result.steps)
        \/ /\ result.status = "NO_COUNTEREXAMPLE_WITHIN_BOUND" /\ result.reason = "none"
           /\ result.matched = {} /\ result.indeterminate = {}
        \/ /\ result.status = "FAIL_CLOSED" /\ result.reason # "none" /\ result.matched = {}
           /\ result.indeterminate # {}
                <=> result.reason = "INDETERMINATE_SECURITY_PREDICATE"

(* The fields of an evaluation that a result keeps.                        *)
LEMMA EvaluationIs ==
    ASSUME NEW state, NEW path
    PROVE  LET evaluation == Evaluation(state, path) IN
           /\ [evaluation EXCEPT !.indeterminate = {}]
                = [matched |-> evaluation.matched, indeterminate |-> {}]
           /\ [evaluation EXCEPT !.matched = {}]
                = [matched |-> {}, indeterminate |-> evaluation.indeterminate]
           /\ path = NoPath => evaluation.indeterminate # {}
  <1> DEFINE evaluation == Evaluation(state, path)
  <1>1. /\ evaluation = [matched |-> evaluation.matched,
                         indeterminate |-> evaluation.indeterminate]
        /\ path = NoPath => evaluation.indeterminate # {}
    BY DEF Evaluation, EvaluationIn, EvaluateForbiddenState
  <1> HIDE DEF evaluation
  <1>2. PICK m, i : evaluation = [matched |-> m, indeterminate |-> i]
    BY <1>1
  <1>3. /\ [evaluation EXCEPT !.indeterminate = {}]
                = [matched |-> evaluation.matched, indeterminate |-> {}]
        /\ [evaluation EXCEPT !.matched = {}]
                = [matched |-> {}, indeterminate |-> evaluation.indeterminate]
    BY <1>2
  <1>4. QED
    BY <1>1, <1>3 DEF evaluation

(* A counterexample.                                                       *)
LEMMA UnsafeResult ==
    ASSUME NEW state, NEW path, NEW steps, Evaluation(state, path).matched # {},
           IsSeq(steps), ReportUnsafe(Evaluation(state, path), steps)
    PROVE  ResultInv'
  <1> DEFINE evaluation == Evaluation(state, path)
  <1>1. [evaluation EXCEPT !.indeterminate = {}]
                = [matched |-> evaluation.matched, indeterminate |-> {}]
    BY EvaluationIs
  <1> HIDE DEF evaluation
  <1>2. Finish("PROSPECTIVE_UNSAFE", "none",
               [matched |-> evaluation.matched, indeterminate |-> {}], steps)
    BY <1>1 DEF ReportUnsafe, evaluation
  <1>3. evaluation.matched # {}
    BY DEF evaluation
  <1>4. QED
    BY <1>2, <1>3 DEF Finish, ResultInv

(* Predicates that could not be decided.                                   *)
LEMMA IndeterminateResult ==
    ASSUME NEW state, NEW path, Evaluation(state, path).indeterminate # {},
           ReportIndeterminate(Evaluation(state, path))
    PROVE  ResultInv'
  <1> DEFINE evaluation == Evaluation(state, path)
  <1>1. [evaluation EXCEPT !.matched = {}]
                = [matched |-> {}, indeterminate |-> evaluation.indeterminate]
    BY EvaluationIs
  <1> HIDE DEF evaluation
  <1>2. Finish("FAIL_CLOSED", "INDETERMINATE_SECURITY_PREDICATE",
               [matched |-> {}, indeterminate |-> evaluation.indeterminate], <<>>)
    BY <1>1 DEF ReportIndeterminate, evaluation
  <1>3. evaluation.indeterminate # {}
    BY DEF evaluation
  <1>4. QED
    BY <1>2, <1>3 DEF Finish, ResultInv

(* Any other failure.                                                      *)
LEMMA FailureResult ==
    ASSUME NEW reason, reason \notin {"none", "INDETERMINATE_SECURITY_PREDICATE"},
           ReportFailure(reason)
    PROVE  ResultInv'
  BY DEF ReportFailure, Finish, NoEvaluation, ResultInv

(* The verdict.                                                            *)
LEMMA NoCounterexampleResult == ReportNoCounterexample => ResultInv'
  BY DEF ReportNoCounterexample, Finish, NoEvaluation, ResultInv

(* Every step preserves it.                                                *)
LEMMA ResultsStep ==
    ASSUME NodesInv, ResultInv, [Next]_vars
    PROVE  ResultInv'
  <1>1. CASE UNCHANGED vars
    BY <1>1 DEF vars, ResultInv
  <1>2. CASE Start
    BY <1>2, UnsafeResult, IndeterminateResult, NoCounterexampleResult, SingletonIs
       DEF Start, ResultInv
  <1>3. CASE Pop \/ TransitionRejected \/ OracleRejected \/ Deduplicated
    BY <1>3 DEF Pop, TransitionRejected, OracleRejected, Deduplicated, MoveOn, ResultInv
  <1>4. CASE Exhausted
    BY <1>4, NoCounterexampleResult DEF Exhausted
  <1>5. CASE StartFails \/ CollaboratorFails \/ EvaluationFails \/ StateBudgetExhausted
    BY <1>5, FailureResult DEF StartFails, CollaboratorFails, EvaluationFails,
                               StateBudgetExhausted
  <1>6. ASSUME ProvenanceLost \/ Discover PROVE IsSeq(childSteps)
    <2>1. pc = "consider" /\ Enabled(node.state, action)
      BY <1>6 DEF ProvenanceLost, Discover, Admit, NewNode, Enabled
    <2>2. QED
      BY <2>1, ChildIs DEF IsChain
  <1>7. CASE ProvenanceLost
    BY <1>6, <1>7, UnsafeResult, IndeterminateResult, EvaluationIs DEF ProvenanceLost
  <1>8. CASE Discover
    BY <1>6, <1>8, UnsafeResult DEF Discover, MoveOn, ResultInv
  <1>9. QED
    BY <1>1, <1>2, <1>3, <1>4, <1>5, <1>7, <1>8 DEF Next, Search

(* One counter more.                                                       *)
LEMMA Counted ==
    ASSUME counters \in Counters,
           NEW field \in {"transitionRejections", "oracleRejections", "admissions"},
           Count(field)
    PROVE  /\ counters' \in Counters
           /\ counters'.discovered = counters.discovered
           /\ counters'.expanded = counters.expanded
           /\ counters'.considered = counters.considered + 1
  <1> DEFINE one == [counters EXCEPT !.considered = @ + 1]
  <1>1. /\ one \in Counters /\ one.considered = counters.considered + 1
        /\ one.expanded = counters.expanded /\ one.discovered = counters.discovered
    BY DEF Counters
  <1>2. counters' = [one EXCEPT ![field] = @ + 1]
    BY DEF Count
  <1> HIDE DEF one
  <1>3. CASE field = "transitionRejections"
    <2>1. counters' = [one EXCEPT !.transitionRejections = @ + 1]
      BY <1>2, <1>3
    <2>2. QED
      BY <1>1, <2>1 DEF Counters
  <1>4. CASE field = "oracleRejections"
    <2>1. counters' = [one EXCEPT !.oracleRejections = @ + 1]
      BY <1>2, <1>4
    <2>2. QED
      BY <1>1, <2>1 DEF Counters
  <1>5. CASE field = "admissions"
    <2>1. counters' = [one EXCEPT !.admissions = @ + 1]
      BY <1>2, <1>5
    <2>2. QED
      BY <1>1, <2>1 DEF Counters
  <1>6. QED
    BY <1>3, <1>4, <1>5

(* Rejections and admissions are each of an action considered.             *)
LEMMA CountedWithin ==
    ASSUME counters \in Counters,
           NEW field \in {"transitionRejections", "oracleRejections", "admissions"},
           Count(field),
           counters.oracleRejections + counters.admissions <= counters.considered,
           counters.transitionRejections <= counters.considered
    PROVE  /\ counters'.oracleRejections + counters'.admissions <= counters'.considered
           /\ counters'.transitionRejections <= counters'.considered
  <1>1. /\ counters.oracleRejections \in Nat /\ counters.admissions \in Nat
        /\ counters.transitionRejections \in Nat /\ counters.considered \in Nat
    BY DEF Counters
  <1>2. counters'.considered = counters.considered + 1
    BY Counted
  <1>3. /\ counters'.oracleRejections = IF field = "oracleRejections"
              THEN counters.oracleRejections + 1 ELSE counters.oracleRejections
        /\ counters'.admissions = IF field = "admissions"
              THEN counters.admissions + 1 ELSE counters.admissions
        /\ counters'.transitionRejections = IF field = "transitionRejections"
              THEN counters.transitionRejections + 1 ELSE counters.transitionRejections
    <2> DEFINE one == [counters EXCEPT !.considered = @ + 1]
    <2>1. /\ one \in Counters /\ one.oracleRejections = counters.oracleRejections
          /\ one.admissions = counters.admissions
          /\ one.transitionRejections = counters.transitionRejections
      BY DEF Counters
    <2>2. counters' = [one EXCEPT ![field] = @ + 1]
      BY DEF Count
    <2> HIDE DEF one
    <2>3. QED
      BY <2>1, <2>2 DEF Counters
  <1> HIDE DEF Count
  <1>4. QED
    BY <1>1, <1>2, <1>3

(* The counters when a node is expanded.                                   *)
LEMMA CountedExpansion ==
    ASSUME NEW c \in Counters
    PROVE  LET new == [c EXCEPT !.expanded = @ + 1] IN
           /\ new \in Counters /\ new.expanded = c.expanded + 1
           /\ new.discovered = c.discovered
           /\ new.considered = c.considered
           /\ new.oracleRejections = c.oracleRejections
           /\ new.admissions = c.admissions
           /\ new.transitionRejections = c.transitionRejections
  BY DEF Counters

(* The counters when a node is discovered.                                 *)
LEMMA CountedNode ==
    ASSUME NEW c \in Counters, NEW n \in Nat
    PROVE  LET new == [c EXCEPT !.considered = @ + 1, !.admissions = @ + 1, !.discovered = n] IN
           /\ new \in Counters /\ new.expanded = c.expanded
           /\ new.discovered = n
           /\ new.considered = c.considered + 1
           /\ new.oracleRejections = c.oracleRejections
           /\ new.admissions = c.admissions + 1
           /\ new.transitionRejections = c.transitionRejections
  <1> DEFINE one == [c EXCEPT !.considered = @ + 1]
             two == [one EXCEPT !.admissions = @ + 1]
             three == [two EXCEPT !.discovered = n]
  <1>1. /\ one \in Counters /\ one.considered = c.considered + 1
        /\ one.expanded = c.expanded /\ one.admissions = c.admissions
        /\ one.oracleRejections = c.oracleRejections
        /\ one.transitionRejections = c.transitionRejections
    BY DEF Counters
  <1>2. three = [c EXCEPT !.considered = @ + 1, !.admissions = @ + 1, !.discovered = n]
    OBVIOUS
  <1> HIDE DEF one
  <1>3. /\ two \in Counters /\ two.considered = one.considered
        /\ two.expanded = one.expanded /\ two.admissions = one.admissions + 1
        /\ two.oracleRejections = one.oracleRejections
        /\ two.transitionRejections = one.transitionRejections
    BY <1>1 DEF Counters
  <1> HIDE DEF two
  <1>4. /\ three \in Counters /\ three.considered = two.considered
        /\ three.expanded = two.expanded /\ three.admissions = two.admissions
        /\ three.oracleRejections = two.oracleRejections /\ three.discovered = n
        /\ three.transitionRejections = two.transitionRejections
    BY <1>3 DEF Counters
  <1> HIDE DEF three
  <1>5. QED
    BY <1>1, <1>2, <1>3, <1>4

(* They hold before the search.                                            *)
LEMMA CountersInitially == Begun => CountersInv
  <1> SUFFICES ASSUME Begun PROVE CountersInv
    OBVIOUS
  <1>1. StaticInv /\ input.maxStates \in Nat \ {0}
    BY StaticFacts DEF Begun
  <1>2. counters = NoCounters /\ seen = {} /\ pc = "start" /\ Len(queue) = 0
    BY SingletonIs DEF Begun
  <1>3. IsFiniteSet({})
    BY FS_EmptySet
  <1>4. QED
    BY <1>1, <1>2, <1>3 DEF CountersInv, Counters, NoCounters

(* Every step preserves them.                                              *)
LEMMA CountersStep ==
    ASSUME NodesInv, NodesInv', CountersInv, [Next]_vars
    PROVE  CountersInv'
  <1>1. /\ input' = input /\ input.maxStates \in Nat \ {0}
        /\ IsSeq(queue) /\ Len(queue) \in Nat
    BY StepsKeepCall, StaticFacts, AppendIs DEF NodesInv
  <1>2. /\ counters \in Counters /\ IsFiniteSet(seen) /\ Cardinality(seen) \in Nat
        /\ 1 <= counters.discovered /\ counters.discovered <= input.maxStates
        /\ counters.expanded + Len(queue) <= counters.discovered
        /\ pc \in {"pop", "consider"} => counters.discovered = Cardinality(seen)
        /\ counters.oracleRejections + counters.admissions <= counters.considered
        /\ counters.transitionRejections <= counters.considered
    BY FS_CardinalityType DEF CountersInv
  <1>3. CASE UNCHANGED vars
    BY <1>1, <1>2, <1>3 DEF vars, CountersInv
  <1>4. CASE Start
    <2>1. /\ counters' = counters /\ pc = "start" /\ queue = <<>> /\ Len(queue) = 0
          /\ counters.discovered = 1 /\ counters.expanded = 0
      BY <1>4, SingletonIs DEF Start, NodesInv, CountersInv, NoCounters
    <2>2. CASE UNCHANGED <<queue, seen>> /\ pc' = "done"
      BY <1>1, <1>2, <2>1, <2>2 DEF CountersInv
    <2>3. CASE /\ queue' = <<node>> /\ seen' = {NodeKey(node.state, node.path)} /\ pc' = "pop"
      <3>1. Len(queue') = 1 /\ IsFiniteSet(seen') /\ Cardinality(seen') = 1
        BY <2>3, SingletonIs, FS_Singleton
      <3>2. QED
        BY <1>1, <1>2, <2>1, <2>3, <3>1 DEF CountersInv
    <2>4. QED
      BY <1>4, <2>2, <2>3 DEF Start, ReportUnsafe, ReportIndeterminate, ReportNoCounterexample,
                              Finish
  <1>5. CASE Pop
    <2>1. /\ Len(queue') = Len(queue) - 1 /\ seen' = seen /\ pc = "pop" /\ pc' # "start"
          /\ counters' = [counters EXCEPT !.expanded = @ + 1]
      BY <1>1, <1>5, TailIs DEF Pop
    <2>2. /\ counters' \in Counters /\ counters'.expanded = counters.expanded + 1
          /\ counters'.discovered = counters.discovered
          /\ counters'.considered = counters.considered
          /\ counters'.oracleRejections = counters.oracleRejections
          /\ counters'.admissions = counters.admissions
          /\ counters'.transitionRejections = counters.transitionRejections
      BY <1>2, <2>1, CountedExpansion
    <2>3. counters.expanded \in Nat
      BY <1>2 DEF Counters
    <2>4. counters'.expanded + Len(queue') = counters.expanded + Len(queue)
      BY <1>1, <2>1, <2>2, <2>3
    <2>5. QED
      BY <1>1, <1>2, <2>1, <2>2, <2>4 DEF CountersInv
  <1>6. CASE Exhausted \/ StartFails
    <2>1. UNCHANGED <<queue, seen, counters>> /\ pc' = "done"
      BY <1>6 DEF Exhausted, StartFails, ReportNoCounterexample, ReportFailure, Finish
    <2>2. QED
      BY <1>1, <1>2, <2>1 DEF CountersInv
  <1>7. CASE CollaboratorFails
    <2>1. /\ UNCHANGED <<queue, seen>> /\ pc' = "done"
          /\ counters' = [counters EXCEPT !.considered = @ + 1]
      BY <1>7 DEF CollaboratorFails, ReportFailure, Finish
    <2>2. /\ counters' \in Counters /\ counters'.expanded = counters.expanded
          /\ counters'.discovered = counters.discovered
          /\ counters'.considered = counters.considered + 1
          /\ counters'.oracleRejections = counters.oracleRejections
          /\ counters'.admissions = counters.admissions
          /\ counters'.transitionRejections = counters.transitionRejections
      BY <1>2, <2>1 DEF Counters
    <2>3. /\ counters.oracleRejections \in Nat /\ counters.admissions \in Nat
          /\ counters.transitionRejections \in Nat /\ counters.considered \in Nat
      BY <1>2 DEF Counters
    <2>4. QED
      BY <1>1, <1>2, <2>1, <2>2, <2>3 DEF CountersInv
  <1>8. ASSUME UNCHANGED <<queue, seen>>, pc = "consider", pc' # "start",
               NEW field \in {"transitionRejections", "oracleRejections", "admissions"},
               Count(field)
        PROVE  CountersInv'
    <2>1. /\ counters' \in Counters
          /\ counters'.discovered = counters.discovered
          /\ counters'.expanded = counters.expanded
          /\ counters'.considered = counters.considered + 1
      BY <1>2, <1>8, Counted
    <2>2. /\ counters'.oracleRejections + counters'.admissions <= counters'.considered
          /\ counters'.transitionRejections <= counters'.considered
      BY <1>2, <1>8, CountedWithin
    <2>3. QED
      BY <1>1, <1>2, <1>8, <2>1, <2>2 DEF CountersInv
  <1>9. CASE TransitionRejected \/ OracleRejected \/ Deduplicated
    <2>1. /\ UNCHANGED <<queue, seen>> /\ pc = "consider" /\ pc' # "start"
          /\ \/ Count("transitionRejections") \/ Count("oracleRejections")
             \/ Count("admissions")
      BY <1>9 DEF TransitionRejected, OracleRejected, Deduplicated, Admit, MoveOn
    <2>2. QED
      BY <1>8, <2>1
  <1>10. CASE ProvenanceLost \/ StateBudgetExhausted
    <2>1. /\ UNCHANGED <<queue, seen>> /\ pc = "consider" /\ pc' # "start"
          /\ Count("admissions")
      BY <1>10 DEF ProvenanceLost, StateBudgetExhausted, Admit, ReportUnsafe,
                   ReportIndeterminate, ReportFailure, Finish
    <2>2. QED
      BY <1>8, <2>1
  <1>11. ASSUME NewNode, Len(queue') <= Len(queue) + 1, Len(queue') \in Nat, pc' # "start"
         PROVE  CountersInv'
    <2> DEFINE k == NodeKey(child, childPath)
    <2>1. /\ pc = "consider" /\ k \notin seen /\ seen' = seen \cup {k}
          /\ ~(Cardinality(seen) >= input.maxStates)
          /\ counters' = [counters EXCEPT !.considered = @ + 1, !.admissions = @ + 1,
                                          !.discovered = Cardinality(seen')]
      BY <1>11 DEF NewNode, BudgetSpent
    <2> HIDE DEF k
    <2>2. /\ IsFiniteSet(seen') /\ Cardinality(seen') = Cardinality(seen) + 1
          /\ Cardinality(seen') \in Nat
      BY <1>2, <2>1, FS_AddElement
    <2>3. /\ counters' \in Counters /\ counters'.expanded = counters.expanded
          /\ counters'.discovered = Cardinality(seen')
          /\ counters'.considered = counters.considered + 1
          /\ counters'.oracleRejections = counters.oracleRejections
          /\ counters'.admissions = counters.admissions + 1
          /\ counters'.transitionRejections = counters.transitionRejections
      BY <1>2, <2>1, <2>2, CountedNode
    <2>4. /\ counters.oracleRejections \in Nat /\ counters.admissions \in Nat
          /\ counters.transitionRejections \in Nat /\ counters.considered \in Nat
          /\ counters.expanded \in Nat
      BY <1>2 DEF Counters
    <2>5. 1 <= Cardinality(seen') /\ Cardinality(seen') <= input.maxStates
      BY <1>1, <1>2, <2>1, <2>2
    <2>6. counters'.expanded + Len(queue') <= counters'.discovered
      BY <1>1, <1>2, <1>11, <2>1, <2>2, <2>3, <2>4
    <2>7. /\ counters'.oracleRejections + counters'.admissions <= counters'.considered
          /\ counters'.transitionRejections <= counters'.considered
      <3>1. ASSUME NEW o \in Nat, NEW a \in Nat, NEW t \in Nat, NEW c \in Nat,
                   o + a <= c, t <= c
            PROVE  o + (a + 1) <= c + 1 /\ t <= c + 1
        BY <3>1
      <3>2. QED
        BY <1>2, <2>3, <2>4, <3>1
    <2>8. QED
      BY <1>1, <1>11, <2>2, <2>3, <2>5, <2>6, <2>7 DEF CountersInv
  <1>12. CASE EvaluationFails
    <2>1. queue' = queue /\ pc' # "start"
      BY <1>12 DEF EvaluationFails, ReportFailure, Finish
    <2>2. CASE Admit /\ seen' = seen
      BY <1>8, <2>1, <2>2 DEF Admit
    <2>3. CASE NewNode
      BY <1>1, <1>11, <2>1, <2>3
    <2>4. QED
      BY <1>12, <2>2, <2>3 DEF EvaluationFails
  <1>13. CASE Discover
    <2>1. NewNode /\ pc' # "start"
      BY <1>13 DEF Discover, ReportUnsafe, Finish, MoveOn
    <2>2. queue' = queue \/ queue' = Append(queue, NewOne)
      BY <1>13 DEF Discover, Enqueue, NewOne
    <2>3. Len(queue') <= Len(queue) + 1 /\ Len(queue') \in Nat
      BY <1>1, <2>2, AppendIs
    <2>4. QED
      BY <1>11, <2>1, <2>3
  <1>14. QED
    BY <1>3, <1>4, <1>5, <1>6, <1>7, <1>9, <1>10, <1>12, <1>13 DEF Next, Search

(* The counters that check_prospective_privacy reports: nodes expanded or  *)
(* queued are among those discovered, which stay within max_states, and    *)
(* admissions and rejections are among the actions considered.             *)
THEOREM CountersInvariant == Spec => [](NodesInv /\ CountersInv /\ ResultInv)
  <1> DEFINE Inv == NodesInv /\ CountersInv /\ ResultInv
  <1>1. Init => Inv
    BY InitBegins, NodesInitially, CountersInitially DEF Begun, ResultInv
  <1>2. Inv /\ [Next]_vars => Inv'
    BY NodesStep, CountersStep, ResultsStep
  <1>3. QED
    BY <1>1, <1>2, PTL DEF Spec

(* A search that ends has a result that PpmcSearchResult accepts           *)
(* (ppmc_models.py): within the budget of states, no more nodes expanded   *)
(* than discovered, and the fields that its status asks for.               *)
THEOREM ResultsAreValid == Spec => []ResultIsValid
  <1>1. NodesInv /\ CountersInv /\ ResultInv => ResultIsValid
    <2> SUFFICES ASSUME NodesInv, CountersInv, ResultInv, pc = "done" PROVE ResultIsValid
      BY DEF ResultIsValid
    <2>1. IsSeq(queue) /\ Len(queue) \in Nat
      BY AppendIs DEF NodesInv
    <2>2. /\ 1 <= counters.discovered /\ counters.discovered <= input.maxStates
          /\ counters.oracleRejections + counters.admissions <= counters.considered
          /\ counters.transitionRejections <= counters.considered
      BY DEF CountersInv
    <2>3. counters.expanded <= counters.discovered
      <3>1. /\ counters.expanded \in Nat /\ counters.discovered \in Nat
            /\ counters.expanded + Len(queue) <= counters.discovered
        BY DEF CountersInv, Counters
      <3>2. QED
        BY <2>1, <3>1
    <2>4. QED
      BY <2>2, <2>3 DEF ResultIsValid, ResultInv
  <1>2. QED
    BY <1>1, CountersInvariant, PTL

-----------------------------------------------------------------------------
(* What has been learnt.                                                   *)

(* Whatever is derived from some releases is derived from more.            *)
LEMMA MoreIsDerived ==
    ASSUME NEW A, NEW B, A \subseteq B
    PROVE  DerivedAtoms(A) \subseteq DerivedAtoms(B)
  <1> DEFINE exposed(R, kinds) == UNION {{<<s, c>> : c \in Shown(s, kinds)} : s \in Semantics(R)}
             linked(R, category) ==
                {e \in exposed(R, LinkableKinds) : CategoryOf[e[2]] = category}
             varied(R) ==
                {r \in R : IsProtectedRelease(r.semantic) /\ r.cohort # NoCohort
                        /\ \E q \in R : q.semantic = r.semantic
                                /\ q.cohort \notin {r.cohort, NoCohort}}
             both(R) == {j \in IdentifierCategories :
                            linked(R, "SENSITIVE_ATTRIBUTE") # {} /\ linked(R, j) # {}}
             one(e) == [antecedents |-> {e},
                        consequent |-> <<"CATEGORY_PRESENCE", CategoryOf[e[2]]>>]
             two(R, i) == [antecedents |-> {CHOOSE e \in linked(R, i) : TRUE,
                                CHOOSE e \in linked(R, "SENSITIVE_ATTRIBUTE") : TRUE},
                           consequent |-> <<"IDENTIFIER_SENSITIVE_COEXPOSURE", i>>]
             three(R, s) == [antecedents |-> {<<s, c>> : c \in {r.cohort : r \in
                                                {q \in varied(R) : q.semantic = s}}},
                             consequent |-> <<"PROTECTED_COHORT_VARIATION", s>>]
             ones(R) == {one(e) : e \in exposed(R, RevealingKinds)}
             twos(R) == {two(R, i) : i \in both(R)}
             threes(R) == {three(R, s) : s \in Semantics(varied(R))}
  <1>1. ASSUME NEW R PROVE InferenceRules(R) = (ones(R) \cup twos(R)) \cup threes(R)
    BY DEF InferenceRules
  <1> HIDE DEF one, two, three
  <1>2. Semantics(A) \subseteq Semantics(B)
    BY DEF Semantics
  <1>3. ASSUME NEW kinds PROVE exposed(A, kinds) \subseteq exposed(B, kinds)
    BY <1>2
  <1>4. both(A) \subseteq both(B)
    <2>1. ASSUME NEW category PROVE linked(A, category) \subseteq linked(B, category)
      <3> HIDE DEF exposed
      <3>1. QED
        BY <1>3
    <2> HIDE DEF linked
    <2>2. QED
      BY <2>1
  <1>5. Semantics(varied(A)) \subseteq Semantics(varied(B))
    <2>1. varied(A) \subseteq varied(B)
      OBVIOUS
    <2> HIDE DEF varied
    <2>2. QED
      BY <2>1 DEF Semantics
  <1> HIDE DEF exposed, both, varied
  <1>6. ASSUME NEW r \in ones(A) PROVE \E q \in ones(B) : q.consequent = r.consequent
    BY <1>3
  <1>7. ASSUME NEW r \in twos(A) PROVE \E q \in twos(B) : q.consequent = r.consequent
    <2>1. PICK i \in both(A) : r = two(A, i)
      OBVIOUS
    <2>2. i \in both(B)
      BY <1>4
    <2>3. two(B, i).consequent = two(A, i).consequent
      BY DEF two
    <2> HIDE DEF two
    <2>4. two(B, i) \in twos(B)
      BY <2>2
    <2>5. QED
      BY <2>1, <2>3, <2>4
  <1>8. ASSUME NEW r \in threes(A) PROVE \E q \in threes(B) : q.consequent = r.consequent
    <2>1. PICK s \in Semantics(varied(A)) : r = three(A, s)
      OBVIOUS
    <2>2. s \in Semantics(varied(B))
      BY <1>5
    <2>3. three(B, s).consequent = three(A, s).consequent
      BY DEF three
    <2>4. three(B, s) \in threes(B)
      BY <2>2
    <2>5. QED
      BY <2>1, <2>3, <2>4
  <1> HIDE DEF ones, twos, threes
  <1>9. \A r \in InferenceRules(A) : \E q \in InferenceRules(B) : q.consequent = r.consequent
    BY <1>1, <1>6, <1>7, <1>8
  <1>10. QED
    BY <1>9 DEF DerivedAtoms

(* Along a path what is derived from the releases only grows: an action    *)
(* adds a release or moves the snapshot, and more releases derive more     *)
(* (apply_future_action, least_fixed_point).                               *)
THEOREM KnowledgeIsKept == Spec => []KnowledgeOnlyGrows
  <1>1. NodesInv => KnowledgeOnlyGrows
    <2> DEFINE last == queue[Len(queue)]
               steps == last.steps
               n == Len(steps)
    <2> SUFFICES ASSUME NodesInv, queue # <<>>, steps # <<>>
                 PROVE  DerivedAtoms(steps[n].pre.released)
                            \subseteq DerivedAtoms(last.state.released)
      BY DEF KnowledgeOnlyGrows
    <2>1. Len(queue) \in 1..Len(queue)
      BY TailIs DEF NodesInv
    <2>2. Traced(last)
      BY <2>1 DEF NodesInv
    <2> HIDE DEF last
    <2>3. IsChain(steps, last.state) /\ n \in 1..n
      BY <2>2, TailIs DEF Traced, IsChain
    <2>4. IsStep(steps, n) /\ last.state = steps[n].post
      BY <2>3 DEF IsChain
    <2>5. steps[n].pre.released \subseteq last.state.released
      BY <2>4, SuccessorIs DEF IsStep
    <2>6. QED
      BY <2>5, MoreIsDerived
  <1>2. QED
    BY <1>1, NodesAreTraced, PTL

-----------------------------------------------------------------------------
(* What the policy allows of the variants of the base.                     *)

(* What is shown as a group key is grouped by.                             *)
KeysAreGrouped(s) == Shown(s, {"GROUP_KEY"}) # {} => s.groups # {}

(* A release with fewer outputs has no other group keys.                   *)
LEMMA NoNewKeys ==
    ASSUME NEW outputs, NEW groups, NEW s, s.outputs \subseteq outputs, s.groups = groups,
           \A o \in outputs : o.kind = "GROUP_KEY" => o.sources \subseteq groups
    PROVE  KeysAreGrouped(s)
  BY DEF KeysAreGrouped, Shown

(* The variants of a base release keep its group keys.                     *)
LEMMA VariantIs ==
    ASSUME NEW base \in SemanticReleases,
           \A o \in base.outputs : o.kind = "GROUP_KEY" => o.sources \subseteq base.groups,
           NEW s,
           \/ s = base
           \/ \E c : s = WithAddedProjection(base, c)
           \/ \E o : s = WithRemovedProjection(base, o)
           \/ \E c : s = WithAddedGroupKey(base, c)
           \/ \E c : s = WithDroppedGroupKey(base, c)
           \/ \E f, g : s = WithChangedAggregate(base, f, g)
    PROVE  KeysAreGrouped(s) /\ s.minimum \in Nat
  <1>1. base.minimum \in Nat /\ \A o \in base.outputs : \E k, r : o = [kind |-> k, sources |-> r]
    BY DEF SemanticReleases
  <1>2. CASE s = base
    BY <1>1, <1>2, NoNewKeys
  <1>3. ASSUME NEW c, s = WithAddedProjection(base, c) PROVE KeysAreGrouped(s) /\ s.minimum \in Nat
    <2>1. /\ s.outputs = base.outputs \cup {Output("RAW_VALUE", c)}
          /\ s.groups = base.groups /\ s.minimum = base.minimum
      BY <1>3 DEF WithAddedProjection, SemanticReleases
    <2>2. Output("RAW_VALUE", c).kind = "RAW_VALUE"
      BY DEF Output
    <2>3. QED
      BY <1>1, <2>1, <2>2, NoNewKeys
  <1>4. ASSUME NEW o, s = WithRemovedProjection(base, o)
        PROVE  KeysAreGrouped(s) /\ s.minimum \in Nat
    <2>1. /\ s.outputs = base.outputs \ {o}
          /\ s.groups = base.groups /\ s.minimum = base.minimum
      BY <1>4 DEF WithRemovedProjection, SemanticReleases
    <2>2. QED
      BY <1>1, <2>1, NoNewKeys
  <1>5. ASSUME NEW c, s = WithAddedGroupKey(base, c) PROVE KeysAreGrouped(s) /\ s.minimum \in Nat
    <2>1. s.groups = base.groups \cup {c} /\ s.minimum = base.minimum
      BY <1>5 DEF WithAddedGroupKey, SemanticReleases
    <2>2. QED
      BY <1>1, <2>1 DEF KeysAreGrouped
  <1>6. ASSUME NEW c, s = WithDroppedGroupKey(base, c)
        PROVE  KeysAreGrouped(s) /\ s.minimum \in Nat
    <2>1. /\ s.outputs = base.outputs \ {Output("GROUP_KEY", c)}
          /\ s.groups = base.groups \ {c} /\ s.minimum = base.minimum
      BY <1>6 DEF WithDroppedGroupKey, SemanticReleases
    <2>2. ASSUME NEW o \in s.outputs, o.kind = "GROUP_KEY", o.sources # {} PROVE s.groups # {}
      <3>1. o \in base.outputs /\ o # Output("GROUP_KEY", c) /\ o.sources \subseteq base.groups
        BY <2>1, <2>2
      <3>2. o = [kind |-> "GROUP_KEY", sources |-> o.sources]
        BY <1>1, <2>2, <3>1
      <3>3. o.sources # {c}
        BY <3>1, <3>2 DEF Output
      <3>4. PICK d \in o.sources : d # c
        BY <2>2, <3>3
      <3>5. QED
        BY <2>1, <3>1, <3>4
    <2>3. QED
      BY <1>1, <2>1, <2>2 DEF KeysAreGrouped, Shown
  <1>7. ASSUME NEW f, NEW g, s = WithChangedAggregate(base, f, g)
        PROVE  KeysAreGrouped(s) /\ s.minimum \in Nat
    <2>1. s.outputs = base.outputs /\ s.groups = base.groups /\ s.minimum = base.minimum
      BY <1>7 DEF WithChangedAggregate, SemanticReleases
    <2>2. QED
      BY <1>1, <2>1, NoNewKeys
  <1>8. QED
    BY <1>2, <1>3, <1>4, <1>5, <1>6, <1>7

(* So do the releases of all future actions.                               *)
LEMMA ActionsAreVariants ==
    ASSUME NEW ctx, NEW a \in InstantiateActions(ctx), a.kind # "SNAPSHOT_ADVANCE",
           ctx.base.semantic \in SemanticReleases,
           \A o \in ctx.base.semantic.outputs :
                o.kind = "GROUP_KEY" => o.sources \subseteq ctx.base.semantic.groups
    PROVE  KeysAreGrouped(a.release.semantic) /\ a.release.semantic.minimum \in Nat
  <1> DEFINE base == ctx.base.semantic
             Variant(s) ==
                \/ s = base
                \/ \E c : s = WithAddedProjection(base, c)
                \/ \E o : s = WithRemovedProjection(base, o)
                \/ \E c : s = WithAddedGroupKey(base, c)
                \/ \E c : s = WithDroppedGroupKey(base, c)
                \/ \E f, g : s = WithChangedAggregate(base, f, g)
  <1>1. ASSUME NEW kind, NEW s, NEW k PROVE ReleaseAction(kind, s, k).release.semantic = s
    BY DEF ReleaseAction
  <1>2. \/ \E k, s, c : a = ReleaseAction(k, s, c) /\ Variant(s)
        \/ \E e : a = [kind |-> "SNAPSHOT_ADVANCE", release |-> NoRelease,
                       from |-> e[1], to |-> e[2]]
    BY DEF InstantiateActions
  <1>3. PICK k, s, c : a = ReleaseAction(k, s, c) /\ Variant(s)
    BY <1>2
  <1>4. a.release.semantic = s
    BY <1>1, <1>3
  <1>5. QED
    BY <1>3, <1>4, VariantIs

(* What the policy engine sees of a column.                                *)
LEMMA EffectiveIs ==
    ASSUME NEW contexts, NEW c, GovernedContext(c) \in contexts
    PROVE  CategoryOf[c] \in EffectiveCategories(contexts)
  <1>1. GovernedContext(c).column = c /\ GovernedContext(c).category = CategoryOf[c]
    BY DEF GovernedContext
  <1> DEFINE e == [column |-> c, category |-> CategoryOf[c]]
  <1>2. e \in EffectiveEntries(contexts)
    BY <1>1 DEF EffectiveEntries
  <1>3. e.category = CategoryOf[c]
    OBVIOUS
  <1>4. QED
    BY <1>2, <1>3 DEF EffectiveCategories

(* What the policy asks of a release that it allows.                       *)
LEMMA AllowedIs ==
    ASSUME NEW s, NEW subjects, PolicyAllows(s, subjects)
    PROVE  LET in == PolicyInputOf(s, subjects) IN
           /\ ValidSemantic(s)
           /\ BlockReasons(in) = {}
           /\ GroupsSensitive(in) => ~(TrustedThreshold(in) < MinimumGroupSize)
  BY DEF PolicyAllows, Reconstructible, PolicyDecision

(* The engine's input as the oracle rebuilds it.                           *)
LEMMA InputIs ==
    ASSUME NEW s, NEW subjects
    PROVE  LET in == PolicyInputOf(s, subjects) IN
           /\ in.projected = {GovernedContext(c) : c \in OutputColumns(s)}
           /\ in.referenced = {GovernedContext(c) : c \in s.referenced}
           /\ in.exposures = s.outputs
           /\ in.grouped <=> s.groups # {} \/ s.aggregates # {}
           /\ in.threshold = s.minimum
  BY DEF PolicyInputOf

(* A category that can be linked is among those the policy counts.         *)
LEMMA LinkableIsAtRisk ==
    ASSUME NEW s, NEW subjects, NEW c \in Shown(s, LinkableKinds)
    PROVE  LET in == PolicyInputOf(s, subjects) IN
           SemanticMode(in) /\ CategoryOf[c] \in EffectiveCategories(SemanticContext(in))
  <1> DEFINE in == PolicyInputOf(s, subjects)
  <1>1. PICK o \in s.outputs : o.kind \in LinkableKinds /\ c \in o.sources
    BY DEF Shown
  <1>2. o \in in.exposures /\ o.kind \in ExposedValueKinds
    BY <1>1, InputIs DEF LinkableKinds, ExposedValueKinds
  <1>3. GovernedContext(c) \in in.projected /\ GovernedContext(c).column = c
    BY <1>1, InputIs DEF OutputColumns, GovernedContext
  <1> HIDE DEF in
  <1>4. SemanticMode(in)
    BY <1>2 DEF SemanticMode
  <1>5. GovernedContext(c) \in SemanticContext(in)
    BY <1>1, <1>2, <1>3, <1>4 DEF SemanticContext
  <1>6. QED
    BY <1>4, <1>5, EffectiveIs DEF in

(* A release that policy/engine.py allows matches none of the predicates   *)
(* that forbidden.py judges on one release alone, but for F2 on grouped    *)
(* queries, whatever the governance and the thresholds of both.            *)
THEOREM AllowedReleasesAreSafe == Spec => []AllowedIsLocallySafe
  <1>1. NodesInv /\ input \in Inputs => AllowedIsLocallySafe
    <2> SUFFICES ASSUME NodesInv, input \in Inputs, NEW i \in 1..Len(actions),
                        actions[i].kind # "SNAPSHOT_ADVANCE",
                        Admissible(InitialState(input), actions[i], input.ctx)
                 PROVE  LET s == actions[i].release.semantic IN
                        /\ ~SameReleaseLinkage(s, "DIRECT_IDENTIFIER")
                        /\ PredicateMinimum <= MinimumGroupSize => ~SmallCohortSensitive(s)
                        /\ s.groups \cup s.aggregates = {}
                                => ~SameReleaseLinkage(s, "STABLE_PSEUDONYM")
      BY DEF AllowedIsLocallySafe
    <2> DEFINE s == actions[i].release.semantic
               subjects == input.ctx.subjects
               in == PolicyInputOf(s, subjects)
    <2>1. StaticInv /\ input \in Inputs /\ actions[i] \in InstantiateActions(input.ctx)
      BY StaticFacts DEF NodesInv, StaticInv
    <2>2. KeysAreGrouped(s) /\ s.minimum \in Nat
      BY <2>1, InputAssumption, ActionsAreVariants
    <2>3. PolicyAllows(s, subjects)
      <3>1. s \in AllowedAmong(Grammar, input.ctx)
        BY <2>1 DEF Admissible, AdmissibleAmong, StaticInv
      <3>2. QED
        BY <3>1 DEF AllowedAmong
    <2> HIDE DEF s, subjects
    <2>4. /\ ValidSemantic(s) /\ BlockReasons(in) = {}
          /\ GroupsSensitive(in) => ~(TrustedThreshold(in) < MinimumGroupSize)
      BY <2>3, AllowedIs
    <2>5. /\ in.referenced = {GovernedContext(c) : c \in s.referenced}
          /\ in.grouped <=> s.groups # {} \/ s.aggregates # {}
          /\ in.threshold = s.minimum
      BY InputIs
    <2>6. \A c \in Shown(s, LinkableKinds) :
            SemanticMode(in) /\ CategoryOf[c] \in EffectiveCategories(SemanticContext(in))
      BY LinkableIsAtRisk
    <2> HIDE DEF in
    <2>7. /\ "DIRECT_SENSITIVE_LINKAGE" \notin BlockReasons(in)
          /\ "COMPOSITIONAL_REIDENTIFICATION_RISK" \notin BlockReasons(in)
      BY <2>4
    <2>8. ASSUME NEW category, SameReleaseLinkage(s, category)
          PROVE  /\ SemanticMode(in)
                 /\ category \in EffectiveCategories(SemanticContext(in))
                 /\ "SENSITIVE_ATTRIBUTE" \in EffectiveCategories(SemanticContext(in))
      BY <2>6, <2>8 DEF SameReleaseLinkage, OfCategory
    <2>9. ~SameReleaseLinkage(s, "DIRECT_IDENTIFIER")
      <3>1. SUFFICES ASSUME SameReleaseLinkage(s, "DIRECT_IDENTIFIER") PROVE FALSE
        OBVIOUS
      <3>2. "DIRECT_SENSITIVE_LINKAGE" \in BlockReasons(in)
        BY <2>8, <3>1 DEF BlockReasons
      <3>3. QED
        BY <2>7, <3>2
    <2>10. ASSUME s.groups \cup s.aggregates = {}
           PROVE  ~SameReleaseLinkage(s, "STABLE_PSEUDONYM")
      <3>1. SUFFICES ASSUME SameReleaseLinkage(s, "STABLE_PSEUDONYM") PROVE FALSE
        OBVIOUS
      <3>2. ~in.grouped
        BY <2>5, <2>10
      <3>3. "COMPOSITIONAL_REIDENTIFICATION_RISK" \in BlockReasons(in)
        BY <2>8, <3>1, <3>2 DEF BlockReasons
      <3>4. QED
        BY <2>7, <3>3
    <2>11. ASSUME PredicateMinimum <= MinimumGroupSize PROVE ~SmallCohortSensitive(s)
      <3>1. SUFFICES ASSUME SmallCohortSensitive(s) PROVE FALSE
        OBVIOUS
      <3>2. in.grouped
        BY <2>2, <2>5, <3>1 DEF SmallCohortSensitive, KeysAreGrouped
      <3>3. PICK c \in Shown(s, RevealingKinds) : CategoryOf[c] = "SENSITIVE_ATTRIBUTE"
        BY <3>1 DEF SmallCohortSensitive, OfCategory
      <3>4. c \in s.referenced
        BY <2>4, <3>3 DEF ValidSemantic, OutputColumns, Shown
      <3>5. "SENSITIVE_ATTRIBUTE" \in EffectiveCategories(in.referenced)
        BY <2>5, <3>3, <3>4, EffectiveIs
      <3>6. ~(TrustedThreshold(in) < MinimumGroupSize)
        BY <2>4, <3>2, <3>5 DEF GroupsSensitive
      <3>7. TrustedThreshold(in) = s.minimum \/ TrustedThreshold(in) = 0
        BY <2>5 DEF TrustedThreshold
      <3>8. s.minimum = 0 \/ s.minimum < PredicateMinimum
        BY <3>1 DEF SmallCohortSensitive
      <3>9. QED
        BY <2>2, <2>11, <3>6, <3>7, <3>8, PolicyAssumption, PredicateAssumption
    <2>12. QED
      BY <2>9, <2>10, <2>11 DEF s
  <1> DEFINE InputInv == input \in Inputs
  <1>2. Init => InputInv
    BY DEF Init
  <1>3. InputInv /\ [Next]_vars => InputInv'
    BY StepsKeepCall
  <1>4. NodesInv /\ InputInv => AllowedIsLocallySafe
    BY <1>1
  <1> HIDE DEF InputInv
  <1>5. QED
    BY <1>2, <1>3, <1>4, NodesAreTraced, PTL DEF Spec

-----------------------------------------------------------------------------
(* What a plan says of its query.                                          *)

(* An exposure has the sources of its projection.                          *)
LEMMA ExposuresAre ==
    ASSUME NEW query, NEW p, NEW e \in Exposures(query, p)
    PROVE  e.sources = ResolveAll(query, RefsIn(p))
  BY DEF Exposures, ExposuresOf

(* The columns shown are those the outputs resolve to.                     *)
LEMMA PlanShows ==
    ASSUME NEW query
    PROVE  UNION {e.sources : e \in Analyze(query).exposures} = Analyze(query).projected
  <1> DEFINE Of(p) == ResolveAll(query, RefsIn(p))
  <1>1. Analyze(query).exposures = UNION {Exposures(query, p) : p \in OutputsOf(query)}
    BY DEF Analyze, AnalyzeScopes
  <1>2. Analyze(query).projected = UNION {Of(p) : p \in OutputsOf(query)}
    BY DEF Analyze, AnalyzeScopes
  <1>3. ASSUME NEW e \in Analyze(query).exposures PROVE e.sources \subseteq Analyze(query).projected
    <2>1. PICK p \in OutputsOf(query) : e \in Exposures(query, p)
      BY <1>1, <1>3
    <2>2. e.sources = Of(p)
      BY <2>1, ExposuresAre
    <2> HIDE DEF Of
    <2>3. QED
      BY <1>2, <2>1, <2>2
  <1>4. ASSUME NEW p \in OutputsOf(query), NEW c \in Of(p)
        PROVE  \E e \in Analyze(query).exposures : c \in e.sources
    <2> DEFINE e == [kind |-> Classify(query, p), sources |-> Of(p)]
    <2>1. e \in Exposures(query, p)
      BY <1>4 DEF Exposures, ExposuresOf
    <2>2. c \in e.sources
      BY <1>4
    <2> HIDE DEF e
    <2>3. QED
      BY <1>1, <2>1, <2>2
  <1> HIDE DEF Of
  <1>5. QED
    BY <1>2, <1>3, <1>4

-----------------------------------------------------------------------------
(* The policy engine and the oracle of the search.                         *)

(* Without groups of sensitive values, only what is shown decides.         *)
LEMMA UngroupedDecision ==
    ASSUME NEW a, NEW b,
           a.upstream = b.upstream, a.projected = b.projected, a.referenced = b.referenced,
           a.exposures = b.exposures, a.grouped = b.grouped, ~GroupsSensitive(b)
    PROVE  PolicyDecision(a) = PolicyDecision(b)
  <1>1. SemanticContext(a) = SemanticContext(b) /\ SemanticMode(a) = SemanticMode(b)
    BY DEF SemanticContext, SemanticMode
  <1>2. Unresolved(a) = Unresolved(b)
    BY DEF Unresolved
  <1>3. ProtectedConditionalAggregate(a) = ProtectedConditionalAggregate(b)
    BY DEF ProtectedConditionalAggregate
  <1>4. BlockReasons(a) = BlockReasons(b)
    BY <1>1, <1>2, <1>3 DEF BlockReasons
  <1>5. ~GroupsSensitive(a)
    BY DEF GroupsSensitive
  <1>6. QED
    BY <1>4, <1>5 DEF PolicyDecision

(* A threshold that lets a release pass is about a subject with governance *)
(* that the query refers to.                                               *)
LEMMA AllowedThreshold ==
    ASSUME NEW r, NEW query, EngineAllows(r, Analyze(query)),
           GroupsSensitive(PlanInput(Analyze(query), r.subject.column))
    PROVE  LET p == Analyze(query)
               s == r.subject.column
           IN  /\ s \in p.referenced /\ s # NoColumn
               /\ p.thresholdSubject = s /\ ~(p.threshold < MinimumGroupSize) /\ p.threshold # 0
  <1> DEFINE p == Analyze(query)
             s == r.subject.column
             in == PlanInput(p, s)
  <1>1. /\ in.referenced = {GovernedContext(c) : c \in p.referenced}
        /\ in.threshold = p.threshold /\ in.thresholdSubject = p.thresholdSubject
        /\ in.subject = s
    BY DEF PlanInput
  <1>2. /\ SubjectIsGoverned(in) /\ ~(TrustedThreshold(in) < MinimumGroupSize)
    BY DEF EngineAllows, PolicyDecision
  <1> HIDE DEF in, p
  <1>3. s \in p.referenced
    BY <1>1, <1>2 DEF SubjectIsGoverned, GovernedContext
  <1>4. s # NoColumn /\ p.thresholdSubject = s /\ TrustedThreshold(in) = p.threshold
    BY <1>1, <1>2, PolicyAssumption DEF TrustedThreshold
  <1>5. QED
    BY <1>2, <1>3, <1>4, PolicyAssumption DEF p

(* So the oracle, asked to replay the release, finds the same subject.     *)
LEMMA KernelsDecideAlike ==
    ASSUME NEW r, NEW query, EngineAllows(r, Analyze(query)), Rebuildable(r, Analyze(query)),
           Reconstructible(SemanticOf(Analyze(query)),
                           SubjectDomain(Analyze(query), r.subject.column))
    PROVE  ReplayAgrees(r, Analyze(query), SubjectDomain(Analyze(query), r.subject.column))
  <1> DEFINE p == Analyze(query)
             s == r.subject.column
             semantic == SemanticOf(p)
             subjects == SubjectDomain(p, s)
             a == PolicyInputOf(semantic, subjects)
             b == PlanInput(p, s)
  <1>1. /\ semantic.outputs = p.exposures /\ semantic.referenced = p.referenced
        /\ semantic.groups = p.groups /\ semantic.aggregates = p.aggregates
        /\ semantic.minimum = p.threshold /\ semantic.datasets = p.datasets
    BY DEF SemanticOf
  <1>2. OutputColumns(semantic) = p.projected
    BY <1>1, PlanShows DEF OutputColumns
  <1>3. p.grouped = (p.groups \cup p.aggregates # {})
    BY DEF Analyze, AnalyzeScopes
  <1> HIDE DEF p, semantic
  <1>4. /\ a.upstream = b.upstream /\ a.projected = b.projected
        /\ a.referenced = b.referenced /\ a.exposures = b.exposures /\ a.grouped = b.grouped
    BY <1>1, <1>2, <1>3 DEF PolicyInputOf, PlanInput
  <1>5. CASE ~GroupsSensitive(b)
    <2> HIDE DEF a, b
    <2>1. PolicyDecision(a) = PolicyDecision(b)
      BY <1>4, <1>5, UngroupedDecision
    <2>2. QED
      BY <2>1 DEF ReplayAgrees, a, b, p, semantic
  <1>6. CASE GroupsSensitive(b)
    <2>1. /\ s \in p.referenced /\ s # NoColumn
          /\ p.thresholdSubject = s /\ p.threshold # 0
      BY <1>6, AllowedThreshold DEF p
    <2>2. s \in subjects
      <3>1. s \in Governed
        BY DEF Rebuildable, HasSubjectDomain
      <3>2. DatasetOf[s] \in p.datasets
        <4>1. {DatasetOf[c] : c \in semantic.referenced} \subseteq semantic.datasets
          BY DEF Reconstructible, ValidSemantic, semantic, p
        <4>2. QED
          BY <1>1, <2>1, <4>1
      <3>3. QED
        BY <3>1, <3>2 DEF SubjectDomain
    <2>3. SubjectKey(semantic, subjects) # NoColumn
      BY <1>1, <2>1 DEF Reconstructible, semantic, p
    <2>4. SubjectKey(semantic, subjects) = s
      <3> HIDE DEF subjects
      <3>1. s \in semantic.referenced \cap subjects
        BY <1>1, <2>1, <2>2
      <3>2. QED
        BY <2>3, <3>1 DEF SubjectKey, IsSingleton
    <2>5. a = b
      <3> HIDE DEF subjects
      <3>1. a = [upstream |-> {},
                 projected |-> {GovernedContext(c) : c \in p.projected},
                 referenced |-> {GovernedContext(c) : c \in p.referenced},
                 exposures |-> p.exposures,
                 grouped |-> p.groups # {} \/ p.aggregates # {},
                 threshold |-> p.threshold,
                 thresholdSubject |-> s,
                 subject |-> s]
        BY <1>1, <1>2, <2>1, <2>4 DEF PolicyInputOf
      <3>2. (p.groups # {} \/ p.aggregates # {}) = p.grouped
        BY <1>3
      <3>3. QED
        BY <2>1, <3>1, <3>2 DEF PlanInput
    <2>6. QED
      BY <2>5 DEF ReplayAgrees, a, b, p, semantic
  <1>7. QED
    BY <1>5, <1>6

-----------------------------------------------------------------------------
(* What each stage of a validation has established.                        *)

(* No validation is under way; the query of one is parsed.                 *)
Between == {"GENERATE", "done"}
Parsed == {"REGROUND", "REBUILD_EVIDENCE", "LOCAL_POLICY", "REBUILD_DISCLOSURE_STATE", "PPMC",
           "searching"}

(* What holds at each stage.                                               *)
StageInv ==
    /\ stage \in Between \cup Parsed \cup {"REPARSE"}
    /\ stage \in Between => generated = NoQuery
    /\ stage \notin Between =>
        /\ generated \in Compile(request.query, candidate, request.subject)
        /\ Analyzable(generated)
    /\ stage \in Parsed => plan = Analyze(generated)
    /\ stage \in Parsed \ {"REGROUND"} => Grounded(plan)
    /\ stage \in {"REBUILD_DISCLOSURE_STATE", "PPMC", "searching"} => EngineAllows(request, plan)
    /\ stage \in {"PPMC", "searching"} => Rebuildable(request, plan)

(* An answer ends the validation.                                          *)
LEMMA AnswerEnds ==
    ASSUME NEW outcome, NEW failure, NEW commitments, NEW allows, NEW ppmc,
           Answer(outcome, failure, commitments, allows, ppmc)
    PROVE  stage' \in Between /\ generated' = NoQuery /\ UNCHANGED <<request, candidates>>
  BY DEF Answer, Conclude, Between

(* What a step keeps: the request, its candidates and, during a            *)
(* validation, the candidate at hand.                                      *)
LEMMA StagesStep ==
    ASSUME StageInv, [CutNext]_<<vars, cutVars>>
    PROVE  StageInv' /\ UNCHANGED <<request, candidates>>
  <1>1. ASSUME NEW outcome, NEW failure, NEW commitments, NEW allows, NEW ppmc,
               Answer(outcome, failure, commitments, allows, ppmc)
        PROVE  StageInv' /\ UNCHANGED <<request, candidates>>
    <2>1. stage' \in Between /\ generated' = NoQuery /\ UNCHANGED <<request, candidates>>
      BY <1>1, AnswerEnds
    <2>2. QED
      BY <2>1 DEF StageInv, Between, Parsed
  <1>2. ASSUME NEW following, Pass(following)
        PROVE  candidate' = candidate /\ stage' = following /\ UNCHANGED <<request, candidates>>
    BY <1>2 DEF Pass, candidate
  <1>3. CASE Generate
    <2>1. CASE Answer("INELIGIBLE", "GENERATE", chain, FALSE, "none")
      BY <1>1, <2>1
    <2>2. CASE /\ generated' \in {q \in Compile(request.query, candidate, request.subject) :
                                    Analyzable(q)}
               /\ Pass("REPARSE")
      <3>1. candidate' = candidate /\ stage' = "REPARSE" /\ UNCHANGED <<request, candidates>>
        BY <1>2, <2>2
      <3>2. QED
        BY <2>2, <3>1 DEF StageInv, Between, Parsed
    <2>3. QED
      BY <1>3, <2>1, <2>2 DEF Generate
  <1>4. CASE Reparse
    <2>1. candidate' = candidate /\ stage' = "REGROUND" /\ UNCHANGED <<request, candidates>>
      BY <1>2, <1>4 DEF Reparse
    <2>2. QED
      BY <1>4, <2>1 DEF Reparse, StageInv, Between, Parsed
  <1>5. CASE Reground \/ RebuildEvidence
    <2>1. /\ candidate' = candidate /\ UNCHANGED <<request, candidates, generated, plan>>
          /\ stage \in Parsed /\ stage' \in {"REBUILD_EVIDENCE", "LOCAL_POLICY"}
          /\ stage = "REGROUND" => Grounded(plan)
      BY <1>2, <1>5 DEF Reground, RebuildEvidence, Parsed
    <2>2. QED
      BY <2>1 DEF StageInv, Between, Parsed
  <1>6. CASE LocalPolicy
    <2>1. CASE EngineAllows(request, plan)
      <3>1. /\ candidate' = candidate /\ UNCHANGED <<request, candidates, generated, plan>>
            /\ stage = "LOCAL_POLICY" /\ stage' = "REBUILD_DISCLOSURE_STATE"
        BY <1>2, <1>6, <2>1 DEF LocalPolicy
      <3>2. QED
        BY <2>1, <3>1 DEF StageInv, Between, Parsed
    <2>2. CASE ~EngineAllows(request, plan)
      BY <1>1, <1>6, <2>2 DEF LocalPolicy
    <2>3. QED
      BY <2>1, <2>2
  <1>7. CASE RebuildState
    <2>1. /\ candidate' = candidate /\ UNCHANGED <<request, candidates, generated, plan>>
          /\ stage = "REBUILD_DISCLOSURE_STATE" /\ stage' = "PPMC" /\ Rebuildable(request, plan)
      BY <1>2, <1>7 DEF RebuildState
    <2>2. QED
      BY <2>1 DEF StageInv, Between, Parsed
  <1>8. CASE Consult
    <2>1. /\ candidate' = candidate /\ UNCHANGED <<request, candidates, generated, plan>>
          /\ stage = "PPMC" /\ stage' = "searching"
      BY <1>8 DEF Consult, candidate
    <2>2. QED
      BY <2>1 DEF StageInv, Between, Parsed
  <1>9. CASE Searching \/ UNCHANGED <<vars, cutVars>>
    <2>1. UNCHANGED cutVars
      BY <1>9 DEF Searching
    <2>2. candidate' = candidate /\ UNCHANGED <<request, candidates, generated, plan, stage>>
      BY <2>1 DEF cutVars, candidate
    <2>3. QED
      BY <2>2 DEF StageInv, Between, Parsed
  <1>10. CASE Searched
    BY <1>1, <1>10 DEF Searched
  <1>11. CASE StageFails
    BY <1>1, <1>11 DEF StageFails
  <1>12. CASE ValidatorFails
    <2>1. stage' = "done" /\ UNCHANGED <<request, candidates, generated>> /\ stage = "GENERATE"
      BY <1>12 DEF ValidatorFails, Conclude
    <2>2. QED
      BY <2>1 DEF StageInv, Between, Parsed
  <1>13. QED
    BY <1>3, <1>4, <1>5, <1>6, <1>7, <1>8, <1>9, <1>10, <1>11, <1>12 DEF CutNext

(* Every stage has what the stages before it established: the query is one *)
(* the candidate compiles to, the plan is the query's, and the policy      *)
(* engine allowed it (DataHubCpccCandidateValidator.__call__).             *)
THEOREM StagesBuildOnEachOther == CutSpec => []StageInv
  <1>1. CutInit => StageInv
    BY DEF CutInit, StageInv, Between, Parsed
  <1>2. StageInv /\ [CutNext]_<<vars, cutVars>> => StageInv'
    BY StagesStep
  <1>3. QED
    BY <1>1, <1>2, PTL DEF CutSpec

(* The oracle of the search, asked to replay a repaired release, decides   *)
(* as the policy engine decided on its plan, for every query and           *)
(* governance: the replay check of repair/validator.py never fails.        *)
THEOREM KernelsAlwaysAgree == CutSpec => []KernelsAgree
  <1>1. StageInv => KernelsAgree
    BY KernelsDecideAlike DEF StageInv, Parsed, KernelsAgree
  <1>2. QED
    BY <1>1, StagesBuildOnEachOther, PTL

-----------------------------------------------------------------------------
(* The conditions of a HAVING clause, level by level.                      *)

(* The conditions one level down, and what a function of levels must be.   *)
Below(set, through) == UNION {ArgsOf(h) : h \in {g \in set : g.op \in through}}

AreLevels(f, having, through, depth) ==
    f = [n \in 0..depth |-> IF n = 0 THEN {having} ELSE Below(f[n - 1], through)]

(* The recursive function of Levels exists.                                *)
LEMMA LevelsExist ==
    ASSUME NEW having, NEW through, NEW depth \in Nat
    PROVE  \E f : AreLevels(f, having, through, depth)
  <1> DEFINE Is(f, m) ==
                f = [n \in 0..m |-> IF n = 0 THEN {having} ELSE Below(f[n - 1], through)]
             Bad == {m \in Nat : ~\E f : Is(f, m)}
  <1>1. SUFFICES ASSUME Bad # {} PROVE FALSE
    BY DEF AreLevels
  <1>2. PICK m \in Bad : \A k \in Bad : m <= k
    BY <1>1, LeastNatural
  <1>3. CASE m = 0
    <2>1. PICK f : f = [n \in 0..m |-> {having}]
      OBVIOUS
    <2> DEFINE h == [n \in 0..m |-> IF n = 0 THEN {having} ELSE Below(f[n - 1], through)]
    <2>2. \A n \in 0..m : n = 0
      BY <1>3
    <2>3. f = h
      <3>1. \A n \in 0..m : f[n] = h[n]
        BY <2>1, <2>2
      <3>2. QED
        BY <2>1, <3>1
    <2>4. Is(f, m)
      BY <2>3
    <2>5. QED
      BY <1>2, <2>4
  <1>4. CASE m # 0
    <2>1. m - 1 \in Nat /\ m \in Nat
      BY <1>4
    <2>2. PICK f : Is(f, m - 1)
      <3> HIDE DEF Is
      <3>1. m - 1 \notin Bad
        <4> HIDE DEF Bad
        <4>1. QED
          BY <1>2, <2>1
      <3>2. QED
        BY <2>1, <3>1
    <2> DEFINE g == [n \in 0..m |-> IF n = m THEN Below(f[m - 1], through) ELSE f[n]]
               h == [n \in 0..m |-> IF n = 0 THEN {having} ELSE Below(g[n - 1], through)]
    <2>3. \A n \in 0..(m - 1) : f[n] = IF n = 0 THEN {having} ELSE Below(f[n - 1], through)
      BY <2>2
    <2>4. \A n \in 0..m : g[n] = IF n = 0 THEN {having} ELSE Below(g[n - 1], through)
      <3> HIDE DEF Is
      <3>1. ASSUME NEW n \in 0..m, n # m PROVE g[n] = f[n] /\ n \in 0..(m - 1)
        BY <2>1, <3>1
      <3>2. g[m] = Below(f[m - 1], through) /\ g[m - 1] = f[m - 1]
        BY <1>4, <2>1
      <3>3. ASSUME NEW n \in 0..m, n # 0, n # m PROVE g[n - 1] = f[n - 1]
        BY <2>1, <3>3
      <3> HIDE DEF g
      <3>4. QED
        BY <1>4, <2>1, <2>3, <3>1, <3>2, <3>3
    <2>5. g = h
      <3>1. \A n \in 0..m : g[n] = h[n]
        BY <2>4
      <3>2. QED
        BY <3>1
    <2>6. Is(g, m)
      BY <2>5
    <2>7. QED
      BY <1>2, <2>6
  <1>5. QED
    BY <1>3, <1>4

(* The first level is the clause, and each further one is below the last.  *)
LEMMA LevelsUnfold ==
    ASSUME NEW having, NEW through
    PROVE  /\ Levels(having, through)[0] = {having}
           /\ \A n \in 1..MaxDepth :
                Levels(having, through)[n] = Below(Levels(having, through)[n - 1], through)
  <1> DEFINE Is(f) == AreLevels(f, having, through, MaxDepth)
  <1>1. Levels(having, through) = CHOOSE f : Is(f)
    BY DEF Levels, Below, AreLevels
  <1>2. \E f : Is(f)
    <2>1. MaxDepth \in Nat
      BY DepthAssumption
    <2>2. QED
      BY <2>1, LevelsExist
  <1>3. Is(Levels(having, through))
    BY <1>1, <1>2
  <1>4. \A n \in 0..MaxDepth :
            Levels(having, through)[n]
                = IF n = 0 THEN {having} ELSE Below(Levels(having, through)[n - 1], through)
    BY <1>3 DEF AreLevels
  <1>5. QED
    BY <1>4, DepthAssumption

(* A set that holds the clause, and what is below any condition in it, has *)
(* all of the clause's conditions.                                         *)
LEMMA WithinClosure ==
    ASSUME NEW having, NEW through, NEW set, having \in set,
           \A h \in set : h.op \in through => ArgsOf(h) \subseteq set
    PROVE  Within(having, through) \subseteq set
  <1> DEFINE level == Levels(having, through)
             Bad == {n \in 0..MaxDepth : ~(level[n] \subseteq set)}
  <1>1. /\ level[0] = {having}
        /\ \A n \in 1..MaxDepth : level[n] = Below(level[n - 1], through)
    BY LevelsUnfold
  <1> HIDE DEF level
  <1>2. Bad = {}
    <2>1. SUFFICES ASSUME Bad # {} PROVE FALSE
      OBVIOUS
    <2>2. PICK n \in Bad : \A k \in Bad : n <= k
      <3>1. Bad \subseteq Nat
        BY DepthAssumption
      <3> HIDE DEF Bad
      <3>2. QED
        BY <2>1, <3>1, LeastNatural
    <2>3. n \in 1..MaxDepth
      BY <1>1, <2>2, DepthAssumption
    <2>4. n - 1 \in 0..MaxDepth /\ ~(n <= n - 1)
      BY <2>3, DepthAssumption
    <2>5. level[n - 1] \subseteq set
      BY <2>2, <2>4
    <2>6. level[n] \subseteq set
      BY <1>1, <2>3, <2>5 DEF Below
    <2>7. QED
      BY <2>2, <2>6
  <1>3. QED
    BY <1>2 DEF Within, level

(* The clause itself is one of its conditions.                             *)
LEMMA RootIsWithin ==
    ASSUME NEW having, NEW through
    PROVE  having \in Within(having, through)
  <1>1. Levels(having, through)[0] = {having} /\ 0 \in 0..MaxDepth
    BY LevelsUnfold, DepthAssumption
  <1>2. QED
    BY <1>1 DEF Within

(* Every finite set of natural numbers that is not empty has a greatest    *)
(* element, and Max is it.                                                 *)
LEMMA MaxIsGreatest ==
    ASSUME NEW S, S \subseteq Nat, S # {}, IsFiniteSet(S)
    PROVE  Max(S) \in S /\ \A y \in S : Max(S) >= y
  <1> DEFINE Above(x) == {y \in S : y > x}
             sizes == {Cardinality(Above(x)) : x \in S}
  <1>1. \A x \in S : IsFiniteSet(Above(x)) /\ Cardinality(Above(x)) \in Nat
    BY FS_Subset, FS_CardinalityType
  <1>2. sizes \subseteq Nat /\ sizes # {}
    BY <1>1
  <1>3. PICK m \in sizes : \A k \in sizes : m <= k
    <2> HIDE DEF sizes
    <2>1. QED
      BY <1>2, LeastNatural
  <1>4. PICK x \in S : m = Cardinality(Above(x))
    BY <1>3
  <1>5. ASSUME NEW y \in S, y > x PROVE FALSE
    <2>1. Above(y) \subseteq Above(x) /\ y \in Above(x) /\ y \notin Above(y)
      <3>1. x \in Nat /\ y \in Nat /\ \A z \in S : z \in Nat
        OBVIOUS
      <3>2. \A z \in S : z > y => z > x
        BY <1>5, <3>1
      <3>3. y > x /\ ~(y > y)
        BY <1>5, <3>1
      <3>4. QED
        BY <3>2, <3>3, Zenon
    <2>2. Cardinality(Above(x)) <= Cardinality(Above(y))
      BY <1>3, <1>4, <1>5
    <2> HIDE DEF Above
    <2>3. /\ Cardinality(Above(y)) <= Cardinality(Above(x))
          /\ Cardinality(Above(x)) = Cardinality(Above(y)) => Above(x) = Above(y)
      BY <1>1, <1>4, <2>1, FS_Subset
    <2>4. QED
      BY <1>1, <1>4, <1>5, <2>1, <2>2, <2>3
  <1>6. \A y \in S : x >= y
    BY <1>5
  <1>7. QED
    BY <1>6 DEF Max

-----------------------------------------------------------------------------
(* What a threshold that is trusted says of groups.                        *)

(* Within the budget, what is below a condition is one of the clause's.    *)
LEMMA NodesAreClosed ==
    ASSUME NEW query, WithinBudget(query), query.having # NoHaving
    PROVE  /\ HavingNodes(query) = Nodes(query.having)
           /\ query.having \in HavingNodes(query)
           /\ \A h \in HavingNodes(query) : h.n \in Nat /\ ArgsOf(h) \subseteq HavingNodes(query)
  BY RootIsWithin DEF WithinBudget, HavingNodes, Nodes

(* Where a clause is true, so is all that it is a conjunction of.          *)
LEMMA ConjunctsAreTrue ==
    ASSUME NEW query, WithinBudget(query), query.having # NoHaving,
           NEW values, NEW other, NEW truth \in [HavingNodes(query) -> BOOLEAN],
           IsTruth(truth, query, values, other), truth[query.having]
    PROVE  \A h \in ConjunctiveTerms(query.having) : h \in HavingNodes(query) /\ truth[h]
  <1> DEFINE set == {h \in HavingNodes(query) : truth[h]}
  <1>1. query.having \in set
    BY NodesAreClosed
  <1>2. ASSUME NEW h \in set, h.op \in {"and"} PROVE ArgsOf(h) \subseteq set
    <2>1. truth[h] = (\A g \in ArgsOf(h) : truth[g])
      BY <1>2 DEF IsTruth
    <2>2. ArgsOf(h) \subseteq HavingNodes(query)
      BY NodesAreClosed
    <2>3. QED
      BY <2>1, <2>2
  <1>3. Within(query.having, {"and"}) \subseteq set
    <2> HIDE DEF set
    <2>1. QED
      BY <1>1, <1>2, WithinClosure
  <1>4. QED
    BY <1>3 DEF ConjunctiveTerms

(* A single alias is that of a single column.                              *)
LEMMA OneColumnRef ==
    ASSUME NEW query, NEW ref, NEW refs, ref \in refs, IsSingleton(ColumnRefs(query, refs))
    PROVE  \A c, d \in Resolve(query, ref) : c = d
  <1> SUFFICES ASSUME NEW c \in Resolve(query, ref), NEW d \in Resolve(query, ref)
               PROVE  c = d
    OBVIOUS
  <1>1. ASSUME NEW e \in Resolve(query, ref)
        PROVE  \E alias : <<e, alias>> \in ColumnRefs(query, refs)
    <2>1. PICK x \in ReachedBy(query, ref) : e \in ColumnsAt(x.source, x.field)
      BY <1>1 DEF Resolve
    <2>2. <<e, x.alias>> \in ColumnsAt(x.source, x.field) \X {x.alias}
      BY <2>1
    <2> DEFINE Of(r) == UNION {ColumnsAt(y.source, y.field) \X {y.alias} : y \in ReachedBy(query, r)}
    <2>3. <<e, x.alias>> \in Of(ref)
      BY <2>1, <2>2
    <2>4. ColumnRefs(query, refs) = UNION {Of(r) : r \in refs}
      BY DEF ColumnRefs
    <2> HIDE DEF Of
    <2>5. QED
      BY <2>3, <2>4
  <1>2. PICK a, b : <<c, a>> \in ColumnRefs(query, refs) /\ <<d, b>> \in ColumnRefs(query, refs)
    BY <1>1
  <1>3. <<c, a>> = <<d, b>>
    BY <1>2 DEF IsSingleton
  <1>4. QED
    BY <1>3

(* And a single alias there is means that there is a column.               *)
LEMMA SomeColumn ==
    ASSUME NEW query, NEW ref, IsSingleton(ColumnRefs(query, {ref}))
    PROVE  IsSingleton(Resolve(query, ref))
  <1>1. PICK x \in ReachedBy(query, ref) : ColumnsAt(x.source, x.field) \X {x.alias} # {}
    BY DEF IsSingleton, ColumnRefs
  <1>2. PICK c : c \in Resolve(query, ref)
    BY <1>1 DEF Resolve
  <1>3. QED
    BY <1>2, OneColumnRef DEF IsSingleton

(* A threshold with a subject is a conjunct of the clause about it alone.  *)
LEMMA ThresholdIsConjunct ==
    ASSUME NEW query, WithinBudget(query), ThresholdOf(query).subject # NoColumn
    PROVE  /\ query.having # NoHaving
           /\ \E t \in ConjunctiveTerms(query.having) :
                /\ t \in TrustedBounds(query) /\ t \in Bounds(query) /\ t.n \in Nat
                /\ Resolve(query, t.ref) = {ThresholdOf(query).subject}
                /\ t.n = ThresholdOf(query).least
  <1> DEFINE terms == ConjunctiveTerms(query.having)
             bounds == TrustedBounds(query)
             ops == {h.op : h \in Nodes(query.having)}
             refs == {t.ref : t \in bounds}
             subjects == ResolveAll(query, refs)
             numbers == {t.n : t \in bounds}
             found == ThresholdOf(query)
  <1>1. \A w : Untrusted(w).subject = NoColumn
    BY DEF Untrusted
  <1>2. query.having # NoHaving
    BY <1>1 DEF ThresholdOf
  <1>3. found = ThresholdAmong(query, ops, bounds)
    BY <1>2 DEF ThresholdOf
  <1> HIDE DEF ops, bounds, found
  <1>4. bounds # {} /\ found = AgreedThreshold(bounds, subjects)
    BY <1>1, <1>3 DEF ThresholdAmong, found
  <1> HIDE DEF subjects, numbers
  <1>5. /\ IsSingleton(subjects) /\ found.least = Max(numbers)
        /\ found.subject = CHOOSE c \in subjects : TRUE
    BY <1>1, <1>4 DEF AgreedThreshold, numbers, found
  <1>6. subjects = {found.subject}
    BY <1>5 DEF IsSingleton
  <1>7. bounds \subseteq HavingNodes(query)
    <2>1. \A h \in HavingNodes(query) : h.op \in {"and"} => ArgsOf(h) \subseteq HavingNodes(query)
      BY <1>2, NodesAreClosed
    <2>2. Within(query.having, {"and"}) \subseteq HavingNodes(query)
      BY <1>2, <2>1, NodesAreClosed, WithinClosure
    <2>3. QED
      BY <2>2 DEF bounds, TrustedBounds, ConjunctiveTerms
  <1>8. numbers \subseteq Nat /\ numbers # {} /\ IsFiniteSet(numbers)
    <2>1. IsFiniteSet(bounds)
      BY <1>7, FS_Subset DEF WithinBudget
    <2>2. IsFiniteSet(numbers)
      <3> DEFINE number == [t \in bounds |-> t.n]
      <3>1. number \in Surjection(bounds, numbers)
        BY DEF Surjection, numbers
      <3> HIDE DEF number
      <3>2. QED
        BY <2>1, <3>1, FS_Surjection
    <2>3. QED
      BY <1>2, <1>4, <1>7, <2>2, NodesAreClosed DEF numbers
  <1>9. Max(numbers) \in numbers
    BY <1>8, MaxIsGreatest
  <1>10. PICK t \in bounds : t.n = found.least
    BY <1>5, <1>9 DEF numbers
  <1>11. t \in terms /\ t.op = "atLeast" /\ IsSingleton(Resolve(query, t.ref))
    BY <1>10, SomeColumn DEF bounds, TrustedBounds
  <1>12. Resolve(query, t.ref) \subseteq subjects
    BY <1>10 DEF subjects, ResolveAll
  <1>13. Resolve(query, t.ref) = {found.subject}
    BY <1>6, <1>11, <1>12 DEF IsSingleton
  <1>14. t \in Bounds(query) /\ t.n \in Nat
    BY <1>2, <1>7, <1>10, <1>11, NodesAreClosed DEF Bounds
  <1>15. QED
    BY <1>2, <1>10, <1>11, <1>13, <1>14 DEF found, bounds

(* A group that survives has as many values as such a threshold says of    *)
(* what the threshold counts.                                              *)
LEMMA SurvivorsAreLarge ==
    ASSUME NEW query, WithinBudget(query), NEW values, NEW other,
           ThresholdOf(query).subject # NoColumn, Survives(query, values, other)
    PROVE  /\ ThresholdOf(query).least \in Nat
           /\ \E t \in TrustedBounds(query) :
                /\ t \in Bounds(query)
                /\ Resolve(query, t.ref) = {ThresholdOf(query).subject}
                /\ values[t] >= ThresholdOf(query).least
  <1>1. query.having # NoHaving
    BY ThresholdIsConjunct
  <1>2. PICK t \in ConjunctiveTerms(query.having) :
            /\ t \in TrustedBounds(query) /\ t \in Bounds(query) /\ t.n \in Nat
            /\ Resolve(query, t.ref) = {ThresholdOf(query).subject}
            /\ t.n = ThresholdOf(query).least
    BY ThresholdIsConjunct
  <1>3. PICK truth \in [HavingNodes(query) -> BOOLEAN] :
            IsTruth(truth, query, values, other) /\ truth[query.having]
    BY <1>1 DEF Survives
  <1>4. truth[t]
    BY <1>1, <1>2, <1>3, ConjunctsAreTrue
  <1>5. truth[t] = (values[t] >= t.n)
    BY <1>2, <1>3 DEF IsTruth, Bounds
  <1>6. QED
    BY <1>2, <1>4, <1>5

(* What the policy engine allows of sensitive values in groups, on the     *)
(* word of thresholds on the subject itself, is of groups no smaller than  *)
(* the policy's minimum, for every query, HAVING clause and data           *)
(* (sql/parser.py, what must hold "for a group to survive").               *)
THEOREM AllowedGroupsAreLargeAlways == CutSpec => []AllowedGroupsAreLarge
  <1>1. StageInv => AllowedGroupsAreLarge
    <2> SUFFICES ASSUME StageInv, stage = "REBUILD_DISCLOSURE_STATE",
                        GroupsSensitive(PlanInput(plan, request.subject.column)),
                        \A h \in TrustedBounds(generated) : CountsItself(generated, h),
                        NEW size \in GroupSizes,
                        NEW values \in [Bounds(generated) -> GroupSizes],
                        NEW other \in BOOLEAN,
                        MayHave(generated, values, request.subject.column, size),
                        Survives(generated, values, other)
                 PROVE  size >= MinimumGroupSize
      BY DEF AllowedGroupsAreLarge
    <2> DEFINE s == request.subject.column
    <2>1. /\ plan = Analyze(generated) /\ Analyzable(generated) /\ Grounded(plan)
          /\ EngineAllows(request, plan)
      BY DEF StageInv, Between, Parsed
    <2>2. /\ s \in plan.referenced /\ s # NoColumn
          /\ plan.thresholdSubject = s /\ ~(plan.threshold < MinimumGroupSize)
      BY <2>1, AllowedThreshold
    <2>3. plan.threshold = ThresholdOf(generated).least
          /\ plan.thresholdSubject = ThresholdOf(generated).subject
      BY <2>1 DEF Analyze, AnalyzeScopes
    <2>4. WithinBudget(generated)
      BY <2>1 DEF Analyzable, Scopes
    <2>5. /\ plan.threshold \in Nat
          /\ \E t \in TrustedBounds(generated) :
                /\ t \in Bounds(generated) /\ Resolve(generated, t.ref) = {s}
                /\ values[t] >= plan.threshold
      BY <2>2, <2>3, <2>4, SurvivorsAreLarge
    <2>6. PICK t \in TrustedBounds(generated) :
                /\ t \in Bounds(generated) /\ Resolve(generated, t.ref) = {s}
                /\ values[t] >= plan.threshold
      BY <2>5
    <2>7. values[t] <= size
      BY <2>6 DEF MayHave
    <2>8. values[t] \in Nat /\ size \in Nat
      BY <2>6, RequestAssumption
    <2>9. QED
      BY <2>2, <2>5, <2>6, <2>7, <2>8, PolicyAssumption
  <1>2. QED
    BY <1>1, StagesBuildOnEachOther, PTL

-----------------------------------------------------------------------------
(* The order of the candidates.                                            *)

(* A candidate is one action of the space, or two.                         *)
LEMMA CandidateIs ==
    ASSUME NEW space, ValidSpace(space), NEW c \in Candidates(space)
    PROVE  /\ c \subseteq space /\ c # {} /\ IsFiniteSet(c)
           /\ \A a \in c : ValidAction(a)
           /\ Cardinality(c) \in {1, 2}
  <1>1. c \in SUBSET space /\ Cardinality(c) \in {1, 2}
    BY DEF Candidates, kSubset
  <1>2. c # {}
    BY <1>1, FS_EmptySet
  <1>3. IsFiniteSet(c)
    BY <1>1, FS_Subset DEF ValidSpace
  <1>4. QED
    BY <1>1, <1>2, <1>3 DEF ValidSpace

(* There are finitely many.                                                *)
LEMMA CandidatesAreFinite ==
    ASSUME NEW space, ValidSpace(space)
    PROVE  IsFiniteSet(Candidates(space))
  <1>1. IsFiniteSet(SUBSET space)
    BY FS_SUBSET DEF ValidSpace
  <1>2. Candidates(space) \in SUBSET (SUBSET space)
    BY DEF Candidates, kSubset
  <1>3. QED
    BY <1>1, <1>2, FS_Subset

(* The three parts of a cost are numbers.                                  *)
LEMMA CostIs ==
    ASSUME NEW space, ValidSpace(space), NEW c \in Candidates(space), NEW i \in 1..3
    PROVE  CandidateCost(c)[i] \in Nat
  <1> DEFINE first == CHOOSE a \in c : TRUE
             rest == c \ {first}
             second == CHOOSE a \in rest : TRUE
  <1>1. ASSUME NEW a, ValidAction(a) PROVE OperatorCost(a.operator)[i] \in Nat
    <2>1. a.operator \in Operators
      BY <1>1 DEF ValidAction
    <2>2. \A x, y, z \in Nat : <<x, y, z>>[i] \in Nat
      OBVIOUS
    <2>3. \E x, y, z \in Nat : OperatorCost(a.operator) = <<x, y, z>>
      BY <2>1 DEF OperatorCost, Operators, FieldOperators, ThresholdOperators
    <2>4. QED
      BY <2>2, <2>3
  <1>2. first \in c /\ (rest # {} => second \in c)
    BY CandidateIs
  <1>3. /\ OperatorCost(first.operator)[i] \in Nat
        /\ rest # {} => OperatorCost(second.operator)[i] \in Nat
    BY <1>1, <1>2, CandidateIs
  <1>4. CandidateCost(c)[i] = IF rest = {} THEN OperatorCost(first.operator)[i]
                              ELSE OperatorCost(first.operator)[i]
                                    + OperatorCost(second.operator)[i]
    BY DEF CandidateCost
  <1> HIDE DEF first, rest, second
  <1>5. QED
    BY <1>3, <1>4

(* A cost is less when its first part is, or the first that differs.       *)
LEMMA CheaperIs ==
    ASSUME NEW a, NEW b
    PROVE  LET x == CandidateCost(a)
               y == CandidateCost(b)
           IN  Cheaper(a, b) <=> \/ x[1] < y[1]
                                 \/ x[1] = y[1] /\ x[2] < y[2]
                                 \/ x[1] = y[1] /\ x[2] = y[2] /\ x[3] < y[3]
  <1> DEFINE x == CandidateCost(a)
             y == CandidateCost(b)
  <1>1. Cheaper(a, b) <=> \E i \in 1..3 : x[i] < y[i] /\ \A j \in 1..(i - 1) : x[j] = y[j]
    BY DEF Cheaper
  <1> HIDE DEF x, y
  <1>2. \A i \in 1..3 : i = 1 \/ i = 2 \/ i = 3
    OBVIOUS
  <1>3. /\ 1..(1 - 1) = {} /\ 1..(2 - 1) = {1} /\ 1..(3 - 1) = {1, 2}
        /\ 1 \in 1..3 /\ 2 \in 1..3 /\ 3 \in 1..3
    OBVIOUS
  <1>4. QED
    BY <1>1, <1>2, <1>3 DEF x, y

(* Being cheaper is irreflexive and transitive, and so is its negation.    *)
LEMMA CheaperIsOrder ==
    ASSUME NEW space, ValidSpace(space),
           NEW a \in Candidates(space), NEW b \in Candidates(space), NEW c \in Candidates(space)
    PROVE  /\ ~Cheaper(a, a)
           /\ Cheaper(a, b) /\ Cheaper(b, c) => Cheaper(a, c)
           /\ ~Cheaper(b, a) /\ ~Cheaper(c, b) => ~Cheaper(c, a)
  <1> DEFINE x == CandidateCost(a)
             y == CandidateCost(b)
             z == CandidateCost(c)
  <1>1. \A i \in 1..3 : x[i] \in Nat /\ y[i] \in Nat /\ z[i] \in Nat
    BY CostIs
  <1>2. /\ x[1] \in Nat /\ x[2] \in Nat /\ x[3] \in Nat
        /\ y[1] \in Nat /\ y[2] \in Nat /\ y[3] \in Nat
        /\ z[1] \in Nat /\ z[2] \in Nat /\ z[3] \in Nat
    BY <1>1
  <1> HIDE DEF x, y, z
  <1>3. ~Cheaper(a, a)
    BY <1>2, CheaperIs DEF x
  <1>4. Cheaper(a, b) <=> \/ x[1] < y[1]
                          \/ x[1] = y[1] /\ x[2] < y[2]
                          \/ x[1] = y[1] /\ x[2] = y[2] /\ x[3] < y[3]
    BY CheaperIs DEF x, y
  <1>5. Cheaper(b, c) <=> \/ y[1] < z[1]
                          \/ y[1] = z[1] /\ y[2] < z[2]
                          \/ y[1] = z[1] /\ y[2] = z[2] /\ y[3] < z[3]
    BY CheaperIs DEF y, z
  <1>6. Cheaper(a, c) <=> \/ x[1] < z[1]
                          \/ x[1] = z[1] /\ x[2] < z[2]
                          \/ x[1] = z[1] /\ x[2] = z[2] /\ x[3] < z[3]
    BY CheaperIs DEF x, z
  <1>7. Cheaper(b, a) <=> \/ y[1] < x[1]
                          \/ y[1] = x[1] /\ y[2] < x[2]
                          \/ y[1] = x[1] /\ y[2] = x[2] /\ y[3] < x[3]
    BY CheaperIs DEF x, y
  <1>8. Cheaper(c, b) <=> \/ z[1] < y[1]
                          \/ z[1] = y[1] /\ z[2] < y[2]
                          \/ z[1] = y[1] /\ z[2] = y[2] /\ z[3] < y[3]
    BY CheaperIs DEF y, z
  <1>9. Cheaper(c, a) <=> \/ z[1] < x[1]
                          \/ z[1] = x[1] /\ z[2] < x[2]
                          \/ z[1] = x[1] /\ z[2] = x[2] /\ z[3] < x[3]
    BY CheaperIs DEF x, z
  <1>10. Cheaper(a, b) /\ Cheaper(b, c) => Cheaper(a, c)
    BY <1>2, <1>4, <1>5, <1>6
  <1>11. ~Cheaper(b, a) /\ ~Cheaper(c, b) => ~Cheaper(c, a)
    BY <1>2, <1>7, <1>8, <1>9
  <1>12. QED
    BY <1>3, <1>10, <1>11

(* The key of a candidate orders all of them.                              *)
LEMMA PrecedesIsOrder ==
    ASSUME NEW space, ValidSpace(space), NEW order \in OrdersOf(Candidates(space)),
           NEW a \in Candidates(space), NEW b \in Candidates(space), NEW c \in Candidates(space)
    PROVE  /\ ~Precedes(order, a, a)
           /\ Precedes(order, a, b) /\ Precedes(order, b, c) => Precedes(order, a, c)
           /\ a # b => Precedes(order, a, b) \/ Precedes(order, b, a)
  <1> DEFINE Hash(x) == CHOOSE i \in 1..Len(order) : order[i] = x
  <1>1. /\ order \in Seq(Candidates(space))
        /\ \A x \in Candidates(space) : \E i \in 1..Len(order) : order[i] = x
    BY DEF OrdersOf
  <1>2. \A x \in Candidates(space) : Hash(x) \in 1..Len(order) /\ order[Hash(x)] = x
    BY <1>1
  <1>3. \A x, y : Precedes(order, x, y)
            <=> Cheaper(x, y) \/ (~Cheaper(y, x) /\ Hash(x) < Hash(y))
    BY DEF Precedes
  <1> HIDE DEF Hash
  <1>4. Len(order) \in Nat
    BY <1>1
  <1>5. Hash(a) \in Nat /\ Hash(b) \in Nat /\ Hash(c) \in Nat /\ (Hash(a) = Hash(b) => a = b)
    BY <1>2, <1>4
  <1>6. ~Precedes(order, a, a)
    BY <1>3, <1>5, CheaperIsOrder
  <1>7. Precedes(order, a, b) /\ Precedes(order, b, c) => Precedes(order, a, c)
    <2>1. /\ Cheaper(a, b) /\ Cheaper(b, c) => Cheaper(a, c)
          /\ ~Cheaper(b, a) /\ ~Cheaper(c, b) => ~Cheaper(c, a)
          /\ Cheaper(b, c) /\ Cheaper(c, a) => Cheaper(b, a)
          /\ Cheaper(c, a) /\ Cheaper(a, b) => Cheaper(c, b)
          /\ ~Cheaper(c, b) /\ ~Cheaper(a, c) => ~Cheaper(a, b)
          /\ ~Cheaper(a, c) /\ ~Cheaper(b, a) => ~Cheaper(b, c)
      BY CheaperIsOrder
    <2>2. Hash(a) < Hash(b) /\ Hash(b) < Hash(c) => Hash(a) < Hash(c)
      BY <1>5
    <2>3. QED
      BY <1>3, <2>1, <2>2
  <1>8. a # b => Precedes(order, a, b) \/ Precedes(order, b, a)
    BY <1>3, <1>5
  <1>9. QED
    BY <1>6, <1>7, <1>8

(* The candidates before one.                                              *)
Earlier(order, set, c) == {d \in set : Precedes(order, d, c)}

(* Counting the candidates before each one gives every place once.         *)
LEMMA PlacesAreTaken ==
    ASSUME NEW space, ValidSpace(space), NEW order \in OrdersOf(Candidates(space))
    PROVE  LET set == Candidates(space)
               before(c) == Cardinality(Earlier(order, set, c))
           IN  /\ Cardinality(set) \in Nat
               /\ \A c \in set : before(c) + 1 \in 1..Cardinality(set) /\ before(c) \in Nat
               /\ \A c, d \in set : Precedes(order, c, d) => before(c) < before(d)
               /\ \A i \in 1..Cardinality(set) : \E c \in set : before(c) = i - 1
  <1> DEFINE set == Candidates(space)
             N == Cardinality(set)
             before(c) == Cardinality(Earlier(order, set, c))
             place == [c \in set |-> before(c) + 1]
  <1>1. IsFiniteSet(set) /\ N \in Nat
    BY CandidatesAreFinite, FS_CardinalityType
  <1>2. \A c \in set : ~Precedes(order, c, c)
    BY PrecedesIsOrder
  <1>3. \A b, c, d \in set :
            Precedes(order, b, c) /\ Precedes(order, c, d) => Precedes(order, b, d)
    BY PrecedesIsOrder
  <1>4. \A c, d \in set : c # d => Precedes(order, c, d) \/ Precedes(order, d, c)
    BY PrecedesIsOrder
  <1> HIDE DEF set
  <1>5. ASSUME NEW c \in set PROVE IsFiniteSet(Earlier(order, set, c)) /\ before(c) \in Nat
    BY <1>1, FS_Subset, FS_CardinalityType DEF Earlier
  <1>6. ASSUME NEW c \in set PROVE before(c) + 1 \in 1..N
    <2>1. Earlier(order, set, c) \subseteq set \ {c}
      BY <1>2 DEF Earlier
    <2>2. IsFiniteSet(set \ {c}) /\ Cardinality(set \ {c}) = N - 1
      BY <1>1, FS_RemoveElement
    <2>3. before(c) <= N - 1
      BY <2>1, <2>2, FS_Subset
    <2> HIDE DEF N
    <2>4. QED
      BY <1>1, <1>5, <2>3
  <1>7. ASSUME NEW c \in set, NEW d \in set, Precedes(order, c, d) PROVE before(c) < before(d)
    <2>1. Earlier(order, set, c) \subseteq Earlier(order, set, d)
      BY <1>3, <1>7 DEF Earlier
    <2>2. c \in Earlier(order, set, d) /\ c \notin Earlier(order, set, c)
      BY <1>2, <1>7 DEF Earlier
    <2>3. before(c) <= before(d) /\ before(c) # before(d)
      BY <1>5, <2>1, <2>2, FS_Subset
    <2>4. QED
      BY <1>5, <2>3
  <1> HIDE DEF before, N
  <1>8. place \in Injection(set, 1..N)
    <2>1. place \in [set -> 1..N]
      BY <1>6
    <2>2. ASSUME NEW c \in set, NEW d \in set, c # d PROVE place[c] # place[d]
      <3>1. before(c) < before(d) \/ before(d) < before(c)
        BY <1>4, <1>7, <2>2
      <3>2. QED
        BY <1>5, <2>2, <3>1
    <2> HIDE DEF place
    <2>3. QED
      BY <2>1, <2>2 DEF Injection, IsInjective
  <1>9. place \in Surjection(set, 1..N)
    <2>1. IsFiniteSet(1..N) /\ Cardinality(1..N) = Cardinality(set)
      BY <1>1, FS_Interval DEF N
    <2> HIDE DEF place
    <2>2. QED
      BY <1>8, <2>1, FS_Injection
  <1>10. ASSUME NEW i \in 1..N PROVE \E c \in set : before(c) = i - 1
    <2>1. PICK c \in set : place[c] = i
      <3> HIDE DEF place
      <3>1. QED
        BY <1>9 DEF Surjection
    <2>2. before(c) + 1 = i /\ before(c) \in Nat
      BY <1>5, <2>1
    <2>3. QED
      BY <1>1, <2>2
  <1>11. QED
    BY <1>1, <1>5, <1>6, <1>7, <1>10 DEF set, before, N

(* Ranked lists every candidate, and none before one that is cheaper.      *)
IsRanking(list, set) ==
    /\ Cardinality(set) \in Nat /\ Len(list) = Cardinality(set)
    /\ \A i \in 1..Len(list) : list[i] \in set
    /\ \A c \in set : \E i \in 1..Len(list) : list[i] = c
    /\ \A i, j \in 1..Len(list) : i <= j => ~Cheaper(list[j], list[i])

(* Every list of the candidates that run_cpcc may sort is such a ranking.  *)
LEMMA RankedIsRanking ==
    ASSUME NEW space, ValidSpace(space), NEW order \in OrdersOf(Candidates(space))
    PROVE  IsRanking(Ranked(order, Candidates(space)), Candidates(space))
  <1> DEFINE set == Candidates(space)
             N == Cardinality(set)
             before(c) == Cardinality(Earlier(order, set, c))
             list == Ranked(order, set)
  <1>1. /\ N \in Nat
        /\ \A c \in set : before(c) + 1 \in 1..N /\ before(c) \in Nat
        /\ \A c, d \in set : Precedes(order, c, d) => before(c) < before(d)
        /\ \A i \in 1..N : \E c \in set : before(c) = i - 1
    BY PlacesAreTaken
  <1>2. \A c, d \in set : c # d => Precedes(order, c, d) \/ Precedes(order, d, c)
    BY PrecedesIsOrder
  <1>3. \A c, d \in set : Cheaper(c, d) => Precedes(order, c, d)
    BY DEF Precedes
  <1>4. \A c \in set : ~Cheaper(c, c)
    BY CheaperIsOrder
  <1>5. list = [i \in 1..N |-> CHOOSE c \in set : before(c) = i - 1]
    BY DEF Ranked, Earlier
  <1> HIDE DEF set, before, N, list
  <1>6. \A i \in 1..N : list[i] \in set /\ before(list[i]) = i - 1
    BY <1>1, <1>5
  <1>7. list \in Seq(set) /\ Len(list) = N
    <2>1. list \in [1..N -> set]
      BY <1>5, <1>6
    <2>2. QED
      BY <1>1, <2>1
  <1>8. ASSUME NEW c \in set PROVE \E i \in 1..N : list[i] = c
    <2> DEFINE i == before(c) + 1
    <2>1. i \in 1..N /\ before(list[i]) = before(c) /\ list[i] \in set
      BY <1>1, <1>6
    <2>2. list[i] = c
      BY <1>1, <1>2, <2>1
    <2>3. QED
      BY <2>1, <2>2
  <1>9. ASSUME NEW i \in 1..N, NEW j \in 1..N, i <= j PROVE ~Cheaper(list[j], list[i])
    <2>1. ~(before(list[j]) < before(list[i]))
      BY <1>1, <1>6, <1>9
    <2>2. QED
      BY <1>1, <1>3, <1>6, <2>1
  <1>10. QED
    BY <1>1, <1>6, <1>7, <1>8, <1>9 DEF IsRanking, set, N, list

(* The request, and the list of its candidates, stay what they are.        *)
RequestInv ==
    /\ request \in Requests /\ ValidSpace(request.space)
    /\ Analyzable(request.query) /\ Grounded(Analyze(request.query))
    /\ IsRanking(candidates, Candidates(request.space))

(* Every candidate is tried at its place: no cheaper one comes later       *)
(* (run_cpcc, sorted by ordering_key).                                     *)
THEOREM CandidatesAreRanked == CutSpec => [](StageInv /\ RequestInv)
  <1>1. CutInit => RequestInv
    BY RankedIsRanking DEF CutInit, RequestInv
  <1>2. StageInv /\ RequestInv /\ [CutNext]_<<vars, cutVars>> => RequestInv'
    BY StagesStep DEF RequestInv
  <1>3. QED
    BY <1>1, <1>2, StagesBuildOnEachOther, PTL DEF CutSpec

-----------------------------------------------------------------------------
(* What a repair makes of a query.                                         *)

(* Every output refers to no more than some output of the query did.       *)
ShowsLess(q, query) ==
    /\ q.from = query.from
    /\ \A p \in OutputsOf(q) : \E o \in OutputsOf(query) : RefsIn(p) \subseteq RefsIn(o)

(* Projections that are taken away leave the others as they are.           *)
LEMMA RemovingIs ==
    ASSUME NEW query, NEW doomed, NEW q \in Removing(query, doomed)
    PROVE  ShowsLess(q, query) /\ q.having = query.having
  <1>1. PICK kept \in {DOMAIN query.outputs \ doomed} \ {{}, DOMAIN query.outputs} :
            q = Showing(query, [i \in kept |-> query.outputs[i]])
    BY DEF Removing
  <1>2. /\ q.from = query.from /\ q.having = query.having
        /\ q.outputs = [i \in kept |-> query.outputs[i]]
    BY <1>1 DEF Showing
  <1>3. OutputsOf(q) \subseteq OutputsOf(query)
    BY <1>1, <1>2 DEF OutputsOf
  <1>4. QED
    BY <1>2, <1>3 DEF ShowsLess

(* A count refers to what was counted.                                     *)
LEMMA CountingIs ==
    ASSUME NEW query, NEW projection \in OutputsOf(query), NEW q \in Counting(query, projection)
    PROVE  ShowsLess(q, query) /\ q.having = query.having
  <1>1. PICK ref \in RefsIn(projection) :
            q = Showing(query, [i \in DOMAIN query.outputs |-> CountOf(projection, ref)])
    BY DEF Counting
  <1>2. /\ q.from = query.from /\ q.having = query.having
        /\ q.outputs = [i \in DOMAIN query.outputs |-> CountOf(projection, ref)]
    BY <1>1 DEF Showing
  <1>3. \A p \in OutputsOf(q) : p = CountOf(projection, ref)
    BY <1>2 DEF OutputsOf
  <1>4. RefsIn(CountOf(projection, ref)) = {ref}
    <2> DEFINE operand == [wrap |-> "count", ref |-> ref]
    <2>1. CountOf(projection, ref).operands = <<operand>>
      BY DEF CountOf
    <2>2. operand.ref = ref
      OBVIOUS
    <2> HIDE DEF operand
    <2>3. OperandsOf(CountOf(projection, ref)) = {operand}
      BY <2>1 DEF OperandsOf
    <2>4. QED
      BY <2>2, <2>3 DEF RefsIn
  <1>5. QED
    BY <1>2, <1>3, <1>4 DEF ShowsLess

(* A repair of the projections leaves the HAVING clause alone.             *)
LEMMA ProjectionRepairIs ==
    ASSUME NEW query, NEW action_, NEW column, NEW q,
           q \in ProjectionRepairs(query, action_, Slots(query, column))
    PROVE  ShowsLess(q, query) /\ q.having = query.having
  <1> DEFINE slots == Slots(query, column)
             slot == CHOOSE i \in slots : TRUE
  <1>1. IsSingleton(slots) => query.outputs[slot] \in OutputsOf(query)
    BY DEF IsSingleton, Slots, OutputsOf
  <1>2. \/ \E doomed : q \in Removing(query, doomed)
        \/ IsSingleton(slots) /\ q \in Counting(query, query.outputs[slot])
    BY DEF ProjectionRepairs, RemovingCategory
  <1>3. QED
    BY <1>1, <1>2, RemovingIs, CountingIs

(* A threshold is added to the HAVING clause, and enforced by it.          *)
LEMMA ThresholdRepairIs ==
    ASSUME NEW query, NEW action_, NEW subject, NEW q,
           q \in ThresholdRepairs(query, Analyze(query), action_, subject)
    PROVE  /\ ShowsLess(q, query)
           /\ \E bound : q.having = Conjoin(query.having, bound)
           /\ Analyzable(q) => Enforces(Analyze(q), subject, action_.minimum)
  <1> DEFINE Bound(a) == AtLeast([alias |-> a, field |-> FieldOf[subject.column]],
                                 action_.minimum)
             Rewritten(a) == Requiring(query, Conjoin(query.having, Bound(a)))
  <1>1. /\ q \in EnforceMinimum(query, Analyze(query), subject, action_.minimum)
        /\ q # query
    BY DEF ThresholdRepairs
  <1>2. /\ \E a \in Qualifiers(query, subject) : q = Rewritten(a)
        /\ Analyzable(q) => Enforces(Analyze(q), subject, action_.minimum)
    BY <1>1 DEF EnforceMinimum
  <1>3. PICK a : q = Rewritten(a)
    BY <1>2
  <1>4. /\ q.from = query.from /\ q.outputs = query.outputs
        /\ q.having = Conjoin(query.having, Bound(a))
    BY <1>3 DEF Requiring
  <1>5. ShowsLess(q, query)
    BY <1>4 DEF ShowsLess, OutputsOf
  <1>6. QED
    BY <1>2, <1>4, <1>5

(* Either kind of repair.                                                  *)
LEMMA RepairIs ==
    ASSUME NEW query, NEW action_, NEW subject, NEW q \in Repairs(query, action_, subject)
    PROVE  /\ ShowsLess(q, query)
           /\ IF action_.operator \in ThresholdOperators
              THEN /\ \E bound : q.having = Conjoin(query.having, bound)
                   /\ Analyzable(q) => Enforces(Analyze(q), subject, action_.minimum)
              ELSE q.having = query.having
  BY ProjectionRepairIs, ThresholdRepairIs DEF Repairs

(* The first repair of a candidate is of its least phase.                  *)
LEMMA FirstIs ==
    ASSUME NEW space, ValidSpace(space), NEW c \in Candidates(space)
    PROVE  LET first == CHOOSE a \in c : \A b \in c : Phase(a) <= Phase(b) IN
           /\ first \in c
           /\ \A b \in c : Phase(first) <= Phase(b)
  <1> DEFINE phases == {Phase(a) : a \in c}
  <1>1. \A a \in c : a.operator \in Operators
    BY CandidateIs DEF ValidAction
  <1>2. \A a \in c : Phase(a) \in Nat
    BY <1>1 DEF Phase, Operators, FieldOperators, ThresholdOperators
  <1>3. phases \subseteq Nat /\ phases # {}
    BY <1>2, CandidateIs
  <1>4. PICK m \in phases : \A k \in phases : m <= k
    <2> HIDE DEF phases
    <2>1. QED
      BY <1>3, LeastNatural
  <1>5. QED
    BY <1>4

(* Nothing follows a threshold.                                            *)
LEMMA ThresholdsComeLast ==
    ASSUME NEW space, ValidSpace(space), NEW c \in Candidates(space), NEW first \in c,
           \A b \in c : Phase(first) <= Phase(b),
           first.operator \in ThresholdOperators,
           ~(Cardinality({a \in c : a.operator \in ThresholdOperators}) > 1)
    PROVE  c \ {first} = {}
  <1> SUFFICES ASSUME NEW b \in c, b # first PROVE FALSE
    OBVIOUS
  <1>1. first.operator \in Operators /\ b.operator \in Operators /\ IsFiniteSet(c)
    BY CandidateIs DEF ValidAction
  <1>2. Phase(first) \in {40, 41}
    BY DEF Phase, ThresholdOperators
  <1>3. b.operator \in ThresholdOperators
    <2>1. Phase(b) \in Nat /\ Phase(first) <= Phase(b)
      BY <1>1 DEF Phase, Operators, FieldOperators, ThresholdOperators
    <2>2. b.operator \notin ThresholdOperators => Phase(b) < 40
      BY <1>1 DEF Phase, Operators, FieldOperators, ThresholdOperators
    <2>3. QED
      BY <1>2, <2>1, <2>2
  <1> DEFINE both == {a \in c : a.operator \in ThresholdOperators}
  <1>4. {first, b} \subseteq both /\ IsFiniteSet(both)
    BY <1>1, <1>3, FS_Subset
  <1>5. Cardinality({first, b}) = 2
    <2>1. IsFiniteSet({first}) /\ Cardinality({first}) = 1
      BY FS_Singleton
    <2>2. {first, b} = {first} \cup {b} /\ b \notin {first}
      OBVIOUS
    <2>3. Cardinality({first} \cup {b}) = Cardinality({first}) + 1
      BY <2>1, <2>2, FS_AddElement
    <2>4. QED
      BY <2>1, <2>2, <2>3
  <1>6. 2 <= Cardinality(both) /\ Cardinality(both) \in Nat
    BY <1>4, <1>5, FS_Subset, FS_CardinalityType
  <1>7. QED
    BY <1>6

(* A repair that requires something has a clause that says so.             *)
LEMMA EnforcedIs ==
    ASSUME NEW q, NEW subject, NEW n \in Nat \ {0}, Enforces(Analyze(q), subject, n)
    PROVE  q.having # NoHaving
  <1> SUFFICES ASSUME q.having = NoHaving PROVE FALSE
    OBVIOUS
  <1>1. ThresholdOf(q).least = 0
    BY DEF ThresholdOf, Untrusted
  <1>2. Analyze(q).threshold = 0
    BY <1>1 DEF Analyze, AnalyzeScopes
  <1>3. QED
    BY <1>2 DEF Enforces

(* What a candidate compiles to, if it can be analysed.                    *)
LEMMA CompiledIs ==
    ASSUME NEW space, ValidSpace(space), NEW c \in Candidates(space), NEW query, NEW subject,
           NEW q \in Compile(query, c, subject), Analyzable(q)
    PROVE  /\ ShowsLess(q, query)
           /\ \/ q.having = query.having
              \/ q.having # NoHaving /\ \E bound : q.having = Conjoin(query.having, bound)
  <1> DEFINE first == CHOOSE a \in c : \A b \in c : Phase(a) <= Phase(b)
             rest == c \ {first}
  <1>1. first \in c /\ \A b \in c : Phase(first) <= Phase(b)
    BY FirstIs
  <1>2. /\ ~(Cardinality({a \in c : a.operator \in ThresholdOperators}) > 1)
        /\ q \in CompileFrom(query, c, subject, first)
    BY DEF Compile
  <1> HIDE DEF first
  <1>3. PICK q1 \in Repairs(query, first, subject) :
            IF rest = {} THEN q = q1 ELSE \E a \in rest : q \in Repairs(q1, a, subject)
    BY <1>2 DEF CompileFrom
  <1>4. first.operator \in ThresholdOperators => rest = {}
    BY <1>1, <1>2, ThresholdsComeLast
  <1>5. ASSUME NEW a \in c, NEW old, q \in Repairs(old, a, subject)
        PROVE  /\ ShowsLess(q, old)
               /\ \/ q.having = old.having
                  \/ q.having # NoHaving /\ \E bound : q.having = Conjoin(old.having, bound)
    <2>1. CASE a.operator \in ThresholdOperators
      <3>1. a.minimum \in Nat \ {0}
        BY <2>1, CandidateIs DEF ValidAction
      <3>2. Enforces(Analyze(q), subject, a.minimum)
        BY <1>5, <2>1, RepairIs
      <3>3. q.having # NoHaving
        BY <3>1, <3>2, EnforcedIs
      <3>4. QED
        BY <1>5, <2>1, <3>3, RepairIs
    <2>2. CASE a.operator \notin ThresholdOperators
      BY <1>5, <2>2, RepairIs
    <2>3. QED
      BY <2>1, <2>2
  <1>6. CASE rest = {}
    BY <1>1, <1>3, <1>5, <1>6
  <1>7. CASE rest # {}
    <2>1. ShowsLess(q1, query) /\ q1.having = query.having
      BY <1>3, <1>4, <1>7, RepairIs
    <2>2. PICK a \in rest : q \in Repairs(q1, a, subject)
      BY <1>3, <1>7
    <2>3. /\ ShowsLess(q, q1)
          /\ \/ q.having = q1.having
             \/ q.having # NoHaving /\ \E bound : q.having = Conjoin(q1.having, bound)
      BY <1>5, <2>2
    <2>4. ShowsLess(q, query)
      <3>1. q.from = query.from
        BY <2>1, <2>3 DEF ShowsLess
      <3>2. ASSUME NEW p \in OutputsOf(q)
            PROVE  \E o \in OutputsOf(query) : RefsIn(p) \subseteq RefsIn(o)
        <4>1. PICK p1 \in OutputsOf(q1) : RefsIn(p) \subseteq RefsIn(p1)
          BY <2>3 DEF ShowsLess
        <4>2. PICK o \in OutputsOf(query) : RefsIn(p1) \subseteq RefsIn(o)
          BY <2>1 DEF ShowsLess
        <4>3. QED
          BY <4>1, <4>2
      <3>3. QED
        BY <3>1, <3>2 DEF ShowsLess
    <2>5. QED
      BY <2>1, <2>3, <2>4
  <1>8. QED
    BY <1>6, <1>7

(* References stand for the same columns while the sources are the same.   *)
LEMMA SameSources ==
    ASSUME NEW q, NEW query, q.from = query.from, NEW ref
    PROVE  Resolve(q, ref) = Resolve(query, ref)
  <1>1. Selected(q, ref) = Selected(query, ref)
    BY DEF Selected, SelectedSource, AliasOf
  <1>2. ReachedBy(q, ref) = ReachedBy(query, ref)
    BY <1>1 DEF ReachedBy
  <1>3. QED
    BY <1>2 DEF Resolve

(* So what is shown is less.                                               *)
LEMMA LessIsShown ==
    ASSUME NEW q, NEW query, ShowsLess(q, query)
    PROVE  Analyze(q).projected \subseteq Analyze(query).projected
  <1>1. /\ Analyze(q).projected = UNION {ResolveAll(q, RefsIn(p)) : p \in OutputsOf(q)}
        /\ Analyze(query).projected
                = UNION {ResolveAll(query, RefsIn(p)) : p \in OutputsOf(query)}
    BY DEF Analyze, AnalyzeScopes
  <1>2. \A ref : Resolve(q, ref) = Resolve(query, ref)
    BY SameSources DEF ShowsLess
  <1>3. ASSUME NEW p \in OutputsOf(q)
        PROVE  \E o \in OutputsOf(query) :
                    ResolveAll(q, RefsIn(p)) \subseteq ResolveAll(query, RefsIn(o))
    <2>1. PICK o \in OutputsOf(query) : RefsIn(p) \subseteq RefsIn(o)
      BY DEF ShowsLess
    <2>2. QED
      BY <1>2, <2>1 DEF ResolveAll
  <1>4. QED
    BY <1>1, <1>3

(* And a group that survives the new clause survives the old.              *)
LEMMA SurvivorsSurvived ==
    ASSUME NEW q, NEW query, WithinBudget(q), WithinBudget(query),
           \/ q.having = query.having
           \/ q.having # NoHaving /\ \E bound : q.having = Conjoin(query.having, bound),
           NEW values, NEW other, Survives(q, values, other)
    PROVE  Survives(query, values, other)
  <1> SUFFICES ASSUME query.having # NoHaving PROVE Survives(query, values, other)
    BY DEF Survives
  <1> DEFINE old == query.having
  <1>1. q.having # NoHaving
    OBVIOUS
  <1>2. PICK truth \in [HavingNodes(q) -> BOOLEAN] :
            IsTruth(truth, q, values, other) /\ truth[q.having]
    BY <1>1 DEF Survives
  <1>3. /\ HavingNodes(q) = Nodes(q.having) /\ q.having \in HavingNodes(q)
        /\ \A h \in HavingNodes(q) : ArgsOf(h) \subseteq HavingNodes(q)
    BY <1>1, NodesAreClosed
  <1>4. /\ HavingNodes(query) = Nodes(old) /\ old \in HavingNodes(query)
        /\ \A h \in HavingNodes(query) : ArgsOf(h) \subseteq HavingNodes(query)
    BY NodesAreClosed
  <1>5. old \in HavingNodes(q) /\ truth[old]
    <2>1. CASE q.having = old
      BY <1>2, <1>3, <2>1
    <2>2. CASE \E bound : q.having = Conjoin(old, bound)
      <3>1. PICK bound : q.having = Conjoin(old, bound)
        BY <2>2
      <3>2. q.having.op = "and" /\ q.having.args = <<old, bound>>
        BY <3>1 DEF Conjoin
      <3>3. old \in ArgsOf(q.having)
        <4>1. 1 \in DOMAIN <<old, bound>> /\ <<old, bound>>[1] = old
          OBVIOUS
        <4>2. QED
          BY <3>2, <4>1 DEF ArgsOf
      <3>4. truth[q.having] = \A g \in ArgsOf(q.having) : truth[g]
        BY <1>2, <1>3, <3>2 DEF IsTruth
      <3>5. QED
        BY <1>2, <1>3, <3>3, <3>4
    <2>3. QED
      BY <2>1, <2>2
  <1>6. HavingNodes(query) \subseteq HavingNodes(q)
    BY <1>3, <1>4, <1>5, WithinClosure DEF Nodes
  <1> DEFINE part == [h \in HavingNodes(query) |-> truth[h]]
  <1>7. part \in [HavingNodes(query) -> BOOLEAN]
    BY <1>2, <1>6
  <1>8. \A h \in HavingNodes(query) : part[h] = truth[h]
    OBVIOUS
  <1> HIDE DEF part
  <1>9. ASSUME NEW h \in HavingNodes(query)
        PROVE  part[h] = CASE h.op = "and" -> \A g \in ArgsOf(h) : part[g]
                           [] h.op = "or" -> \E g \in ArgsOf(h) : part[g]
                           [] h.op = "not" -> \A g \in ArgsOf(h) : ~part[g]
                           [] h.op = "atLeast" -> values[h] >= h.n
                           [] h.op = "other" -> other
    <2>1. h \in HavingNodes(q) /\ part[h] = truth[h] /\ \A g \in ArgsOf(h) : part[g] = truth[g]
      BY <1>4, <1>6, <1>8
    <2>2. truth[h] = CASE h.op = "and" -> \A g \in ArgsOf(h) : truth[g]
                       [] h.op = "or" -> \E g \in ArgsOf(h) : truth[g]
                       [] h.op = "not" -> \A g \in ArgsOf(h) : ~truth[g]
                       [] h.op = "atLeast" -> values[h] >= h.n
                       [] h.op = "other" -> other
      BY <1>2, <2>1 DEF IsTruth
    <2>3. /\ (\A g \in ArgsOf(h) : part[g]) = (\A g \in ArgsOf(h) : truth[g])
          /\ (\E g \in ArgsOf(h) : part[g]) = (\E g \in ArgsOf(h) : truth[g])
          /\ (\A g \in ArgsOf(h) : ~part[g]) = (\A g \in ArgsOf(h) : ~truth[g])
      BY <2>1
    <2>4. QED
      BY <2>1, <2>2, <2>3
  <1>10. IsTruth(part, query, values, other)
    BY <1>9 DEF IsTruth
  <1>11. QED
    BY <1>4, <1>5, <1>7, <1>8, <1>10 DEF Survives

-----------------------------------------------------------------------------
(* A candidate compiles to one query at most.                              *)

AtMostOne(set) == \A a, b \in set : a = b

(* A guessed qualifier is never one of several.                            *)
LEMMA OneQualifier ==
    ASSUME NEW query, NEW subject
    PROVE  AtMostOne(Qualifiers(query, subject))
  BY DEF Qualifiers, AtMostOne, IsSingleton

(* Whatever is removed, one query is left.                                 *)
LEMMA OneRemoving ==
    ASSUME NEW query, NEW doomed
    PROVE  AtMostOne(Removing(query, doomed))
  BY DEF Removing, AtMostOne

(* A simple column has one reference to count.                             *)
LEMMA OneCounting ==
    ASSUME NEW query, NEW projection
    PROVE  AtMostOne(Counting(query, projection))
  BY DEF Counting, AtMostOne, IsSimpleColumn, IsSingleton

(* So a repair makes one query of a query.                                 *)
LEMMA OneRepair ==
    ASSUME NEW query, NEW action_, NEW subject
    PROVE  AtMostOne(Repairs(query, action_, subject))
  <1>1. AtMostOne({})
    BY DEF AtMostOne
  <1>2. ASSUME NEW slots PROVE AtMostOne(ProjectionRepairs(query, action_, slots))
    BY <1>1, OneRemoving, OneCounting DEF ProjectionRepairs, RemovingCategory
  <1>3. ASSUME NEW plan_, NEW n PROVE AtMostOne(EnforceMinimum(query, plan_, subject, n))
    <2>1. AtMostOne(Qualifiers(query, subject))
      BY OneQualifier
    <2>2. QED
      BY <2>1 DEF EnforceMinimum, AtMostOne
  <1>4. ASSUME NEW plan_ PROVE AtMostOne(ThresholdRepairs(query, plan_, action_, subject))
    BY <1>3 DEF ThresholdRepairs, AtMostOne
  <1>5. QED
    BY <1>2, <1>4 DEF Repairs

(* And a candidate, of two repairs at most, as well.                       *)
LEMMA CompilesOnce ==
    ASSUME NEW space, ValidSpace(space), NEW c \in Candidates(space), NEW query, NEW subject
    PROVE  AtMostOne(Compile(query, c, subject))
  <1> DEFINE first == CHOOSE a \in c : \A b \in c : Phase(a) <= Phase(b)
             rest == c \ {first}
  <1>1. first \in c /\ IsFiniteSet(c) /\ Cardinality(c) \in {1, 2}
    BY FirstIs, CandidateIs
  <1>2. AtMostOne({}) /\ (Compile(query, c, subject) = {}
            \/ Compile(query, c, subject) = CompileFrom(query, c, subject, first))
    BY DEF Compile, AtMostOne
  <1> HIDE DEF first
  <1>3. AtMostOne(rest)
    <2>1. IsFiniteSet(rest) /\ Cardinality(rest) \in {0, 1}
      BY <1>1, FS_RemoveElement
    <2>2. CASE Cardinality(rest) = 0
      BY <2>1, <2>2, FS_EmptySet DEF AtMostOne
    <2>3. CASE Cardinality(rest) = 1
      <3>1. PICK a : rest = {a}
        BY <2>1, <2>3, FS_Singleton
      <3>2. QED
        BY <3>1 DEF AtMostOne
    <2>4. QED
      BY <2>1, <2>2, <2>3
  <1> HIDE DEF rest
  <1>4. ASSUME NEW q \in CompileFrom(query, c, subject, first)
        PROVE  \E q1 \in Repairs(query, first, subject) :
                    IF rest = {} THEN q = q1 ELSE \E a \in rest : q \in Repairs(q1, a, subject)
    BY DEF CompileFrom, rest
  <1>5. ASSUME NEW x \in CompileFrom(query, c, subject, first),
               NEW y \in CompileFrom(query, c, subject, first)
        PROVE  x = y
    <2>1. AtMostOne(Repairs(query, first, subject))
      BY OneRepair
    <2>2. PICK q1 \in Repairs(query, first, subject) :
            /\ IF rest = {} THEN x = q1 ELSE \E a \in rest : x \in Repairs(q1, a, subject)
            /\ IF rest = {} THEN y = q1 ELSE \E a \in rest : y \in Repairs(q1, a, subject)
      BY <1>4, <2>1 DEF AtMostOne
    <2>3. \A a : AtMostOne(Repairs(q1, a, subject))
      BY OneRepair
    <2>4. QED
      BY <1>3, <2>2, <2>3 DEF AtMostOne
  <1>6. QED
    BY <1>2, <1>5 DEF AtMostOne

-----------------------------------------------------------------------------
(* The search inside a repair.                                             *)

SearchInv == NodesInv /\ LevelInv /\ VerdictsInv /\ ResultInv

(* What the verdict of a search says.                                      *)
LEMMA SearchDecides ==
    ASSUME SearchInv, pc = "done"
    PROVE  /\ result.status \in {"PROSPECTIVE_UNSAFE", "NO_COUNTEREXAMPLE_WITHIN_BOUND",
                                 "FAIL_CLOSED"}
           /\ LET clean == AllClean(input, Paths(input, InstantiateActions(input.ctx))) IN
              /\ result.status = "NO_COUNTEREXAMPLE_WITHIN_BOUND" => clean
              /\ result.status = "PROSPECTIVE_UNSAFE" => ~clean
  <1> DEFINE paths == Paths(input, InstantiateActions(input.ctx))
  <1>1. /\ input.bound \in Nat /\ Grammar = InstantiateActions(input.ctx)
        /\ Reached(input) = paths
    BY StaticFacts DEF SearchInv, NodesInv, Reached
  <1> HIDE DEF paths
  <1>2. AllClean(input, paths)
            <=> \A n \in 0..input.bound : \A x \in Reached(input)[n] : Clean(x)
    BY <1>1 DEF AllClean, Clean
  <1>3. result.status = "NO_COUNTEREXAMPLE_WITHIN_BOUND" => AllClean(input, paths)
    BY <1>2 DEF SearchInv, VerdictsInv, VerdictIsExhaustive
  <1>4. ASSUME result.status = "PROSPECTIVE_UNSAFE" PROVE ~AllClean(input, paths)
    <2> DEFINE n == Len(result.steps)
    <2>1. IsSeq(result.steps)
      BY <1>4 DEF SearchInv, ResultInv
    <2>2. n \in Nat
      BY <2>1, AppendIs
    <2>3. /\ n <= input.bound /\ result.matched # {}
          /\ \E x \in Reached(input)[n] : Evaluation(x.state, x.path).matched = result.matched
      BY <1>4 DEF SearchInv, VerdictsInv, CounterexampleIsShortest
    <2> HIDE DEF n
    <2>4. n \in 0..input.bound
      BY <1>1, <2>2, <2>3
    <2>5. PICK x \in Reached(input)[n] : Evaluation(x.state, x.path).matched # {}
      BY <2>3
    <2>6. ~Clean(x)
      BY <2>5 DEF Clean, CleanIn, Evaluation
    <2>7. QED
      BY <1>2, <2>4, <2>6
  <1>5. QED
    BY <1>3, <1>4 DEF SearchInv, ResultInv, paths

(* The search of a validation is of the call for its plan.                 *)
RepairSearchInv ==
    stage = "searching" =>
        input = CallFor(request, plan) /\ Searchable(request, plan, input.ctx) /\ SearchInv

(* It begins as a search does.                                             *)
LEMMA ConsultBegins ==
    ASSUME RequestInv, Consult
    PROVE  /\ Begun'
           /\ input' = CallFor(request, plan) /\ Searchable(request, plan, input'.ctx)
           /\ UNCHANGED <<request, plan>>
  <1> DEFINE call == CallFor(request, plan)
             grammar == InstantiateActions(call.ctx)
  <1>1. /\ Searchable(request, plan, call.ctx) /\ BeginSearch(call, grammar)
        /\ UNCHANGED <<request, plan>>
    BY DEF Consult
  <1>2. call.bound \in Nat /\ call.maxStates \in Nat \ {0}
    BY RequestAssumption DEF RequestInv, CallFor
  <1> HIDE DEF call
  <1>3. /\ input' = call /\ actions' \in OrdersOf(grammar)
        /\ allowed' = AllowedAmong(grammar, call.ctx)
        /\ pc' = "start" /\ queue' = <<>> /\ seen' = {} /\ node' = Root(call)
        /\ counters' = NoCounters /\ result' = Unfinished
    BY <1>1 DEF BeginSearch
  <1>4. Grammar' = grammar
    BY <1>3 DEF OrdersOf, Grammar
  <1>5. StaticInv'
    BY <1>2, <1>3, <1>4 DEF StaticInv
  <1>6. QED
    BY <1>1, <1>3, <1>5 DEF Begun, call

(* And goes on as one.                                                     *)
LEMMA SearchGoesOn ==
    ASSUME SearchInv, [Next]_vars
    PROVE  SearchInv' /\ input' = input
  <1>1. NodesInv'
    BY NodesStep DEF SearchInv
  <1>2. QED
    BY <1>1, LevelStep, VerdictsStep, ResultsStep, StepsKeepCall DEF SearchInv

(* Only Consult begins a search.                                           *)
LEMMA OnlyConsultSearches ==
    ASSUME [CutNext]_<<vars, cutVars>>, stage' = "searching"
    PROVE  \/ Consult
           \/ stage = "searching" /\ [Next]_vars /\ UNCHANGED <<request, plan>>
  <1>1. ASSUME NEW outcome, NEW failure, NEW commitments, NEW allows, NEW ppmc,
               Answer(outcome, failure, commitments, allows, ppmc)
        PROVE  FALSE
    BY <1>1, AnswerEnds DEF Between
  <1>2. ASSUME NEW following \in Parsed \cup {"REPARSE"}, following # "searching", Pass(following)
        PROVE  FALSE
    BY <1>2 DEF Pass
  <1>3. CASE Generate
    BY <1>1, <1>2, <1>3 DEF Generate
  <1>4. CASE Reparse \/ Reground \/ RebuildEvidence \/ RebuildState
    BY <1>2, <1>4 DEF Reparse, Reground, RebuildEvidence, RebuildState, Parsed
  <1>5. CASE LocalPolicy
    BY <1>1, <1>2, <1>5 DEF LocalPolicy, Parsed
  <1>6. CASE Searched
    BY <1>1, <1>6 DEF Searched
  <1>7. CASE StageFails
    BY <1>1, <1>7 DEF StageFails
  <1>8. CASE ValidatorFails
    BY <1>8 DEF ValidatorFails, Conclude
  <1>9. CASE Searching \/ UNCHANGED <<vars, cutVars>>
    BY <1>9 DEF Searching, cutVars
  <1>10. QED
    BY <1>3, <1>4, <1>5, <1>6, <1>7, <1>8, <1>9 DEF CutNext

(* While a validation searches, the search is that of its call, and all    *)
(* that is proved of searches holds of it (repair/validator.py, which      *)
(* calls check_prospective_privacy).                                       *)
THEOREM RepairsSearch == CutSpec => [](StageInv /\ RequestInv /\ RepairSearchInv)
  <1> DEFINE Inv == StageInv /\ RequestInv
             Step == [CutNext]_<<vars, cutVars>>
             Begins == RequestInv /\ Step /\ Consult
  <1>1. Begun => SearchInv
    BY NodesInitially, LevelInitially, VerdictsInitially DEF SearchInv, Begun, ResultInv
  <1>2. Begun' => SearchInv'
    BY <1>1, PTL
  <1>3. CutInit => RepairSearchInv
    BY DEF CutInit, RepairSearchInv
  <1>4. Inv /\ RepairSearchInv /\ Step => RepairSearchInv'
    <2> SUFFICES ASSUME RequestInv, RepairSearchInv, Step, stage' = "searching"
                 PROVE  RepairSearchInv'
      BY DEF RepairSearchInv
    <2>1. CASE Consult
      BY <1>2, <2>1, ConsultBegins DEF RepairSearchInv
    <2>2. CASE stage = "searching" /\ [Next]_vars /\ UNCHANGED <<request, plan>>
      <3>1. SearchInv' /\ input' = input
        BY <2>2, SearchGoesOn DEF RepairSearchInv
      <3>2. QED
        BY <2>2, <3>1 DEF RepairSearchInv
    <2>3. QED
      BY <2>1, <2>2, OnlyConsultSearches
  <1> HIDE DEF Inv
  <1>5. CutSpec => []Inv
    BY CandidatesAreRanked DEF Inv
  <1>6. QED
    BY <1>3, <1>4, <1>5, PTL DEF CutSpec, Inv

-----------------------------------------------------------------------------
(* What is selected.                                                       *)

(* A validation says whether its candidate is safe.                        *)
Judged(i) ==
    /\ Outcome(i) \in {"ELIGIBLE_SAFE", "INELIGIBLE"}
    /\ Outcome(i) = "ELIGIBLE_SAFE" <=> candidates[i] \in SafeIn(request)

(* What has been validated is right, and so is what is selected.           *)
SelectInv ==
    /\ IsSeq(validations)
    /\ stage # "done" =>
        /\ Len(validations) < Len(candidates) /\ repair = Undecided
        /\ \A i \in 1..Len(validations) : Judged(i)
    /\ SelectionIsOptimal

(* The candidate at hand is one of the request's.                          *)
LEMMA CandidateIsOne ==
    ASSUME RequestInv, SelectInv, stage # "done"
    PROVE  candidate \in Candidates(request.space)
  <1>1. Len(validations) \in Nat /\ Len(validations) < Len(candidates) /\ Len(candidates) \in Nat
    BY AppendIs DEF SelectInv, RequestInv, IsRanking
  <1>2. Len(validations) + 1 \in 1..Len(candidates)
    BY <1>1
  <1>3. QED
    BY <1>2 DEF RequestInv, IsRanking, candidate

(* It is safe when the plan of the one query it compiles to is.            *)
LEMMA CandidateIsSafe ==
    ASSUME StageInv, RequestInv, SelectInv, stage \in Parsed
    PROVE  candidate \in SafeIn(request) <=> SafePlan(request, plan)
  <1>1. stage \notin Between /\ stage # "done"
    BY DEF Parsed, Between
  <1>2. /\ generated \in Compile(request.query, candidate, request.subject)
        /\ Analyzable(generated) /\ plan = Analyze(generated)
    BY <1>1 DEF StageInv
  <1>3. candidate \in Candidates(request.space) /\ ValidSpace(request.space)
    BY <1>1, CandidateIsOne DEF RequestInv
  <1>4. AtMostOne(Compile(request.query, candidate, request.subject))
    BY <1>3, CompilesOnce
  <1>5. QED
    BY <1>2, <1>3, <1>4 DEF SafeIn, AtMostOne

(* The answers of a validator, and what run_cpcc makes of them.            *)
LEMMA AnswerDecides ==
    ASSUME RequestInv, SelectInv, stage # "done",
           NEW outcome \in {"ELIGIBLE_SAFE", "INELIGIBLE", "FAIL_CLOSED"},
           outcome = "ELIGIBLE_SAFE" => candidate \in SafeIn(request),
           outcome = "INELIGIBLE" => candidate \notin SafeIn(request),
           NEW failure, NEW commitments, NEW allows, NEW ppmc,
           Answer(outcome, failure, commitments, allows, ppmc)
    PROVE  SelectInv'
  <1> DEFINE v == [outcome |-> outcome, stage |-> failure, chain |-> commitments,
                   allowed |-> allows, ppmc |-> ppmc]
             vals == IF ValidChain(v) THEN Append(validations, v) ELSE validations
             n == Len(validations)
             eligible == {i \in DOMAIN vals : vals[i].outcome = "ELIGIBLE_SAFE"}
             best == candidates[Min(eligible)]
  <1>1. /\ validations' = vals
        /\ UNCHANGED <<request, candidates>>
        /\ \/ EndsTheRun(v) /\ Conclude("FAIL_CLOSED", vals, {}, {candidate})
           \/ /\ ~EndsTheRun(v) /\ Len(vals) < Len(candidates)
              /\ stage' = "GENERATE" /\ UNCHANGED repair
           \/ /\ ~EndsTheRun(v) /\ Len(vals) = Len(candidates)
              /\ IF Eligible(vals) = {}
                 THEN Conclude("NO_ELIGIBLE_REPAIR", vals, {}, {})
                 ELSE Conclude("REPAIR_FOUND", vals, {best}, {})
    BY DEF Answer
  <1>2. v.outcome = outcome
    OBVIOUS
  <1>3. /\ n \in Nat /\ n < Len(candidates) /\ Len(candidates) \in Nat /\ repair = Undecided
        /\ \A i \in 1..n : Judged(i)
    BY AppendIs DEF SelectInv, RequestInv, IsRanking
  <1> HIDE DEF v
  <1>4. IsSeq(vals)
    BY AppendIs DEF SelectInv
  <1>5. CASE EndsTheRun(v)
    <2>1. stage' = "done" /\ repair'.status = "FAIL_CLOSED"
      BY <1>1, <1>5 DEF Conclude
    <2>2. QED
      BY <1>1, <1>4, <2>1 DEF SelectInv, SelectionIsOptimal
  <1>6. CASE ~EndsTheRun(v)
    <2>1. ValidChain(v) /\ outcome # "FAIL_CLOSED"
      BY <1>2, <1>6 DEF EndsTheRun
    <2>2. /\ Len(vals) = n + 1 /\ vals[n + 1] = v
          /\ \A i \in 1..n : vals[i] = validations[i]
      BY <2>1, AppendIs DEF SelectInv
    <2>3. ASSUME NEW i \in 1..(n + 1)
          PROVE  /\ vals[i].outcome \in {"ELIGIBLE_SAFE", "INELIGIBLE"}
                 /\ vals[i].outcome = "ELIGIBLE_SAFE" <=> candidates[i] \in SafeIn(request)
      <3>1. CASE i = n + 1
        <4>1. candidates[i] = candidate
          BY <3>1 DEF candidate
        <4>2. QED
          BY <1>2, <2>1, <2>2, <3>1, <4>1
      <3>2. CASE i # n + 1
        <4>1. i \in 1..n
          BY <1>3, <3>2
        <4>2. QED
          BY <1>3, <2>2, <4>1 DEF Judged, Outcome
      <3>3. QED
        BY <3>1, <3>2
    <2>4. DOMAIN vals = 1..(n + 1)
      <3>1. PICK S : vals \in Seq(S)
        BY <1>4 DEF IsSeq
      <3>2. DOMAIN vals = 1..Len(vals)
        BY <3>1
      <3>3. QED
        BY <2>2, <3>2
    <2> HIDE DEF vals
    <2>5. CASE Len(vals) < Len(candidates) /\ stage' = "GENERATE" /\ UNCHANGED repair
      <3>1. \A i \in 1..Len(validations)' : Judged(i)'
        BY <1>1, <2>2, <2>3 DEF Judged, Outcome
      <3>2. repair' = Undecided /\ SelectionIsOptimal'
        BY <1>3, <2>5 DEF SelectionIsOptimal, Undecided
      <3>3. QED
        BY <1>1, <1>4, <2>5, <3>1, <3>2 DEF SelectInv
    <2>6. CASE /\ Len(vals) = Len(candidates)
               /\ IF Eligible(vals) = {}
                  THEN Conclude("NO_ELIGIBLE_REPAIR", vals, {}, {})
                  ELSE Conclude("REPAIR_FOUND", vals, {best}, {})
      <3>1. stage' = "done" /\ repair'.selected = IF Eligible(vals) = {} THEN {} ELSE {best}
        <4> HIDE DEF best
        <4>1. ASSUME NEW status, NEW selected, Conclude(status, vals, selected, {})
              PROVE  stage' = "done" /\ repair'.selected = selected
          BY <4>1 DEF Conclude
        <4>2. QED
          BY <2>6, <4>1
      <3>2. Eligible(vals) = {candidates[i] : i \in eligible}
        BY DEF Eligible
      <3>3. eligible \subseteq Nat /\ eligible \subseteq 1..Len(candidates)
        BY <1>3, <2>2, <2>4, <2>6
      <3>4. \A i \in eligible : candidates[i] \in SafeIn(request)
        BY <2>3, <2>4
      <3>5. ASSUME NEW d \in SafeIn(request) PROVE \E j \in eligible : candidates[j] = d
        <4>1. d \in Candidates(request.space)
          BY DEF SafeIn
        <4>2. PICK j \in 1..Len(candidates) : candidates[j] = d
          BY <4>1 DEF RequestInv, IsRanking
        <4>3. QED
          BY <2>2, <2>3, <2>4, <2>6, <4>2
      <3> HIDE DEF eligible
      <3>6. Eligible(vals) = {} <=> SafeIn(request) = {}
        BY <3>2, <3>4, <3>5
      <3>7. ASSUME eligible # {}
            PROVE  best \in SafeIn(request) /\ \A d \in SafeIn(request) : ~Cheaper(d, best)
        <4>1. \E m \in eligible : \A k \in eligible : m <= k
          BY <3>3, <3>7, LeastNatural
        <4>2. Min(eligible) \in eligible /\ \A k \in eligible : Min(eligible) <= k
          BY <4>1 DEF Min
        <4>3. ASSUME NEW d \in SafeIn(request) PROVE ~Cheaper(d, best)
          <5>1. PICK j \in eligible : candidates[j] = d
            BY <3>5
          <5>2. Min(eligible) <= j
            BY <4>2
          <5>3. QED
            BY <3>3, <4>2, <5>1, <5>2 DEF RequestInv, IsRanking
        <4>4. QED
          BY <3>4, <4>2, <4>3
      <3>8. Eligible(vals) # {} => eligible # {}
        BY <3>2
      <3> HIDE DEF best
      <3>9. /\ SafeIn(request) = {} <=> repair'.selected = {}
            /\ \A c \in repair'.selected :
                    c \in SafeIn(request) /\ \A d \in SafeIn(request) : ~Cheaper(d, c)
        BY <3>1, <3>6, <3>7, <3>8
      <3>10. SelectionIsOptimal'
        BY <1>1, <3>9 DEF SelectionIsOptimal
      <3>11. QED
        BY <1>1, <1>4, <3>1, <3>10 DEF SelectInv
    <2>7. QED
      BY <1>1, <1>6, <2>5, <2>6
  <1>7. QED
    BY <1>5, <1>6

(* There is a candidate to begin with.                                     *)
LEMMA SomeCandidate ==
    ASSUME RequestInv
    PROVE  0 < Len(candidates)
  <1>1. PICK a : a \in request.space
    BY DEF RequestInv, ValidSpace
  <1>2. Cardinality({a}) = 1
    BY FS_Singleton
  <1>3. {a} \in Candidates(request.space)
    BY <1>1, <1>2 DEF Candidates, kSubset
  <1>4. QED
    BY <1>3 DEF RequestInv, IsRanking

(* Steps within a validation leave what was selected.                      *)
LEMMA SelectFrame ==
    ASSUME SelectInv, UNCHANGED <<request, candidates, validations, repair>>,
           stage # "done" \/ stage' = "done"
    PROVE  SelectInv'
  BY DEF SelectInv, Judged, Outcome, SelectionIsOptimal

(* Every step preserves it.                                                *)
LEMMA SelectStep ==
    ASSUME StageInv, RequestInv, RepairSearchInv, SelectInv, [CutNext]_<<vars, cutVars>>
    PROVE  SelectInv'
  <1>1. ASSUME NEW following, Pass(following), stage # "done" PROVE SelectInv'
    BY <1>1, SelectFrame DEF Pass
  <1>2. ASSUME NEW failure, NEW commitments, NEW allows, NEW ppmc, stage # "done",
               Answer("FAIL_CLOSED", failure, commitments, allows, ppmc)
        PROVE  SelectInv'
    BY <1>2, AnswerDecides
  <1>3. ASSUME NEW failure, NEW commitments, NEW allows, NEW ppmc, stage # "done",
               candidate \notin SafeIn(request),
               Answer("INELIGIBLE", failure, commitments, allows, ppmc)
        PROVE  SelectInv'
    BY <1>3, AnswerDecides
  <1>4. CASE Generate
    <2>1. CASE /\ Compile(request.query, candidate, request.subject) = {}
               /\ Answer("INELIGIBLE", "GENERATE", chain, FALSE, "none")
      <3>1. candidate \notin SafeIn(request)
        BY <2>1 DEF SafeIn
      <3>2. QED
        BY <1>3, <1>4, <2>1, <3>1 DEF Generate
    <2>2. CASE Pass("REPARSE")
      BY <1>1, <1>4, <2>2 DEF Generate
    <2>3. QED
      BY <1>4, <2>1, <2>2 DEF Generate
  <1>5. CASE Reparse \/ Reground \/ RebuildEvidence \/ RebuildState
    BY <1>1, <1>5 DEF Reparse, Reground, RebuildEvidence, RebuildState
  <1>6. CASE LocalPolicy
    <2>1. CASE EngineAllows(request, plan)
      BY <1>1, <1>6, <2>1 DEF LocalPolicy
    <2>2. CASE ~EngineAllows(request, plan)
      <3>1. stage = "LOCAL_POLICY"
        BY <1>6 DEF LocalPolicy
      <3>2. candidate \notin SafeIn(request)
        BY <2>2, <3>1, CandidateIsSafe DEF Parsed, SafePlan
      <3>3. QED
        BY <1>3, <1>6, <2>2, <3>1, <3>2 DEF LocalPolicy
    <2>3. QED
      BY <2>1, <2>2
  <1>7. CASE Consult
    BY <1>7, SelectFrame DEF Consult
  <1>8. CASE Searching
    BY <1>8, SelectFrame DEF Searching, cutVars
  <1>9. CASE UNCHANGED <<vars, cutVars>>
    BY <1>9, SelectFrame DEF cutVars
  <1>10. CASE Searched
    <2> DEFINE call == CallFor(request, plan)
               clean == AllClean(call, Paths(call, InstantiateActions(call.ctx)))
    <2>1. stage = "searching" /\ pc = "done" /\ stage # "done"
      BY <1>10 DEF Searched
    <2>2. input = call /\ Searchable(request, plan, call.ctx) /\ SearchInv
      BY <2>1 DEF RepairSearchInv
    <2>3. /\ result.status \in {"PROSPECTIVE_UNSAFE", "NO_COUNTEREXAMPLE_WITHIN_BOUND",
                                "FAIL_CLOSED"}
          /\ result.status = "NO_COUNTEREXAMPLE_WITHIN_BOUND" => clean
          /\ result.status = "PROSPECTIVE_UNSAFE" => ~clean
      BY <2>1, <2>2, SearchDecides
    <2>4. EngineAllows(request, plan) /\ Rebuildable(request, plan)
      BY <2>1 DEF StageInv
    <2>5. candidate \in SafeIn(request) <=> SafePlan(request, plan)
      BY <2>1, CandidateIsSafe DEF Parsed
    <2>6. SafePlan(request, plan) <=> clean
      BY <2>2, <2>4 DEF SafePlan, SafeCall
    <2> HIDE DEF clean, call
    <2>7. PICK outcome \in OutcomesOf(result.status) :
            \E failure : Answer(outcome, failure, chain \cup {"PPMC"}, TRUE,
                               result.status)
      BY <1>10 DEF Searched
    <2>8. PICK failure : Answer(outcome, failure, chain \cup {"PPMC"}, TRUE,
                                result.status)
      BY <2>7
    <2>9. /\ outcome \in {"ELIGIBLE_SAFE", "INELIGIBLE", "FAIL_CLOSED"}
          /\ outcome = "ELIGIBLE_SAFE" => clean
          /\ outcome = "INELIGIBLE" => ~clean
      BY <2>3, <2>7 DEF OutcomesOf
    <2>10. QED
      BY <2>1, <2>5, <2>6, <2>8, <2>9, AnswerDecides
  <1>11. CASE StageFails
    <2>1. \A i \in DOMAIN Stages : Stages[i] # "done"
      BY DEF Stages
    <2>2. stage # "done"
      BY <1>11, <2>1 DEF StageFails
    <2>3. QED
      BY <1>2, <1>11, <2>2 DEF StageFails
  <1>12. CASE ValidatorFails
    <2>1. /\ stage' = "done" /\ repair'.status = "FAIL_CLOSED"
          /\ UNCHANGED <<request, candidates, validations>>
      BY <1>12 DEF ValidatorFails, Conclude
    <2>2. QED
      BY <2>1 DEF SelectInv, SelectionIsOptimal
  <1>13. QED
    BY <1>4, <1>5, <1>6, <1>7, <1>8, <1>9, <1>10, <1>11, <1>12 DEF CutNext

(* Every validation is right about its candidate, in either direction, and *)
(* there is always one at hand until the run ends (run_cpcc).              *)
THEOREM ValidationsAreRight ==
    CutSpec => [](StageInv /\ RequestInv /\ RepairSearchInv /\ SelectInv)
  <1> DEFINE Inv == StageInv /\ RequestInv /\ RepairSearchInv
             Step == [CutNext]_<<vars, cutVars>>
  <1>1. CutInit /\ Inv => SelectInv
    <2> SUFFICES ASSUME CutInit, RequestInv PROVE SelectInv
      OBVIOUS
    <2>1. IsSeq(validations) /\ Len(validations) = 0 /\ repair = Undecided
      BY SingletonIs DEF CutInit
    <2>2. SelectionIsOptimal
      BY <2>1 DEF SelectionIsOptimal, Undecided
    <2>3. QED
      BY <2>1, <2>2, SomeCandidate DEF SelectInv
  <1>2. Inv /\ SelectInv /\ Step => SelectInv'
    BY SelectStep
  <1> HIDE DEF Inv
  <1>3. CutSpec => []Inv
    BY RepairsSearch DEF Inv
  <1>4. QED
    BY <1>1, <1>2, <1>3, PTL DEF CutSpec, Inv

(* The repair that run_cpcc selects is safe, for every request, governance *)
(* and order of the candidates: its query is allowed and no path of        *)
(* releases from it within the bound meets a forbidden state; none of the  *)
(* space that costs less is safe, and it selects none when none is.        *)
THEOREM SelectionsAreOptimal == CutSpec => []SelectionIsOptimal
  <1>1. SelectInv => SelectionIsOptimal
    BY DEF SelectInv
  <1>2. QED
    BY <1>1, ValidationsAreRight, PTL

(* The query that a candidate compiles to shows only columns that the      *)
(* query it repairs shows, and every group that survives it, whatever its  *)
(* values, survived before (compile_cpcc_candidate,                        *)
(* enforce_minimum_group_size).                                            *)
THEOREM RepairsWithdraw == CutSpec => []RepairWithdraws
  <1>1. StageInv /\ RequestInv /\ SelectInv => RepairWithdraws
    <2> SUFFICES ASSUME StageInv, RequestInv, SelectInv, generated # NoQuery
                 PROVE  RepairWithdraws
      BY DEF RepairWithdraws
    <2> DEFINE query == request.query
    <2>1. /\ generated \in Compile(query, candidate, request.subject)
          /\ Analyzable(generated) /\ stage # "done"
      BY DEF StageInv, Between
    <2>2. candidate \in Candidates(request.space)
      BY <2>1, CandidateIsOne
    <2>3. /\ ShowsLess(generated, query)
          /\ \/ generated.having = query.having
             \/ /\ generated.having # NoHaving
                /\ \E bound : generated.having = Conjoin(query.having, bound)
      BY <2>1, <2>2, CompiledIs DEF RequestInv
    <2>4. ASSUME NEW q, Analyzable(q) PROVE WithinBudget(q)
      BY <2>4 DEF Analyzable, Scopes
    <2>5. WithinBudget(generated) /\ WithinBudget(query)
      BY <2>1, <2>4 DEF RequestInv
    <2>6. Analyze(generated).projected \subseteq Analyze(query).projected
      BY <2>3, LessIsShown
    <2>7. \A values, other : Survives(generated, values, other) => Survives(query, values, other)
      BY <2>3, <2>5, SurvivorsSurvived
    <2>8. QED
      BY <2>6, <2>7, PlanShows DEF RepairWithdraws
  <1>2. QED
    BY <1>1, ValidationsAreRight, PTL
=============================================================================
