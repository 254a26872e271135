------------------------ MODULE NodeSchedulerProofs ------------------------
(***************************************************************************)
(* What holds of the adapter inside Waggle's scheduler for any runtimes,   *)
(* any configuration, any retention period, any capacities and any         *)
(* behaviour of the wall clock: its bookkeeping of ages, and that what it  *)
(* selects is what is launched, explained and within the limits.           *)
(*                                                                         *)
(* The argument: a call by the engine (EngineChoice) and one by the        *)
(* fallback (FallbackChoice) both return entries of the queue they read,   *)
(* each well-formed, the first of its name and with no homonym scheduled,  *)
(* within the limits (Picks, FitLimits), and report them (Tells).  The     *)
(* queues have moved on since the call read them, but only in a way that   *)
(* keeps all this true (CallInv), and each launch keeps it true of the     *)
(* rest of the plan (PlanInv, LimitsInv).                                  *)
(***************************************************************************)
EXTENDS NodeScheduler, PolicyEngineProofs

\* Both maps know the same identities, and none was last observed before it was
\* first seen, although the clock may have moved back in between.
AgesAligned ==
    /\ DOMAIN firstSeen = DOMAIN lastObserved
    /\ \A id \in DOMAIN firstSeen :
           firstSeen[id] \in Int /\ lastObserved[id] \in Int /\ firstSeen[id] <= lastObserved[id]

AgesInv == clock \in Nat /\ AgesAligned

\* One round of bookkeeping keeps the maps aligned, moves no first observation
\* later, and forgets only what is in no queue and was last seen long enough ago.
LEMMA OneRound ==
    ASSUME NEW now \in Nat, NEW ids, AgesAligned, RememberAges(now, ids)
    PROVE  /\ AgesAligned'
           /\ \A id \in DOMAIN firstSeen :
                  \/ id \in DOMAIN firstSeen' /\ firstSeen'[id] <= firstSeen[id]
                  \/ /\ id \notin DOMAIN firstSeen' /\ id \notin ids
                     /\ now - firstSeen[id] >= Retention
<1> DEFINE kept == Remembered(now, ids)
<1>1. /\ kept \subseteq DOMAIN firstSeen \cup ids
      /\ \A id \in DOMAIN firstSeen :
             id \in kept \/ (id \notin ids /\ ~(now - lastObserved[id] < Retention))
  BY DEF Remembered, AgesAligned
<1>2. /\ firstSeen' = [id \in kept |-> Observed(now, ids)[id]]
      /\ lastObserved' = [id \in kept |-> IF id \in ids THEN now ELSE lastObserved[id]]
  BY DEF RememberAges, Restrict
<1> HIDE DEF kept
<1>3. \A id \in kept :
          firstSeen'[id] = IF id \notin ids THEN firstSeen[id]
                           ELSE IF id \notin DOMAIN firstSeen THEN now
                           ELSE IF firstSeen[id] > now THEN now
                           ELSE firstSeen[id]
  BY <1>1, <1>2 DEF Observed
<1>4. AgesAligned'
  BY <1>1, <1>2, <1>3 DEF AgesAligned
<1>5. ASSUME NEW id \in DOMAIN firstSeen, id \in kept
      PROVE  id \in DOMAIN firstSeen' /\ firstSeen'[id] <= firstSeen[id]
  BY <1>2, <1>3, <1>5 DEF AgesAligned
<1>6. ASSUME NEW id \in DOMAIN firstSeen, id \notin kept
      PROVE  /\ id \notin DOMAIN firstSeen' /\ id \notin ids
             /\ now - firstSeen[id] >= Retention
  <2>1. id \notin DOMAIN firstSeen' /\ id \notin ids /\ ~(now - lastObserved[id] < Retention)
    BY <1>1, <1>2, <1>6
  <2> QED
    BY <2>1, RetentionAssumption DEF AgesAligned
<1> QED
  BY <1>4, <1>5, <1>6

\* What one step may do to the ages.
AgeStep ==
    \A id \in DOMAIN firstSeen :
        IF id \in DOMAIN firstSeen'
        THEN firstSeen'[id] <= firstSeen[id]
        ELSE /\ call # Nil
             /\ id \notin Identities(call.ready) \cup Identities(call.running)
             /\ clock - firstSeen[id] >= Retention

LEMMA AgesInductive == AgesInv /\ [Next]_vars => AgesInv' /\ AgeStep
<1> SUFFICES ASSUME AgesInv, [Next]_vars PROVE AgesInv' /\ AgeStep
  OBVIOUS
<1>1. ASSUME NEW available \in Capacities, DecideCall(available) PROVE AgesInv' /\ AgeStep
  <2> DEFINE ids == Identities(call.ready) \cup Identities(call.running)
  <2>1. call # Nil /\ clock' = clock /\ RememberAges(clock, ids)
    BY <1>1 DEF DecideCall, SelectBestPlugins
  <2> HIDE DEF ids
  <2>2. /\ AgesAligned'
        /\ \A id \in DOMAIN firstSeen :
               \/ id \in DOMAIN firstSeen' /\ firstSeen'[id] <= firstSeen[id]
               \/ /\ id \notin DOMAIN firstSeen' /\ id \notin ids
                  /\ clock - firstSeen[id] >= Retention
    BY <2>1, OneRound DEF AgesInv
  <2> QED
    BY <2>1, <2>2 DEF AgesInv, AgeStep, ids
<1>2. CASE UNCHANGED <<firstSeen, lastObserved>> /\ clock' \in Nat
  BY <1>2 DEF AgesInv, AgesAligned, AgeStep
<1>3. CASE \E r \in Runtimes : Push(r) \/ Complete(r) \/ Requeue(r)
  BY <1>2, <1>3 DEF Push, Complete, Requeue, policyVars, AgesInv
<1>4. CASE SnapshotQueues \/ Launch
  BY <1>2, <1>4 DEF SnapshotQueues, Launch, policyVars, AgesInv
<1>5. CASE Tick \/ StepBack
  BY <1>2, <1>5 DEF Tick, StepBack, policyVars, AgesInv
<1>6. CASE UNCHANGED vars
  BY <1>2, <1>6 DEF vars, AgesInv
<1> QED
  BY <1>1, <1>3, <1>4, <1>5, <1>6 DEF Next

\* While an identity stays in a queue its age is never lost, however long the
\* scheduler runs and wherever the clock is corrected to: it is forgotten only
\* when it was in neither queue and the retention period has passed.
THEOREM AgesKept == Spec => AgeKept
<1>1. Init => AgesInv
  BY DEF Init, PolicyInit, AgesInv, AgesAligned
<1>2. AgesInv /\ [Next]_vars => [AgeStep]_vars
  BY AgesInductive
<1>3. Spec => [][AgeStep]_vars
  BY <1>1, <1>2, AgesInductive, PTL DEF Spec
<1> QED
  BY <1>3 DEF AgeKept, AgeStep

-----------------------------------------------------------------------------
(* Waggle's queue.                                                           *)

\* Pop finds the first entry of a name, if there is one.
LEMMA PopFirst ==
    ASSUME NEW queue \in Seq(Runtimes), NEW name
    PROVE  LET p == PopPosition(queue, name)
           IN  /\ p \in 0..Len(queue)
               /\ p = 0 => \A i \in 1..Len(queue) : Name(queue[i]) # name
               /\ p # 0 => /\ p \in 1..Len(queue) /\ Name(queue[p]) = name
                           /\ \A i \in 1..(p - 1) : Name(queue[i]) # name
<1> DEFINE n == Len(queue)
           S == {i \in 1..n : Name(queue[i]) = name}
           p == PopPosition(queue, name)
<1>1. n \in Nat
  BY LenProperties
<1>2. p = IF S # {} THEN Min(S) ELSE 0
  BY DEF PopPosition, SelectInSeq
<1>3. CASE S = {}
  <2>1. p = 0
    BY <1>2, <1>3
  <2>2. \A i \in 1..n : Name(queue[i]) # name
    BY <1>3
  <2> HIDE DEF p
  <2> QED
    BY <1>1, <2>1, <2>2 DEF p
<1>4. CASE S # {}
  <2>1. S \in SUBSET Nat
    BY <1>1
  <2>2. \E least \in S : \A m \in S : least <= m
    BY <1>4, <2>1, LeastNatural
  <2>3. Min(S) \in S /\ \A m \in S : Min(S) <= m
    BY <2>2 DEF Min
  <2>4. p = Min(S)
    BY <1>2, <1>4
  <2> HIDE DEF p
  <2>5. p \in 1..n /\ Name(queue[p]) = name
    BY <2>3, <2>4
  <2>6. ASSUME NEW i \in 1..(p - 1) PROVE Name(queue[i]) # name
    <3>1. i \in 1..n /\ ~(p <= i)
      BY <1>1, <2>5
    <3> QED
      BY <2>3, <2>4, <3>1
  <2> QED
    BY <1>1, <2>5, <2>6 DEF p
<1> QED
  BY <1>3, <1>4

\* Removing an entry moves up those behind it.
LEMMA RemoveShape ==
    ASSUME NEW A, NEW queue \in Seq(A), NEW p \in 1..Len(queue)
    PROVE  /\ RemoveAt(queue, p) \in Seq(A)
           /\ Len(RemoveAt(queue, p)) = Len(queue) - 1
           /\ \A i \in 1..(Len(queue) - 1) :
                  RemoveAt(queue, p)[i] = IF i < p THEN queue[i] ELSE queue[i + 1]
<1> DEFINE n == Len(queue)
           front == SubSeq(queue, 1, p - 1)
           back  == SubSeq(queue, p + 1, n)
<1>1. n \in Nat /\ p \in Nat /\ p >= 1 /\ p <= n
  BY LenProperties
<1>2. front \in Seq(A) /\ Len(front) = p - 1 /\ \A i \in 1..(p - 1) : front[i] = queue[i]
  BY <1>1, SubSeqProperties
<1>3. back \in Seq(A) /\ Len(back) = n - p /\ \A i \in 1..(n - p) : back[i] = queue[p + i]
  <2>1. p + 1 \in Nat /\ p + 1 >= 1 /\ p + 1 <= n + 1
    BY <1>1
  <2>2. \A i \in 1..(n - p) : (p + 1) + i - 1 = p + i
    BY <1>1
  <2>3. /\ back \in Seq(A)
        /\ Len(back) = IF p + 1 <= n THEN n - (p + 1) + 1 ELSE 0
        /\ \A i \in 1..(n - (p + 1) + 1) : back[i] = queue[(p + 1) + i - 1]
    BY <1>1, <2>1, SubSeqProperties
  <2> HIDE DEF n, back
  <2>4. n - (p + 1) + 1 = n - p /\ (~(p + 1 <= n) => n - p = 0)
    BY <1>1
  <2> QED
    BY <2>2, <2>3, <2>4
<1>4. RemoveAt(queue, p) = front \o back
  BY DEF RemoveAt
<1> HIDE DEF front, back, n
<1>5. /\ front \o back \in Seq(A) /\ Len(front \o back) = n - 1
      /\ \A i \in 1..(n - 1) : (front \o back)[i] = IF i <= p - 1 THEN front[i] ELSE back[i - (p - 1)]
  <2>1. Len(front) + Len(back) = n - 1
    BY <1>1, <1>2, <1>3
  <2>2. /\ front \o back \in Seq(A) /\ Len(front \o back) = Len(front) + Len(back)
        /\ \A i \in 1..(Len(front) + Len(back)) :
               (front \o back)[i] = IF i <= Len(front) THEN front[i] ELSE back[i - Len(front)]
    BY <1>2, <1>3, ConcatProperties
  <2> QED
    BY <1>2, <2>1, <2>2
<1>6. ASSUME NEW i \in 1..(n - 1)
      PROVE  (front \o back)[i] = IF i < p THEN queue[i] ELSE queue[i + 1]
  <2>1. CASE i < p
    BY <1>1, <1>2, <1>5, <2>1
  <2>2. CASE ~(i < p)
    <3>1. i - (p - 1) \in 1..(n - p) /\ p + (i - (p - 1)) = i + 1 /\ ~(i <= p - 1)
      BY <1>1, <2>2
    <3> QED
      BY <1>3, <1>5, <2>2, <3>1
  <2> QED
    BY <2>1, <2>2
<1> QED
  BY <1>4, <1>5, <1>6 DEF n

\* The GPU slots that a queue holds.
Held(queue) == Cardinality({i \in DOMAIN queue : DeclaresGPU(queue[i])})

LEMMA HeldType ==
    ASSUME NEW queue \in Seq(Runtimes)
    PROVE  /\ IsFiniteSet({i \in DOMAIN queue : DeclaresGPU(queue[i])})
           /\ Held(queue) \in Nat
<1>1. IsFiniteSet(1..Len(queue)) /\ DOMAIN queue = 1..Len(queue)
  BY LenProperties, FS_Interval
<1>2. IsFiniteSet({i \in DOMAIN queue : DeclaresGPU(queue[i])})
  BY <1>1, FS_Subset
<1> QED
  BY <1>2, FS_CardinalityType DEF Held

\* A queue holds at most what one holds that has its entries, each at its own place.
LEMMA HeldByMore ==
    ASSUME NEW s \in Seq(Runtimes), NEW t \in Seq(Runtimes), NEW f \in [1..Len(s) -> 1..Len(t)],
           \A i, j \in 1..Len(s) : f[i] = f[j] => i = j,
           \A i \in 1..Len(s) : t[f[i]] = s[i]
    PROVE  Held(s) <= Held(t)
<1> DEFINE S == {i \in DOMAIN s : DeclaresGPU(s[i])}
           T == {i \in DOMAIN t : DeclaresGPU(t[i])}
           g == [i \in S |-> f[i]]
<1>1. DOMAIN s = 1..Len(s) /\ DOMAIN t = 1..Len(t)
  BY LenProperties
<1>2. \A i \in S : f[i] \in T
  BY <1>1
<1>3. g \in [S -> T] /\ \A i, j \in S : g[i] = g[j] => i = j
  BY <1>1, <1>2
<1>4. g \in Injection(S, T)
  BY <1>3 DEF Injection, IsInjective
<1>5. IsFiniteSet(T)
  BY HeldType
<1> HIDE DEF S, T, g
<1>6. Cardinality(S) <= Cardinality(T)
  BY <1>4, <1>5, FS_Injection
<1> QED
  BY <1>6 DEF Held, S, T

LEMMA HeldRemoved ==
    ASSUME NEW queue \in Seq(Runtimes), NEW p \in 1..Len(queue)
    PROVE  Held(RemoveAt(queue, p)) <= Held(queue)
<1> DEFINE n == Len(queue)
           s == RemoveAt(queue, p)
           f == [i \in 1..(n - 1) |-> IF i < p THEN i ELSE i + 1]
<1>1. n \in Nat
  BY LenProperties
<1>2. /\ s \in Seq(Runtimes) /\ Len(s) = n - 1
      /\ \A i \in 1..(n - 1) : s[i] = IF i < p THEN queue[i] ELSE queue[i + 1]
  BY RemoveShape
<1> HIDE DEF s, n
<1>3. /\ f \in [1..(n - 1) -> 1..n]
      /\ \A i, j \in 1..(n - 1) : f[i] = f[j] => i = j
      /\ \A i \in 1..(n - 1) : queue[f[i]] = s[i]
  BY <1>1, <1>2 DEF n
<1> HIDE DEF f
<1>4. /\ f \in [1..Len(s) -> 1..Len(queue)]
      /\ \A i, j \in 1..Len(s) : f[i] = f[j] => i = j
      /\ \A i \in 1..Len(s) : queue[f[i]] = s[i]
  BY <1>2, <1>3 DEF n
<1>5. Held(s) <= Held(queue)
  BY <1>2, <1>4, HeldByMore
<1> QED
  BY <1>5 DEF s

LEMMA HeldTogether ==
    ASSUME NEW s \in Seq(Runtimes), NEW t \in Seq(Runtimes)
    PROVE  Held(s \o t) <= Held(s) + Held(t)
<1> DEFINE m == Len(s)
           n == Len(t)
           S == {i \in DOMAIN s : DeclaresGPU(s[i])}
           T == {i \in DOMAIN t : DeclaresGPU(t[i])}
           U == {i \in DOMAIN (s \o t) : DeclaresGPU((s \o t)[i])}
           shift == [i \in T |-> m + i]
           V == {m + i : i \in T}
<1>1. m \in Nat /\ n \in Nat /\ DOMAIN s = 1..m /\ DOMAIN t = 1..n
  BY LenProperties
<1>2. /\ DOMAIN (s \o t) = 1..(m + n)
      /\ \A i \in 1..m : (s \o t)[i] = s[i]
      /\ \A i \in 1..n : (s \o t)[m + i] = t[i]
  BY <1>1, ConcatProperties, LenProperties
<1>3. IsFiniteSet(S) /\ IsFiniteSet(T)
  BY HeldType
<1>4. U \subseteq S \cup V
  <2>1. ASSUME NEW i \in 1..(m + n), i \notin 1..m PROVE i - m \in 1..n /\ m + (i - m) = i
    BY <1>1, <2>1
  <2> QED
    BY <1>1, <1>2, <2>1
<1>5. IsFiniteSet(V) /\ Cardinality(V) <= Cardinality(T)
  <2>1. shift \in [T -> V] /\ \A v \in V : \E i \in T : shift[i] = v
    OBVIOUS
  <2>2. shift \in Surjection(T, V)
    BY <2>1 DEF Surjection
  <2> HIDE DEF T, V, shift
  <2> QED
    BY <1>3, <2>2, FS_Surjection
<1> HIDE DEF S, T, U, V, shift
<1>6. /\ IsFiniteSet(S \cup V)
      /\ Cardinality(S \cup V) = Cardinality(S) + Cardinality(V) - Cardinality(S \cap V)
  BY <1>3, <1>5, FS_Union
<1>7. IsFiniteSet(S \cap V)
  BY <1>3, FS_Subset
<1>8. /\ Cardinality(S) \in Nat /\ Cardinality(T) \in Nat /\ Cardinality(V) \in Nat
      /\ Cardinality(S \cap V) \in Nat /\ Cardinality(S \cup V) \in Nat
  BY <1>3, <1>5, <1>6, <1>7, FS_CardinalityType
<1>9. Cardinality(U) <= Cardinality(S \cup V) /\ Cardinality(U) \in Nat
  <2>1. IsFiniteSet(U)
    BY <1>4, <1>6, FS_Subset
  <2> QED
    BY <1>4, <1>6, <2>1, FS_Subset, FS_CardinalityType
<1>10. Cardinality(U) <= Cardinality(S) + Cardinality(T)
  BY <1>5, <1>6, <1>8, <1>9
<1> QED
  BY <1>10 DEF Held, S, T, U

\* Distinct entries make as many values as there are entries.
LEMMA CountedOnce ==
    ASSUME NEW n \in Nat, NEW f, DOMAIN f = 1..n, OneToOne(f, n)
    PROVE  Cardinality({f[i] : i \in 1..n}) = n
<1> DEFINE S == 1..n
           T == {f[i] : i \in 1..n}
           g == [i \in S |-> f[i]]
<1>1. IsFiniteSet(S) /\ Cardinality(S) = n
  <2>1. IsFiniteSet(S)
    BY FS_Interval
  <2>2. Cardinality(1..n) = IF 1 > n THEN 0 ELSE n - 1 + 1
    BY FS_Interval
  <2> QED
    BY <2>1, <2>2
<1>2. g \in Bijection(S, T)
  <2>1. g \in [S -> T]
    OBVIOUS
  <2>2. g \in Injection(S, T)
    BY <2>1 DEF Injection, IsInjective, OneToOne
  <2>3. g \in Surjection(S, T)
    BY <2>1 DEF Surjection
  <2> QED
    BY <2>2, <2>3 DEF Bijection
<1> HIDE DEF S, T, g
<1>3. ExistsBijection(S, T)
  BY <1>2 DEF ExistsBijection
<1>4. Cardinality(T) = n
  BY <1>1, <1>3, FS_Bijection
<1> QED
  BY <1>4 DEF T

-----------------------------------------------------------------------------
(* The snapshot the engine sees.                                             *)

LEMMA PluginTypes ==
    ASSUME NEW r \in Runtimes
    PROVE  /\ Plugin[r] \in PluginRuntime
           /\ Identity(r) \in Nat /\ Identity(r) # EmptyID
           /\ DeclaresGPU(r) \in BOOLEAN
<1>1. Plugin[r] \in PluginRuntime
  BY PluginAssumption
<1>2. Plugin[r].hasSpec \in BOOLEAN /\ Plugin[r].selector \in BOOLEAN
      /\ Plugin[r].id \in Nat \ {EmptyID}
  BY <1>1 DEF PluginRuntime
<1> QED
  BY <1>1, <1>2 DEF Identity, DeclaresGPU

\* Quantities that parse make a valid request, which asks for GPUs as declared.
LEMMA RequestValid ==
    ASSUME NEW q \in Quantities, QuantitiesParse(q)
    PROVE  /\ RequestedResources(q) \in Resources /\ Valid(RequestedResources(q))
           /\ RequestedResources(q).gpus > 0 =>
                  \E k \in {q.limitGPU, q.nvidiaGPU} : k # Nil /\ k > 0
<1> DEFINE Amount(v) == v = Nil \/ v \in Nat
<1>1. DOMAIN q = {"requestCPU", "limitCPU", "requestMemory", "limitMemory", "limitGPU", "nvidiaGPU"}
      /\ \A key \in DOMAIN q : q[key] \in Int \cup {Nil, Malformed}
  BY DEF Quantities
<1>2. \A key \in DOMAIN q : q[key] # Malformed /\ (q[key] # Nil => q[key] >= 0)
  BY DEF QuantitiesParse
<1>3. \A key \in DOMAIN q : Amount(q[key])
  BY <1>1, <1>2
<1>4. /\ Amount(q.requestCPU) /\ Amount(q.limitCPU) /\ Amount(q.requestMemory)
      /\ Amount(q.limitMemory) /\ Amount(q.limitGPU) /\ Amount(q.nvidiaGPU)
  <2> HIDE DEF Amount
  <2> QED
    BY <1>1, <1>3
<1>5. \A v, w : Amount(v) /\ Amount(w) => Or(v, Or(w, 0)) \in Nat
  BY DEF Or
<1> HIDE DEF Amount
<1>6. /\ Or(q.requestCPU, Or(q.limitCPU, 0)) \in Nat
      /\ Or(q.requestMemory, Or(q.limitMemory, 0)) \in Nat
      /\ Or(q.limitGPU, Or(q.nvidiaGPU, 0)) \in Nat
  BY <1>4, <1>5
<1>7. Or(q.limitGPU, Or(q.nvidiaGPU, 0)) > 0 =>
          \E k \in {q.limitGPU, q.nvidiaGPU} : k # Nil /\ k > 0
  BY DEF Or
<1> QED
  BY <1>6, <1>7 DEF RequestedResources, Resources, Valid

\* The hints of a well-formed runtime are within what the engine accepts.
LEMMA HintsAccepted ==
    ASSUME NEW r \in Runtimes, WellFormed(r)
    PROVE  LET h == ParsedHints(r)
           IN  /\ h.priority \in 0..100
               /\ h.latency \in 1..MaxDuration /\ h.estimated \in 1..MaxDuration
               /\ h.deadline \in Nat \cup {Nil} /\ h.success \in (0..100) \cup {Nil}
<1>1. Plugin[r].hints \in Hints \cup {Nil, Malformed} /\ ParsedHints(r) # Malformed
  BY PluginTypes DEF PluginRuntime, WellFormed
<1>2. /\ Config.defaultPriority \in 0..100
      /\ Config.defaultLatency \in 1..MaxDuration /\ Config.defaultEstimated \in 1..MaxDuration
  BY ConfigAssumption DEF ValidConfig
<1>3. ParsedHints(r) = DefaultHints \/ ParsedHints(r) \in Hints
  BY <1>1 DEF ParsedHints, Or
<1>4. CASE ParsedHints(r) = DefaultHints
  BY <1>2, <1>4 DEF DefaultHints
<1>5. CASE ParsedHints(r) \in Hints
  BY <1>5 DEF Hints
<1> QED
  BY <1>3, <1>4, <1>5

LEMMA ToTaskType ==
    ASSUME NEW r \in Runtimes, WellFormed(r), NEW seen, seen[Identity(r)] \in Int
    PROVE  /\ ToTask(r, seen) \in Task
           /\ ToTask(r, seen).id = Identity(r)
           /\ Valid(ToTask(r, seen).resources)
           /\ RequiresGPU(ToTask(r, seen)) <=> DeclaresGPU(r)
<1> DEFINE h == ParsedHints(r)
           q == Plugin[r].quantities
<1>1. /\ h.priority \in 0..100
      /\ h.latency \in 1..MaxDuration /\ h.estimated \in 1..MaxDuration
      /\ h.deadline \in Nat \cup {Nil} /\ h.success \in (0..100) \cup {Nil}
  BY HintsAccepted
<1>2. q \in Quantities /\ QuantitiesParse(q) /\ Plugin[r].hasSpec
  BY PluginTypes DEF PluginRuntime, WellFormed
<1>3. /\ RequestedResources(q) \in Resources /\ Valid(RequestedResources(q))
      /\ RequestedResources(q).gpus > 0 =>
             \E k \in {q.limitGPU, q.nvidiaGPU} : k # Nil /\ k > 0
  BY <1>2, RequestValid
<1>4. 1..MaxDuration \subseteq Durations
  BY WidthAssumption DEF Durations
<1>5. RequestedResources(q).gpus > 0 => DeclaresGPU(r)
  BY <1>2, <1>3 DEF DeclaresGPU
<1>6. ToTask(r, seen) =
          [id |-> Identity(r), priority |-> h.priority, enqueued |-> seen[Identity(r)],
           estimated |-> h.estimated, latency |-> h.latency, deadline |-> h.deadline,
           gpu |-> DeclaresGPU(r), success |-> h.success, resources |-> RequestedResources(q)]
  BY DEF ToTask
<1> HIDE DEF h, q
<1>7. ToTask(r, seen) \in Task
  BY <1>1, <1>3, <1>4, <1>6, PluginTypes DEF Task
<1>8. /\ ToTask(r, seen).id = Identity(r)
      /\ ToTask(r, seen).resources = RequestedResources(q)
      /\ ToTask(r, seen).gpu = DeclaresGPU(r)
  BY <1>6
<1> QED
  BY <1>3, <1>5, <1>7, <1>8 DEF RequiresGPU

LEMMA InvalidTaskType ==
    ASSUME NEW r \in Runtimes, NEW seen, seen[Identity(r)] \in Int
    PROVE  /\ InvalidTask(r, seen) \in Task
           /\ InvalidTask(r, seen).id = Identity(r)
           /\ MalformedTask(InvalidTask(r, seen))
<1>1. 0 \in Durations /\ NoResources \in Resources /\ -1 # Nil
  BY WidthAssumption, NilAssumption DEF Durations, NoResources, Resources
<1> QED
  BY <1>1, PluginTypes DEF InvalidTask, Task, MalformedTask

\* A running task holds the GPU its runtime declares, well-formed or not.
LEMMA RunningTaskType ==
    ASSUME NEW r \in Runtimes, NEW seen, seen[Identity(r)] \in Int
    PROVE  /\ RunningTask(r, seen) \in Task
           /\ RunningTask(r, seen).id = Identity(r)
           /\ RequiresGPU(RunningTask(r, seen)) <=> DeclaresGPU(r)
<1>1. CASE WellFormed(r)
  BY <1>1, ToTaskType DEF RunningTask
<1>2. CASE ~WellFormed(r)
  <2>1. RunningTask(r, seen) = [InvalidTask(r, seen) EXCEPT !.gpu = DeclaresGPU(r)]
    BY <1>2 DEF RunningTask
  <2>2. InvalidTask(r, seen) \in Task /\ InvalidTask(r, seen).id = Identity(r)
        /\ DeclaresGPU(r) \in BOOLEAN
    BY InvalidTaskType, PluginTypes
  <2>3. InvalidTask(r, seen).resources.gpus = 0
    BY DEF InvalidTask, NoResources
  <2>4. /\ RunningTask(r, seen) \in Task /\ RunningTask(r, seen).id = Identity(r)
        /\ RunningTask(r, seen).resources.gpus = 0
        /\ RunningTask(r, seen).gpu = DeclaresGPU(r)
    BY <2>1, <2>2, <2>3 DEF Task
  <2> QED
    BY <2>4 DEF RequiresGPU
<1> QED
  BY <1>1, <1>2

\* What a call of SelectBestPlugins works on: the snapshots of the two queues, and
\* an age for each identity in them.
Arguments(now, queue, running, available, seen) ==
    /\ now \in Int
    /\ queue \in Seq(Runtimes) /\ running \in Seq(Runtimes)
    /\ available \in {Malformed} \cup [cpu : Nat, memory : Nat]
    /\ \A id \in Identities(queue) \cup Identities(running) : seen[id] \in Int /\ seen[id] <= now

LEMMA QueueEntries ==
    ASSUME NEW queue \in Seq(Runtimes)
    PROVE  /\ DOMAIN queue = 1..Len(queue) /\ Len(queue) \in Nat
           /\ \A i \in 1..Len(queue) :
                  /\ queue[i] \in Runtimes
                  /\ Identity(queue[i]) \in Identities(queue) /\ Name(queue[i]) \in Names(queue)
  BY LenProperties, ElementOfSeq DEF Identities, Names

\* The entries ahead of the i-th one.
LEMMA EntriesBefore ==
    ASSUME NEW queue \in Seq(Runtimes), NEW i \in 1..Len(queue)
    PROVE  /\ Names(Before(queue, i)) = {Name(queue[j]) : j \in 1..(i - 1)}
           /\ Identities(Before(queue, i)) = {Identity(queue[j]) : j \in 1..(i - 1)}
<1> DEFINE b == Before(queue, i)
<1>1. Len(queue) \in Nat /\ i \in Int /\ i >= 1
  BY LenProperties
<1>2. \A j \in 1..(i - 1) : queue[j] \in Runtimes
  BY <1>1, ElementOfSeq
<1>3. /\ b \in Seq(Runtimes)
      /\ Len(b) = IF 1 <= i - 1 THEN (i - 1) - 1 + 1 ELSE 0
      /\ \A j \in 1..((i - 1) - 1 + 1) : b[j] = queue[1 + j - 1]
  BY <1>1, <1>2, SubSeqProperties DEF Before
<1> HIDE DEF b
<1>4. Len(b) = i - 1 /\ \A j \in 1..(i - 1) : b[j] = queue[j]
  BY <1>1, <1>3
<1>5. DOMAIN b = 1..(i - 1)
  BY <1>3, <1>4, LenProperties
<1>6. Names(b) = {Name(queue[j]) : j \in 1..(i - 1)}
  BY <1>4, <1>5 DEF Names
<1>7. Identities(b) = {Identity(queue[j]) : j \in 1..(i - 1)}
  BY <1>4, <1>5 DEF Identities
<1> QED
  BY <1>6, <1>7 DEF b

LEMMA SnapshotSeen ==
    ASSUME NEW now, NEW queue, NEW running, NEW available, NEW seen,
           Arguments(now, queue, running, available, seen),
           Config.enforceFit => available # Malformed
    PROVE  LET snap == EngineSnapshot(now, queue, running, available, seen)
           IN  /\ snap \in Snapshot
               /\ snap.at = now
               /\ Len(snap.ready) = Len(queue) /\ Len(snap.running) = Len(running)
               /\ \A i \in 1..Len(queue) :
                      /\ snap.ready[i] = ReadyTask(queue, running, i, seen)
                      /\ snap.ready[i].id = Identity(queue[i])
               /\ GPUCount(snap.running) = Held(running)
<1> DEFINE snap == EngineSnapshot(now, queue, running, available, seen)
           m == Len(queue)
           n == Len(running)
<1>1. /\ queue \in Seq(Runtimes) /\ running \in Seq(Runtimes) /\ now \in Int
      /\ DOMAIN queue = 1..m /\ DOMAIN running = 1..n /\ m \in Nat /\ n \in Nat
      /\ \A i \in 1..m : queue[i] \in Runtimes /\ seen[Identity(queue[i])] \in Int
      /\ \A i \in 1..n : running[i] \in Runtimes /\ seen[Identity(running[i])] \in Int
  BY QueueEntries DEF Arguments
<1>2. \A i \in 1..m : ReadyTask(queue, running, i, seen) \in Task
                      /\ ReadyTask(queue, running, i, seen).id = Identity(queue[i])
  BY <1>1, ToTaskType, InvalidTaskType DEF ReadyTask
<1>3. \A i \in 1..n : RunningTask(running[i], seen) \in Task
                      /\ (RequiresGPU(RunningTask(running[i], seen)) <=> DeclaresGPU(running[i]))
  BY <1>1, RunningTaskType
<1>4. /\ snap.at = now
      /\ snap.ready = [i \in 1..m |-> ReadyTask(queue, running, i, seen)]
      /\ snap.running = [i \in 1..n |-> RunningTask(running[i], seen)]
      /\ snap.available = IF Config.enforceFit THEN AvailableResources(available) ELSE Nil
      /\ snap = [at |-> snap.at, ready |-> snap.ready, running |-> snap.running,
                 available |-> snap.available]
  BY <1>1 DEF EngineSnapshot
<1> HIDE DEF snap, m, n
<1>5. snap.ready \in [1..m -> Task] /\ snap.running \in [1..n -> Task]
  BY <1>2, <1>3, <1>4
<1>6. /\ snap.ready \in Seq(Task) /\ Len(snap.ready) = m
      /\ snap.running \in Seq(Task) /\ Len(snap.running) = n
  BY <1>1, <1>5, FunctionIsSeq
<1>7. snap.available \in Resources \cup {Nil}
  <2>1. Config.enforceFit => available \in [cpu : Nat, memory : Nat]
    BY DEF Arguments
  <2> QED
    BY <1>4, <2>1, ConfigTypes DEF AvailableResources, Resources
<1>8. snap \in Snapshot
  BY <1>1, <1>4, <1>6, <1>7 DEF Snapshot
<1>9. GPUCount(snap.running) = Held(running)
  <2> DEFINE S == {i \in DOMAIN snap.running : RequiresGPU(snap.running[i])}
             T == {i \in DOMAIN running : DeclaresGPU(running[i])}
  <2>1. DOMAIN snap.running = 1..n /\ DOMAIN running = 1..n
    BY <1>1, <1>5
  <2>2. \A i \in 1..n : RequiresGPU(snap.running[i]) <=> DeclaresGPU(running[i])
    BY <1>3, <1>4
  <2>3. S = T
    BY <2>1, <2>2
  <2> QED
    BY <2>3 DEF GPUCount, Held
<1> QED
  BY <1>2, <1>4, <1>6, <1>8, <1>9 DEF snap, m, n

-----------------------------------------------------------------------------
(* What the policy returns and tells.                                        *)

\* What the engine leaves undecided is well-formed and the first of its name and of
\* its identity, no homonym is scheduled, and the policy finds its pointer again.
LEMMA OpenReady ==
    ASSUME NEW now, NEW queue, NEW running, NEW available, NEW seen,
           Arguments(now, queue, running, available, seen),
           Config.enforceFit => available # Malformed,
           NEW snap, snap = EngineSnapshot(now, queue, running, available, seen),
           NEW j \in 1..Len(queue), Screened(snap)[j].outcome = Undecided
    PROVE  /\ WellFormed(queue[j]) /\ Name(queue[j]) \notin Names(running)
           /\ \A k \in 1..(j - 1) : Name(queue[k]) # Name(queue[j])
           /\ Screened(snap)[j].task.id = Identity(queue[j])
           /\ RequiresGPU(Screened(snap)[j].task) <=> DeclaresGPU(queue[j])
           /\ FirstOf(queue, Identity(queue[j])) = queue[j]
           /\ Identity(queue[j]) \notin CollisionIDs(queue, running)
<1> DEFINE r == queue[j]
           raw == snap.ready[j]
           c == Screened(snap)[j]
<1>1. /\ snap \in Snapshot /\ snap.at = now /\ Len(snap.ready) = Len(queue)
      /\ \A i \in 1..Len(queue) : /\ snap.ready[i] = ReadyTask(queue, running, i, seen)
                                  /\ snap.ready[i].id = Identity(queue[i])
  BY SnapshotSeen
<1>2. queue \in Seq(Runtimes) /\ r \in Runtimes /\ seen[Identity(r)] \in Int
      /\ DOMAIN queue = 1..Len(queue) /\ Len(queue) \in Nat
  BY QueueEntries DEF Arguments
<1>3. /\ c.task.id = Identity(r)
      /\ \A k \in 1..(j - 1) : Identity(queue[k]) # Identity(r)
  <2>1. /\ c.task.id = snap.ready[j].id
        /\ \A k \in 1..(j - 1) : snap.ready[k].id # c.task.id
    BY <1>1, ScreenedType
  <2>2. \A k \in 1..(j - 1) : k \in 1..Len(queue)
    BY <1>2
  <2> QED
    BY <1>1, <2>1, <2>2
<1>4. Accepted(snap, raw, c)
  <2>1. c.outcome # "rejected"
    BY DEF Undecided
  <2> QED
    BY <1>1, <2>1, ScreenedRanked
<1>5. ~MalformedTask(raw) /\ c.task = Normalized(snap.at, raw)
  BY <1>4 DEF Accepted
<1>6. WellFormed(r) /\ ~Collides(queue, running, j) /\ raw = ToTask(r, seen)
  <2>1. MalformedTask(InvalidTask(r, seen))
    BY <1>2, InvalidTaskType
  <2>2. raw = ReadyTask(queue, running, j, seen)
    BY <1>1
  <2>3. raw # InvalidTask(r, seen)
    BY <1>5, <2>1
  <2> HIDE DEF raw
  <2> QED
    BY <2>2, <2>3 DEF ReadyTask
<1>7. /\ Names(Before(queue, j)) = {Name(queue[k]) : k \in 1..(j - 1)}
      /\ \A i \in 1..Len(queue) : Identities(Before(queue, i)) = {Identity(queue[k]) : k \in 1..(i - 1)}
  BY <1>2, EntriesBefore
<1>8. Identity(r) \notin Identities(Before(queue, j))
  BY <1>3, <1>7
<1>9. Name(r) \notin Names(running) /\ \A k \in 1..(j - 1) : Name(queue[k]) # Name(r)
  BY <1>6, <1>7, <1>8 DEF Collides
<1>10. RequiresGPU(c.task) <=> DeclaresGPU(r)
  <2>1. raw \in Task /\ (RequiresGPU(raw) <=> DeclaresGPU(r))
    BY <1>2, <1>6, ToTaskType
  <2>2. c.task.gpu = RequiresGPU(raw) /\ c.task.resources = raw.resources
    <3> HIDE DEF raw, c
    <3> QED
      BY <1>5, <2>1 DEF Normalized, Task
  <2> HIDE DEF raw, c
  <2> QED
    BY <2>1, <2>2 DEF RequiresGPU
<1>11. ASSUME NEW i \in 1..Len(queue), Identity(queue[i]) = Identity(r),
              Identity(r) \notin Identities(Before(queue, i))
       PROVE  i = j
  <2>1. ~(i < j)
    BY <1>3, <1>11
  <2>2. ~(j < i)
    <3>1. ASSUME j < i PROVE FALSE
      <4>1. j \in 1..(i - 1)
        BY <3>1
      <4> QED
        BY <1>7, <1>11, <4>1
    <3> QED
      BY <3>1
  <2> QED
    BY <2>1, <2>2
<1>12. FirstOf(queue, Identity(r)) = r
  BY <1>2, <1>8, <1>11 DEF FirstOf
<1>13. Identity(r) \notin CollisionIDs(queue, running)
  <2>1. ASSUME NEW i \in 1..Len(queue), Collides(queue, running, i), Identity(queue[i]) = Identity(r)
        PROVE  FALSE
    BY <1>6, <1>11, <2>1 DEF Collides
  <2> QED
    BY <1>2, <2>1 DEF CollisionIDs
<1> QED
  BY <1>3, <1>6, <1>9, <1>10, <1>12, <1>13

\* The engine finds nothing wrong with the task of a well-formed runtime that it has
\* first seen in the past.
LEMMA WellFormedAccepted ==
    ASSUME NEW r \in Runtimes, WellFormed(r), NEW seen, NEW now \in Int,
           seen[Identity(r)] \in Int, seen[Identity(r)] <= now
    PROVE  /\ ~MalformedTask(ToTask(r, seen))
           /\ ~Unrankable(now, Normalized(now, ToTask(r, seen)))
<1> DEFINE h == ParsedHints(r)
           t == ToTask(r, seen)
           u == Normalized(now, t)
<1>1. /\ h.priority \in 0..100
      /\ h.latency \in 1..MaxDuration /\ h.estimated \in 1..MaxDuration
      /\ h.deadline \in Nat \cup {Nil} /\ h.success \in (0..100) \cup {Nil}
  BY HintsAccepted
<1>2. t \in Task /\ t.id = Identity(r) /\ Valid(t.resources) /\ t.id # EmptyID
  BY ToTaskType, PluginTypes
<1>3. /\ t.priority = h.priority /\ t.enqueued = seen[Identity(r)]
      /\ t.estimated = h.estimated /\ t.latency = h.latency
      /\ t.deadline = h.deadline /\ t.success = h.success
  BY DEF ToTask
<1> HIDE DEF h, t
<1>4. ~MalformedTask(t)
  BY <1>1, <1>2, <1>3 DEF MalformedTask
<1>5. /\ u.enqueued = OrWhenZero(t.enqueued, now)
      /\ u.estimated = OrWhenZero(t.estimated, Config.defaultEstimated)
      /\ u.latency = IF t.deadline = Nil THEN OrWhenZero(t.latency, Config.defaultLatency)
                     ELSE t.latency
      /\ u.deadline = t.deadline /\ u.success = t.success
  BY <1>2 DEF Normalized, Task
<1> HIDE DEF u
<1>6. t.estimated \in Int /\ t.estimated > 0 /\ t.latency \in Int /\ t.latency > 0
  BY <1>1, <1>3, WidthAssumption
<1>7. u.enqueued <= now /\ u.estimated = t.estimated /\ u.latency = t.latency
  BY <1>3, <1>5, <1>6 DEF OrWhenZero
<1>8. ~Unrankable(now, u)
  <2>1. ~(u.enqueued > now)
    BY <1>3, <1>5, <1>7 DEF OrWhenZero
  <2> QED
    BY <1>1, <1>3, <1>5, <1>6, <1>7, <2>1 DEF Unrankable
<1> QED
  BY <1>4, <1>8 DEF t, u

\* The pointers to launch: entries of the queue, none twice, each well-formed and the
\* first of its name, with no homonym scheduled.
Picks(at, pointers, queue, running) ==
    /\ at \in [1..Len(pointers) -> 1..Len(queue)] /\ OneToOne(at, Len(pointers))
    /\ \A m \in 1..Len(pointers) :
           /\ pointers[m] = queue[at[m]] /\ WellFormed(queue[at[m]])
           /\ Name(queue[at[m]]) \notin Names(running)
           /\ \A k \in 1..(at[m] - 1) : Name(queue[k]) # Name(queue[at[m]])

\* The limits hold over what runs and what is to be launched.
FitLimits(pointers, running) ==
    /\ pointers # <<>> => Len(running) + Len(pointers) <= Config.maxConcurrent
    /\ Held(pointers) > 0 => Held(running) + Held(pointers) <= Config.maxGPU

\* A reason to reject the i-th entry: it is malformed, or a rival came first.
Rejectable(queue, running, i) ==
    \/ ~WellFormed(queue[i])
    \/ Identity(queue[i]) \in Identities(running) \cup Identities(Before(queue, i))
    \/ Name(queue[i]) \in Names(running) \cup Names(Before(queue, i))

\* The decision names the pointers, has a word on every entry of the queue, and
\* rejects none without a reason.
Tells(decision, pointers, queue, running) ==
    /\ Identities(pointers) = IDs(decision.selected)
    /\ Identities(pointers) =
           {c.id : c \in {d \in ToSet(decision.candidates) : d.outcome = "selected"}}
    /\ Len(decision.candidates) = Len(queue)
    /\ \A i \in DOMAIN decision.candidates :
           \E k \in 1..Len(queue) :
               /\ decision.candidates[i].id = Identity(queue[k])
               /\ decision.candidates[i].outcome = "rejected" => Rejectable(queue, running, k)

LEMMA EngineChoice ==
    ASSUME NEW now, NEW queue, NEW running, NEW available, NEW seen,
           Arguments(now, queue, running, available, seen),
           Config.enforceFit => available # Malformed
    PROVE  LET decision == Decide(EngineSnapshot(now, queue, running, available, seen))
               pointers == [i \in DOMAIN decision.selected |-> FirstOf(queue, decision.selected[i].id)]
           IN  /\ pointers \in Seq(Runtimes)
               /\ \E at : Picks(at, pointers, queue, running)
               /\ FitLimits(pointers, running)
               /\ Tells(Relabelled(decision, CollisionIDs(queue, running)), pointers, queue, running)
<1> DEFINE snap == EngineSnapshot(now, queue, running, available, seen)
           s == Screened(snap)
           tasks == Decide(snap).selected
           told == Decide(snap).candidates
           pointers == [i \in DOMAIN tasks |-> FirstOf(queue, tasks[i].id)]
           l == Len(tasks)
           n == Len(queue)
           news == Relabelled(Decide(snap), CollisionIDs(queue, running))
<1>1. /\ snap \in Snapshot /\ snap.at = now
      /\ Len(snap.ready) = n /\ Len(snap.running) = Len(running)
      /\ \A i \in 1..n : /\ snap.ready[i] = ReadyTask(queue, running, i, seen)
                         /\ snap.ready[i].id = Identity(queue[i])
      /\ GPUCount(snap.running) = Held(running)
  BY SnapshotSeen
<1>2. /\ queue \in Seq(Runtimes) /\ running \in Seq(Runtimes) /\ n \in Nat
      /\ \A i \in 1..n : queue[i] \in Runtimes /\ seen[Identity(queue[i])] \in Int
  BY QueueEntries DEF Arguments
<1> HIDE DEF snap
<1>3. /\ tasks \in Seq(Task) /\ Len(told) = n /\ DOMAIN told = 1..n
      /\ WithinLimits(tasks, snap)
      /\ \E at, of : Chosen(at, tasks, snap) /\ About(of, at, told, tasks, snap)
  BY <1>1, DecideSound
<1>4. l \in Nat /\ DOMAIN tasks = 1..l
  BY <1>3, LenProperties
<1>5. news.selected = tasks /\ news.candidates =
          [i \in 1..n |->
              IF told[i].id \in CollisionIDs(queue, running)
              THEN Explained(told[i].id, "deferred", "sage_queue_name_collision")
              ELSE Explained(told[i].id, told[i].outcome, told[i].reason)]
  BY <1>3 DEF Relabelled
<1>6. pointers = [i \in 1..l |-> FirstOf(queue, tasks[i].id)]
  BY <1>4
<1>7. PICK at, of : Chosen(at, tasks, snap) /\ About(of, at, told, tasks, snap)
  BY <1>3
<1> HIDE DEF tasks, told, s, l, n, pointers, news
<1>8. /\ at \in [1..l -> 1..n] /\ OneToOne(at, l)
      /\ \A m \in 1..l : at[m] \in 1..n /\ tasks[m] = s[at[m]].task /\ s[at[m]].outcome = Undecided
  BY <1>1, <1>7 DEF Chosen, OneToOne, l, s
<1>9. /\ of \in [1..n -> 1..n] /\ \A i \in 1..n : \E k \in 1..n : of[k] = i
      /\ \A i \in 1..n :
             /\ of[i] \in 1..n
             /\ told[i].id = snap.ready[of[i]].id
             /\ told[i].outcome = "rejected" <=> s[of[i]].outcome = "rejected"
             /\ told[i].outcome = "selected" <=> \E m \in 1..l : at[m] = of[i]
  BY <1>1, <1>7 DEF About, l, s
<1>10. ASSUME NEW m \in 1..l
       PROVE  /\ WellFormed(queue[at[m]]) /\ Name(queue[at[m]]) \notin Names(running)
              /\ \A k \in 1..(at[m] - 1) : Name(queue[k]) # Name(queue[at[m]])
              /\ tasks[m].id = Identity(queue[at[m]])
              /\ RequiresGPU(tasks[m]) <=> DeclaresGPU(queue[at[m]])
              /\ pointers[m] = queue[at[m]]
              /\ Identity(queue[at[m]]) \notin CollisionIDs(queue, running)
              /\ queue[at[m]] \in Runtimes
  <2>1. /\ WellFormed(queue[at[m]]) /\ Name(queue[at[m]]) \notin Names(running)
        /\ \A k \in 1..(at[m] - 1) : Name(queue[k]) # Name(queue[at[m]])
        /\ s[at[m]].task.id = Identity(queue[at[m]])
        /\ RequiresGPU(s[at[m]].task) <=> DeclaresGPU(queue[at[m]])
        /\ FirstOf(queue, Identity(queue[at[m]])) = queue[at[m]]
        /\ Identity(queue[at[m]]) \notin CollisionIDs(queue, running)
    BY <1>8, OpenReady DEF snap, s, n
  <2> QED
    BY <1>2, <1>6, <1>8, <2>1
<1>11. pointers \in Seq(Runtimes) /\ Len(pointers) = l /\ DOMAIN pointers = 1..l
  <2>1. pointers \in [1..l -> Runtimes]
    BY <1>6, <1>10
  <2> QED
    BY <1>4, <2>1, FunctionIsSeq
<1>12. Picks(at, pointers, queue, running)
  BY <1>8, <1>10, <1>11 DEF Picks, n
<1>13. Held(pointers) = GPUCount(tasks)
  <2> DEFINE S == {i \in DOMAIN pointers : DeclaresGPU(pointers[i])}
             T == {i \in DOMAIN tasks : RequiresGPU(tasks[i])}
  <2>1. S = T
    BY <1>4, <1>10, <1>11
  <2> QED
    BY <2>1 DEF Held, GPUCount
<1>14. FitLimits(pointers, running)
  <2>1. pointers # <<>> => tasks # <<>>
    <3>1. pointers # <<>> => l # 0
      BY <1>11, EmptySeq
    <3>2. tasks = <<>> => l = 0
      BY DEF l
    <3> QED
      BY <3>1, <3>2
  <2> QED
    BY <1>1, <1>3, <1>11, <1>13, <2>1 DEF WithinLimits, FitLimits, l
<1>15. Identities(pointers) = {Identity(queue[at[m]]) : m \in 1..l}
  BY <1>10, <1>11 DEF Identities
<1>16. IDs(news.selected) = {Identity(queue[at[m]]) : m \in 1..l}
  BY <1>4, <1>5, <1>10 DEF IDs
<1>17. /\ DOMAIN news.candidates = 1..n /\ Len(news.candidates) = n
       /\ \A i \in 1..n :
              /\ news.candidates[i].id = Identity(queue[of[i]])
              /\ news.candidates[i].outcome =
                     IF Identity(queue[of[i]]) \in CollisionIDs(queue, running) THEN "deferred"
                     ELSE told[i].outcome
  <2>1. ASSUME NEW i \in 1..n PROVE told[i].id = Identity(queue[of[i]])
    <3>1. of[i] \in 1..n /\ told[i].id = snap.ready[of[i]].id
      BY <1>9
    <3> QED
      BY <1>1, <3>1
  <2>2. \A id, outcome, reason :
            Explained(id, outcome, reason).id = id /\ Explained(id, outcome, reason).outcome = outcome
    BY DEF Explained
  <2>3. \A i \in 1..n :
              /\ news.candidates[i].id = Identity(queue[of[i]])
              /\ news.candidates[i].outcome =
                     IF Identity(queue[of[i]]) \in CollisionIDs(queue, running) THEN "deferred"
                     ELSE told[i].outcome
    BY <1>5, <2>1, <2>2
  <2> DEFINE A == {news.candidates[i] : i \in 1..n}
  <2>4. news.candidates \in [1..n -> A] /\ DOMAIN news.candidates = 1..n
    BY <1>5
  <2> HIDE DEF A
  <2> QED
    BY <1>2, <2>3, <2>4, FunctionIsSeq
<1>18. ASSUME NEW i \in 1..n
       PROVE  news.candidates[i].outcome = "selected" <=> \E m \in 1..l : at[m] = of[i]
  <2>1. news.candidates[i].outcome =
            IF Identity(queue[of[i]]) \in CollisionIDs(queue, running) THEN "deferred"
            ELSE told[i].outcome
    BY <1>17
  <2>2. told[i].outcome = "selected" <=> \E m \in 1..l : at[m] = of[i]
    BY <1>9
  <2>3. (\E m \in 1..l : at[m] = of[i]) => Identity(queue[of[i]]) \notin CollisionIDs(queue, running)
    BY <1>10
  <2> QED
    BY <2>1, <2>2, <2>3
<1>19. {c.id : c \in {d \in ToSet(news.candidates) : d.outcome = "selected"}}
           = {Identity(queue[at[m]]) : m \in 1..l}
  <2> DEFINE left  == {c.id : c \in {d \in ToSet(news.candidates) : d.outcome = "selected"}}
             right == {Identity(queue[at[m]]) : m \in 1..l}
  <2>1. ASSUME NEW i \in 1..n, news.candidates[i].outcome = "selected"
        PROVE  news.candidates[i].id \in right
    <3>1. PICK m \in 1..l : at[m] = of[i]
      BY <1>18, <2>1
    <3> QED
      BY <1>17, <3>1
  <2>2. ASSUME NEW m \in 1..l PROVE Identity(queue[at[m]]) \in left
    <3>1. PICK i \in 1..n : of[i] = at[m]
      BY <1>8, <1>9
    <3>2. news.candidates[i].outcome = "selected" /\ news.candidates[i].id = Identity(queue[at[m]])
      BY <1>17, <1>18, <3>1
    <3>3. news.candidates[i] \in ToSet(news.candidates)
      BY <1>17 DEF ToSet
    <3> QED
      BY <3>2, <3>3
  <2>3. \A d \in ToSet(news.candidates) : \E i \in 1..n : d = news.candidates[i]
    BY <1>17 DEF ToSet
  <2>4. left \subseteq right
    <3> HIDE DEF right
    <3> QED
      BY <2>1, <2>3
  <2>5. right \subseteq left
    <3> HIDE DEF left
    <3> QED
      BY <2>2
  <2> QED
    BY <2>4, <2>5
<1>20. ASSUME NEW i \in 1..n, news.candidates[i].outcome = "rejected"
       PROVE  Rejectable(queue, running, of[i])
  <2> DEFINE j == of[i]
             r == queue[j]
  <2>1. j \in 1..n /\ s[j].outcome = "rejected" /\ r \in Runtimes /\ seen[Identity(r)] \in Int
        /\ seen[Identity(r)] <= now /\ now \in Int
    <3>1. j \in 1..n /\ s[j].outcome = "rejected"
      BY <1>9, <1>17, <1>20
    <3>2. Identity(queue[j]) \in Identities(queue)
      BY <1>2, <3>1, QueueEntries DEF n
    <3> QED
      BY <1>2, <3>1, <3>2 DEF Arguments
  <2>2. \/ MalformedTask(snap.ready[j])
        \/ Unrankable(snap.at, Normalized(snap.at, snap.ready[j]))
        \/ \E k \in 1..(j - 1) : snap.ready[k].id = snap.ready[j].id
    <3> HIDE DEF j
    <3> QED
      BY <1>1, <2>1, ScreenedRanked DEF s
  <2>3. CASE \E k \in 1..(j - 1) : snap.ready[k].id = snap.ready[j].id
    <3>1. PICK k \in 1..(j - 1) : snap.ready[k].id = snap.ready[j].id
      BY <2>3
    <3> HIDE DEF j
    <3>2. k \in 1..n
      BY <1>2, <2>1
    <3>3. Identity(queue[k]) = Identity(r)
      BY <1>1, <2>1, <3>1, <3>2
    <3>4. Identity(r) \in Identities(Before(queue, j))
      BY <1>2, <2>1, <3>1, <3>3, EntriesBefore DEF n
    <3> QED
      BY <3>4 DEF Rejectable, j
  <2>4. CASE ~WellFormed(r) \/ Collides(queue, running, j)
    BY <2>4 DEF Collides, Rejectable
  <2>5. CASE WellFormed(r) /\ ~Collides(queue, running, j)
    <3>1. snap.ready[j] = ToTask(r, seen)
      BY <1>1, <2>1, <2>5 DEF ReadyTask
    <3>2. ~MalformedTask(ToTask(r, seen)) /\ ~Unrankable(now, Normalized(now, ToTask(r, seen)))
      BY <2>1, <2>5, WellFormedAccepted
    <3> QED
      BY <1>1, <2>2, <2>3, <3>1, <3>2
  <2> QED
    BY <2>4, <2>5
<1>21. ASSUME NEW i \in DOMAIN news.candidates
       PROVE  \E k \in 1..n : /\ news.candidates[i].id = Identity(queue[k])
                              /\ news.candidates[i].outcome = "rejected" => Rejectable(queue, running, k)
  <2>1. i \in 1..n /\ of[i] \in 1..n /\ news.candidates[i].id = Identity(queue[of[i]])
    BY <1>9, <1>17
  <2>2. news.candidates[i].outcome = "rejected" => Rejectable(queue, running, of[i])
    BY <1>20, <2>1
  <2> QED
    BY <2>1, <2>2
<1>22. Tells(news, pointers, queue, running)
  BY <1>15, <1>16, <1>17, <1>19, <1>21 DEF Tells, n
<1> QED
  BY <1>11, <1>12, <1>14, <1>22 DEF pointers, tasks, news, snap

-----------------------------------------------------------------------------
(* The fallback.                                                             *)

ToldOn(A) == {p \in A \X A : p[1].id < p[2].id}

\* The sort of the fallback's report.
LEMMA ToldSortPosition ==
    ASSUME NEW A, NEW t \in Seq(A), NEW c \in A
    PROVE  InsertPosition(LAMBDA a, b : a.id < b.id, t, c) = Position(ToldOn(A), t, c)
<1> DEFINE n == Len(t)
<1>1. n \in Nat /\ DOMAIN t = 1..n /\ \A q \in 1..n : t[q] \in A
  BY LenProperties, ElementOfSeq
<1>2. \A q \in 1..n : <<c, t[q]>> \in ToldOn(A) <=> c.id < t[q].id
  BY <1>1 DEF ToldOn
<1>3. \A p \in 1..n : \A q \in p..n : q \in 1..n
  BY <1>1
<1> HIDE DEF n
<1>4. \A p \in 1..n : (\A q \in p..n : <<c, t[q]>> \in ToldOn(A)) <=> \A q \in p..n : c.id < t[q].id
  BY <1>2, <1>3
<1>5. Passed(ToldOn(A), t, c) = {p \in DOMAIN t : \A q \in p..n : c.id < t[q].id}
  <2> DEFINE left  == {p \in 1..n : \A q \in p..n : <<c, t[q]>> \in ToldOn(A)}
             right == {p \in 1..n : \A q \in p..n : c.id < t[q].id}
  <2>1. left = right
    BY <1>4
  <2> QED
    BY <1>1, <2>1 DEF Passed, n
<1> QED
  BY <1>5 DEF InsertPosition, Position, n

\* It is a run of the insertion sort.
LEMMA ToldSort ==
    ASSUME NEW A, NEW s \in Seq(A)
    PROVE  \E r : InsertionRun(r, ToldOn(A), A, s) /\ StableSort(LAMBDA a, b : a.id < b.id, s) = r[Len(s)]
<1> DEFINE n == Len(s)
           D == Seq(A)
           Into(c, t) == InsertAt(t, InsertPosition(LAMBDA a, b : a.id < b.id, t, c), c)
           step == [p \in (1..n) \X D |-> Into(s[p[1]], p[2])]
           Follows(g) == g = [t \in SUBSET DOMAIN s |->
                                 IF t = {} THEN <<>> ELSE Into(s[Max(t)], g[t \ {Max(t)}])]
           fold == CHOOSE g : Follows(g)
<1> DEFINE sorted == StableSort(LAMBDA a, b : a.id < b.id, s)
<1>1. sorted = fold[DOMAIN s]
  BY DEF StableSort, FoldLeft, MapThenFoldSet
<1>2. n \in Nat /\ DOMAIN s = 1..n /\ \A i \in 1..n : s[i] \in A
  BY LenProperties, ElementOfSeq
<1>3. \A c \in A, t \in D : Into(c, t) = InsertAt(t, Position(ToldOn(A), t, c), c)
  BY ToldSortPosition
<1>4. \A c \in A, t \in D : Into(c, t) \in D
  <2>1. \A c \in A, t \in D : Position(ToldOn(A), t, c) \in 1..(Len(t) + 1)
    BY PositionDivides
  <2>2. \A c \in A, t \in D : \A p \in 1..(Len(t) + 1) : InsertAt(t, p, c) \in D
    BY InsertAtShape
  <2> HIDE DEF Into, D
  <2> QED
    BY <1>3, <2>1, <2>2
<1>5. <<>> \in D
  OBVIOUS
<1> HIDE DEF n, D, Into, sorted
<1>6. \A x \in 1..n, a \in D : step[<<x, a>>] = Into(s[x], a)
  OBVIOUS
<1> HIDE DEF step
<1>7. LeftFoldable(n, D, <<>>, step)
  BY <1>2, <1>4, <1>5, <1>6 DEF LeftFoldable
<1>8. PICK f, r : LeftFolded(f, r, n, D, <<>>, step)
  BY <1>7, LeftFold
<1>9. /\ f \in [SUBSET (1..n) -> D] /\ r \in [0..n -> D]
      /\ f[{}] = <<>> /\ r[0] = <<>>
      /\ \A t \in SUBSET (1..n) : t # {} => f[t] = step[<<Max(t), f[t \ {Max(t)}]>>]
      /\ \A i \in 1..n : r[i] = step[<<i, r[i - 1]>>]
  BY <1>8 DEF LeftFolded
<1>10. \A t \in SUBSET (1..n) : t # {} => Max(t) \in 1..n /\ t \ {Max(t)} \in SUBSET (1..n)
  BY <1>2, MaxInRange
<1>11. Follows(fold)
  <2>1. ASSUME NEW t \in SUBSET (1..n), t # {}
        PROVE  f[t] = Into(s[Max(t)], f[t \ {Max(t)}])
    <3>1. Max(t) \in 1..n /\ f[t \ {Max(t)}] \in D
      BY <1>9, <1>10, <2>1
    <3> QED
      BY <1>6, <1>9, <2>1, <3>1
  <2>2. Follows(f)
    BY <1>2, <1>9, <2>1
  <2> HIDE DEF Follows
  <2> QED
    BY <2>2
<1> HIDE DEF fold
<1>12. Agrees(fold, n, D, <<>>, step)
  <2>1. \A t \in SUBSET (1..n) :
            fold[t] = IF t = {} THEN <<>> ELSE Into(s[Max(t)], fold[t \ {Max(t)}])
    BY <1>2, <1>11
  <2> QED
    BY <1>6, <1>10, <2>1 DEF Agrees
<1>13. sorted = r[n]
  BY <1>1, <1>2, <1>7, <1>8, <1>12, FoldsAgree
<1>14. ASSUME NEW i \in 1..n
       PROVE  r[i] = InsertAt(r[i - 1], Position(ToldOn(A), r[i - 1], s[i]), s[i])
  <2>1. i - 1 \in 0..n
    BY <1>2
  <2>2. r[i - 1] \in D
    BY <1>9, <2>1
  <2> QED
    BY <1>2, <1>3, <1>6, <1>9, <2>2
<1>15. InsertionRun(r, ToldOn(A), A, s)
  BY <1>9, <1>14 DEF InsertionRun, n, D
<1> QED
  BY <1>13, <1>15 DEF n, sorted

\* One more entry holds one more GPU slot if it declares a GPU.
LEMMA HeldAppend ==
    ASSUME NEW queue \in Seq(Runtimes), NEW r \in Runtimes
    PROVE  Held(Append(queue, r)) = Held(queue) + (IF DeclaresGPU(r) THEN 1 ELSE 0)
<1> DEFINE n   == Len(queue)
           old == {i \in DOMAIN queue : DeclaresGPU(queue[i])}
           new == {i \in DOMAIN Append(queue, r) : DeclaresGPU(Append(queue, r)[i])}
<1>1. n \in Nat /\ DOMAIN queue = 1..n
  BY LenProperties
<1>2. /\ Append(queue, r) \in Seq(Runtimes) /\ Len(Append(queue, r)) = n + 1
      /\ \A i \in 1..n : Append(queue, r)[i] = queue[i]
      /\ Append(queue, r)[n + 1] = r
  BY AppendProperties
<1>3. DOMAIN Append(queue, r) = 1..(n + 1)
  BY <1>2, LenProperties
<1>4. IsFiniteSet(old) /\ n + 1 \notin old
  <2>1. IsFiniteSet(old)
    BY HeldType
  <2>2. n + 1 \notin 1..n
    BY <1>1
  <2> QED
    BY <1>1, <2>1, <2>2
<1>5. new = IF DeclaresGPU(r) THEN old \cup {n + 1} ELSE old
  BY <1>1, <1>2, <1>3
<1>6. Cardinality(old) \in Nat
  BY <1>4, FS_CardinalityType
<1>7. Cardinality(old \cup {n + 1}) = Cardinality(old) + 1
  BY <1>4, FS_AddElement
<1>8. Held(queue) = Cardinality(old) /\ Held(Append(queue, r)) = Cardinality(new)
  BY DEF Held
<1> HIDE DEF old, new, n
<1> QED
  BY <1>5, <1>6, <1>7, <1>8

\* What the fallback says of an entry.
Told == [id      : Nat,
         outcome : {"selected", "deferred", "rejected"},
         reason  : {"sage_queue_name_collision", "invalid_task", "concurrency_limit",
                    "gpu_capacity", "fail_open_fallback"}]

FallbackAccounts == [selected : Seq(Runtimes), candidates : Seq(Told)]

\* The fallback's accounts after every turn of its loop.
FallbackRun(r, queue, running) ==
    /\ r \in [0..Len(queue) -> FallbackAccounts]
    /\ r[0] = [selected |-> <<>>, candidates |-> <<>>]
    /\ \A i \in 1..Len(queue) : r[i] = FallbackTurn(queue, running, r[i - 1], i)

\* What the i-th turn says, after those that have selected what acc holds.
TurnTold(queue, running, acc, i) ==
    LET verdict == FallbackVerdict(queue, running, i, acc.selected)
    IN  Explained(Identity(queue[i]), verdict[1], verdict[2])

LEMMA FallbackTurnType ==
    ASSUME NEW queue \in Seq(Runtimes), NEW running, NEW acc \in FallbackAccounts,
           NEW i \in 1..Len(queue)
    PROVE  /\ FallbackTurn(queue, running, acc, i) \in FallbackAccounts
           /\ TurnTold(queue, running, acc, i) \in Told
           /\ TurnTold(queue, running, acc, i).id = Identity(queue[i])
           /\ TurnTold(queue, running, acc, i).outcome =
                  FallbackVerdict(queue, running, i, acc.selected)[1]
           /\ FallbackTurn(queue, running, acc, i).selected =
                  IF TurnTold(queue, running, acc, i).outcome = "selected"
                  THEN Append(acc.selected, queue[i]) ELSE acc.selected
           /\ FallbackTurn(queue, running, acc, i).candidates =
                  Append(acc.candidates, TurnTold(queue, running, acc, i))
<1> DEFINE verdict == FallbackVerdict(queue, running, i, acc.selected)
           told == TurnTold(queue, running, acc, i)
<1>1. queue[i] \in Runtimes /\ Identity(queue[i]) \in Nat
  BY ElementOfSeq, PluginTypes
<1>2. acc.selected \in Seq(Runtimes) /\ acc.candidates \in Seq(Told)
  BY DEF FallbackAccounts
<1>3. verdict \in {<<"deferred", "sage_queue_name_collision">>, <<"rejected", "invalid_task">>,
                   <<"deferred", "concurrency_limit">>, <<"deferred", "gpu_capacity">>,
                   <<"selected", "fail_open_fallback">>}
  BY DEF FallbackVerdict
<1>4. told = [id |-> Identity(queue[i]), outcome |-> verdict[1], reason |-> verdict[2]]
  BY DEF TurnTold, Explained
<1>5. FallbackTurn(queue, running, acc, i) =
          [selected   |-> IF verdict[1] = "selected" THEN Append(acc.selected, queue[i])
                          ELSE acc.selected,
           candidates |-> Append(acc.candidates, told)]
  BY DEF FallbackTurn, TurnTold
<1> HIDE DEF verdict, told
<1>6. told \in Told /\ told.outcome = verdict[1] /\ told.id = Identity(queue[i])
  BY <1>1, <1>3, <1>4 DEF Told
<1>7. Append(acc.selected, queue[i]) \in Seq(Runtimes) /\ Append(acc.candidates, told) \in Seq(Told)
  BY <1>1, <1>2, <1>6, AppendProperties
<1>8. FallbackTurn(queue, running, acc, i) \in FallbackAccounts
  BY <1>2, <1>5, <1>7 DEF FallbackAccounts
<1> QED
  BY <1>5, <1>6, <1>8 DEF told, verdict

LEMMA FallbackFolds ==
    ASSUME NEW queue \in Seq(Runtimes), NEW running
    PROVE  \E r : FallbackRun(r, queue, running) /\ Fallback(queue, running) = r[Len(queue)]
<1> DEFINE n == Len(queue)
           start == [selected |-> <<>>, candidates |-> <<>>]
           index == [i \in DOMAIN queue |-> i]
           Turn(acc, i) == FallbackTurn(queue, running, acc, i)
           step == [p \in (1..n) \X FallbackAccounts |-> Turn(p[2], p[1])]
           Follows(g) == g = [t \in SUBSET DOMAIN index |->
                                 IF t = {} THEN start ELSE Turn(g[t \ {Max(t)}], index[Max(t)])]
           fold == CHOOSE g : Follows(g)
<1>1. Fallback(queue, running) = fold[DOMAIN index]
  BY DEF Fallback, FoldLeftDomain, FoldLeft, MapThenFoldSet
<1>2. n \in Nat /\ DOMAIN index = 1..n /\ \A i \in 1..n : index[i] = i
  BY LenProperties
<1>3. \A a \in FallbackAccounts, i \in 1..n : Turn(a, i) \in FallbackAccounts
  BY FallbackTurnType
<1>4. start \in FallbackAccounts
  BY DEF FallbackAccounts
<1> HIDE DEF n, index, Turn, start
<1>6. \A x \in 1..n, a \in FallbackAccounts : step[<<x, a>>] = Turn(a, x)
  OBVIOUS
<1> HIDE DEF step
<1>7. LeftFoldable(n, FallbackAccounts, start, step)
  BY <1>2, <1>3, <1>4, <1>6 DEF LeftFoldable
<1>8. PICK f, r : LeftFolded(f, r, n, FallbackAccounts, start, step)
  BY <1>7, LeftFold
<1>9. /\ f \in [SUBSET (1..n) -> FallbackAccounts] /\ r \in [0..n -> FallbackAccounts]
      /\ f[{}] = start /\ r[0] = start
      /\ \A t \in SUBSET (1..n) : t # {} => f[t] = step[<<Max(t), f[t \ {Max(t)}]>>]
      /\ \A i \in 1..n : r[i] = step[<<i, r[i - 1]>>]
  BY <1>8 DEF LeftFolded
<1>10. \A t \in SUBSET (1..n) : t # {} => Max(t) \in 1..n /\ t \ {Max(t)} \in SUBSET (1..n)
  BY <1>2, MaxInRange
<1>11. Follows(fold)
  <2>1. ASSUME NEW t \in SUBSET (1..n), t # {}
        PROVE  f[t] = Turn(f[t \ {Max(t)}], index[Max(t)])
    <3>1. Max(t) \in 1..n /\ f[t \ {Max(t)}] \in FallbackAccounts
      BY <1>9, <1>10, <2>1
    <3>2. index[Max(t)] = Max(t)
      BY <1>2, <3>1
    <3> QED
      BY <1>6, <1>9, <2>1, <3>1, <3>2
  <2>2. Follows(f)
    BY <1>2, <1>9, <2>1
  <2> HIDE DEF Follows
  <2> QED
    BY <2>2
<1> HIDE DEF fold
<1>12. Agrees(fold, n, FallbackAccounts, start, step)
  <2>1. \A t \in SUBSET (1..n) :
            fold[t] = IF t = {} THEN start ELSE Turn(fold[t \ {Max(t)}], index[Max(t)])
    BY <1>2, <1>11
  <2>2. \A t \in SUBSET (1..n) :
            t # {} => fold[t] = Turn(fold[t \ {Max(t)}], Max(t))
    BY <1>2, <1>10, <2>1
  <2> QED
    BY <1>6, <1>10, <2>1, <2>2 DEF Agrees
<1>13. Fallback(queue, running) = r[n]
  BY <1>1, <1>2, <1>7, <1>8, <1>12, FoldsAgree
<1>14. ASSUME NEW i \in 1..n PROVE r[i] = Turn(r[i - 1], i)
  <2>1. i - 1 \in 0..n
    BY <1>2
  <2>2. r[i - 1] \in FallbackAccounts
    BY <1>9, <2>1
  <2> QED
    BY <1>6, <1>9, <2>2
<1>15. FallbackRun(r, queue, running)
  BY <1>9, <1>14 DEF FallbackRun, n, Turn, start
<1> QED
  BY <1>13, <1>15 DEF n

\* What a verdict of the fallback means.
LEMMA VerdictMeans ==
    ASSUME NEW queue \in Seq(Runtimes), NEW running \in Seq(Runtimes),
           NEW selected \in Seq(Runtimes), NEW i \in 1..Len(queue)
    PROVE  LET verdict == FallbackVerdict(queue, running, i, selected)
           IN  /\ verdict[1] = "selected" =>
                      /\ WellFormed(queue[i]) /\ Name(queue[i]) \notin Names(running)
                      /\ \A k \in 1..(i - 1) : Name(queue[k]) # Name(queue[i])
                      /\ Len(running) + Len(selected) + 1 <= Config.maxConcurrent
                      /\ DeclaresGPU(queue[i]) =>
                             Held(running) + Held(selected) + 1 <= Config.maxGPU
               /\ verdict[1] = "rejected" => Rejectable(queue, running, i)
<1> DEFINE verdict == FallbackVerdict(queue, running, i, selected)
           blocked == Name(queue[i]) \in Names(running) \cup Names(Before(queue, i))
           known   == Identity(queue[i]) \in Identities(running) \cup Identities(Before(queue, i))
           full    == Len(selected) >= Config.maxConcurrent - Len(running)
           noGPU   == DeclaresGPU(queue[i]) /\ Held(running) + Held(selected) >= Config.maxGPU
           ok      == WellFormed(queue[i])
<1>1. verdict = IF blocked /\ ~known THEN <<"deferred", "sage_queue_name_collision">>
                ELSE IF known \/ ~ok THEN <<"rejected", "invalid_task">>
                ELSE IF full THEN <<"deferred", "concurrency_limit">>
                ELSE IF noGPU THEN <<"deferred", "gpu_capacity">>
                ELSE <<"selected", "fail_open_fallback">>
  BY DEF FallbackVerdict, Held
<1>2. /\ Len(running) \in Nat /\ Len(selected) \in Nat /\ Held(running) \in Nat
      /\ Held(selected) \in Nat /\ Config.maxConcurrent \in Nat /\ Config.maxGPU \in Nat
  BY LenProperties, HeldType, ConfigTypes
<1>3. Names(Before(queue, i)) = {Name(queue[j]) : j \in 1..(i - 1)}
  BY EntriesBefore
<1>4. ~full => Len(running) + Len(selected) + 1 <= Config.maxConcurrent
  BY <1>2
<1>5. ~noGPU /\ DeclaresGPU(queue[i]) => Held(running) + Held(selected) + 1 <= Config.maxGPU
  BY <1>2
<1>6. ~blocked => /\ Name(queue[i]) \notin Names(running)
                  /\ \A k \in 1..(i - 1) : Name(queue[k]) # Name(queue[i])
  BY <1>3
<1>7. known \/ ~ok => Rejectable(queue, running, i)
  BY DEF Rejectable
<1> HIDE DEF verdict, blocked, known, full, noGPU
<1>8. verdict[1] = "selected" => ~blocked /\ ok /\ ~full /\ ~noGPU
  BY <1>1
<1>9. verdict[1] = "rejected" => known \/ ~ok
  BY <1>1
<1> QED
  BY <1>4, <1>5, <1>6, <1>7, <1>8, <1>9 DEF verdict

\* What the fallback has decided after i turns, at[m] being the place of the m-th
\* pointer it selected.
DecidedSoFar(at, acc, i, queue, running) ==
    /\ at \in [1..Len(acc.selected) -> 1..Len(queue)] /\ OneToOne(at, Len(acc.selected))
    /\ \A m \in 1..Len(acc.selected) : at[m] <= i
    /\ Picks(at, acc.selected, queue, running)
    /\ FitLimits(acc.selected, running)
    /\ Len(acc.candidates) = i
    /\ \A k \in 1..i :
           /\ acc.candidates[k].id = Identity(queue[k])
           /\ acc.candidates[k].outcome = "selected" <=> \E m \in 1..Len(acc.selected) : at[m] = k
           /\ acc.candidates[k].outcome = "rejected" => Rejectable(queue, running, k)

\* One turn that does not select its entry.
LEMMA TurnPasses ==
    ASSUME NEW queue \in Seq(Runtimes), NEW running \in Seq(Runtimes),
           NEW acc \in FallbackAccounts, NEW i \in 1..Len(queue), NEW at,
           DecidedSoFar(at, acc, i - 1, queue, running),
           TurnTold(queue, running, acc, i).outcome # "selected"
    PROVE  DecidedSoFar(at, FallbackTurn(queue, running, acc, i), i, queue, running)
<1> DEFINE told == TurnTold(queue, running, acc, i)
           next == FallbackTurn(queue, running, acc, i)
<1>1. /\ told \in Told /\ told.id = Identity(queue[i])
      /\ told.outcome = "rejected" => Rejectable(queue, running, i)
  <2>1. acc.selected \in Seq(Runtimes)
    BY DEF FallbackAccounts
  <2>2. /\ told \in Told /\ told.id = Identity(queue[i])
        /\ told.outcome = FallbackVerdict(queue, running, i, acc.selected)[1]
    BY FallbackTurnType, ZenonT(30)
  <2> HIDE DEF told
  <2> QED
    BY <2>1, <2>2, VerdictMeans
<1>2. next.selected = acc.selected /\ next.candidates = Append(acc.candidates, told)
  BY FallbackTurnType, ZenonT(30)
<1>3. /\ acc.candidates \in Seq(Told) /\ Len(acc.candidates) = i - 1
      /\ i \in Nat /\ i >= 1
  BY DEF FallbackAccounts, DecidedSoFar
<1>4. /\ Len(next.candidates) = i /\ next.candidates[i] = told
      /\ \A k \in 1..(i - 1) : next.candidates[k] = acc.candidates[k]
  BY <1>1, <1>2, <1>3, AppendProperties
<1>5. told.outcome # "selected"
  OBVIOUS
<1> HIDE DEF told, next
<1>6. ASSUME NEW k \in 1..i
      PROVE  /\ next.candidates[k].id = Identity(queue[k])
             /\ next.candidates[k].outcome = "selected" <=> \E m \in 1..Len(acc.selected) : at[m] = k
             /\ next.candidates[k].outcome = "rejected" => Rejectable(queue, running, k)
  <2>1. CASE k = i
    <3>1. \A m \in 1..Len(acc.selected) : at[m] \in Int /\ at[m] <= i - 1
      <4>1. at \in [1..Len(acc.selected) -> 1..Len(queue)]
        BY DEF DecidedSoFar
      <4>2. \A m \in 1..Len(acc.selected) : at[m] <= i - 1
        BY DEF DecidedSoFar
      <4>3. \A m \in 1..Len(acc.selected) : at[m] \in Int
        BY <4>1
      <4> QED
        BY <4>2, <4>3
    <3>2. ~ \E m \in 1..Len(acc.selected) : at[m] = k
      BY <1>3, <2>1, <3>1
    <3> QED
      BY <1>1, <1>4, <1>5, <2>1, <3>2
  <2>2. CASE k # i
    <3>1. k \in 1..(i - 1) /\ next.candidates[k] = acc.candidates[k]
      BY <1>3, <1>4, <2>2
    <3>2. \A m \in 1..(i - 1) :
              /\ acc.candidates[m].id = Identity(queue[m])
              /\ acc.candidates[m].outcome = "selected" <=> \E o \in 1..Len(acc.selected) : at[o] = m
              /\ acc.candidates[m].outcome = "rejected" => Rejectable(queue, running, m)
      BY DEF DecidedSoFar
    <3> QED
      BY <3>1, <3>2
  <2> QED
    BY <2>1, <2>2
<1>7. \A m \in 1..Len(acc.selected) : at[m] <= i
  <2>1. at \in [1..Len(acc.selected) -> 1..Len(queue)]
        /\ \A m \in 1..Len(acc.selected) : at[m] <= i - 1
    BY DEF DecidedSoFar
  <2>2. \A m \in 1..Len(acc.selected) : at[m] \in Int
    BY <2>1
  <2> QED
    BY <1>3, <2>1, <2>2
<1>8. DecidedSoFar(at, next, i, queue, running)
  BY <1>2, <1>4, <1>6, <1>7 DEF DecidedSoFar
<1> QED
  BY <1>8 DEF next

\* One turn that does.
LEMMA TurnSelects ==
    ASSUME NEW queue \in Seq(Runtimes), NEW running \in Seq(Runtimes),
           NEW acc \in FallbackAccounts, NEW i \in 1..Len(queue), NEW at,
           DecidedSoFar(at, acc, i - 1, queue, running),
           TurnTold(queue, running, acc, i).outcome = "selected"
    PROVE  \E next : DecidedSoFar(next, FallbackTurn(queue, running, acc, i), i, queue, running)
<1> DEFINE told == TurnTold(queue, running, acc, i)
           turn == FallbackTurn(queue, running, acc, i)
           old  == acc.selected
           new  == Append(acc.selected, queue[i])
           l    == Len(acc.selected)
           next == [m \in 1..(l + 1) |-> IF m = l + 1 THEN i ELSE at[m]]
<1>1. /\ told \in Told /\ told.id = Identity(queue[i])
      /\ FallbackVerdict(queue, running, i, old)[1] = "selected"
  BY FallbackTurnType, ZenonT(30)
<1>2. turn.selected = new /\ turn.candidates = Append(acc.candidates, told)
  BY FallbackTurnType, ZenonT(30)
<1>3. /\ acc.candidates \in Seq(Told) /\ Len(acc.candidates) = i - 1
      /\ i \in Nat /\ i >= 1 /\ old \in Seq(Runtimes) /\ l \in Nat /\ queue[i] \in Runtimes
      /\ Len(queue) \in Nat /\ i <= Len(queue)
  BY LenProperties, ElementOfSeq DEF FallbackAccounts, DecidedSoFar
<1>4. /\ Len(turn.candidates) = i /\ turn.candidates[i] = told
      /\ \A k \in 1..(i - 1) : turn.candidates[k] = acc.candidates[k]
  BY <1>1, <1>2, <1>3, AppendProperties
<1>5. /\ new \in Seq(Runtimes) /\ Len(new) = l + 1 /\ new[l + 1] = queue[i]
      /\ \A m \in 1..l : new[m] = old[m]
  BY <1>3, AppendProperties
<1>6. /\ WellFormed(queue[i]) /\ Name(queue[i]) \notin Names(running)
      /\ \A k \in 1..(i - 1) : Name(queue[k]) # Name(queue[i])
      /\ Len(running) + l + 1 <= Config.maxConcurrent
      /\ DeclaresGPU(queue[i]) => Held(running) + Held(old) + 1 <= Config.maxGPU
  BY <1>1, <1>3, VerdictMeans
<1>7. Held(new) = Held(old) + (IF DeclaresGPU(queue[i]) THEN 1 ELSE 0)
  BY <1>3, HeldAppend
<1>8. /\ Held(old) \in Nat /\ Held(running) \in Nat /\ Len(running) \in Nat
      /\ Config.maxConcurrent \in Nat /\ Config.maxGPU \in Nat
  BY <1>3, HeldType, LenProperties, ConfigTypes
<1>9. /\ at \in [1..l -> 1..Len(queue)] /\ OneToOne(at, l)
      /\ \A m \in 1..l : at[m] \in Nat /\ at[m] <= i - 1
      /\ \A m \in 1..l :
             /\ old[m] = queue[at[m]] /\ WellFormed(queue[at[m]])
             /\ Name(queue[at[m]]) \notin Names(running)
             /\ \A k \in 1..(at[m] - 1) : Name(queue[k]) # Name(queue[at[m]])
      /\ Held(old) > 0 => Held(running) + Held(old) <= Config.maxGPU
  <2>1. /\ at \in [1..l -> 1..Len(queue)] /\ OneToOne(at, l)
        /\ \A m \in 1..l : at[m] <= i - 1
        /\ Picks(at, old, queue, running) /\ FitLimits(old, running)
    BY DEF DecidedSoFar
  <2> HIDE DEF l, old
  <2>2. \A m \in 1..l : at[m] \in Nat
    BY <2>1
  <2>3. \A m \in 1..l :
             /\ old[m] = queue[at[m]] /\ WellFormed(queue[at[m]])
             /\ Name(queue[at[m]]) \notin Names(running)
             /\ \A k \in 1..(at[m] - 1) : Name(queue[k]) # Name(queue[at[m]])
    BY <2>1 DEF Picks, l, old
  <2>4. Held(old) > 0 => Held(running) + Held(old) <= Config.maxGPU
    BY <2>1 DEF FitLimits
  <2> QED
    BY <2>1, <2>2, <2>3, <2>4
<1> DEFINE says(k) == /\ acc.candidates[k].id = Identity(queue[k])
                      /\ acc.candidates[k].outcome = "selected" <=> \E m \in 1..l : at[m] = k
                      /\ acc.candidates[k].outcome = "rejected" => Rejectable(queue, running, k)
<1>10. \A k \in 1..(i - 1) : says(k)
  BY DEF DecidedSoFar
<1>11. told.outcome = "selected"
  OBVIOUS
<1> HIDE DEF told, turn, old, new, l, next
<1>12. /\ next \in [1..(l + 1) -> 1..Len(queue)]
       /\ next[l + 1] = i /\ \A m \in 1..l : m \in 1..(l + 1) /\ next[m] = at[m]
       /\ \A m \in 1..(l + 1) : m \in 1..l \/ m = l + 1
  <2>1. i \in 1..Len(queue)
    OBVIOUS
  <2>2. \A m \in 1..l : at[m] \in 1..Len(queue)
    BY <1>9
  <2>3. \A m \in 1..(l + 1) : m \in 1..l \/ m = l + 1
    BY <1>3
  <2>4. \A m \in 1..l : m \in 1..(l + 1) /\ m # l + 1
    BY <1>3
  <2>5. l + 1 \in 1..(l + 1)
    BY <1>3
  <2> QED
    BY <2>1, <2>2, <2>3, <2>4, <2>5 DEF next
<1>13. OneToOne(next, l + 1)
  <2>1. ASSUME NEW m \in 1..(l + 1), NEW k \in 1..(l + 1), next[m] = next[k] PROVE m = k
    <3>1. CASE m = l + 1 /\ k = l + 1
      BY <3>1
    <3>2. CASE m \in 1..l /\ k = l + 1
      BY <1>3, <1>9, <1>12, <2>1, <3>2
    <3>3. CASE m = l + 1 /\ k \in 1..l
      BY <1>3, <1>9, <1>12, <2>1, <3>3
    <3>4. CASE m \in 1..l /\ k \in 1..l
      BY <1>9, <1>12, <2>1, <3>4 DEF OneToOne
    <3> QED
      BY <1>12, <3>1, <3>2, <3>3, <3>4
  <2> QED
    BY <2>1 DEF OneToOne
<1>14. ASSUME NEW m \in 1..(l + 1) PROVE next[m] <= i
  <2>1. CASE m = l + 1
    BY <1>3, <1>12, <2>1
  <2>2. CASE m \in 1..l
    BY <1>3, <1>9, <1>12, <2>2
  <2> QED
    BY <1>12, <2>1, <2>2
<1>15. ASSUME NEW m \in 1..(l + 1)
       PROVE  /\ new[m] = queue[next[m]] /\ WellFormed(queue[next[m]])
              /\ Name(queue[next[m]]) \notin Names(running)
              /\ \A k \in 1..(next[m] - 1) : Name(queue[k]) # Name(queue[next[m]])
  <2>1. CASE m = l + 1
    BY <1>5, <1>6, <1>12, <2>1
  <2>2. CASE m \in 1..l
    BY <1>5, <1>9, <1>12, <2>2
  <2> QED
    BY <1>12, <2>1, <2>2
<1>16. Picks(next, new, queue, running)
  BY <1>5, <1>12, <1>13, <1>15 DEF Picks
<1>17. FitLimits(new, running)
  <2>1. Len(running) + Len(new) <= Config.maxConcurrent
    BY <1>3, <1>5, <1>6, <1>8
  <2>2. ASSUME Held(new) > 0 PROVE Held(running) + Held(new) <= Config.maxGPU
    <3>1. CASE DeclaresGPU(queue[i])
      BY <1>6, <1>7, <1>8, <3>1
    <3>2. CASE ~DeclaresGPU(queue[i])
      BY <1>7, <1>8, <1>9, <2>2, <3>2
    <3> QED
      BY <3>1, <3>2
  <2> QED
    BY <2>1, <2>2 DEF FitLimits
<1>18. ASSUME NEW k \in 1..i
       PROVE  /\ turn.candidates[k].id = Identity(queue[k])
              /\ turn.candidates[k].outcome = "selected" <=> \E m \in 1..(l + 1) : next[m] = k
              /\ turn.candidates[k].outcome = "rejected" => Rejectable(queue, running, k)
  <2>1. CASE k = i
    <3>1. \E m \in 1..(l + 1) : next[m] = k
      BY <1>3, <1>12, <2>1
    <3> QED
      BY <1>1, <1>4, <1>11, <2>1, <3>1
  <2>2. CASE k # i
    <3>1. k \in 1..(i - 1)
      BY <1>3, <2>2
    <3>2. says(k) /\ turn.candidates[k] = acc.candidates[k]
      BY <1>4, <1>10, <3>1
    <3>3. (\E m \in 1..(l + 1) : next[m] = k) <=> \E m \in 1..l : at[m] = k
      BY <1>12, <2>2
    <3> QED
      BY <3>2, <3>3
  <2> QED
    BY <2>1, <2>2
<1>19. DecidedSoFar(next, turn, i, queue, running)
  BY <1>2, <1>4, <1>5, <1>12, <1>13, <1>14, <1>16, <1>17, <1>18 DEF DecidedSoFar
<1> QED
  BY <1>19 DEF turn

\* The fallback's choice: what it selects keeps the same promises as the engine's.
LEMMA FallbackChoice ==
    ASSUME NEW queue \in Seq(Runtimes), NEW running \in Seq(Runtimes), NEW now, NEW seen
    PROVE  LET result == Fallback(queue, running)
           IN  /\ result.selected \in Seq(Runtimes)
               /\ \E at : Picks(at, result.selected, queue, running)
               /\ FitLimits(result.selected, running)
               /\ Tells(FallbackDecision(now, result, seen), result.selected, queue, running)
<1> DEFINE n == Len(queue)
           result == Fallback(queue, running)
           pointers == result.selected
           l == Len(pointers)
           news == FallbackDecision(now, result, seen)
<1>1. n \in Nat /\ DOMAIN queue = 1..n
  BY LenProperties
<1>2. PICK r : FallbackRun(r, queue, running) /\ result = r[n]
  BY FallbackFolds
<1>3. /\ r \in [0..n -> FallbackAccounts]
      /\ r[0] = [selected |-> <<>>, candidates |-> <<>>]
      /\ \A i \in 1..n : r[i] = FallbackTurn(queue, running, r[i - 1], i)
  BY <1>2 DEF FallbackRun
<1> DEFINE Q == {i \in 0..n : \E at : DecidedSoFar(at, r[i], i, queue, running)}
<1>4. 0 \in Q
  <2> DEFINE at == [m \in 1..0 |-> m]
  <2>1. r[0].selected = <<>> /\ r[0].candidates = <<>> /\ Len(r[0].selected) = 0
        /\ Len(r[0].candidates) = 0 /\ 1..0 = {}
    BY <1>3
  <2>2. at \in [1..0 -> 1..n] /\ OneToOne(at, 0)
    BY <2>1 DEF OneToOne
  <2>3. Held(<<>>) = 0
    <3>1. {i \in DOMAIN <<>> : DeclaresGPU(<<>>[i])} = {}
      OBVIOUS
    <3> QED
      BY <3>1, FS_EmptySet DEF Held
  <2> HIDE DEF at
  <2>4. Picks(at, r[0].selected, queue, running) /\ FitLimits(r[0].selected, running)
    BY <2>1, <2>2, <2>3 DEF Picks, FitLimits
  <2>5. DecidedSoFar(at, r[0], 0, queue, running)
    BY <2>1, <2>2, <2>4 DEF DecidedSoFar
  <2> QED
    BY <1>1, <2>5
<1>5. ASSUME NEW i \in 0..(n - 1), i \in Q PROVE i + 1 \in Q
  <2>1. i + 1 \in 1..n /\ i + 1 \in 0..n /\ (i + 1) - 1 = i /\ i \in 0..n
    BY <1>1
  <2>2. r[i] \in FallbackAccounts /\ r[i + 1] = FallbackTurn(queue, running, r[i], i + 1)
    BY <1>3, <2>1
  <2>3. PICK at : DecidedSoFar(at, r[i], i, queue, running)
    BY <1>5
  <2>4. DecidedSoFar(at, r[i], (i + 1) - 1, queue, running)
    BY <2>1, <2>3
  <2>5. \E next : DecidedSoFar(next, FallbackTurn(queue, running, r[i], i + 1), i + 1, queue, running)
    <3>1. CASE TurnTold(queue, running, r[i], i + 1).outcome = "selected"
      BY <2>1, <2>2, <2>4, <3>1, TurnSelects
    <3>2. CASE TurnTold(queue, running, r[i], i + 1).outcome # "selected"
      BY <2>1, <2>2, <2>4, <3>2, TurnPasses
    <3> QED
      BY <3>1, <3>2
  <2> QED
    BY <2>1, <2>2, <2>5
<1>6. n \in Q
  <2> HIDE DEF Q, n
  <2>1. \A i \in 0..n : i \in Q
    BY <1>1, <1>4, <1>5, Induction
  <2>2. n \in 0..n
    BY <1>1
  <2> QED
    BY <2>1, <2>2
<1>7. PICK at : DecidedSoFar(at, result, n, queue, running)
  BY <1>2, <1>6
<1>8. pointers \in Seq(Runtimes) /\ result.candidates \in Seq(Told)
  BY <1>1, <1>2, <1>3 DEF FallbackAccounts
<1> HIDE DEF Q, result
<1>9. /\ at \in [1..l -> 1..n] /\ Picks(at, pointers, queue, running)
      /\ FitLimits(pointers, running) /\ Len(result.candidates) = n
      /\ \A k \in 1..n :
             /\ result.candidates[k].id = Identity(queue[k])
             /\ result.candidates[k].outcome = "selected" <=> \E m \in 1..l : at[m] = k
             /\ result.candidates[k].outcome = "rejected" => Rejectable(queue, running, k)
  BY <1>7 DEF DecidedSoFar
<1> DEFINE sorted == StableSort(LAMBDA a, b : a.id < b.id, result.candidates)
<1>10. news = [at         |-> now,
               selected   |-> [i \in DOMAIN pointers |-> ToTask(pointers[i], seen)],
               candidates |-> sorted]
  BY DEF FallbackDecision
<1> HIDE DEF sorted, news
<1>11. /\ news.selected = [i \in DOMAIN pointers |-> ToTask(pointers[i], seen)]
       /\ news.candidates = sorted
  BY <1>10
<1>12. PICK q : InsertionRun(q, ToldOn(Told), Told, result.candidates) /\ sorted = q[Len(result.candidates)]
  BY <1>8, ToldSort DEF sorted
<1>13. sorted \in Seq(Told) /\ Rearranges(sorted, result.candidates, n)
  <2>1. n \in 0..n
    BY <1>1
  <2>2. \A i \in 0..n : Rearranges(q[i], result.candidates, i)
    BY <1>8, <1>9, <1>12, RunRearranges
  <2>3. q[n] \in Seq(Told)
    BY <1>9, <1>12, <2>1 DEF InsertionRun
  <2> QED
    BY <1>9, <1>12, <2>1, <2>2, <2>3
<1>14. PICK from \in [1..n -> 1..n] :
          /\ \A j \in 1..n : \E k \in 1..n : from[k] = j
          /\ \A k \in 1..n : sorted[k] = result.candidates[from[k]]
  BY <1>13 DEF Rearranges
<1>15. Len(news.candidates) = n /\ DOMAIN news.candidates = 1..n
  BY <1>11, <1>13, LenProperties DEF Rearranges
<1>16. ASSUME NEW i \in 1..n
       PROVE  /\ from[i] \in 1..n
              /\ news.candidates[i].id = Identity(queue[from[i]])
              /\ news.candidates[i].outcome = "selected" <=> \E m \in 1..l : at[m] = from[i]
              /\ news.candidates[i].outcome = "rejected" => Rejectable(queue, running, from[i])
  <2>1. from[i] \in 1..n
    BY <1>14
  <2>2. news.candidates[i] = result.candidates[from[i]]
    BY <1>11, <1>14
  <2>3. \A k \in 1..n :
            /\ result.candidates[k].id = Identity(queue[k])
            /\ result.candidates[k].outcome = "selected" <=> \E m \in 1..l : at[m] = k
            /\ result.candidates[k].outcome = "rejected" => Rejectable(queue, running, k)
    BY <1>9
  <2> HIDE DEF n, l
  <2> QED
    BY <2>1, <2>2, <2>3
<1>17. /\ DOMAIN pointers = 1..l
       /\ \A m \in 1..l : at[m] \in 1..n /\ pointers[m] = queue[at[m]]
  <2>1. DOMAIN pointers = 1..l
    BY <1>8, LenProperties
  <2>2. \A m \in 1..l : pointers[m] = queue[at[m]]
    BY <1>9 DEF Picks
  <2> QED
    BY <1>9, <2>1, <2>2
<1> HIDE DEF n, l, pointers
<1>18. Identities(pointers) = {Identity(queue[at[m]]) : m \in 1..l}
  BY <1>17 DEF Identities
<1>19. IDs(news.selected) = Identities(pointers)
  <2>1. DOMAIN news.selected = 1..l
        /\ \A i \in 1..l : news.selected[i].id = Identity(pointers[i])
    BY <1>11, <1>17 DEF ToTask
  <2> QED
    BY <1>17, <2>1 DEF IDs, Identities
<1>20. {c.id : c \in {d \in ToSet(news.candidates) : d.outcome = "selected"}}
           = {Identity(queue[at[m]]) : m \in 1..l}
  <2> DEFINE cs == {d \in ToSet(news.candidates) : d.outcome = "selected"}
  <2>1. ASSUME NEW c \in cs PROVE c.id \in {Identity(queue[at[m]]) : m \in 1..l}
    <3>1. PICK i \in 1..n : news.candidates[i] = c
      BY <1>15, <2>1 DEF ToSet
    <3>2. c.outcome = "selected"
      BY <2>1
    <3>3. PICK m \in 1..l : at[m] = from[i]
      BY <1>16, <3>1, <3>2
    <3>4. c.id = Identity(queue[from[i]])
      BY <1>16, <3>1
    <3> QED
      BY <3>3, <3>4
  <2>2. ASSUME NEW m \in 1..l PROVE \E c \in cs : c.id = Identity(queue[at[m]])
    <3>1. at[m] \in 1..n
      BY <1>17
    <3>2. PICK i \in 1..n : from[i] = at[m]
      BY <1>14, <3>1
    <3>3. news.candidates[i] \in ToSet(news.candidates)
      BY <1>15 DEF ToSet
    <3>4. news.candidates[i].outcome = "selected"
      BY <1>16, <3>2
    <3>5. news.candidates[i].id = Identity(queue[at[m]])
      BY <1>16, <3>2
    <3> QED
      BY <3>3, <3>4, <3>5
  <2> HIDE DEF cs
  <2>3. {c.id : c \in cs} = {Identity(queue[at[m]]) : m \in 1..l}
    BY <2>1, <2>2
  <2> QED
    BY <2>3 DEF cs
<1>21. ASSUME NEW i \in DOMAIN news.candidates
       PROVE  \E k \in 1..n : /\ news.candidates[i].id = Identity(queue[k])
                              /\ news.candidates[i].outcome = "rejected" => Rejectable(queue, running, k)
  <2>1. i \in 1..n
    BY <1>15
  <2>2. /\ from[i] \in 1..n /\ news.candidates[i].id = Identity(queue[from[i]])
        /\ news.candidates[i].outcome = "rejected" => Rejectable(queue, running, from[i])
    BY <1>16, <2>1
  <2> QED
    BY <2>2
<1>22. Tells(news, pointers, queue, running)
  BY <1>15, <1>18, <1>19, <1>20, <1>21 DEF Tells, n
<1>23. pointers \in Seq(Runtimes) /\ FitLimits(pointers, running) /\ Picks(at, pointers, queue, running)
  BY <1>8, <1>9
<1> QED
  BY <1>22, <1>23 DEF pointers, news, result

-----------------------------------------------------------------------------
(* The scheduler's queues.                                                   *)

Distinct(queue)      == \A i, j \in 1..Len(queue) : queue[i] = queue[j] => i = j
NamesDistinct(queue) == \A i, j \in 1..Len(queue) : Name(queue[i]) = Name(queue[j]) => i = j

Apart(s, t)      == \A i \in 1..Len(s), j \in 1..Len(t) : s[i] # t[j]
NamesApart(s, t) == \A i \in 1..Len(s), j \in 1..Len(t) : Name(s[i]) # Name(t[j])

\* s begins with t.
Continues(s, t) == Len(t) <= Len(s) /\ \A i \in 1..Len(t) : s[i] = t[i]

\* r is what a pop by its name finds.
FirstNamed(queue, r) ==
    \E p \in 1..Len(queue) : queue[p] = r /\ \A k \in 1..(p - 1) : Name(queue[k]) # Name(r)

\* t holds some of the entries of s.
Thins(t, s) ==
    /\ Len(t) <= Len(s)
    /\ \E f \in [1..Len(t) -> 1..Len(s)] :
           OneToOne(f, Len(t)) /\ \A i \in 1..Len(t) : t[i] = s[f[i]]

LEMMA ThinnedKeeps ==
    ASSUME NEW s \in Seq(Runtimes), NEW t \in Seq(Runtimes), Thins(t, s)
    PROVE  /\ Distinct(s) => Distinct(t)
           /\ NamesDistinct(s) => NamesDistinct(t)
           /\ \A u : /\ Apart(s, u) => Apart(t, u)
                     /\ Apart(u, s) => Apart(u, t)
                     /\ NamesApart(s, u) => NamesApart(t, u)
                     /\ NamesApart(u, s) => NamesApart(u, t)
           /\ Held(t) <= Held(s)
<1>1. PICK f \in [1..Len(t) -> 1..Len(s)] :
          OneToOne(f, Len(t)) /\ \A i \in 1..Len(t) : t[i] = s[f[i]]
  BY DEF Thins
<1>2. \A i \in 1..Len(t) : f[i] \in 1..Len(s)
  BY <1>1
<1>3. \A i, j \in 1..Len(t) : f[i] = f[j] => i = j
  BY <1>1 DEF OneToOne
<1>4. Held(t) <= Held(s)
  BY <1>1, <1>3, HeldByMore
<1>5. Distinct(s) => Distinct(t)
  BY <1>1, <1>2, <1>3 DEF Distinct
<1>6. NamesDistinct(s) => NamesDistinct(t)
  BY <1>1, <1>2, <1>3 DEF NamesDistinct
<1>7. ASSUME NEW u
      PROVE  /\ Apart(s, u) => Apart(t, u)
             /\ Apart(u, s) => Apart(u, t)
             /\ NamesApart(s, u) => NamesApart(t, u)
             /\ NamesApart(u, s) => NamesApart(u, t)
  <2>1. Apart(s, u) => Apart(t, u)
    BY <1>1, <1>2 DEF Apart
  <2>2. Apart(u, s) => Apart(u, t)
    BY <1>1, <1>2 DEF Apart
  <2>3. NamesApart(s, u) => NamesApart(t, u)
    BY <1>1, <1>2 DEF NamesApart
  <2>4. NamesApart(u, s) => NamesApart(u, t)
    BY <1>1, <1>2 DEF NamesApart
  <2> QED
    BY <2>1, <2>2, <2>3, <2>4
<1> QED
  BY <1>4, <1>5, <1>6, <1>7

LEMMA RemovalThins ==
    ASSUME NEW queue \in Seq(Runtimes), NEW p \in 1..Len(queue)
    PROVE  /\ RemoveAt(queue, p) \in Seq(Runtimes)
           /\ Len(RemoveAt(queue, p)) = Len(queue) - 1
           /\ Thins(RemoveAt(queue, p), queue)
           /\ Distinct(queue) => \A i \in 1..(Len(queue) - 1) : RemoveAt(queue, p)[i] # queue[p]
<1> DEFINE n == Len(queue)
           t == RemoveAt(queue, p)
           f == [i \in 1..(n - 1) |-> IF i < p THEN i ELSE i + 1]
<1>1. n \in Nat
  BY LenProperties
<1>2. /\ t \in Seq(Runtimes) /\ Len(t) = n - 1
      /\ \A i \in 1..(n - 1) : t[i] = IF i < p THEN queue[i] ELSE queue[i + 1]
  BY RemoveShape
<1> HIDE DEF t, n
<1>3. \A i \in 1..(n - 1) : /\ f[i] \in 1..n /\ f[i] # p
                            /\ f[i] = IF i < p THEN i ELSE i + 1
  BY <1>1 DEF n
<1>4. f \in [1..(n - 1) -> 1..n]
  BY <1>3
<1>5. \A i, j \in 1..(n - 1) : f[i] = f[j] => i = j
  BY <1>3
<1>6. \A i \in 1..(n - 1) : t[i] = queue[f[i]]
  BY <1>2, <1>3
<1> HIDE DEF f
<1>7. Thins(t, queue)
  <2>1. f \in [1..Len(t) -> 1..Len(queue)]
    BY <1>2, <1>4 DEF n
  <2>2. OneToOne(f, Len(t)) /\ \A i \in 1..Len(t) : t[i] = queue[f[i]]
    BY <1>2, <1>5, <1>6 DEF OneToOne
  <2>3. Len(t) <= Len(queue)
    BY <1>1, <1>2 DEF n
  <2> QED
    BY <2>1, <2>2, <2>3 DEF Thins
<1>8. Distinct(queue) => \A i \in 1..(n - 1) : t[i] # queue[p]
  BY <1>3, <1>6 DEF Distinct, n
<1> QED
  BY <1>2, <1>7, <1>8 DEF n, t

LEMMA AppendKeeps ==
    ASSUME NEW queue \in Seq(Runtimes), NEW r \in Runtimes
    PROVE  /\ Append(queue, r) \in Seq(Runtimes) /\ Len(Append(queue, r)) = Len(queue) + 1
           /\ Continues(Append(queue, r), queue)
           /\ Distinct(queue) /\ (\A i \in 1..Len(queue) : queue[i] # r) => Distinct(Append(queue, r))
           /\ NamesDistinct(queue) /\ (\A i \in 1..Len(queue) : Name(queue[i]) # Name(r))
                  => NamesDistinct(Append(queue, r))
           /\ \A t : /\ Apart(queue, t) /\ (\A i \in 1..Len(t) : t[i] # r) => Apart(Append(queue, r), t)
                     /\ Apart(t, queue) /\ (\A i \in 1..Len(t) : t[i] # r) => Apart(t, Append(queue, r))
                     /\ NamesApart(t, queue) /\ (\A i \in 1..Len(t) : Name(t[i]) # Name(r))
                            => NamesApart(t, Append(queue, r))
<1> DEFINE n == Len(queue)
           s == Append(queue, r)
<1>1. /\ n \in Nat /\ s \in Seq(Runtimes) /\ Len(s) = n + 1 /\ s[n + 1] = r
      /\ \A i \in 1..n : s[i] = queue[i]
  BY LenProperties, AppendProperties
<1>2. \A i \in 1..(n + 1) : i = n + 1 \/ i \in 1..n
  BY <1>1
<1> HIDE DEF s, n
<1>3. Continues(s, queue)
  BY <1>1 DEF Continues, n
<1>4. ASSUME Distinct(queue), \A i \in 1..n : queue[i] # r PROVE Distinct(s)
  <2>1. ASSUME NEW i \in 1..(n + 1), NEW j \in 1..(n + 1), s[i] = s[j] PROVE i = j
    BY <1>1, <1>2, <1>4, <2>1 DEF Distinct, n
  <2> QED
    BY <1>1, <2>1 DEF Distinct
<1>5. ASSUME NamesDistinct(queue), \A i \in 1..n : Name(queue[i]) # Name(r) PROVE NamesDistinct(s)
  <2>1. ASSUME NEW i \in 1..(n + 1), NEW j \in 1..(n + 1), Name(s[i]) = Name(s[j]) PROVE i = j
    BY <1>1, <1>2, <1>5, <2>1 DEF NamesDistinct, n
  <2> QED
    BY <1>1, <2>1 DEF NamesDistinct
<1>6. ASSUME NEW t
      PROVE  /\ Apart(queue, t) /\ (\A i \in 1..Len(t) : t[i] # r) => Apart(s, t)
             /\ Apart(t, queue) /\ (\A i \in 1..Len(t) : t[i] # r) => Apart(t, s)
             /\ NamesApart(t, queue) /\ (\A i \in 1..Len(t) : Name(t[i]) # Name(r)) => NamesApart(t, s)
  BY <1>1, <1>2 DEF Apart, NamesApart, n
<1> QED
  BY <1>1, <1>3, <1>4, <1>5, <1>6 DEF n, s

LEMMA TailShape ==
    ASSUME NEW queue \in Seq(Runtimes), queue # <<>>
    PROVE  /\ Tail(queue) \in Seq(Runtimes) /\ Len(Tail(queue)) = Len(queue) - 1
           /\ Head(queue) \in Runtimes /\ Head(queue) = queue[1] /\ Len(queue) >= 1
           /\ \A i \in 1..(Len(queue) - 1) : i + 1 \in 1..Len(queue) /\ Tail(queue)[i] = queue[i + 1]
           /\ Thins(Tail(queue), queue)
           /\ Held(Tail(queue)) + (IF DeclaresGPU(Head(queue)) THEN 1 ELSE 0) <= Held(queue)
<1> DEFINE n == Len(queue)
           t == Tail(queue)
           h == Head(queue)
           turned == Append(t, h)
           f == [i \in 1..(n - 1) |-> i + 1]
           g == [i \in 1..n |-> IF i < n THEN i + 1 ELSE 1]
<1>1. /\ n \in Nat /\ n >= 1 /\ h = queue[1] /\ h \in Runtimes
      /\ t \in Seq(Runtimes) /\ Len(t) = n - 1
      /\ \A i \in 1..(n - 1) : t[i] = queue[i + 1]
  <2>1. n \in Nat /\ n # 0
    BY LenProperties, EmptySeq
  <2>2. h = queue[1] /\ t \in Seq(Runtimes) /\ Len(t) = n - 1
    BY HeadTailProperties
  <2>3. \A i \in 1..(n - 1) : t[i] = queue[i + 1]
    BY <2>1, <2>2, HeadTailProperties
  <2>4. 1 \in 1..n
    BY <2>1
  <2> QED
    BY <2>1, <2>2, <2>3, <2>4, ElementOfSeq
<1>2. /\ turned \in Seq(Runtimes) /\ Len(turned) = n /\ turned[n] = h
      /\ \A i \in 1..(n - 1) : turned[i] = t[i]
      /\ Held(turned) = Held(t) + (IF DeclaresGPU(h) THEN 1 ELSE 0)
  <2>1. /\ turned \in Seq(Runtimes) /\ Len(turned) = Len(t) + 1 /\ turned[Len(t) + 1] = h
        /\ \A i \in 1..Len(t) : turned[i] = t[i]
    BY <1>1, AppendProperties
  <2>2. Len(t) + 1 = n
    BY <1>1
  <2>3. Held(turned) = Held(t) + (IF DeclaresGPU(h) THEN 1 ELSE 0)
    BY <1>1, HeldAppend
  <2> HIDE DEF turned, t, n
  <2> QED
    BY <1>1, <2>1, <2>2, <2>3
<1> HIDE DEF n, t, h, turned
<1>3. \A i \in 1..(n - 1) : i + 1 \in 1..n
  BY <1>1
<1>4. Thins(t, queue)
  <2>1. f \in [1..(n - 1) -> 1..n] /\ \A i \in 1..(n - 1) : f[i] = i + 1
    BY <1>3
  <2>2. \A i, j \in 1..(n - 1) : f[i] = f[j] => i = j
    BY <2>1
  <2>3. \A i \in 1..(n - 1) : t[i] = queue[f[i]]
    BY <1>1, <2>1
  <2> HIDE DEF f
  <2> QED
    BY <1>1, <2>1, <2>2, <2>3 DEF Thins, OneToOne, n
<1>5. Held(turned) <= Held(queue)
  <2>1. \A i \in 1..n : IF i < n THEN i + 1 \in 1..n ELSE i = n /\ 1 \in 1..n
    BY <1>1
  <2>2. g \in [1..n -> 1..n] /\ \A i \in 1..n : g[i] = IF i < n THEN i + 1 ELSE 1
    BY <2>1
  <2>3. \A i, j \in 1..n : g[i] = g[j] => i = j
    BY <1>1, <2>2
  <2>4. \A i \in 1..n : queue[g[i]] = turned[i]
    <3>1. ASSUME NEW i \in 1..n PROVE queue[g[i]] = turned[i]
      <4>1. CASE i < n
        <5>1. i \in 1..(n - 1)
          BY <1>1, <4>1
        <5> QED
          BY <1>1, <1>2, <2>2, <4>1, <5>1
      <4>2. CASE ~(i < n)
        <5>1. i = n
          BY <1>1, <4>2
        <5> QED
          BY <1>1, <1>2, <2>2, <5>1
      <4> QED
        BY <4>1, <4>2
    <3> QED
      BY <3>1
  <2> HIDE DEF g
  <2> QED
    <3>1. g \in [1..Len(turned) -> 1..Len(queue)]
      BY <1>2, <2>2 DEF n
    <3>2. /\ \A i, j \in 1..Len(turned) : g[i] = g[j] => i = j
          /\ \A i \in 1..Len(turned) : queue[g[i]] = turned[i]
      BY <1>2, <2>3, <2>4
    <3> QED
      BY <1>2, <3>1, <3>2, HeldByMore
<1> QED
  BY <1>1, <1>2, <1>3, <1>4, <1>5 DEF n, t, h

LEMMA ThinsItself ==
    ASSUME NEW s \in Seq(Runtimes)
    PROVE  Thins(s, s)
<1> DEFINE f == [i \in 1..Len(s) |-> i]
<1>1. Len(s) \in Nat
  BY LenProperties
<1>2. f \in [1..Len(s) -> 1..Len(s)]
  OBVIOUS
<1>3. OneToOne(f, Len(s)) /\ \A i \in 1..Len(s) : s[i] = s[f[i]]
  BY DEF OneToOne
<1> QED
  BY <1>1, <1>2, <1>3 DEF Thins

LEMMA ThinsTwice ==
    ASSUME NEW s \in Seq(Runtimes), NEW t \in Seq(Runtimes), NEW u \in Seq(Runtimes),
           Thins(u, t), Thins(t, s)
    PROVE  Thins(u, s)
<1>1. Len(s) \in Nat /\ Len(t) \in Nat /\ Len(u) \in Nat
  BY LenProperties
<1>2. PICK g \in [1..Len(u) -> 1..Len(t)] :
          OneToOne(g, Len(u)) /\ \A i \in 1..Len(u) : u[i] = t[g[i]]
  BY DEF Thins
<1>3. PICK f \in [1..Len(t) -> 1..Len(s)] :
          OneToOne(f, Len(t)) /\ \A i \in 1..Len(t) : t[i] = s[f[i]]
  BY DEF Thins
<1> DEFINE h == [i \in 1..Len(u) |-> f[g[i]]]
<1>4. \A i \in 1..Len(u) : g[i] \in 1..Len(t) /\ f[g[i]] \in 1..Len(s) /\ h[i] = f[g[i]]
  BY <1>2, <1>3
<1>5. h \in [1..Len(u) -> 1..Len(s)]
  BY <1>4
<1> HIDE DEF h
<1>6. OneToOne(h, Len(u))
  BY <1>2, <1>3, <1>4 DEF OneToOne
<1>7. \A i \in 1..Len(u) : u[i] = s[h[i]]
  BY <1>2, <1>3, <1>4
<1>8. Len(u) <= Len(s)
  BY <1>1 DEF Thins
<1> QED
  BY <1>5, <1>6, <1>7, <1>8 DEF Thins

LEMMA ContinuesFurther ==
    ASSUME NEW s \in Seq(Runtimes), NEW t \in Seq(Runtimes), NEW u \in Seq(Runtimes),
           Continues(u, t), Continues(t, s)
    PROVE  Continues(u, s)
<1>1. Len(s) \in Nat /\ Len(t) \in Nat /\ Len(u) \in Nat
  BY LenProperties
<1> QED
  BY <1>1 DEF Continues

\* What was first of its name still is when the queue grows at its end.
LEMMA FirstStays ==
    ASSUME NEW s \in Seq(Runtimes), NEW t \in Seq(Runtimes), NEW r,
           Continues(t, s), FirstNamed(s, r)
    PROVE  FirstNamed(t, r)
<1>1. Len(s) \in Nat /\ Len(t) \in Nat /\ Len(s) <= Len(t) /\ \A i \in 1..Len(s) : t[i] = s[i]
  BY LenProperties DEF Continues
<1>2. PICK p \in 1..Len(s) : s[p] = r /\ \A k \in 1..(p - 1) : Name(s[k]) # Name(r)
  BY DEF FirstNamed
<1>3. p \in 1..Len(t) /\ \A k \in 1..(p - 1) : k \in 1..Len(s)
  BY <1>1, <1>2
<1> QED
  BY <1>1, <1>2, <1>3 DEF FirstNamed

\* Pop finds the pointer that is the first of its name.
LEMMA PopFindsFirst ==
    ASSUME NEW queue \in Seq(Runtimes), NEW r, FirstNamed(queue, r)
    PROVE  /\ PopPosition(queue, Name(r)) \in 1..Len(queue)
           /\ queue[PopPosition(queue, Name(r))] = r
<1> DEFINE p == PopPosition(queue, Name(r))
<1>1. PICK q \in 1..Len(queue) : queue[q] = r /\ \A k \in 1..(q - 1) : Name(queue[k]) # Name(r)
  BY DEF FirstNamed
<1>2. /\ p \in 0..Len(queue)
      /\ p = 0 => \A i \in 1..Len(queue) : Name(queue[i]) # Name(r)
      /\ p # 0 => /\ p \in 1..Len(queue) /\ Name(queue[p]) = Name(r)
                  /\ \A i \in 1..(p - 1) : Name(queue[i]) # Name(r)
  BY PopFirst
<1>3. Len(queue) \in Nat
  BY LenProperties
<1> HIDE DEF p
<1>4. p # 0
  BY <1>1, <1>2
<1>5. p = q
  BY <1>1, <1>2, <1>3, <1>4
<1> QED
  BY <1>1, <1>5 DEF p

\* Removing an entry of another name leaves it the first of its name.
LEMMA FirstAfterRemoval ==
    ASSUME NEW queue \in Seq(Runtimes), NEW p \in 1..Len(queue), NEW r,
           FirstNamed(queue, r), Name(queue[p]) # Name(r)
    PROVE  FirstNamed(RemoveAt(queue, p), r)
<1> DEFINE n == Len(queue)
           t == RemoveAt(queue, p)
<1>1. PICK q \in 1..n : queue[q] = r /\ \A k \in 1..(q - 1) : Name(queue[k]) # Name(r)
  BY DEF FirstNamed
<1>2. /\ Len(t) = n - 1
      /\ \A i \in 1..(n - 1) : t[i] = IF i < p THEN queue[i] ELSE queue[i + 1]
  BY RemoveShape
<1>3. n \in Nat /\ p \in 1..n
  BY LenProperties
<1> HIDE DEF n, t
<1>4. CASE q < p
  <2>1. q \in 1..(n - 1) /\ \A k \in 1..(q - 1) : k \in 1..(n - 1) /\ k < p
    BY <1>3, <1>4
  <2>2. t[q] = r /\ \A k \in 1..(q - 1) : Name(t[k]) # Name(r)
    BY <1>1, <1>2, <1>4, <2>1
  <2> QED
    BY <1>2, <2>1, <2>2 DEF FirstNamed, t
<1>5. CASE q > p
  <2>1. q - 1 \in 1..(n - 1) /\ ~(q - 1 < p) /\ (q - 1) + 1 = q
    BY <1>3, <1>5
  <2>2. \A k \in 1..((q - 1) - 1) : k \in 1..(n - 1) /\ k \in 1..(q - 1) /\ k + 1 \in 1..(q - 1)
    BY <1>3
  <2>3. t[q - 1] = r
    BY <1>1, <1>2, <2>1
  <2>4. \A k \in 1..((q - 1) - 1) : Name(t[k]) # Name(r)
    BY <1>1, <1>2, <2>2
  <2> QED
    BY <1>2, <2>1, <2>3, <2>4 DEF FirstNamed, t
<1>6. q # p
  BY <1>1 
<1> QED
  BY <1>3, <1>4, <1>5, <1>6

-----------------------------------------------------------------------------
(* The invariant of the composition.                                         *)

\* Each pointer is in one queue, once.
QueuesInv(inReady, inScheduled) ==
    /\ inReady \in Seq(Runtimes) /\ inScheduled \in Seq(Runtimes)
    /\ Distinct(inReady) /\ Distinct(inScheduled) /\ Apart(inReady, inScheduled)

\* While a call is under way nothing is launched, so the ready queue can only grow
\* and the scheduled queue only shrink behind the snapshots the call has taken.
CallInv(snapshots, planned, inReady, inScheduled) ==
    /\ planned = <<>>
    /\ QueuesInv(snapshots.ready, snapshots.running)
    /\ Continues(inReady, snapshots.ready)
    /\ Thins(inScheduled, snapshots.running)

\* What is planned can be launched in the order it is planned in.
PlanInv(planned, inReady, inScheduled) ==
    /\ planned \in Seq(Runtimes)
    /\ \A i \in 1..Len(planned) : FirstNamed(inReady, planned[i])
    /\ NamesDistinct(planned) /\ NamesDistinct(inScheduled)
    /\ NamesApart(planned, inScheduled)

LimitsInv(planned, inScheduled) ==
    /\ Len(inScheduled) + Len(planned) <= Config.maxConcurrent
    /\ Held(inScheduled) + Held(planned) <= Config.maxGPU

AgesInRange ==
    /\ clock \in 1..MaxTime
    /\ DOMAIN firstSeen = DOMAIN lastObserved
    /\ \A id \in DOMAIN firstSeen : firstSeen[id] \in 1..MaxTime /\ lastObserved[id] \in 1..MaxTime

\* What a decision rejects is not a well-formed runtime without a rival.
RejectsOnlyRivals(decision) ==
    \A i \in DOMAIN decision.candidates :
        decision.candidates[i].outcome = "rejected" =>
            \A r \in Runtimes : Unrivalled(r) => Identity(r) # decision.candidates[i].id

SchedulerInv ==
    /\ AgesInRange
    /\ QueuesInv(ready, scheduled)
    /\ call # Nil => CallInv(call, plan, ready, scheduled)
    /\ PlanInv(plan, ready, scheduled)
    /\ LimitsInv(plan, scheduled)
    /\ RejectsOnlyRivals(lastDecision)

LEMMA QueuesKept ==
    ASSUME NEW s, NEW t, QueuesInv(s, t)
    PROVE  /\ \A r \in Runtimes :
                  (\A i \in 1..Len(s) : s[i] # r) /\ (\A i \in 1..Len(t) : t[i] # r)
                      => QueuesInv(Append(s, r), t)
           /\ \A p \in 1..Len(t) :
                  QueuesInv(s, RemoveAt(t, p)) /\ QueuesInv(Append(s, t[p]), RemoveAt(t, p))
           /\ \A p \in 1..Len(s) : QueuesInv(RemoveAt(s, p), Append(t, s[p]))
<1>1. /\ s \in Seq(Runtimes) /\ t \in Seq(Runtimes)
      /\ Distinct(s) /\ Distinct(t) /\ Apart(s, t)
  BY DEF QueuesInv
<1>2. ASSUME NEW r \in Runtimes, \A i \in 1..Len(s) : s[i] # r, \A i \in 1..Len(t) : t[i] # r
      PROVE  QueuesInv(Append(s, r), t)
  <2>1. Append(s, r) \in Seq(Runtimes) /\ Distinct(Append(s, r)) /\ Apart(Append(s, r), t)
    BY <1>1, <1>2, AppendKeeps
  <2> QED
    BY <1>1, <2>1 DEF QueuesInv
<1>3. ASSUME NEW p \in 1..Len(t)
      PROVE  QueuesInv(s, RemoveAt(t, p)) /\ QueuesInv(Append(s, t[p]), RemoveAt(t, p))
  <2> DEFINE u == RemoveAt(t, p)
  <2>1. /\ u \in Seq(Runtimes) /\ Len(u) = Len(t) - 1 /\ Thins(u, t)
        /\ \A i \in 1..(Len(t) - 1) : u[i] # t[p]
    BY <1>1, RemovalThins
  <2>2. t[p] \in Runtimes
    BY <1>1, ElementOfSeq
  <2> HIDE DEF u
  <2>3. Distinct(u) /\ Apart(s, u)
    BY <1>1, <2>1, ThinnedKeeps
  <2>4. \A i \in 1..Len(s) : s[i] # t[p]
    BY <1>1 DEF Apart
  <2>5. \A i \in 1..Len(u) : u[i] # t[p]
    BY <2>1
  <2>6. Append(s, t[p]) \in Seq(Runtimes) /\ Distinct(Append(s, t[p])) /\ Apart(Append(s, t[p]), u)
    BY <1>1, <2>2, <2>3, <2>4, <2>5, AppendKeeps
  <2> QED
    BY <1>1, <2>1, <2>3, <2>6 DEF QueuesInv, u
<1>4. ASSUME NEW p \in 1..Len(s)
      PROVE  QueuesInv(RemoveAt(s, p), Append(t, s[p]))
  <2> DEFINE u == RemoveAt(s, p)
  <2>1. /\ u \in Seq(Runtimes) /\ Len(u) = Len(s) - 1 /\ Thins(u, s)
        /\ \A i \in 1..(Len(s) - 1) : u[i] # s[p]
    BY <1>1, RemovalThins
  <2>2. s[p] \in Runtimes
    BY <1>1, ElementOfSeq
  <2> HIDE DEF u
  <2>3. Distinct(u) /\ Apart(u, t)
    BY <1>1, <2>1, ThinnedKeeps
  <2>4. \A i \in 1..Len(t) : t[i] # s[p]
    BY <1>1 DEF Apart
  <2>5. \A i \in 1..Len(u) : u[i] # s[p]
    BY <2>1
  <2>6. Append(t, s[p]) \in Seq(Runtimes) /\ Distinct(Append(t, s[p])) /\ Apart(u, Append(t, s[p]))
    BY <1>1, <2>2, <2>3, <2>4, <2>5, AppendKeeps
  <2> QED
    BY <2>1, <2>3, <2>6 DEF QueuesInv, u
<1> QED
  BY <1>2, <1>3, <1>4

\* A push, a completion and a failed start leave everything as it was for the call
\* under way and for the plan: the ready queue only grew, the scheduled one shrank.
LEMMA OthersKept ==
    ASSUME NEW s \in Seq(Runtimes), NEW t \in Seq(Runtimes), NEW u \in Seq(Runtimes),
           NEW v \in Seq(Runtimes), Continues(u, s), Thins(v, t), NEW planned
    PROVE  /\ \A snapshots : CallInv(snapshots, planned, s, t) => CallInv(snapshots, planned, u, v)
           /\ PlanInv(planned, s, t) => PlanInv(planned, u, v)
           /\ planned \in Seq(Runtimes) /\ LimitsInv(planned, t) => LimitsInv(planned, v)
<1>1. ASSUME NEW snapshots, CallInv(snapshots, planned, s, t)
      PROVE  CallInv(snapshots, planned, u, v)
  <2>1. snapshots.ready \in Seq(Runtimes) /\ snapshots.running \in Seq(Runtimes)
        /\ Continues(s, snapshots.ready) /\ Thins(t, snapshots.running)
    BY <1>1 DEF CallInv, QueuesInv
  <2>2. Continues(u, snapshots.ready)
    BY <2>1, ContinuesFurther
  <2>3. Thins(v, snapshots.running)
    BY <2>1, ThinsTwice
  <2> QED
    BY <1>1, <2>2, <2>3 DEF CallInv
<1>2. ASSUME PlanInv(planned, s, t) PROVE PlanInv(planned, u, v)
  <2>1. \A i \in 1..Len(planned) : FirstNamed(u, planned[i])
    BY <1>2, FirstStays DEF PlanInv
  <2>2. NamesDistinct(v) /\ NamesApart(planned, v)
    BY <1>2, ThinnedKeeps DEF PlanInv
  <2> QED
    BY <1>2, <2>1, <2>2 DEF PlanInv
<1>3. ASSUME planned \in Seq(Runtimes), LimitsInv(planned, t) PROVE LimitsInv(planned, v)
  <2>1. /\ Len(t) \in Nat /\ Len(v) \in Nat /\ Len(planned) \in Nat
        /\ Held(t) \in Nat /\ Held(v) \in Nat /\ Held(planned) \in Nat
        /\ Config.maxConcurrent \in Nat /\ Config.maxGPU \in Nat
    BY <1>3, LenProperties, HeldType, ConfigTypes
  <2>2. Len(v) <= Len(t)
    BY DEF Thins
  <2>3. Held(v) <= Held(t)
    BY ThinnedKeeps
  <2>4. Len(t) + Len(planned) <= Config.maxConcurrent => Len(v) + Len(planned) <= Config.maxConcurrent
    BY <2>1, <2>2
  <2>5. Held(t) + Held(planned) <= Config.maxGPU => Held(v) + Held(planned) <= Config.maxGPU
    BY <2>1, <2>3
  <2> QED
    BY <1>3, <2>4, <2>5 DEF LimitsInv
<1> QED
  BY <1>1, <1>2, <1>3

\* A launch pops the very pointer that is planned next.
LEMMA LaunchKept ==
    ASSUME NEW planned, NEW s, NEW t, planned # <<>>,
           PlanInv(planned, s, t), LimitsInv(planned, t), QueuesInv(s, t)
    PROVE  LET p == PopPosition(s, Name(Head(planned)))
           IN  /\ p \in 1..Len(s) /\ s[p] = Head(planned) /\ p # 0
               /\ PlanInv(Tail(planned), RemoveAt(s, p), Append(t, s[p]))
               /\ LimitsInv(Tail(planned), Append(t, s[p]))
<1> DEFINE h == Head(planned)
           rest == Tail(planned)
           l == Len(planned)
           p == PopPosition(s, Name(h))
<1>1. /\ planned \in Seq(Runtimes) /\ s \in Seq(Runtimes) /\ t \in Seq(Runtimes)
      /\ \A i \in 1..l : FirstNamed(s, planned[i])
      /\ NamesDistinct(planned) /\ NamesDistinct(t) /\ NamesApart(planned, t)
  BY DEF PlanInv, QueuesInv
<1>2. /\ rest \in Seq(Runtimes) /\ Len(rest) = l - 1
      /\ h \in Runtimes /\ h = planned[1] /\ l >= 1 /\ l \in Nat
      /\ \A i \in 1..(l - 1) : i + 1 \in 1..l /\ rest[i] = planned[i + 1]
      /\ Thins(rest, planned)
      /\ Held(rest) + (IF DeclaresGPU(h) THEN 1 ELSE 0) <= Held(planned)
  BY <1>1, TailShape, LenProperties
<1> HIDE DEF h, rest, l
<1>3. 1 \in 1..l /\ FirstNamed(s, h)
  BY <1>1, <1>2
<1>4. p \in 1..Len(s) /\ s[p] = h
  BY <1>1, <1>3, PopFindsFirst
<1>5. p # 0
  BY <1>4
<1> HIDE DEF p
<1>6. \A i \in 1..(l - 1) : Name(rest[i]) # Name(h)
  <2>1. ASSUME NEW i \in 1..(l - 1), Name(rest[i]) = Name(h) PROVE FALSE
    <3>1. i + 1 \in 1..l /\ Name(planned[i + 1]) = Name(planned[1])
      BY <1>2, <2>1
    <3>2. i + 1 = 1
      BY <1>1, <1>3, <3>1 DEF NamesDistinct, l
    <3> QED
      BY <3>2
  <2> QED
    BY <2>1
<1>7. \A i \in 1..(l - 1) : FirstNamed(RemoveAt(s, p), rest[i])
  <2>1. ASSUME NEW i \in 1..(l - 1) PROVE FirstNamed(RemoveAt(s, p), rest[i])
    <3>1. FirstNamed(s, rest[i]) /\ Name(s[p]) # Name(rest[i])
      BY <1>1, <1>2, <1>4, <1>6
    <3> QED
      BY <1>1, <1>4, <3>1, FirstAfterRemoval
  <2> QED
    BY <2>1
<1>8. NamesDistinct(rest) /\ NamesApart(rest, t)
  BY <1>1, <1>2, ThinnedKeeps
<1>9. \A i \in 1..Len(t) : Name(t[i]) # Name(h)
  BY <1>1, <1>2, <1>3 DEF NamesApart, l
<1>10. /\ Append(t, h) \in Seq(Runtimes) /\ Len(Append(t, h)) = Len(t) + 1
       /\ NamesDistinct(Append(t, h)) /\ NamesApart(rest, Append(t, h))
  BY <1>1, <1>2, <1>6, <1>8, <1>9, AppendKeeps
<1>11. PlanInv(rest, RemoveAt(s, p), Append(t, h))
  BY <1>2, <1>7, <1>8, <1>10 DEF PlanInv
<1>12. LimitsInv(rest, Append(t, h))
  <2>1. Held(Append(t, h)) = Held(t) + (IF DeclaresGPU(h) THEN 1 ELSE 0)
    BY <1>1, <1>2, HeldAppend
  <2>2. /\ Held(t) \in Nat /\ Held(rest) \in Nat /\ Held(planned) \in Nat /\ Len(t) \in Nat
        /\ Config.maxConcurrent \in Nat /\ Config.maxGPU \in Nat
    BY <1>1, <1>2, HeldType, LenProperties, ConfigTypes
  <2>3. Len(t) + l <= Config.maxConcurrent /\ Held(t) + Held(planned) <= Config.maxGPU
    BY DEF LimitsInv, l
  <2>4. Len(Append(t, h)) + Len(rest) <= Config.maxConcurrent
    BY <1>2, <1>10, <2>2, <2>3
  <2>5. Held(Append(t, h)) + Held(rest) <= Config.maxGPU
    BY <1>2, <2>1, <2>2, <2>3
  <2> QED
    BY <2>4, <2>5 DEF LimitsInv
<1> QED
  BY <1>4, <1>5, <1>11, <1>12 DEF p, h, rest

\* What a call returns can be launched, although the queues have moved on since it
\* read them.
LEMMA ChoiceKept ==
    ASSUME NEW queue \in Seq(Runtimes), NEW running \in Seq(Runtimes), NEW at,
           NEW s \in Seq(Runtimes), NEW t \in Seq(Runtimes), NEW planned \in Seq(Runtimes),
           Picks(at, planned, queue, running), FitLimits(planned, running),
           Continues(s, queue), Thins(t, running), NamesDistinct(t), LimitsInv(<<>>, t)
    PROVE  PlanInv(planned, s, t) /\ LimitsInv(planned, t)
<1> DEFINE l == Len(planned)
           n == Len(queue)
<1>1. /\ l \in Nat /\ n \in Nat /\ Len(s) \in Nat /\ Len(t) \in Nat /\ Len(running) \in Nat
      /\ DOMAIN running = 1..Len(running)
  BY LenProperties
<1>2. /\ at \in [1..l -> 1..n]
      /\ \A i, j \in 1..l : at[i] = at[j] => i = j
      /\ \A m \in 1..l :
             /\ planned[m] = queue[at[m]] /\ Name(queue[at[m]]) \notin Names(running)
             /\ \A k \in 1..(at[m] - 1) : Name(queue[k]) # Name(queue[at[m]])
  BY DEF Picks, OneToOne
<1> HIDE DEF l, n
<1>3. \A m \in 1..l : at[m] \in 1..n
  BY <1>2
<1>4. ASSUME NEW m \in 1..l PROVE FirstNamed(s, planned[m])
  <2>1. at[m] \in 1..n /\ queue[at[m]] = planned[m]
        /\ \A k \in 1..(at[m] - 1) : Name(queue[k]) # Name(planned[m])
    BY <1>2, <1>3
  <2>2. FirstNamed(queue, planned[m])
    BY <2>1 DEF FirstNamed, n
  <2> QED
    BY <2>2, FirstStays
<1>5. NamesDistinct(planned)
  <2>1. ASSUME NEW i \in 1..l, NEW j \in 1..l, Name(planned[i]) = Name(planned[j]) PROVE i = j
    <3>1. at[i] \in 1..n /\ at[j] \in 1..n /\ Name(queue[at[i]]) = Name(queue[at[j]])
      BY <1>2, <1>3, <2>1
    <3>2. ~(at[i] < at[j])
      <4>1. ASSUME at[i] < at[j] PROVE FALSE
        <5>1. at[i] \in 1..(at[j] - 1)
          <6>1. at[i] \in Nat /\ at[i] >= 1 /\ at[j] \in Nat
            BY <1>1, <3>1
          <6> QED
            BY <4>1, <6>1
        <5> QED
          BY <1>2, <3>1, <5>1
      <4> QED
        BY <4>1
    <3>3. ~(at[j] < at[i])
      <4>1. ASSUME at[j] < at[i] PROVE FALSE
        <5>1. at[j] \in 1..(at[i] - 1)
          BY <1>1, <3>1, <4>1
        <5> QED
          BY <1>2, <3>1, <5>1
      <4> QED
        BY <4>1
    <3>4. at[i] = at[j]
      BY <1>1, <3>1, <3>2, <3>3
    <3> QED
      BY <1>2, <3>4
  <2> QED
    BY <2>1 DEF NamesDistinct, l
<1>6. NamesApart(planned, t)
  <2>1. PICK f \in [1..Len(t) -> 1..Len(running)] : \A i \in 1..Len(t) : t[i] = running[f[i]]
    BY DEF Thins
  <2>2. \A i \in 1..Len(t) : f[i] \in 1..Len(running) /\ Name(t[i]) = Name(running[f[i]])
    BY <2>1
  <2>3. \A i \in 1..Len(t) : Name(t[i]) \in Names(running)
    BY <1>1, <2>2 DEF Names
  <2> QED
    BY <1>2, <2>3 DEF NamesApart, l
<1>7. LimitsInv(planned, t)
  <2>1. /\ Held(t) \in Nat /\ Held(planned) \in Nat /\ Held(running) \in Nat
        /\ Config.maxConcurrent \in Nat /\ Config.maxGPU \in Nat
    BY HeldType, ConfigTypes
  <2>2. Len(t) <= Len(running) /\ Held(t) <= Held(running)
    BY ThinnedKeeps DEF Thins
  <2>3. Len(t) + 0 <= Config.maxConcurrent /\ Held(t) <= Config.maxGPU
    <3>1. <<>> \in Seq(Runtimes) /\ Len(<<>>) = 0
      OBVIOUS
    <3>2. Held(<<>>) \in Nat
      BY <3>1, HeldType
    <3> QED
      BY <2>1, <3>1, <3>2 DEF LimitsInv
  <2>4. l # 0 => planned # <<>>
    BY DEF l
  <2>5. Len(t) + l <= Config.maxConcurrent
    BY <1>1, <2>1, <2>2, <2>3, <2>4 DEF FitLimits, l
  <2>6. Held(t) + Held(planned) <= Config.maxGPU
    BY <2>1, <2>2, <2>3 DEF FitLimits
  <2> QED
    BY <2>5, <2>6 DEF LimitsInv, l
<1> QED
  BY <1>4, <1>5, <1>6, <1>7 DEF PlanInv, l

\* An unrivalled runtime in one of two queues of distinct pointers is not rejectable.
LEMMA RejectionsKept ==
    ASSUME NEW queue, NEW running, QueuesInv(queue, running), NEW pointers, NEW decision,
           Tells(decision, pointers, queue, running)
    PROVE  RejectsOnlyRivals(decision)
<1> SUFFICES ASSUME NEW i \in DOMAIN decision.candidates,
                    decision.candidates[i].outcome = "rejected",
                    NEW r \in Runtimes, Unrivalled(r),
                    Identity(r) = decision.candidates[i].id
             PROVE  FALSE
  BY DEF RejectsOnlyRivals
<1>1. PICK k \in 1..Len(queue) :
          Identity(r) = Identity(queue[k]) /\ Rejectable(queue, running, k)
  BY DEF Tells
<1>2. /\ queue \in Seq(Runtimes) /\ running \in Seq(Runtimes)
      /\ Distinct(queue) /\ Apart(queue, running)
  BY DEF QueuesInv
<1>3. /\ DOMAIN running = 1..Len(running) /\ Len(queue) \in Nat
      /\ \A j \in 1..Len(queue) : queue[j] \in Runtimes
      /\ \A j \in 1..Len(running) : running[j] \in Runtimes
  BY <1>2, QueueEntries
<1>4. \A s \in Runtimes : Name(s) = Name(r) \/ Identity(s) = Identity(r) => s = r
  BY DEF Unrivalled
<1>5. queue[k] = r /\ WellFormed(queue[k])
  BY <1>1, <1>3, <1>4 DEF Unrivalled
<1>6. \A j \in 1..Len(running) : running[j] # r
  BY <1>2, <1>5 DEF Apart
<1>7. \A j \in 1..(k - 1) : j \in 1..Len(queue) /\ queue[j] # r
  <2>1. \A j \in 1..(k - 1) : j \in 1..Len(queue) /\ j # k
    BY <1>3
  <2> QED
    BY <1>2, <1>5, <2>1 DEF Distinct
<1>8. Identity(r) \notin Identities(running) /\ Name(r) \notin Names(running)
  BY <1>3, <1>4, <1>6 DEF Identities, Names
<1>9. /\ Names(Before(queue, k)) = {Name(queue[j]) : j \in 1..(k - 1)}
       /\ Identities(Before(queue, k)) = {Identity(queue[j]) : j \in 1..(k - 1)}
  BY <1>2, EntriesBefore
<1>10. Identity(r) \notin Identities(Before(queue, k)) /\ Name(r) \notin Names(Before(queue, k))
  BY <1>3, <1>4, <1>7, <1>9
<1> QED
  BY <1>1, <1>5, <1>8, <1>10 DEF Rejectable

-----------------------------------------------------------------------------
(* Every step keeps the invariant.                                           *)

\* The first observations that a call works with are in the past.
LEMMA ObservedPast ==
    ASSUME AgesInRange, NEW ids
    PROVE  \A id \in ids : /\ Observed(clock, ids)[id] \in Int
                           /\ Observed(clock, ids)[id] <= clock
<1>1. clock \in Int
  BY DEF AgesInRange
<1>2. \A id \in DOMAIN firstSeen : firstSeen[id] \in Int
  BY BoundsAssumption DEF AgesInRange
<1>3. \A id \in ids : Observed(clock, ids)[id] =
          IF id \notin DOMAIN firstSeen THEN clock
          ELSE IF firstSeen[id] > clock THEN clock ELSE firstSeen[id]
  BY DEF Observed
<1> QED
  BY <1>1, <1>2, <1>3

LEMMA AgesRemembered ==
    ASSUME AgesInRange, NEW ids, RememberAges(clock, ids), clock' = clock
    PROVE  AgesInRange'
<1> DEFINE kept == Remembered(clock, ids)
<1>1. kept \subseteq DOMAIN firstSeen \cup ids
  BY DEF Remembered, AgesInRange
<1>2. /\ firstSeen' = [id \in kept |-> Observed(clock, ids)[id]]
      /\ lastObserved' = [id \in kept |-> IF id \in ids THEN clock ELSE lastObserved[id]]
  BY DEF RememberAges, Restrict
<1> HIDE DEF kept
<1>3. \A id \in kept :
          firstSeen'[id] = IF id \notin ids THEN firstSeen[id]
                           ELSE IF id \notin DOMAIN firstSeen THEN clock
                           ELSE IF firstSeen[id] > clock THEN clock
                           ELSE firstSeen[id]
  BY <1>1, <1>2 DEF Observed
<1> QED
  BY <1>1, <1>2, <1>3 DEF AgesInRange

\* The steps of the queues that are neither a decision nor a launch.
LEMMA QueueStepKeeps ==
    ASSUME SchedulerInv, NEW r \in Runtimes, Push(r) \/ Complete(r) \/ Requeue(r)
    PROVE  SchedulerInv'
<1>1. /\ QueuesInv(ready, scheduled) /\ AgesInRange
      /\ ready \in Seq(Runtimes) /\ scheduled \in Seq(Runtimes) /\ plan \in Seq(Runtimes)
  BY DEF SchedulerInv, QueuesInv, PlanInv
<1>2. UNCHANGED policyVars /\ call' = call /\ clock' = clock
  BY DEF Push, Complete, Requeue
<1>3. DOMAIN ready = 1..Len(ready) /\ DOMAIN scheduled = 1..Len(scheduled)
  BY <1>1, LenProperties
<1>4. Thins(scheduled, scheduled) /\ Continues(ready, ready)
  BY <1>1, ThinsItself, LenProperties DEF Continues
<1>5. r \in ToSet(scheduled) =>
          PopPosition(scheduled, Name(r)) \in 1..Len(scheduled)
  <2>1. ASSUME r \in ToSet(scheduled) PROVE \E i \in 1..Len(scheduled) : Name(scheduled[i]) = Name(r)
    BY <1>3, <2>1 DEF ToSet
  <2> QED
    BY <1>1, <2>1, PopFirst
<1>6. /\ QueuesInv(ready', scheduled')
      /\ Continues(ready', ready) /\ Thins(scheduled', scheduled)
  <2>1. CASE Push(r)
    <3>1. ready' = Append(ready, r) /\ scheduled' = scheduled
          /\ r \notin ToSet(ready) \cup ToSet(scheduled)
      BY <2>1 DEF Push
    <3>2. (\A i \in 1..Len(ready) : ready[i] # r) /\ \A i \in 1..Len(scheduled) : scheduled[i] # r
      BY <1>3, <3>1 DEF ToSet
    <3>3. Continues(Append(ready, r), ready)
      BY <1>1, AppendKeeps
    <3> QED
      BY <1>1, <1>4, <3>1, <3>2, <3>3, QueuesKept
  <2>2. CASE Complete(r)
    <3> DEFINE p == PopPosition(scheduled, Name(r))
    <3>1. ready' = ready /\ scheduled' = RemoveAt(scheduled, p) /\ p \in 1..Len(scheduled)
      BY <1>5, <2>2 DEF Complete
    <3> HIDE DEF p
    <3>2. Thins(RemoveAt(scheduled, p), scheduled)
      BY <1>1, <3>1, RemovalThins
    <3>3. QueuesInv(ready, RemoveAt(scheduled, p))
      BY <1>1, <3>1, QueuesKept
    <3> QED
      BY <1>4, <3>1, <3>2, <3>3
  <2>3. CASE Requeue(r)
    <3> DEFINE p == PopPosition(scheduled, Name(r))
    <3>1. /\ ready' = Append(ready, scheduled[p]) /\ scheduled' = RemoveAt(scheduled, p)
          /\ p \in 1..Len(scheduled)
      BY <1>5, <2>3 DEF Requeue
    <3> HIDE DEF p
    <3>2. Thins(RemoveAt(scheduled, p), scheduled)
      BY <1>1, <3>1, RemovalThins
    <3>3. QueuesInv(Append(ready, scheduled[p]), RemoveAt(scheduled, p))
      BY <1>1, <3>1, QueuesKept
    <3>4. Continues(Append(ready, scheduled[p]), ready)
      BY <1>1, <3>1, ElementOfSeq, AppendKeeps
    <3> QED
      BY <3>1, <3>2, <3>3, <3>4
  <2> QED
    BY <2>1, <2>2, <2>3
<1>7. ready' \in Seq(Runtimes) /\ scheduled' \in Seq(Runtimes)
  BY <1>6 DEF QueuesInv
<1>8. /\ call # Nil => CallInv(call, plan, ready', scheduled')
      /\ PlanInv(plan, ready', scheduled') /\ LimitsInv(plan, scheduled')
  BY <1>1, <1>6, <1>7, OthersKept DEF SchedulerInv
<1>9. AgesInRange' /\ RejectsOnlyRivals(lastDecision')
  BY <1>1, <1>2 DEF AgesInRange, SchedulerInv, policyVars
<1> QED
  BY <1>2, <1>6, <1>8, <1>9 DEF SchedulerInv, policyVars

\* The snapshots are what the queues hold.
LEMMA SnapshotKeeps ==
    ASSUME SchedulerInv, SnapshotQueues
    PROVE  SchedulerInv'
<1>1. /\ QueuesInv(ready, scheduled)
      /\ ready \in Seq(Runtimes) /\ scheduled \in Seq(Runtimes)
  BY DEF SchedulerInv, QueuesInv
<1>2. /\ plan = <<>> /\ call' = [ready |-> ready, running |-> scheduled]
      /\ UNCHANGED <<firstSeen, lastObserved, lastDecision, plan, ready, scheduled, clock>>
  BY DEF SnapshotQueues, policyVars
<1>3. Thins(scheduled, scheduled) /\ Continues(ready, ready)
  BY <1>1, ThinsItself, LenProperties DEF Continues
<1>4. CallInv(call', plan, ready, scheduled)
  BY <1>1, <1>2, <1>3 DEF CallInv
<1>5. AgesInRange'
  BY <1>2 DEF AgesInRange, SchedulerInv
<1> QED
  BY <1>2, <1>4, <1>5 DEF SchedulerInv

\* What a call returns and reports, whichever way it decided.
LEMMA CallDecides ==
    ASSUME SchedulerInv, NEW available \in Capacities, DecideCall(available)
    PROVE  /\ plan' \in Seq(Runtimes)
           /\ \E at : Picks(at, plan', call.ready, call.running)
           /\ FitLimits(plan', call.running)
           /\ RejectsOnlyRivals(lastDecision')
           /\ Identities(plan') = IDs(lastDecision'.selected)
           /\ Identities(plan') =
                  {c.id : c \in {d \in ToSet(lastDecision'.candidates) : d.outcome = "selected"}}
           /\ Config.failOpen => Len(lastDecision'.candidates) = Len(call.ready)
<1> DEFINE queue   == call.ready
           running == call.running
           ids     == Identities(queue) \cup Identities(running)
           seen    == Observed(clock, ids)
<1>1. /\ call # Nil /\ QueuesInv(queue, running) /\ AgesInRange
      /\ queue \in Seq(Runtimes) /\ running \in Seq(Runtimes)
  BY DEF SchedulerInv, CallInv, QueuesInv, DecideCall
<1>2. \/ ~NoDecision(clock, available) /\ ByEngine(clock, queue, running, available, seen)
      \/ NoDecision(clock, available) /\ Config.failOpen /\ ByFallback(clock, queue, running, seen)
      \/ NoDecision(clock, available) /\ ~Config.failOpen /\ FailClosed(clock)
  BY DEF DecideCall, SelectBestPlugins
<1>3. \A id \in ids : seen[id] \in Int /\ seen[id] <= clock
  BY <1>1, ObservedPast
<1>4. clock \in Int /\ available \in {Malformed} \cup [cpu : Nat, memory : Nat]
  BY <1>1, CapacitiesAssumption DEF AgesInRange
<1> HIDE DEF queue, running, seen
<1>5. CASE \E pointers, decision : /\ plan' = pointers /\ lastDecision' = decision
                                   /\ pointers \in Seq(Runtimes)
                                   /\ \E at : Picks(at, pointers, queue, running)
                                   /\ FitLimits(pointers, running)
                                   /\ Tells(decision, pointers, queue, running)
  <2>1. /\ plan' \in Seq(Runtimes) /\ \E at : Picks(at, plan', queue, running)
        /\ FitLimits(plan', running) /\ Tells(lastDecision', plan', queue, running)
    BY <1>5
  <2>2. RejectsOnlyRivals(lastDecision')
    BY <1>1, <2>1, RejectionsKept
  <2> QED
    BY <2>1, <2>2 DEF Tells, queue, running
<1>6. CASE ~NoDecision(clock, available) /\ ByEngine(clock, queue, running, available, seen)
  <2> DEFINE decision == Decide(EngineSnapshot(clock, queue, running, available, seen))
             pointers == [i \in DOMAIN decision.selected |-> FirstOf(queue, decision.selected[i].id)]
             news == Relabelled(decision, CollisionIDs(queue, running))
  <2>1. plan' = pointers /\ lastDecision' = news
    BY <1>6 DEF ByEngine
  <2>2. Arguments(clock, queue, running, available, seen)
    BY <1>1, <1>3, <1>4 DEF Arguments
  <2>3. Config.enforceFit => available # Malformed
    BY <1>6 DEF NoDecision
  <2>4. /\ pointers \in Seq(Runtimes) /\ \E at : Picks(at, pointers, queue, running)
        /\ FitLimits(pointers, running) /\ Tells(news, pointers, queue, running)
    BY <2>2, <2>3, EngineChoice
  <2> HIDE DEF pointers, news
  <2> QED
    BY <1>5, <2>1, <2>4
<1>7. CASE ByFallback(clock, queue, running, seen)
  <2> DEFINE result == Fallback(queue, running)
             news == FallbackDecision(clock, result, seen)
  <2>1. plan' = result.selected /\ lastDecision' = news
    BY <1>7 DEF ByFallback
  <2>2. /\ result.selected \in Seq(Runtimes) /\ \E at : Picks(at, result.selected, queue, running)
        /\ FitLimits(result.selected, running) /\ Tells(news, result.selected, queue, running)
    BY <1>1, FallbackChoice
  <2> HIDE DEF result, news
  <2> QED
    BY <1>5, <2>1, <2>2
<1>8. CASE ~Config.failOpen /\ FailClosed(clock)
  <2>1. plan' = <<>> /\ lastDecision'.selected = <<>> /\ lastDecision'.candidates = <<>>
    BY <1>8 DEF FailClosed, EmptyDecision
  <2>2. /\ <<>> \in Seq(Runtimes) /\ Len(<<>>) = 0 /\ 1..0 = {} /\ DOMAIN <<>> = {}
    OBVIOUS
  <2>3. Identities(<<>>) = {} /\ IDs(<<>>) = {} /\ ToSet(<<>>) = {} /\ Held(<<>>) = 0
    BY <2>2, FS_EmptySet DEF Identities, IDs, ToSet, Held
  <2>4. \E at : Picks(at, <<>>, queue, running)
    <3>1. Picks([m \in 1..0 |-> m], <<>>, queue, running)
      BY <2>2 DEF Picks, OneToOne
    <3> QED
      BY <3>1
  <2>5. FitLimits(<<>>, running)
    BY <2>3 DEF FitLimits
  <2>6. RejectsOnlyRivals(lastDecision')
    BY <2>1, <2>2 DEF RejectsOnlyRivals
  <2> QED
    BY <1>8, <2>1, <2>2, <2>3, <2>4, <2>5, <2>6 DEF queue, running
<1> QED
  BY <1>2, <1>6, <1>7, <1>8

LEMMA DecideKeeps ==
    ASSUME SchedulerInv, NEW available \in Capacities, DecideCall(available)
    PROVE  SchedulerInv'
<1>1. /\ call # Nil /\ call' = Nil /\ UNCHANGED <<ready, scheduled, clock>>
      /\ RememberAges(clock, Identities(call.ready) \cup Identities(call.running))
  BY DEF DecideCall, SelectBestPlugins
<1>2. /\ plan = <<>> /\ QueuesInv(call.ready, call.running) /\ QueuesInv(ready, scheduled)
      /\ Continues(ready, call.ready) /\ Thins(scheduled, call.running)
      /\ NamesDistinct(scheduled) /\ LimitsInv(<<>>, scheduled) /\ AgesInRange
  BY <1>1 DEF SchedulerInv, CallInv, PlanInv
<1>3. /\ call.ready \in Seq(Runtimes) /\ call.running \in Seq(Runtimes)
      /\ ready \in Seq(Runtimes) /\ scheduled \in Seq(Runtimes)
  BY <1>2 DEF QueuesInv
<1>4. PICK at : /\ plan' \in Seq(Runtimes) /\ Picks(at, plan', call.ready, call.running)
                /\ FitLimits(plan', call.running) /\ RejectsOnlyRivals(lastDecision')
  BY CallDecides
<1>5. PlanInv(plan', ready, scheduled) /\ LimitsInv(plan', scheduled)
  BY <1>2, <1>3, <1>4, ChoiceKept
<1>6. AgesInRange'
  BY <1>1, <1>2, AgesRemembered
<1> QED
  BY <1>1, <1>2, <1>4, <1>5, <1>6 DEF SchedulerInv

LEMMA LaunchKeeps ==
    ASSUME SchedulerInv, Launch
    PROVE  SchedulerInv'
<1> DEFINE p == PopPosition(ready, Name(Head(plan)))
<1>1. /\ plan # <<>> /\ QueuesInv(ready, scheduled) /\ call = Nil
      /\ PlanInv(plan, ready, scheduled) /\ LimitsInv(plan, scheduled)
      /\ AgesInRange /\ RejectsOnlyRivals(lastDecision)
  BY DEF Launch, SchedulerInv, CallInv
<1>2. /\ p \in 1..Len(ready) /\ p # 0
      /\ PlanInv(Tail(plan), RemoveAt(ready, p), Append(scheduled, ready[p]))
      /\ LimitsInv(Tail(plan), Append(scheduled, ready[p]))
  BY <1>1, LaunchKept
<1>3. /\ plan' = Tail(plan)
      /\ ready' = RemoveAt(ready, p) /\ scheduled' = Append(scheduled, ready[p])
      /\ UNCHANGED <<firstSeen, lastObserved, lastDecision, call, clock>>
  BY <1>2 DEF Launch
<1> HIDE DEF p
<1>4. QueuesInv(RemoveAt(ready, p), Append(scheduled, ready[p]))
  BY <1>1, <1>2, QueuesKept
<1>5. AgesInRange'
  BY <1>1, <1>3 DEF AgesInRange
<1> QED
  BY <1>1, <1>2, <1>3, <1>4, <1>5 DEF SchedulerInv

LEMMA ClockKeeps ==
    ASSUME SchedulerInv, Tick \/ StepBack
    PROVE  SchedulerInv'
<1>1. UNCHANGED <<firstSeen, lastObserved, lastDecision, plan, ready, scheduled, call>>
  BY DEF Tick, StepBack, policyVars
<1>2. clock' \in 1..MaxTime
  BY BoundsAssumption DEF Tick, StepBack, SchedulerInv, AgesInRange
<1>3. AgesInRange'
  BY <1>1, <1>2 DEF AgesInRange, SchedulerInv
<1> QED
  BY <1>1, <1>3 DEF SchedulerInv

LEMMA SchedulerInvInductive == SchedulerInv /\ [Next]_vars => SchedulerInv'
<1> SUFFICES ASSUME SchedulerInv, [Next]_vars PROVE SchedulerInv'
  OBVIOUS
<1>1. CASE \E r \in Runtimes : Push(r) \/ Complete(r) \/ Requeue(r)
  BY <1>1, QueueStepKeeps
<1>2. CASE SnapshotQueues
  BY <1>2, SnapshotKeeps
<1>3. CASE \E available \in Capacities : DecideCall(available)
  BY <1>3, DecideKeeps
<1>4. CASE Launch
  BY <1>4, LaunchKeeps
<1>5. CASE Tick \/ StepBack
  BY <1>5, ClockKeeps
<1>6. CASE UNCHANGED vars
  <2>1. UNCHANGED <<firstSeen, lastObserved, lastDecision, plan, ready, scheduled, call, clock>>
    BY <1>6 DEF vars
  <2>2. AgesInRange'
    BY <2>1 DEF AgesInRange, SchedulerInv
  <2> QED
    BY <2>1, <2>2 DEF SchedulerInv
<1> QED
  BY <1>1, <1>2, <1>3, <1>4, <1>5, <1>6 DEF Next

LEMMA SchedulerInvInitially == Init => SchedulerInv
<1> SUFFICES ASSUME Init PROVE SchedulerInv
  OBVIOUS
<1>1. /\ ready = <<>> /\ scheduled = <<>> /\ plan = <<>> /\ call = Nil /\ clock = 1
      /\ firstSeen = <<>> /\ lastObserved = <<>> /\ lastDecision.candidates = <<>>
  BY DEF Init, PolicyInit, EmptyDecision
<1>2. /\ <<>> \in Seq(Runtimes) /\ Len(<<>>) = 0 /\ 1..0 = {} /\ DOMAIN <<>> = {}
  OBVIOUS
<1>3. Held(<<>>) = 0
  BY <1>2, FS_EmptySet DEF Held
<1>4. AgesInRange
  BY <1>1, <1>2, BoundsAssumption DEF AgesInRange
<1>5. QueuesInv(<<>>, <<>>)
  BY <1>2 DEF QueuesInv, Distinct, Apart
<1>6. PlanInv(<<>>, <<>>, <<>>)
  BY <1>2 DEF PlanInv, NamesDistinct, NamesApart
<1>7. LimitsInv(<<>>, <<>>)
  BY <1>2, <1>3, ConfigTypes DEF LimitsInv
<1>8. RejectsOnlyRivals(lastDecision)
  BY <1>1, <1>2 DEF RejectsOnlyRivals
<1> QED
  BY <1>1, <1>4, <1>5, <1>6, <1>7, <1>8 DEF SchedulerInv

LEMMA SchedulerSafe == Spec => []SchedulerInv
  BY SchedulerInvInitially, SchedulerInvInductive, PTL DEF Spec

-----------------------------------------------------------------------------
(* What the adapter promises.                                                *)

\* As many names as entries.
LEMMA NamesCounted ==
    ASSUME NEW queue \in Seq(Runtimes), NamesDistinct(queue)
    PROVE  Cardinality(Names(queue)) = Len(queue)
<1> DEFINE n == Len(queue)
           f == [i \in 1..n |-> Name(queue[i])]
<1>1. n \in Nat /\ DOMAIN queue = 1..n
  BY LenProperties
<1>2. DOMAIN f = 1..n /\ \A i \in 1..n : f[i] = Name(queue[i])
  OBVIOUS
<1>3. OneToOne(f, n)
  BY DEF NamesDistinct, OneToOne
<1>4. Names(queue) = {f[i] : i \in 1..n}
  BY <1>1, <1>2 DEF Names
<1> HIDE DEF f, n
<1>5. Cardinality({f[i] : i \in 1..n}) = n
  BY <1>1, <1>2, <1>3, CountedOnce
<1> QED
  BY <1>4, <1>5 DEF n

\* At all times the queues hold each pointer once, the plan holds pointers, and the
\* ages lie within the clock's range, kept for the same identities.
THEOREM QueuesTyped == Spec => []TypeOK
<1>1. ASSUME SchedulerInv PROVE TypeOK
  <2>1. /\ QueuesInv(ready, scheduled) /\ AgesInRange /\ plan \in Seq(Runtimes)
        /\ call # Nil => CallInv(call, plan, ready, scheduled)
    BY <1>1 DEF SchedulerInv, PlanInv
  <2>2. /\ ready \in Seq(Runtimes) /\ scheduled \in Seq(Runtimes)
        /\ Distinct(ready) /\ Distinct(scheduled) /\ Apart(ready, scheduled)
    BY <2>1 DEF QueuesInv
  <2>3. IsInjective(ready \o scheduled)
    <3> DEFINE m == Len(ready)
               n == Len(scheduled)
               both == ready \o scheduled
    <3>1. m \in Nat /\ n \in Nat
      BY <2>2, LenProperties
    <3>2. /\ both \in Seq(Runtimes) /\ Len(both) = m + n
          /\ \A i \in 1..(m + n) : both[i] = IF i <= m THEN ready[i] ELSE scheduled[i - m]
      BY <2>2, ConcatProperties
    <3>3. DOMAIN both = 1..(m + n)
      BY <3>2, LenProperties
    <3> HIDE DEF both, m, n
    <3>4. ASSUME NEW i \in 1..(m + n), NEW j \in 1..(m + n), both[i] = both[j] PROVE i = j
      <4>1. CASE i <= m /\ j <= m
        <5>1. i \in 1..m /\ j \in 1..m /\ ready[i] = ready[j]
          BY <3>1, <3>2, <3>4, <4>1
        <5> QED
          BY <2>2, <5>1 DEF Distinct, m
      <4>2. CASE i <= m /\ ~(j <= m)
        <5>1. i \in 1..m /\ j - m \in 1..n /\ ready[i] = scheduled[j - m]
          BY <3>1, <3>2, <3>4, <4>2
        <5> QED
          BY <2>2, <5>1 DEF Apart, m, n
      <4>3. CASE ~(i <= m) /\ j <= m
        <5>1. j \in 1..m /\ i - m \in 1..n /\ ready[j] = scheduled[i - m]
          BY <3>1, <3>2, <3>4, <4>3
        <5> QED
          BY <2>2, <5>1 DEF Apart, m, n
      <4>4. CASE ~(i <= m) /\ ~(j <= m)
        <5>1. i - m \in 1..n /\ j - m \in 1..n /\ scheduled[i - m] = scheduled[j - m]
          BY <3>1, <3>2, <3>4, <4>4
        <5>2. i - m = j - m
          BY <2>2, <5>1 DEF Distinct, n
        <5> QED
          BY <3>1, <5>2
      <4> QED
        BY <4>1, <4>2, <4>3, <4>4
    <3> QED
      BY <3>3, <3>4 DEF IsInjective, both
  <2>4. /\ clock \in 1..MaxTime /\ DOMAIN firstSeen = DOMAIN lastObserved
        /\ \A id \in DOMAIN firstSeen : {firstSeen[id], lastObserved[id]} \subseteq 1..MaxTime
    BY <2>1 DEF AgesInRange
  <2>5. call # Nil => call.ready \in Seq(Runtimes) /\ call.running \in Seq(Runtimes)
    BY <2>1 DEF CallInv, QueuesInv
  <2> QED
    BY <2>1, <2>2, <2>3, <2>4, <2>5 DEF TypeOK
<1> QED
  BY <1>1, SchedulerSafe, PTL

\* Waggle's loop, which pops by name, runs the very runtimes the policy selected.
THEOREM SelectedAreLaunched == Spec => []LaunchesWhatWasSelected
<1>1. ASSUME SchedulerInv PROVE LaunchesWhatWasSelected
  <2>1. /\ QueuesInv(ready, scheduled) /\ PlanInv(plan, ready, scheduled)
    BY <1>1 DEF SchedulerInv
  <2>2. /\ ready \in Seq(Runtimes) /\ scheduled \in Seq(Runtimes) /\ plan \in Seq(Runtimes)
        /\ \A i \in 1..Len(plan) : FirstNamed(ready, plan[i])
        /\ NamesDistinct(plan) /\ NamesApart(plan, scheduled)
    BY <2>1 DEF QueuesInv, PlanInv
  <2>3. DOMAIN plan = 1..Len(plan) /\ DOMAIN scheduled = 1..Len(scheduled)
        /\ Len(ready) \in Nat
    BY <2>2, LenProperties
  <2>4. ASSUME NEW i \in DOMAIN plan
        PROVE  LET p == PopPosition(ready, Name(plan[i]))
               IN  p # 0 /\ ready[p] = plan[i]
    <3> DEFINE p == PopPosition(ready, Name(plan[i]))
    <3>1. p \in 1..Len(ready) /\ ready[p] = plan[i]
      BY <2>2, <2>3, PopFindsFirst
    <3> HIDE DEF p
    <3>2. p # 0
      BY <3>1
    <3> QED
      BY <3>1, <3>2 DEF p
  <2>5. Cardinality(Names(plan)) = Len(plan)
    BY <2>2, NamesCounted
  <2>6. Names(plan) \cap Names(scheduled) = {}
    BY <2>2, <2>3 DEF Names, NamesApart
  <2> QED
    BY <2>4, <2>5, <2>6 DEF LaunchesWhatWasSelected
<1> QED
  BY <1>1, SchedulerSafe, PTL

\* No two active runtimes have one name, so a pop by name removes the right one.
THEOREM ActiveNamesUnique == Spec => []ScheduledNamesUnique
<1>1. ASSUME SchedulerInv PROVE ScheduledNamesUnique
  BY <1>1, NamesCounted DEF SchedulerInv, PlanInv, QueuesInv, ScheduledNamesUnique
<1> QED
  BY <1>1, SchedulerSafe, PTL

\* Both limits hold over what runs and what is about to run, across calls by the
\* engine and by the fallback, for any queues and whatever is pushed in between.
THEOREM ActiveWithinLimits == Spec => []LimitsHold
<1>1. ASSUME SchedulerInv PROVE LimitsHold
  <2>1. /\ scheduled \in Seq(Runtimes) /\ plan \in Seq(Runtimes) /\ LimitsInv(plan, scheduled)
    BY <1>1 DEF SchedulerInv, QueuesInv, PlanInv
  <2> DEFINE active == scheduled \o plan
  <2>2. active \in Seq(Runtimes) /\ Len(active) = Len(scheduled) + Len(plan)
    BY <2>1, ConcatProperties
  <2>3. Held(active) <= Held(scheduled) + Held(plan)
    BY <2>1, HeldTogether
  <2>4. /\ Held(active) \in Nat /\ Held(scheduled) \in Nat /\ Held(plan) \in Nat
        /\ Config.maxGPU \in Nat
    BY <2>1, <2>2, HeldType, ConfigTypes
  <2> HIDE DEF active
  <2>5. Len(active) <= Config.maxConcurrent /\ Held(active) <= Config.maxGPU
    BY <2>1, <2>2, <2>3, <2>4 DEF LimitsInv
  <2> QED
    BY <2>5 DEF LimitsHold, Held, active
<1> QED
  BY <1>1, SchedulerSafe, PTL

\* A well-formed runtime without a rival is never rejected, wherever the clock is
\* corrected to and however the decision was reached.
THEOREM WellFormedSafe == Spec => []WellFormedNeverRejected
<1>1. ASSUME SchedulerInv PROVE WellFormedNeverRejected
  <2>1. RejectsOnlyRivals(lastDecision)
    BY <1>1 DEF SchedulerInv
  <2>2. ASSUME NEW r \in Runtimes, Unrivalled(r) PROVE "rejected" \notin Verdicts(Identity(r))
    BY <2>1, <2>2 DEF RejectsOnlyRivals, Verdicts
  <2> QED
    BY <2>2 DEF WellFormedNeverRejected
<1> QED
  BY <1>1, SchedulerSafe, PTL

\* What one step may report.
ExplainStep ==
    call # Nil /\ call' = Nil =>
        /\ Identities(plan') = IDs(lastDecision'.selected)
        /\ Identities(plan') =
               {c.id : c \in {d \in ToSet(lastDecision'.candidates) : d.outcome = "selected"}}
        /\ Config.failOpen => Len(lastDecision'.candidates) = Len(call.ready)

\* LastDecision names exactly what the call returned, and with the fallback on it
\* has a word on every entry of the queue the call read.
THEOREM ReturnsExplained == Spec => DecisionExplained
<1>1. SchedulerInv /\ [Next]_vars => [ExplainStep]_vars
  <2> SUFFICES ASSUME SchedulerInv, Next, call # Nil, call' = Nil PROVE ExplainStep
    BY DEF ExplainStep
  <2>1. PICK available \in Capacities : DecideCall(available)
    BY DEF Next, Push, Complete, Requeue, SnapshotQueues, Launch, Tick, StepBack, policyVars
  <2> QED
    BY <2>1, CallDecides DEF ExplainStep
<1> QED
  BY <1>1, SchedulerSafe, PTL DEF Spec, DecisionExplained, ExplainStep

=============================================================================
