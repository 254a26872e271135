----------------------------- MODULE SagePolicy -----------------------------
(***************************************************************************)
(* The SAGE adapter (integrations/sage/adapter): Policy.SelectBestPlugins, *)
(* which turns Waggle's two queues into a snapshot for the decision engine *)
(* and the engine's selection back into pointers of the ready queue, with  *)
(* the bookkeeping of ages it does on the way and its fail-open fallback.  *)
(*                                                                         *)
(* A PluginRuntime pointer is a member of Runtimes; Plugin[r] is what the  *)
(* adapter reads through it.  Environment hints and each Kubernetes        *)
(* quantity are represented by what parsing them yields.                   *)
(***************************************************************************)
EXTENDS PolicyEngine

CONSTANTS
    Runtimes,   \* the PluginRuntime pointers
    Plugin,     \* what each points to
    Malformed,  \* hints, a quantity or a capacity that do not parse
    Retention   \* stateRetention

Hints == [priority : 0..100, latency : 1..MaxDuration, estimated : 1..MaxDuration,
          deadline : Nat \cup {Nil}, success : (0..100) \cup {Nil}]

\* The quantities a plugin may declare; Nil: not declared.
Quantities == [{"requestCPU", "limitCPU", "requestMemory", "limitMemory", "limitGPU",
                "nvidiaGPU"} -> Int \cup {Nil, Malformed}]

\* name: Plugin.Name; id: runtimeIdentity; metadataOK: validateRuntimeMetadata
\* passes; selector: IsGPURequired; hints: Nil if none is set.
PluginRuntime == [name       : STRING,
                  id         : Nat \ {EmptyID},
                  hasSpec    : BOOLEAN,
                  metadataOK : BOOLEAN,
                  selector   : BOOLEAN,
                  hints      : Hints \cup {Nil, Malformed},
                  quantities : Quantities]

\* The four parts of an identity are joined by "/".  Valid metadata holds no "/",
\* so no other four parts join to the identity of such a runtime.
ASSUME PluginAssumption ==
    /\ Plugin \in [Runtimes -> PluginRuntime]
    /\ \A r, s \in Runtimes :
           Plugin[r].id = Plugin[s].id /\ Plugin[r].metadataOK =>
               Plugin[r].name = Plugin[s].name /\ Plugin[s].metadataOK
ASSUME RetentionAssumption == Retention \in Nat \ {0}

VARIABLES
    firstSeen,     \* identity -> time of its first observation
    lastObserved,  \* identity -> time of its last observation
    lastDecision,  \* what LastDecision() reports
    plan           \* the pointers SelectBestPlugins returned and Waggle has not popped yet

policyVars == <<firstSeen, lastObserved, lastDecision, plan>>

Name(r)     == Plugin[r].name
Identity(r) == Plugin[r].id

Names(queue)      == {Name(queue[i]) : i \in DOMAIN queue}
Identities(queue) == {Identity(queue[i]) : i \in DOMAIN queue}
Before(queue, i)  == SubSeq(queue, 1, i - 1)

-----------------------------------------------------------------------------
(* toTask and invalidTask.                                                   *)

\* parseHints: the environment counts only when the operator trusts it.
DefaultHints == [priority  |-> Config.defaultPriority,  latency |-> Config.defaultLatency,
                 estimated |-> Config.defaultEstimated, deadline |-> Nil, success |-> Nil]

ParsedHints(r) == IF Config.trustHints THEN Or(Plugin[r].hints, DefaultHints) ELSE DefaultHints

Exceeds(request, limit) == request # Nil /\ limit # Nil /\ request > limit

\* parseResourceQuantities: no negative quantity, no request above its limit,
\* and one number of GPUs under both names.
QuantitiesParse(q) ==
    /\ \A key \in DOMAIN q : q[key] # Malformed /\ (q[key] # Nil => q[key] >= 0)
    /\ ~Exceeds(q.requestCPU, q.limitCPU) /\ ~Exceeds(q.requestMemory, q.limitMemory)
    /\ q.limitGPU # Nil /\ q.nvidiaGPU # Nil => q.limitGPU = q.nvidiaGPU

\* What is requested, else what it is limited to.
RequestedResources(q) ==
    [cpu    |-> Or(q.requestCPU, Or(q.limitCPU, 0)),
     memory |-> Or(q.requestMemory, Or(q.limitMemory, 0)),
     gpus   |-> Or(q.limitGPU, Or(q.nvidiaGPU, 0))]

\* requiresGPU of the adapter: a GPU quantity that does not parse counts as one.
DeclaresGPU(r) ==
    /\ Plugin[r].hasSpec
    /\ \/ Plugin[r].selector
       \/ \E q \in {Plugin[r].quantities.limitGPU, Plugin[r].quantities.nvidiaGPU} :
              q = Malformed \/ (q # Nil /\ q > 0)

\* The errors of toTask: no spec, bad metadata, bad hints, bad resources.
WellFormed(r) ==
    /\ Plugin[r].hasSpec /\ Plugin[r].metadataOK
    /\ ParsedHints(r) # Malformed
    /\ QuantitiesParse(Plugin[r].quantities)

\* Mutant of Observed: a first observation in the future is kept.
ObservedInFuture(now, ids) ==
    [id \in DOMAIN firstSeen \cup ids |-> IF id \in DOMAIN firstSeen THEN firstSeen[id] ELSE now]

\* The first observation is kept, unless the clock has moved back behind it.
Observed(now, ids) ==
    [id \in DOMAIN firstSeen \cup ids |->
        IF id \notin ids THEN firstSeen[id]
        ELSE IF id \notin DOMAIN firstSeen THEN now
        ELSE IF firstSeen[id] > now THEN now
        ELSE firstSeen[id]]

ToTask(r, seen) ==
    LET hints == ParsedHints(r)
    IN  [id        |-> Identity(r),
         priority  |-> hints.priority,
         enqueued  |-> seen[Identity(r)],
         estimated |-> hints.estimated,
         latency   |-> hints.latency,
         deadline  |-> hints.deadline,
         gpu       |-> DeclaresGPU(r),
         success   |-> hints.success,
         resources |-> RequestedResources(Plugin[r].quantities)]

\* A priority the engine rejects.
InvalidTask(r, seen) ==
    [id |-> Identity(r), priority |-> -1, enqueued |-> seen[Identity(r)], estimated |-> 0,
     latency |-> 0, deadline |-> Nil, gpu |-> FALSE, success |-> Nil, resources |-> NoResources]

\* A malformed active runtime still holds the GPU it declares.
RunningTask(r, seen) ==
    IF WellFormed(r) THEN ToTask(r, seen)
    ELSE [InvalidTask(r, seen) EXCEPT !.gpu = DeclaresGPU(r)]

-----------------------------------------------------------------------------
(* The decision by the engine.                                               *)

\* Mutants of Collides: only one of the two queues is looked at.
CollidesWithScheduled(ready, running, i) == Name(ready[i]) \in Names(running)

CollidesWithEarlier(ready, running, i) ==
    /\ Name(ready[i]) \in Names(Before(ready, i))
    /\ Identity(ready[i]) \notin Identities(Before(ready, i))

\* Mutant of Collides: homonyms wait for each other.
CollidesWithAny(ready, running, i) ==
    Name(ready[i]) \in Names(running) \cup {Name(ready[j]) : j \in DOMAIN ready \ {i}}

\* Waggle pops by name, so a runtime must not be selected while another of its
\* name is scheduled or ahead of it; one with its own identity is left to the
\* engine, which rejects duplicates.
Collides(ready, running, i) ==
    /\ Name(ready[i]) \in Names(running) \cup Names(Before(ready, i))
    /\ Identity(ready[i]) \notin Identities(Before(ready, i))

\* Mutant of CollisionIDs: the first of the homonyms is marked too.
CollisionIDsOfAll(ready, running) ==
    {Identity(ready[i]) : i \in {j \in DOMAIN ready :
        \E k \in DOMAIN ready \ {j} : Name(ready[k]) = Name(ready[j])}}

CollisionIDs(ready, running) ==
    {Identity(ready[i]) : i \in {j \in DOMAIN ready : Collides(ready, running, j)}}

ReadyTask(ready, running, i, seen) ==
    IF WellFormed(ready[i]) /\ ~Collides(ready, running, i)
    THEN ToTask(ready[i], seen)
    ELSE InvalidTask(ready[i], seen)

\* Waggle reports no GPUs: the configured limit stands in for them.
AvailableResources(available) ==
    [cpu |-> available.cpu, memory |-> available.memory, gpus |-> Config.maxGPU]

EngineSnapshot(now, ready, running, available, seen) ==
    [at        |-> now,
     ready     |-> [i \in DOMAIN ready |-> ReadyTask(ready, running, i, seen)],
     running   |-> [i \in DOMAIN running |-> RunningTask(running[i], seen)],
     available |-> IF Config.enforceFit THEN AvailableResources(available) ELSE Nil]

Explained(id, outcome, reason) == [id |-> id, outcome |-> outcome, reason |-> reason]

\* What LastDecision tells of an engine decision, homonyms relabelled.
Relabelled(decision, collisions) ==
    [at         |-> decision.at,
     selected   |-> decision.selected,
     candidates |-> [i \in DOMAIN decision.candidates |->
                        LET c == decision.candidates[i]
                        IN  IF c.id \in collisions
                            THEN Explained(c.id, "deferred", "sage_queue_name_collision")
                            ELSE Explained(c.id, c.outcome, c.reason)]]

\* byID keeps the first pointer of an identity.
FirstOf(ready, id) == ready[CHOOSE i \in DOMAIN ready :
                               /\ Identity(ready[i]) = id
                               /\ id \notin Identities(Before(ready, i))]

-----------------------------------------------------------------------------
(* The fail-open fallback: queue order, within the limits.                   *)

\* Mutant of FallbackVerdict: what already runs holds no slot.
FallbackVerdictForgettingRunning(ready, running, i, selected) ==
    IF Name(ready[i]) \in Names(running) \cup Names(Before(ready, i)) \/ ~WellFormed(ready[i])
    THEN <<"rejected", "invalid_task">>
    ELSE IF Len(selected) >= Config.maxConcurrent THEN <<"deferred", "concurrency_limit">>
    ELSE <<"selected", "fail_open_fallback">>

\* Why fallback does not select ready[i], given what it selected before it.
FallbackVerdict(ready, running, i, selected) ==
    LET r       == ready[i]
        blocked == Name(r) \in Names(running) \cup Names(Before(ready, i))
        known   == Identity(r) \in Identities(running) \cup Identities(Before(ready, i))
        gpus    == Cardinality({k \in DOMAIN running : DeclaresGPU(running[k])})
                     + Cardinality({k \in DOMAIN selected : DeclaresGPU(selected[k])})
    IN  IF blocked /\ ~known THEN <<"deferred", "sage_queue_name_collision">>
        ELSE IF known \/ ~WellFormed(r) THEN <<"rejected", "invalid_task">>
        ELSE IF Len(selected) >= Config.maxConcurrent - Len(running)
             THEN <<"deferred", "concurrency_limit">>
        ELSE IF DeclaresGPU(r) /\ gpus >= Config.maxGPU THEN <<"deferred", "gpu_capacity">>
        ELSE <<"selected", "fail_open_fallback">>

\* acc = [selected, candidates] after ready[1..i-1].
FallbackTurn(ready, running, acc, i) ==
    LET verdict == FallbackVerdict(ready, running, i, acc.selected)
    IN  [selected   |-> IF verdict[1] = "selected" THEN Append(acc.selected, ready[i])
                                                   ELSE acc.selected,
         candidates |-> Append(acc.candidates,
                               Explained(Identity(ready[i]), verdict[1], verdict[2]))]

Fallback(ready, running) ==
    FoldLeftDomain(LAMBDA acc, i : FallbackTurn(ready, running, acc, i),
                   [selected |-> <<>>, candidates |-> <<>>], ready)

FallbackDecision(now, result, seen) ==
    [at         |-> now,
     selected   |-> [i \in DOMAIN result.selected |-> ToTask(result.selected[i], seen)],
     candidates |-> StableSort(LAMBDA c, d : c.id < d.id, result.candidates)]

-----------------------------------------------------------------------------
(* SelectBestPlugins.                                                        *)

EmptyDecision(now) == [at |-> now, selected |-> <<>>, candidates |-> <<>>]

\* Mutant of Remembered: the retention counts from the first observation.
RememberedByAge(now, ids) ==
    {id \in DOMAIN firstSeen \cup ids : now - Observed(now, ids)[id] < Retention}

\* cleanupState forgets what no queue has held for the retention period.
Remembered(now, ids) ==
    {id \in DOMAIN lastObserved \cup ids :
        id \in ids \/ now - lastObserved[id] < Retention}

\* Mutant of RememberAges: cleanupState deletes only the last observation.
RememberAgesLeaking(now, ids) ==
    /\ firstSeen'    = Observed(now, ids)
    /\ lastObserved' = [id \in Remembered(now, ids) |->
                            IF id \in ids THEN now ELSE lastObserved[id]]

\* toTask's bookkeeping for everything in the two queues, then cleanupState.
RememberAges(now, ids) ==
    /\ firstSeen'    = Restrict(Observed(now, ids), Remembered(now, ids))
    /\ lastObserved' = [id \in Remembered(now, ids) |->
                            IF id \in ids THEN now ELSE lastObserved[id]]

ByEngine(now, ready, running, available, seen) ==
    LET decision == Decide(EngineSnapshot(now, ready, running, available, seen))
    IN  /\ lastDecision' = Relabelled(decision, CollisionIDs(ready, running))
        /\ plan' = [i \in DOMAIN decision.selected |-> FirstOf(ready, decision.selected[i].id)]

ByFallback(now, ready, running, seen) ==
    LET result == Fallback(ready, running)
    IN  /\ lastDecision' = FallbackDecision(now, result, seen)
        /\ plan' = result.selected

FailClosed(now) ==
    /\ lastDecision' = EmptyDecision(now)
    /\ plan' = <<>>

\* No decision by the engine: the capacity does not parse (it is read only when
\* resources are enforced), or the engine refuses the snapshot.
NoDecision(now, available) ==
    \/ Config.enforceFit /\ available = Malformed
    \/ now = ZeroTime

\* One call, under the policy's mutex, on the two snapshots it took.
SelectBestPlugins(now, ready, running, available) ==
    LET ids  == Identities(ready) \cup Identities(running)
        seen == Observed(now, ids)
    IN  /\ RememberAges(now, ids)
        /\ \/ ~NoDecision(now, available) /\ ByEngine(now, ready, running, available, seen)
           \/ NoDecision(now, available) /\ Config.failOpen /\ ByFallback(now, ready, running, seen)
           \/ NoDecision(now, available) /\ ~Config.failOpen /\ FailClosed(now)

PolicyInit ==
    /\ firstSeen = <<>> /\ lastObserved = <<>>
    /\ lastDecision = EmptyDecision(ZeroTime)
    /\ plan = <<>>

=============================================================================
