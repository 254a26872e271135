---------------------------- MODULE NodeScheduler ----------------------------
(***************************************************************************)
(* The SAGE policy inside Waggle's NodeScheduler.  The queues and the      *)
(* scheduling loop are Waggle's, outside this repository; they are         *)
(* modelled from what the adapter, its tests and docs rely on: the ready   *)
(* queue grows at its end, from other goroutines too; the loop calls the   *)
(* policy, then for each pointer it returned pops the ready queue and      *)
(* pushes what it popped to the scheduled queue; and Queue.Pop removes the *)
(* first entry with the same Plugin.Name, whatever pointer it is given.    *)
(***************************************************************************)
EXTENDS SagePolicy

CONSTANTS
    Capacities,  \* the values the available resource may have, Malformed among them
    MaxTime,     \* bound on the clock
    MaxReady     \* bound on the length of the ready queue

\* parseNonNegativeQuantity accepts no negative capacity.
ASSUME CapacitiesAssumption == Capacities \subseteq {Malformed} \cup [cpu : Nat, memory : Nat]
ASSUME BoundsAssumption     == MaxTime \in Nat \ {0} /\ MaxReady \in Nat

VARIABLES
    ready,      \* Waggle's readyQueue
    scheduled,  \* Waggle's scheduledQueue
    call,       \* the two snapshots a running SelectBestPlugins has taken, or Nil
    clock       \* the node's wall clock

vars == <<firstSeen, lastObserved, lastDecision, plan, ready, scheduled, call, clock>>

Init ==
    /\ PolicyInit
    /\ ready = <<>> /\ scheduled = <<>>
    /\ call = Nil
    /\ clock = 1

\* Queue.Pop: the position of the first entry of that name; 0 if there is none.
PopPosition(queue, name) == SelectInSeq(queue, LAMBDA r : Name(r) = name)

\* A science rule, or the REST API from its own goroutine, submits a runtime.
Push(r) ==
    /\ Len(ready) < MaxReady
    /\ r \notin ToSet(ready) \cup ToSet(scheduled)
    /\ ready' = Append(ready, r)
    /\ UNCHANGED <<policyVars, scheduled, call, clock>>

\* SelectBestPlugins reads the queues; later pushes are not seen by this call.
SnapshotQueues ==
    /\ call = Nil /\ plan = <<>>
    /\ call' = [ready |-> ready, running |-> scheduled]
    /\ UNCHANGED <<policyVars, ready, scheduled, clock>>

DecideCall(available) ==
    /\ call # Nil
    /\ SelectBestPlugins(clock, call.ready, call.running, available)
    /\ call' = Nil
    /\ UNCHANGED <<ready, scheduled, clock>>

\* The loop pops what has the name of the next selected runtime, and runs it.
Launch ==
    /\ plan # <<>>
    /\ plan' = Tail(plan)
    /\ LET i == PopPosition(ready, Name(Head(plan)))
       IN  IF i = 0 THEN UNCHANGED <<ready, scheduled>>
           ELSE /\ scheduled' = Append(scheduled, ready[i])
                /\ ready' = RemoveAt(ready, i)
    /\ UNCHANGED <<firstSeen, lastObserved, lastDecision, call, clock>>

\* A Pod ends: its runtime is popped from the scheduled queue, by name.  It may never
\* end, and one whose creation failed may never be popped at all.
Complete(r) ==
    /\ r \in ToSet(scheduled)
    /\ scheduled' = RemoveAt(scheduled, PopPosition(scheduled, Name(r)))
    /\ UNCHANGED <<policyVars, ready, call, clock>>

\* A Pod fails to start and its runtime goes back to the ready queue.
Requeue(r) ==
    /\ r \in ToSet(scheduled)
    /\ Len(ready) < MaxReady
    /\ LET i == PopPosition(scheduled, Name(r))
       IN  /\ ready' = Append(ready, scheduled[i])
           /\ scheduled' = RemoveAt(scheduled, i)
    /\ UNCHANGED <<policyVars, call, clock>>

Tick ==
    /\ clock < MaxTime
    /\ clock' = clock + 1
    /\ UNCHANGED <<policyVars, ready, scheduled, call>>

\* NTP or RTC correction moves the wall clock back.
StepBack ==
    /\ \E t \in 1..(clock - 1) : clock' = t
    /\ UNCHANGED <<policyVars, ready, scheduled, call>>

Next ==
    \/ \E r \in Runtimes : Push(r) \/ Complete(r) \/ Requeue(r)
    \/ SnapshotQueues
    \/ \E available \in Capacities : DecideCall(available)
    \/ Launch
    \/ Tick \/ StepBack

Spec == Init /\ [][Next]_vars

\* The call of SelectBestPlugins that is under way returns: any DecideCall.
Returns == call # Nil /\ call' = Nil

\* Waggle's loop never stops.  Nothing is assumed of submissions, of the capacity a
\* call is offered, or of Pods: the pinned commit does not always take a runtime whose
\* creation failed back from the scheduled queue (docs/sage-integration.md, 180-184).
Fairness ==
    /\ WF_vars(SnapshotQueues)
    /\ WF_call(Returns)
    /\ WF_vars(Launch)

FairSpec == Spec /\ Fairness

-----------------------------------------------------------------------------
(* What the adapter promises.                                                *)

\* The queues hold each pointer once, and the ages and the last observations
\* are kept for the same identities.
TypeOK ==
    /\ ready \in Seq(Runtimes) /\ scheduled \in Seq(Runtimes) /\ plan \in Seq(Runtimes)
    /\ IsInjective(ready \o scheduled)
    /\ clock \in 1..MaxTime
    /\ DOMAIN firstSeen = DOMAIN lastObserved
    /\ \A id \in DOMAIN firstSeen : {firstSeen[id], lastObserved[id]} \subseteq 1..MaxTime
    /\ call # Nil => call.ready \in Seq(Runtimes) /\ call.running \in Seq(Runtimes)

\* Waggle's loop runs the very runtimes the policy selected although it pops by
\* name: each pointer still to be launched is the first of its name in the
\* ready queue, no other planned one shares the name, and none scheduled does.
LaunchesWhatWasSelected ==
    /\ \A i \in DOMAIN plan :
           LET p == PopPosition(ready, Name(plan[i]))
           IN  p # 0 /\ ready[p] = plan[i]
    /\ Cardinality(Names(plan)) = Len(plan)
    /\ Names(plan) \cap Names(scheduled) = {}

\* Never two active runtimes of one name, so that Complete and Requeue, which
\* pop by name too, remove the runtime they mean.
ScheduledNamesUnique == Cardinality(Names(scheduled)) = Len(scheduled)

\* The limits hold over what runs and what is about to be launched, across
\* successive calls, engine or fallback, whatever was pushed between them.
LimitsHold ==
    LET active == scheduled \o plan
    IN  /\ Len(active) <= Config.maxConcurrent
        /\ Cardinality({i \in DOMAIN active : DeclaresGPU(active[i])}) <= Config.maxGPU

\* A runtime is well-formed and alone: nothing else has its name or identity.
Unrivalled(r) ==
    /\ WellFormed(r)
    /\ \A s \in Runtimes \ {r} : Name(s) # Name(r) /\ Identity(s) # Identity(r)

\* What the last decision says of an identity.
Verdicts(id) ==
    LET of == {i \in DOMAIN lastDecision.candidates : lastDecision.candidates[i].id = id}
    IN  {lastDecision.candidates[i].outcome : i \in of}

\* A well-formed runtime is never rejected, whatever the clock did since it was
\* first seen (TestBackwardClockCorrectionDoesNotRejectQueuedTask) and however
\* the decision was reached.
WellFormedNeverRejected ==
    \A r \in Runtimes : Unrivalled(r) => "rejected" \notin Verdicts(Identity(r))

\* LastDecision explains what was returned: the task of every pointer the call
\* selects is reported as selected, and nothing else is.
DecisionExplained ==
    [][call # Nil /\ call' = Nil =>
        /\ Identities(plan') = IDs(lastDecision'.selected)
        /\ Identities(plan') =
               {c.id : c \in {d \in ToSet(lastDecision'.candidates) : d.outcome = "selected"}}
        /\ Config.failOpen => Len(lastDecision'.candidates) = Len(call.ready)]_vars

\* While an identity stays in a queue its age is never lost: the policy forgets
\* only identities that were in neither queue when it looked, and never moves a
\* first observation later.
AgeKept ==
    [][\A id \in DOMAIN firstSeen :
        IF id \in DOMAIN firstSeen'
        THEN firstSeen'[id] <= firstSeen[id]
        ELSE /\ call # Nil
             /\ id \notin Identities(call.ready) \cup Identities(call.running)
             /\ clock - firstSeen[id] >= Retention]_vars

\* What the queues alone give as a reason for r to wait: a runtime of its name that is
\* active or was submitted before it, or a limit that what is active has used up.
HeldBack(r) ==
    \/ Name(r) \in Names(scheduled)
    \/ \E i \in DOMAIN ready : ready[i] = r /\ Name(r) \in Names(Before(ready, i))
    \/ Len(scheduled) >= Config.maxConcurrent
    \/ /\ DeclaresGPU(r)
       /\ Cardinality({i \in DOMAIN scheduled : DeclaresGPU(scheduled[i])}) >= Config.maxGPU

\* A call offered this capacity has no other reason to defer r: the fallback looks at
\* neither capacity nor reliability, the engine wants r to fit and to be reliable.
Serves(available, r) ==
    IF Config.enforceFit /\ available = Malformed THEN Config.failOpen
    ELSE /\ Or(ParsedHints(r).success, Config.defaultSuccess) >= Config.minimumSuccess
         /\ Config.enforceFit => Fits(AvailableResources(available),
                                     RequestedResources(Plugin[r].quantities))

\* A call that sees r and could serve it returns.
ServiceableCall(r) ==
    /\ call # Nil /\ r \in ToSet(call.ready)
    /\ \E available \in Capacities : Serves(available, r) /\ DecideCall(available)

\* Nothing waits for ever without a reason.  Once nothing is submitted or requeued any
\* more, a well-formed runtime that calls could serve again and again is in the end
\* launched, or held back for good by what stands in the queues: homonyms never wait
\* for each other, and no slot stays free while a runtime waits for one, whether the
\* engine decides or the fallback.
NoIdleWait ==
    <>[][Len(ready') <= Len(ready)]_vars =>
        \A r \in Runtimes :
            WellFormed(r) /\ []<><<ServiceableCall(r)>>_vars =>
                <>[](r \in ToSet(ready) => HeldBack(r))

=============================================================================
