------------------------------- MODULE Chaos -------------------------------
(***************************************************************************)
(* RunExperiment of pkg/chaos: one baseline snapshot is decided upon, then *)
(* again after each of a list of small perturbations, and the selections   *)
(* are compared.                                                           *)
(*                                                                         *)
(* Every perturbation is to start from the snapshot the caller gave, yet   *)
(* apply writes the tasks and the capacity in place: what keeps the runs   *)
(* apart is what cloneSnapshot copies.  baseline is therefore the caller's *)
(* object, which changes if a write reaches a part that was not copied.    *)
(* Names are naturals, 0 being "".                                         *)
(***************************************************************************)
EXTENDS PolicyEngine

CONSTANT Experiments   \* the experiments: a baseline and its perturbations

EmptyName == 0

Deltas == {"priority", "enqueued", "deadline", "estimated", "latency", "success"}

\* A success rate may change by Nil, which stands for NaN and the infinities.
Perturbation == [name      : Nat,
                 task      : Nat,
                 priority  : Int,
                 enqueued  : Durations,
                 deadline  : Durations,
                 estimated : Durations,
                 latency   : Durations,
                 success   : Int \cup {Nil},
                 available : Resources \cup {Nil}]

ASSUME ExperimentsAssumption ==
    Experiments \subseteq [baseline : Snapshot, perturbations : Seq(Perturbation)]

VARIABLES
    experiment,   \* the experiment as the caller made it
    phase,        \* what RunExperiment is doing
    baseline,     \* the caller's baseline snapshot, as it is now
    working,      \* the snapshot being perturbed, Nil if none
    report        \* the decision upon the baseline and the runs so far

vars == <<experiment, phase, baseline, working, report>>

NoReport == [baseline |-> Nil, runs |-> <<>>]

Init ==
    /\ experiment \in Experiments
    /\ phase = "baseline"
    /\ baseline = experiment.baseline
    /\ working = Nil
    /\ report = NoReport

-----------------------------------------------------------------------------
(* Perturbing a snapshot.                                                    *)

\* Mutant of ClonedParts: cloneSnapshot leaves the pointer to the capacity as it is.
ClonedPartsSharingCapacity == {"ready", "running"}

\* The parts of a snapshot that cloneSnapshot copies.  The pointers in a task, which
\* cloneTask copies, count with "ready": apply replaces them and writes through none.
ClonedParts == {"ready", "running", "available"}

TaskChange(p) == \E field \in Deltas : p[field] # 0

Matches(snapshot, p) == {i \in DOMAIN snapshot.ready : snapshot.ready[i].id = p.task}

\* Mutant of Plus: the width of a Duration is forgotten.
PlusUnbounded(left, right) == left + right

\* The sum of two Durations wraps around like that of two int64.
Plus(left, right) == Minus(left, Minus(0, right))

\* Mutant of Moved: an absent value is moved from zero.
MovedFromZero(value, unset, default, delta) ==
    IF delta = 0 THEN value ELSE IF value = unset THEN delta ELSE value + delta

\* A value moved by a delta, from its default if it is unset.
Moved(value, unset, default, delta) ==
    IF delta = 0 THEN value ELSE IF value = unset THEN default + delta ELSE value + delta

\* Mutant of MovedDuration: an unset duration is moved from zero.
MovedDurationFromZero(value, default, delta) == IF delta = 0 THEN value ELSE Plus(value, delta)

MovedDuration(value, default, delta) ==
    IF delta = 0 THEN value ELSE Plus(OrWhenZero(value, default), delta)

\* A ready task that the perturbation names.  Priorities, and the resources below, are
\* added without a width: their int and int64 sums are taken not to overflow.
Shifted(at, task, p) ==
    [task EXCEPT !.priority  = Moved(@, Nil, Config.defaultPriority, p.priority),
                 !.enqueued  = Moved(@, ZeroTime, at, p.enqueued),
                 !.estimated = MovedDuration(@, Config.defaultEstimated, p.estimated),
                 !.deadline  = IF @ = Nil THEN Nil ELSE @ + p.deadline,
                 !.latency   = MovedDuration(@, Config.defaultLatency, p.latency),
                 !.success   = Moved(@, Nil, Config.defaultSuccess, p.success)]

PlusResources(available, delta) ==
    [cpu    |-> available.cpu + delta.cpu,
     memory |-> available.memory + delta.memory,
     gpus   |-> available.gpus + delta.gpus]

\* apply fails: a rate that is not finite, a task that is not named, one without the
\* deadline to be moved, no or several tasks of that ID, or no capacity to change.
PerturbationError(snapshot, p) ==
    \/ p.success = Nil
    \/ TaskChange(p) /\ p.task = EmptyID
    \/ p.deadline # 0 /\ \E i \in Matches(snapshot, p) : snapshot.ready[i].deadline = Nil
    \/ TaskChange(p) /\ Cardinality(Matches(snapshot, p)) # 1
    \/ p.available # Nil /\ snapshot.available = Nil

\* apply, when it does not fail.
Perturbed(snapshot, p) ==
    [snapshot EXCEPT
        !.ready = [i \in DOMAIN @ |->
                      IF i \in Matches(snapshot, p) THEN Shifted(snapshot.at, @[i], p) ELSE @[i]],
        !.available = IF p.available = Nil THEN @ ELSE PlusResources(@, p.available)]

-----------------------------------------------------------------------------
(* Comparing two selections.                                                 *)

SelectedIDs(decision) == IDs(decision.selected)

\* Mutant of Distance: the selections are compared with the baseline's alone.
DistanceFromLeft(left, right) ==
    [common |-> Cardinality(left \cap right), all |-> Cardinality(left)]

\* jaccardDistance is 1 - common / all, and 0 if there are none at all.
Distance(left, right) ==
    [common |-> Cardinality(left \cap right), all |-> Cardinality(left \cup right)]

Positive(distance) == distance.common < distance.all

\* The report's entry for one perturbation.
Run(first, p, decision) ==
    LET distance == Distance(SelectedIDs(first), SelectedIDs(decision))
    IN  [name |-> p.name, changed |-> Positive(distance), distance |-> distance,
         decision |-> decision]

-----------------------------------------------------------------------------

\* Mutant of Fail: the runs so far are returned with the error.
FailKeepingRuns == /\ phase' = "failed"
                   /\ UNCHANGED <<experiment, baseline, working, report>>

\* return Report{}, err
Fail == /\ phase' = "failed"
        /\ report' = NoReport
        /\ UNCHANGED <<experiment, baseline, working>>

DecideBaseline ==
    /\ phase = "baseline"
    /\ IF InputError(baseline) THEN Fail
       ELSE /\ phase' = "perturbing"
            /\ report' = [report EXCEPT !.baseline = Decide(baseline)]
            /\ UNCHANGED <<experiment, baseline, working>>

Names(perturbations) == {perturbations[i].name : i \in DOMAIN perturbations}

\* The next perturbation, if its name is new, is applied to a clone of the baseline.
Perturb ==
    /\ phase = "perturbing"
    /\ Len(report.runs) < Len(experiment.perturbations)
    /\ LET p == experiment.perturbations[Len(report.runs) + 1]
           Seen == Names(SubSeq(experiment.perturbations, 1, Len(report.runs)))
           result == Perturbed(baseline, p)
       IN  IF \/ p.name = EmptyName \/ p.name \in Seen
              \/ PerturbationError(baseline, p)
           THEN Fail
           ELSE /\ phase' = "deciding"
                /\ working' = result
                /\ baseline' = [baseline EXCEPT
                       !.ready     = IF "ready" \in ClonedParts THEN @ ELSE result.ready,
                       !.available = IF "available" \in ClonedParts THEN @ ELSE result.available]
                /\ UNCHANGED <<experiment, report>>

DecideRun ==
    /\ phase = "deciding"
    /\ IF InputError(working) THEN Fail
       ELSE LET p == experiment.perturbations[Len(report.runs) + 1]
            IN  /\ phase' = "perturbing"
                /\ working' = Nil
                /\ report' = [report EXCEPT !.runs = Append(@, Run(report.baseline, p, Decide(working)))]
                /\ UNCHANGED <<experiment, baseline>>

Finish ==
    /\ phase = "perturbing"
    /\ Len(report.runs) = Len(experiment.perturbations)
    /\ phase' = "done"
    /\ UNCHANGED <<experiment, baseline, working, report>>

Next == DecideBaseline \/ Perturb \/ DecideRun \/ Finish

Spec == Init /\ [][Next]_vars

-----------------------------------------------------------------------------
(* What an experiment promises.                                              *)

\* Every variable keeps its type: a snapshot is in the works only while it is
\* decided upon, and there are never more runs than perturbations.
TypeOK ==
    /\ experiment \in Experiments
    /\ phase \in {"baseline", "perturbing", "deciding", "done", "failed"}
    /\ baseline \in Snapshot
    /\ phase \notin {"deciding", "failed"} => working = Nil
    /\ working = Nil \/ working \in Snapshot
    /\ Len(report.runs) <= Len(experiment.perturbations)

\* "Controlled perturbations of the same initial scheduling state": every run is
\* the decision upon the caller's snapshot with that one perturbation, whatever
\* perturbations came before it, and the caller's snapshot is left as it was.
RunsIndependent ==
    /\ baseline = experiment.baseline
    /\ phase \notin {"baseline", "failed"} => report.baseline = Decide(experiment.baseline)
    /\ \A i \in DOMAIN report.runs :
           LET p == experiment.perturbations[i]
           IN  /\ report.runs[i].name = p.name
               /\ report.runs[i].decision = Decide(Perturbed(experiment.baseline, p))

\* RunExperiment reports all of the runs, under distinct names, or an error and
\* nothing of the runs made before it.
AllOrNothing ==
    /\ phase = "failed" => report = NoReport
    /\ phase = "done" => Len(report.runs) = Len(experiment.perturbations)
    /\ \A i, j \in DOMAIN report.runs : report.runs[i].name = report.runs[j].name => i = j

\* "A distance of 0 means the selection is unchanged; a distance of 1 means the two
\* selections are disjoint": a run is reported as changed exactly when some task
\* was selected on one side only.
ChangeReported ==
    \A i \in DOMAIN report.runs :
        LET run  == report.runs[i]
            now  == SelectedIDs(run.decision)
            then == SelectedIDs(report.baseline)
        IN  /\ run.changed <=> now # then
            /\ run.distance.common = run.distance.all => now = then
            /\ run.distance.common = 0 => now \cap then = {}

\* A delta moves what the engine makes of a task by just that much, whether the
\* task sets the field or the engine has a default for it.  A time or a duration that
\* is moved to exactly zero is unset, so that the engine takes its default again.
DeltasCount ==
    phase = "deciding" =>
        LET p == experiment.perturbations[Len(report.runs) + 1]
            Seen(snapshot, i) == Normalized(snapshot.at, snapshot.ready[i])
        IN  \A i \in Matches(experiment.baseline, p) :
                LET was == Seen(experiment.baseline, i)
                    is  == Seen(working, i)
                IN  /\ is.priority = was.priority + p.priority
                    /\ working.ready[i].enqueued # ZeroTime =>
                           is.enqueued = was.enqueued + p.enqueued
                    /\ SuccessRate(is) = SuccessRate(was) + p.success
                    /\ is.deadline # Nil => is.deadline = was.deadline + p.deadline
                    /\ working.ready[i].estimated # 0 =>
                           is.estimated = Plus(was.estimated, p.estimated)
                    /\ working.ready[i].latency # 0 /\ is.deadline = Nil =>
                           is.latency = Plus(was.latency, p.latency)

\* The perturbation makes its task no less urgent, and no other change.
MoreUrgent(p) ==
    /\ p.available = Nil
    /\ p.priority >= 0 /\ p.success >= 0 /\ p.estimated >= 0
    /\ p.enqueued <= 0 /\ p.deadline <= 0 /\ p.latency <= 0

\* The deadline is not so long past that deadline.Sub(now) - estimated wraps to a
\* huge positive slack.
Countable(at, task) ==
    Or(task.deadline, task.enqueued + task.latency) - at - task.estimated >= -(MaxDuration + 1)

\* The task was not moved out of what the engine accepts, nor back to a default (an
\* arrival moved to exactly the zero time becomes now),
\* nor its deadline out of what the engine can count back to.
StillSound(p, snapshot, decision) ==
    /\ \A i \in Matches(snapshot, p) :
           /\ p.latency # 0 => snapshot.ready[i].latency # 0
           /\ p.enqueued # 0 => snapshot.ready[i].enqueued # ZeroTime
           /\ Countable(snapshot.at, Normalized(snapshot.at, snapshot.ready[i]))
    /\ \A c \in ToSet(decision.candidates) : c.id = p.task => c.outcome # "rejected"

\* The sensitivities have the right sign: a selected task that only becomes more
\* important, more reliable, older, longer or due earlier stays selected, whatever
\* it competes with.
MoreUrgentStaysSelected ==
    \A i \in DOMAIN report.runs :
        LET p        == experiment.perturbations[i]
            decision == report.runs[i].decision
        IN  /\ MoreUrgent(p) /\ p.task \in SelectedIDs(report.baseline)
            /\ StillSound(p, Perturbed(experiment.baseline, p), decision)
            => p.task \in SelectedIDs(decision)

=============================================================================
