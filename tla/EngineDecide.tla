---------------------------- MODULE EngineDecide ----------------------------
(***************************************************************************)
(* One call of Engine.Decide as the loop program it is: the loop that      *)
(* ranks and screens the ready tasks, the insertion sort, the admission    *)
(* loop, the final report.  The snapshot is any member of Snapshots.       *)
(***************************************************************************)
EXTENDS PolicyEngine

CONSTANT Snapshots  \* the snapshots Decide may be called with

ASSUME SnapshotsAssumption == Snapshots \subseteq Snapshot

VARIABLES
    phase,     \* where the call is
    snapshot,  \* its argument
    ranked,    \* the slice of ranked candidates, in input order
    sorted,    \* its sorted prefix, then the whole slice in rank order
    budget,    \* slots, runningGPU and available
    next,      \* index of the running loop
    selected,  \* decision.Selected
    report     \* decision.Candidates

vars == <<phase, snapshot, ranked, sorted, budget, next, selected, report>>

Ready == snapshot.ready

Init ==
    /\ phase = "called"
    /\ snapshot \in Snapshots
    /\ ranked = <<>> /\ sorted = <<>>
    /\ budget = [slots |-> 0, gpuInUse |-> 0, available |-> NoResources]
    /\ next = 1
    /\ selected = <<>>
    /\ report = <<>>

CheckInput ==
    /\ phase = "called"
    /\ phase' = IF InputError(snapshot) THEN "failed" ELSE "rank"
    /\ UNCHANGED <<snapshot, ranked, sorted, budget, next, selected, report>>

RankNext ==
    /\ phase = "rank" /\ next <= Len(Ready)
    /\ ranked' = Append(ranked,
                        Screen(snapshot, {Ready[j].id : j \in 1..(next - 1)}, Ready[next]))
    /\ next' = next + 1
    /\ UNCHANGED <<phase, snapshot, sorted, budget, selected, report>>

EndRank ==
    /\ phase = "rank" /\ next > Len(Ready)
    /\ phase' = "sort" /\ next' = 1
    /\ UNCHANGED <<snapshot, ranked, sorted, budget, selected, report>>

\* The insertion sort moves the next candidate into the sorted prefix.
InsertNext ==
    /\ phase = "sort" /\ next <= Len(ranked)
    /\ sorted' = InsertAt(sorted, InsertPosition(Ahead, sorted, ranked[next]), ranked[next])
    /\ next' = next + 1
    /\ UNCHANGED <<phase, snapshot, ranked, budget, selected, report>>

EndSort ==
    /\ phase = "sort" /\ next > Len(ranked)
    /\ phase' = "admit" /\ next' = 1
    /\ budget' = InitialBudget(snapshot)
    /\ UNCHANGED <<snapshot, ranked, sorted, selected, report>>

\* The admission loop: a candidate screened out earlier keeps its outcome.
SkipDecided ==
    /\ phase = "admit" /\ next <= Len(sorted)
    /\ sorted[next].outcome # Undecided
    /\ next' = next + 1
    /\ UNCHANGED <<phase, snapshot, ranked, sorted, budget, selected, report>>

Defer ==
    /\ phase = "admit" /\ next <= Len(sorted)
    /\ sorted[next].outcome = Undecided
    /\ LET obstacle == Obstacle(sorted[next].task, budget)
       IN  /\ obstacle # ""
           /\ sorted' = [sorted EXCEPT ![next] = Verdict(@, "deferred", obstacle)]
    /\ next' = next + 1
    /\ UNCHANGED <<phase, snapshot, ranked, budget, selected, report>>

Select ==
    /\ phase = "admit" /\ next <= Len(sorted)
    /\ sorted[next].outcome = Undecided
    /\ Obstacle(sorted[next].task, budget) = ""
    /\ sorted' = [sorted EXCEPT ![next] = Verdict(@, "selected", "selected")]
    /\ selected' = Append(selected, sorted[next].task)
    /\ budget' = Charge(budget, sorted[next].task)
    /\ next' = next + 1
    /\ UNCHANGED <<phase, snapshot, ranked, report>>

\* The second sort, and the copy of the candidates into the decision.
Report ==
    /\ phase = "admit" /\ next > Len(sorted)
    /\ phase' = "done"
    /\ LET byID == StableSort(SmallerID, sorted)
       IN  report' = [i \in DOMAIN byID |-> Reported(byID[i])]
    /\ UNCHANGED <<snapshot, ranked, sorted, budget, next, selected>>

\* The call has returned.
Returned == phase \in {"done", "failed"} /\ UNCHANGED vars

Next == \/ CheckInput \/ RankNext \/ EndRank \/ InsertNext \/ EndSort
        \/ SkipDecided \/ Defer \/ Select \/ Report \/ Returned

Spec == Init /\ [][Next]_vars

-----------------------------------------------------------------------------
(* What a decision promises.                                                 *)

\* Every variable of the call keeps its Go type: in particular slots never
\* goes below zero, and the sort neither loses nor invents a candidate.
TypeOK ==
    /\ phase \in {"called", "failed", "rank", "sort", "admit", "done"}
    /\ snapshot \in Snapshots
    /\ ranked \in Seq(Candidate)
    /\ sorted \in Seq(Candidate)
    /\ budget \in [slots : Nat, gpuInUse : Nat, available : Resources]
    /\ next \in Nat \ {0}
    /\ selected \in Seq(Task)
    /\ phase \in {"admit", "done"} => Len(sorted) = Len(Ready)

\* Engine.Decide starts nothing beyond maxConcurrent and maxGPUConcurrent,
\* counting what already runs: if it selects a task at all the slots of all
\* running and selected tasks fit, and the same for the GPU tasks.
CapacityRespected ==
    /\ selected # <<>> =>
           Len(snapshot.running) + Len(selected) <= Config.maxConcurrent
    /\ GPUCount(selected) > 0 =>
           GPUCount(snapshot.running) + GPUCount(selected) <= Config.maxGPU

\* One decision never starts the same task twice, nor a task that is already
\* running, whatever the input lists repeat (engine.go keys tasks by ID only).
NeverTwiceNorRunning ==
    /\ \A i, j \in DOMAIN selected : i # j => selected[i].id # selected[j].id
    /\ IDs(selected) \cap IDs(snapshot.running) = {}

\* A capacity reason is honest when the decision is returned: the capacity it
\* names is exhausted, and only by tasks ranked ahead of the deferred one.
CapacityDeferralsJustified ==
    phase = "done" =>
        \A i \in DOMAIN sorted :
            LET later == {j \in (i + 1)..Len(sorted) : sorted[j].outcome = "selected"}
            IN  /\ sorted[i].reason = "concurrency_limit" => budget.slots = 0 /\ later = {}
                /\ sorted[i].reason = "gpu_capacity" =>
                       /\ RequiresGPU(sorted[i].task)
                       /\ budget.gpuInUse >= Config.maxGPU
                       /\ \A j \in later : ~RequiresGPU(sorted[j].task)

Permuted(p) == [snapshot EXCEPT !.ready = [i \in DOMAIN Ready |-> Ready[p[i]]]]

\* The decision does not depend on the order in which the ready tasks were
\* listed (TestDecisionIsIndependentFromInputPermutation), for tasks with
\* distinct IDs: of two tasks with one ID the first listed is meant to win.
OrderIndependent ==
    phase = "done" /\ IsInjective([i \in DOMAIN Ready |-> Ready[i].id]) =>
        \A p \in Bijection(DOMAIN Ready, DOMAIN Ready) :
            Decide(Permuted(p)) =
                [at |-> snapshot.at, selected |-> selected, candidates |-> report]

\* The engine can count down to the deadline of a ranked candidate, and further
\* down by its estimated runtime, within the width of a Duration.
Countable(c) == c.deadline - snapshot.at - c.task.estimated >= -(MaxDuration + 1)

\* Two tasks differ in nothing but their IDs and when they are due.
Alike(left, right) ==
    LET rest(task) == [task EXCEPT !.id = EmptyID, !.deadline = Nil, !.latency = 0]
    IN  rest(left) = rest(right)

\* Of two tasks that differ only in their deadlines the earlier one is ranked
\* first (TestLeastSlackWinsAtEqualPriority) and is never left out in favour of
\* the later; and a deadline that cannot be met any more is reported as a
\* predicted miss.  Both hold however far ahead the deadlines are, and as far
\* back as Countable reaches: beyond that deadline.Sub(now) - estimated wraps
\* to a huge positive slack.
EarlierDeadlineServed ==
    phase = "done" =>
        \A i, j \in DOMAIN sorted :
            /\ sorted[i].outcome # "rejected" /\ Countable(sorted[i])
            => /\ sorted[i].deadline - snapshot.at <= sorted[i].task.estimated => sorted[i].miss
               /\ /\ sorted[j].outcome # "rejected" /\ Alike(sorted[i].task, sorted[j].task)
                  /\ sorted[i].deadline < sorted[j].deadline
                  => /\ i < j
                     /\ sorted[j].outcome = "selected" =>
                            \/ sorted[i].outcome = "selected"
                            \/ sorted[i].reason = "already_running"

-----------------------------------------------------------------------------
(* Decide implements BudgetedAdmission.                                      *)

\* The tasks the engine may select: ranked, screened, and reliable enough.
Eligible ==
    {c.task : c \in {d \in ToSet(Screened(snapshot)) :
                        /\ d.outcome = Undecided
                        /\ SuccessRate(d.task) >= Config.minimumSuccess}}

Room ==
    [slots     |-> InitialBudget(snapshot).slots,
     gpus      |-> Clamp(Config.maxGPU - GPUCount(snapshot.running), Config.maxGPU),
     limited   |-> Config.enforceFit,
     available |-> Or(snapshot.available, NoResources)]

Admission == INSTANCE BudgetedAdmission
                 WITH offer <- Eligible, room <- Room,
                      chosen <- ToSet(selected), closed <- phase = "done"

\* Engine.Decide is a budgeted admission: its selection fits what is free, in
\* slots, GPU slots and resources together, and leaves out no eligible task
\* that would still fit once the decision is returned.
ImplementsAdmission == Admission!Spec

=============================================================================
