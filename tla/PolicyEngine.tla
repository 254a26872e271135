---------------------------- MODULE PolicyEngine ----------------------------
(***************************************************************************)
(* The pure decision engine of pkg/policy: what Engine.Decide computes     *)
(* from one snapshot.  Times are integers, 0 being Go's zero time, and     *)
(* durations are the signed integers of a fixed width that time.Duration   *)
(* has; identifiers are naturals ordered as the Go strings are, 0 being    *)
(* ""; probabilities are percentages.  Scores are the                      *)
(* float64 scores multiplied by the common denominator                     *)
(* agingHorizon * slackHorizon * (sum of the weights), so that they are    *)
(* integers.                                                               *)
(***************************************************************************)
EXTENDS Integers, Sequences, FiniteSets, SequencesExt

CONSTANTS
    Config,          \* the engine's validated policy configuration
    MaxDuration,     \* the longest time.Duration (2^63 - 1 ns in Go)
    ScoreTolerance,  \* two totals closer than this are "almost equal" (1: only when equal)
    Nil              \* the nil pointer

EmptyID  == 0
ZeroTime == 0

Resources == [cpu : Int, memory : Int, gpus : Int]

Durations == -(MaxDuration + 1)..MaxDuration

Task == [id        : Nat,
         priority  : Int \cup {Nil},
         enqueued  : Int,
         estimated : Durations,
         latency   : Durations,
         deadline  : Int \cup {Nil},
         gpu       : BOOLEAN,
         success   : Int \cup {Nil},
         resources : Resources]

Snapshot == [at        : Int,
             ready     : Seq(Task),
             running   : Seq(Task),
             available : Resources \cup {Nil}]

Undecided == ""
Outcomes  == {Undecided, "selected", "deferred", "rejected"}
Reasons   == {"", "selected", "already_running", "concurrency_limit", "gpu_capacity",
              "resource_capacity", "reliability_threshold", "invalid_task"}

Candidate == [task        : Task,
              deadline    : Int,
              hasDeadline : BOOLEAN,
              score       : Int,
              slack       : Durations \cup {Nil},
              miss        : BOOLEAN,
              outcome     : Outcomes,
              reason      : Reasons]

\* Config.Validate: NewEngine builds no engine from a configuration that fails it.
ValidConfig(c) ==
    /\ c.maxConcurrent \in 1..1024
    /\ c.maxGPU \in 0..c.maxConcurrent
    /\ c.defaultPriority \in 0..100
    /\ {c.defaultEstimated, c.defaultLatency, c.agingHorizon, c.slackHorizon}
           \subseteq 1..MaxDuration
    /\ c.defaultSuccess \in 0..100
    /\ c.minimumSuccess \in 0..c.defaultSuccess
    /\ {c.weightPriority, c.weightSlack, c.weightAge, c.weightReliability} \subseteq Nat
    /\ c.weightPriority + c.weightSlack + c.weightAge + c.weightReliability > 0
    /\ {c.trustHints, c.enforceFit, c.failOpen} \subseteq BOOLEAN

ASSUME WidthAssumption     == MaxDuration \in Nat \ {0}
ASSUME ConfigAssumption    == ValidConfig(Config)
ASSUME ToleranceAssumption == ScoreTolerance \in Nat \ {0}
ASSUME NilAssumption       == Nil \notin Int

-----------------------------------------------------------------------------
(* Resources and tasks.                                                      *)

NoResources == [cpu |-> 0, memory |-> 0, gpus |-> 0]

Valid(r) == r.cpu >= 0 /\ r.memory >= 0 /\ r.gpus >= 0

Fits(available, r) ==
    /\ available.cpu    >= r.cpu
    /\ available.memory >= r.memory
    /\ available.gpus   >= r.gpus

Subtract(available, r) ==
    [cpu    |-> available.cpu - r.cpu,
     memory |-> available.memory - r.memory,
     gpus   |-> available.gpus - r.gpus]

RequiresGPU(task) == task.gpu \/ task.resources.gpus > 0

GPUCount(tasks) == Cardinality({i \in DOMAIN tasks : RequiresGPU(tasks[i])})

IDs(tasks) == {tasks[i].id : i \in DOMAIN tasks}

Or(value, default) == IF value = Nil THEN default ELSE value

OrWhenZero(value, default) == IF value = 0 THEN default ELSE value

-----------------------------------------------------------------------------
(* Engine.rank                                                               *)

\* The checks that return before EnqueuedAt is given its default.
MalformedTask(task) ==
    \/ task.id = EmptyID
    \/ ~Valid(task.resources)
    \/ task.priority # Nil /\ task.priority \notin 0..100

\* The task with every absent field replaced by its default.
Normalized(now, task) ==
    [task EXCEPT !.priority  = Or(@, Config.defaultPriority),
                 !.enqueued  = OrWhenZero(@, now),
                 !.estimated = OrWhenZero(@, Config.defaultEstimated),
                 !.latency   = IF task.deadline = Nil THEN OrWhenZero(@, Config.defaultLatency) ELSE @,
                 !.gpu       = RequiresGPU(task)]

\* The remaining checks, on the normalized task.
Unrankable(now, task) ==
    \/ task.enqueued > now
    \/ task.estimated <= 0
    \/ task.success # Nil /\ task.success \notin 0..100
    \/ task.deadline = Nil /\ task.latency <= 0

SuccessRate(task) == Or(task.success, Config.defaultSuccess)

\* Mutant of Sub: the difference of two times is truncated to the width of a Duration.
SubWrapping(later, earlier) ==
    ((later - earlier + MaxDuration + 1) % (2 * (MaxDuration + 1))) - (MaxDuration + 1)

\* time.Time.Sub: a difference that no Duration can hold becomes the nearest that one can.
Sub(later, earlier) ==
    IF later - earlier > MaxDuration THEN MaxDuration
    ELSE IF later - earlier < -(MaxDuration + 1) THEN -(MaxDuration + 1)
    ELSE later - earlier

\* The difference of two Durations wraps around like that of two int64.
Minus(left, right) ==
    IF left - right > MaxDuration THEN left - right - 2 * (MaxDuration + 1)
    ELSE IF left - right < -(MaxDuration + 1) THEN left - right + 2 * (MaxDuration + 1)
    ELSE left - right

Clamp(value, top) == IF value < 0 THEN 0 ELSE IF value > top THEN top ELSE value

\* The weighted total: each component is a percentage of its horizon.
Score(task, age, slack) ==
    LET ah == Config.agingHorizon
        sh == Config.slackHorizon
        ageScore   == Clamp(100 * age, 100 * ah)
        slackScore == IF slack > 0 THEN Clamp(100 * (sh - slack), 100 * sh) ELSE 100 * sh
    IN  Config.weightPriority * task.priority * ah * sh
          + Config.weightSlack * slackScore * ah
          + Config.weightAge * ageScore * sh
          + Config.weightReliability * SuccessRate(task) * ah * sh

Rejected(task) ==
    [task |-> task, deadline |-> ZeroTime, hasDeadline |-> FALSE, score |-> 0,
     slack |-> Nil, miss |-> FALSE, outcome |-> "rejected", reason |-> "invalid_task"]

Rank(now, raw) ==
    LET task     == Normalized(now, raw)
        deadline == Or(task.deadline, task.enqueued + task.latency)
        slack    == Minus(Sub(deadline, now), task.estimated)
    IN  IF MalformedTask(raw) THEN Rejected(raw)
        ELSE IF Unrankable(now, task) THEN Rejected(task)
        ELSE [task |-> task, deadline |-> deadline, hasDeadline |-> TRUE,
              score |-> Score(task, Sub(now, task.enqueued), slack),
              slack |-> slack, miss |-> slack <= 0,
              outcome |-> Undecided, reason |-> ""]

\* Mutant of Screen: repeated IDs are not noticed.
ScreenForgettingSeen(snapshot, seen, raw) ==
    LET c == Rank(snapshot.at, raw)
    IN  IF raw.id \in IDs(snapshot.running) /\ c.outcome # "rejected"
        THEN [c EXCEPT !.outcome = "deferred", !.reason = "already_running"]
        ELSE c

\* The loop over snapshot.Ready: rank, then refuse an empty or repeated ID and
\* defer what already runs.  seen holds the IDs of the tasks before this one.
Screen(snapshot, seen, raw) ==
    LET c == Rank(snapshot.at, raw)
    IN  IF raw.id = EmptyID \/ raw.id \in seen
        THEN [c EXCEPT !.outcome = "rejected", !.reason = "invalid_task"]
        ELSE IF raw.id \in IDs(snapshot.running) \ {EmptyID} /\ c.outcome # "rejected"
        THEN [c EXCEPT !.outcome = "deferred", !.reason = "already_running"]
        ELSE c

-----------------------------------------------------------------------------
(* The ranking order and the stable sorts.                                   *)

AlmostEqual(left, right) == left - right < ScoreTolerance /\ right - left < ScoreTolerance

\* Mutant of Ahead: the last tie is left to the input order.
AheadWithoutID(left, right) ==
    \/ left.outcome # "rejected" /\ right.outcome = "rejected"
    \/ (left.outcome = "rejected") = (right.outcome = "rejected") /\ left.score > right.score

\* The less function of the first sort: is left strictly ahead of right?
Ahead(left, right) ==
    LET rejectedL == left.outcome = "rejected"
        rejectedR == right.outcome = "rejected"
        Tied      == AlmostEqual(left.score, right.score)
        SameDeadline == left.hasDeadline => left.deadline = right.deadline
    IN  \/ ~rejectedL /\ rejectedR
        \/ /\ rejectedL = rejectedR
           /\ \/ ~Tied /\ left.score > right.score
              \/ Tied /\ left.hasDeadline /\ ~right.hasDeadline
              \/ /\ Tied /\ left.hasDeadline = right.hasDeadline
                 /\ \/ left.hasDeadline /\ left.deadline < right.deadline
                    \/ SameDeadline /\ left.task.enqueued < right.task.enqueued
                    \/ /\ SameDeadline /\ left.task.enqueued = right.task.enqueued
                       /\ left.task.id < right.task.id

SmallerID(left, right) == left.task.id < right.task.id

\* sort.SliceStable is an insertion sort on slices of up to 20 elements: the
\* element moves left past the neighbours that it, one after the other, is less than.
InsertPosition(less(_, _), sorted, c) ==
    LET passed == {p \in DOMAIN sorted : \A q \in p..Len(sorted) : less(c, sorted[q])}
    IN  Len(sorted) + 1 - Cardinality(passed)

StableSort(less(_, _), s) ==
    FoldLeft(LAMBDA sorted, c : InsertAt(sorted, InsertPosition(less, sorted, c), c), <<>>, s)

-----------------------------------------------------------------------------
(* Admission: one pass over the ranked candidates.                           *)

\* Mutant of InitialBudget: the running tasks hold no GPU slot.
InitialBudgetForgettingGPUs(snapshot) ==
    [slots     |-> Clamp(Config.maxConcurrent - Len(snapshot.running), Config.maxConcurrent),
     gpuInUse  |-> 0,
     available |-> Or(snapshot.available, NoResources)]

\* What is left to give out when the pass starts.
InitialBudget(snapshot) ==
    [slots     |-> Clamp(Config.maxConcurrent - Len(snapshot.running), Config.maxConcurrent),
     gpuInUse  |-> GPUCount(snapshot.running),
     available |-> Or(snapshot.available, NoResources)]

\* Mutant of Obstacle: the concurrency limit is off by one.
ObstacleOffByOne(task, budget) ==
    IF SuccessRate(task) < Config.minimumSuccess THEN "reliability_threshold"
    ELSE IF budget.slots < 0 THEN "concurrency_limit"
    ELSE ""

\* Mutant of Obstacle: a full GPU budget defers tasks that need no GPU.
ObstacleGPUForAll(task, budget) ==
    IF SuccessRate(task) < Config.minimumSuccess THEN "reliability_threshold"
    ELSE IF budget.slots = 0 THEN "concurrency_limit"
    ELSE IF budget.gpuInUse >= Config.maxGPU THEN "gpu_capacity"
    ELSE ""

\* The first reason not to select the task, in the order the code asks; "" if none.
Obstacle(task, budget) ==
    IF SuccessRate(task) < Config.minimumSuccess THEN "reliability_threshold"
    ELSE IF budget.slots = 0 THEN "concurrency_limit"
    ELSE IF RequiresGPU(task) /\ budget.gpuInUse >= Config.maxGPU THEN "gpu_capacity"
    ELSE IF Config.enforceFit /\ ~Fits(budget.available, task.resources) THEN "resource_capacity"
    ELSE ""

\* Mutant of Charge: the result of available.Subtract is dropped.
ChargeKeepingResources(budget, task) ==
    [budget EXCEPT !.slots = @ - 1,
                   !.gpuInUse = IF RequiresGPU(task) THEN @ + 1 ELSE @]

\* The budget once the task is selected.
Charge(budget, task) ==
    [slots     |-> budget.slots - 1,
     gpuInUse  |-> IF RequiresGPU(task) THEN budget.gpuInUse + 1 ELSE budget.gpuInUse,
     available |-> IF Config.enforceFit THEN Subtract(budget.available, task.resources)
                                        ELSE budget.available]

Verdict(c, outcome, reason) == [c EXCEPT !.outcome = outcome, !.reason = reason]

\* decision.Candidates: what the caller is told of one task.
Reported(c) == [id |-> c.task.id, outcome |-> c.outcome, reason |-> c.reason,
                score |-> c.score, slack |-> c.slack, miss |-> c.miss]

InputError(snapshot) ==
    \/ snapshot.at = ZeroTime
    \/ Config.enforceFit /\ snapshot.available = Nil
    \/ snapshot.available # Nil /\ ~Valid(snapshot.available)

-----------------------------------------------------------------------------
(* Engine.Decide as a function of its snapshot.                              *)

Screened(snapshot) ==
    [i \in DOMAIN snapshot.ready |->
        Screen(snapshot, {snapshot.ready[j].id : j \in 1..(i - 1)}, snapshot.ready[i])]

\* One turn of the admission loop over acc = [budget, selected, decided].
AdmitInto(acc, c) ==
    LET obstacle == Obstacle(c.task, acc.budget)
    IN  IF c.outcome # Undecided
        THEN [acc EXCEPT !.decided = Append(@, c)]
        ELSE IF obstacle # ""
        THEN [acc EXCEPT !.decided = Append(@, Verdict(c, "deferred", obstacle))]
        ELSE [budget   |-> Charge(acc.budget, c.task),
              selected |-> Append(acc.selected, c.task),
              decided  |-> Append(acc.decided, Verdict(c, "selected", "selected"))]

Admitted(snapshot) ==
    FoldLeft(AdmitInto,
             [budget |-> InitialBudget(snapshot), selected |-> <<>>, decided |-> <<>>],
             StableSort(Ahead, Screened(snapshot)))

\* Meaningful when ~InputError(snapshot).
Decide(snapshot) ==
    LET result == Admitted(snapshot)
        byID   == StableSort(SmallerID, result.decided)
    IN  [at         |-> snapshot.at,
         selected   |-> result.selected,
         candidates |-> [i \in DOMAIN byID |-> Reported(byID[i])]]

=============================================================================
