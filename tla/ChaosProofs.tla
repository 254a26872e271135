---------------------------- MODULE ChaosProofs ----------------------------
(***************************************************************************)
(* What holds of every experiment, whatever the policy configuration and   *)
(* the perturbations; the last section's theorem needs scores without near *)
(* ties (NoNearTies).                                                      *)
(*                                                                         *)
(* Its argument: the perturbation raises one candidate and no other        *)
(* (UrgentPromotes), so that up to its new place the ranking is what it    *)
(* was (SamePrefix) and the loop has given out the same (SameAdmission);   *)
(* what would keep the task out there would have kept it out at its old,   *)
(* later place (BlockedLasts), where it was admitted.                      *)
(***************************************************************************)
EXTENDS Chaos, PolicyEngineProofs

Given(i) == experiment.perturbations[i]

\* The entry that the i-th perturbation, on its own, has in the report.
Expected(i) ==
    Run(Decide(experiment.baseline), Given(i), Decide(Perturbed(experiment.baseline, Given(i))))

\* The perturbation in the works and the next one.
Next1 == Len(report.runs) + 1

RunsInv ==
    /\ experiment \in Experiments
    /\ phase \in {"baseline", "perturbing", "deciding", "done", "failed"}
    /\ baseline = experiment.baseline
    /\ phase \in {"baseline", "failed"} => report = NoReport
    /\ phase \notin {"baseline", "failed"} => report.baseline = Decide(experiment.baseline)
    /\ report = [baseline |-> report.baseline, runs |-> report.runs]
    /\ report.runs \in Seq({Expected(i) : i \in 1..Len(experiment.perturbations)})
    /\ Len(report.runs) <= Len(experiment.perturbations)
    /\ \A i \in 1..Len(report.runs) : report.runs[i] = Expected(i)
    /\ phase = "done" => Len(report.runs) = Len(experiment.perturbations)

\* The perturbations reported or in the works have names of their own.
NamesInv ==
    /\ \A i, j \in 1..Len(report.runs) : Given(i).name = Given(j).name => i = j
    /\ phase = "deciding" =>
         /\ Next1 <= Len(experiment.perturbations)
         /\ working = Perturbed(experiment.baseline, Given(Next1))
         /\ \A i \in 1..Len(report.runs) : Given(i).name # Given(Next1).name

LEMMA ExpectedFields ==
    ASSUME NEW i
    PROVE  /\ Expected(i).name = Given(i).name
           /\ Expected(i).decision = Decide(Perturbed(experiment.baseline, Given(i)))
  BY DEF Expected, Run

LEMMA PerturbationsFinite ==
    ASSUME NEW e \in Experiments
    PROVE  e.perturbations \in Seq(Perturbation) /\ Len(e.perturbations) \in Nat
  BY ExperimentsAssumption, LenProperties

\* A perturbation goes ahead only under a name that none before it had.
LEMMA NewName ==
    ASSUME RunsInv, Perturb, phase' = "deciding"
    PROVE  \A i \in 1..Len(report.runs) : Given(i).name # Given(Next1).name
<1> DEFINE n == Len(report.runs)
           before == SubSeq(experiment.perturbations, 1, n)
<1>1. Given(Next1).name \notin Names(before)
  BY DEF Perturb, Fail, Given, Next1
<1>2. n \in Nat /\ n <= Len(experiment.perturbations)
  BY LenProperties DEF RunsInv
<1>3. experiment.perturbations \in Seq(Perturbation)
  BY PerturbationsFinite DEF RunsInv
<1>4. /\ Len(before) = n /\ DOMAIN before = 1..n
      /\ \A i \in 1..n : before[i] = Given(i)
  BY <1>2, <1>3, SubSeqProperties, LenProperties DEF Given
<1> HIDE DEF before
<1> QED
  BY <1>1, <1>4 DEF Names

LEMMA InitRuns == Init => RunsInv /\ NamesInv
<1> SUFFICES ASSUME Init PROVE RunsInv /\ NamesInv
  OBVIOUS
<1>1. report = [baseline |-> Nil, runs |-> <<>>] /\ Len(report.runs) = 0
  BY DEF Init, NoReport
<1>2. Len(experiment.perturbations) \in Nat
  BY PerturbationsFinite DEF Init
<1>3. report.runs \in Seq({Expected(i) : i \in 1..Len(experiment.perturbations)})
  BY <1>1
<1> QED
  BY <1>1, <1>2, <1>3 DEF Init, RunsInv, NamesInv, NoReport

LEMMA FailRuns ==
    ASSUME RunsInv, NamesInv, Fail
    PROVE  RunsInv' /\ NamesInv'
<1>1. /\ report' = [baseline |-> Nil, runs |-> <<>>] /\ Len(report'.runs) = 0
      /\ phase' = "failed" /\ UNCHANGED <<experiment, baseline, working>>
  BY DEF Fail, NoReport
<1>2. Len(experiment.perturbations) \in Nat
  BY PerturbationsFinite DEF RunsInv
<1>3. report'.runs \in Seq({Expected(i)' : i \in 1..Len(experiment'.perturbations)})
  BY <1>1
<1> QED
  BY <1>1, <1>2, <1>3 DEF RunsInv, NamesInv, NoReport

LEMMA RunsInductive == RunsInv /\ NamesInv /\ [Next]_vars => RunsInv' /\ NamesInv'
<1> SUFFICES ASSUME RunsInv, NamesInv, [Next]_vars PROVE RunsInv' /\ NamesInv'
  OBVIOUS
<1>0. /\ Len(report.runs) \in Nat /\ Len(experiment.perturbations) \in Nat
      /\ experiment \in Experiments
  BY PerturbationsFinite, LenProperties DEF RunsInv
<1>1. CASE DecideBaseline
  <2>1. CASE InputError(baseline)
    BY <1>1, <2>1, FailRuns DEF DecideBaseline
  <2>2. CASE ~InputError(baseline)
    <3>1. /\ phase = "baseline" /\ phase' = "perturbing"
          /\ report' = [report EXCEPT !.baseline = Decide(baseline)]
          /\ UNCHANGED <<experiment, baseline, working>>
      BY <1>1, <2>2 DEF DecideBaseline
    <3>2. report = [baseline |-> Nil, runs |-> <<>>] /\ baseline = experiment.baseline
      BY <3>1 DEF RunsInv, NoReport
    <3>3. report' = [baseline |-> Decide(experiment.baseline), runs |-> <<>>]
      BY <3>1, <3>2
    <3>4. report'.runs = report.runs /\ Len(report'.runs) = 0
      BY <3>2, <3>3
    <3>5. report'.runs \in Seq({Expected(i)' : i \in 1..Len(experiment'.perturbations)})
      BY <3>3
    <3> QED
      BY <1>0, <3>1, <3>3, <3>4, <3>5 DEF RunsInv, NamesInv
  <2> QED
    BY <2>1, <2>2
<1>2. CASE Perturb
  <2>1. CASE phase' = "deciding"
    <3>1. /\ phase = "perturbing" /\ Len(report.runs) < Len(experiment.perturbations)
          /\ working' = Perturbed(baseline, Given(Next1))
          /\ UNCHANGED <<experiment, report>>
      BY <1>2, <2>1 DEF Perturb, Fail, Given, Next1
    <3>2. baseline' = baseline
      <4>1. \E r : baseline' = [baseline EXCEPT
                       !.ready     = IF "ready" \in ClonedParts THEN @ ELSE r.ready,
                       !.available = IF "available" \in ClonedParts THEN @ ELSE r.available]
        BY <1>2, <2>1 DEF Perturb, Fail
      <4>2. baseline \in Snapshot
        BY <1>0, ExperimentsAssumption DEF RunsInv
      <4> QED
        BY <4>1, <4>2 DEF ClonedParts, Snapshot
    <3>3. \A i \in 1..Len(report.runs) : Given(i).name # Given(Next1).name
      BY <1>2, <2>1, NewName
    <3>4. \A i : Expected(i)' = Expected(i) /\ Given(i)' = Given(i)
      BY <3>1 DEF Expected, Given
    <3>5. RunsInv'
      BY <2>1, <3>1, <3>2, <3>4 DEF RunsInv
    <3>6. NamesInv'
      BY <1>0, <2>1, <3>1, <3>2, <3>3, <3>4 DEF RunsInv, NamesInv, Next1
    <3> QED
      BY <3>5, <3>6
  <2>2. CASE phase' # "deciding"
    <3>1. Fail
      BY <1>2, <2>2 DEF Perturb
    <3> QED
      BY <3>1, FailRuns
  <2> QED
    BY <2>1, <2>2
<1>3. CASE DecideRun
  <2>1. CASE InputError(working)
    BY <1>3, <2>1, FailRuns DEF DecideRun
  <2>2. CASE ~InputError(working)
    <3> DEFINE entry == Run(report.baseline, Given(Next1), Decide(working))
               n     == Len(report.runs)
    <3>1. /\ phase = "deciding" /\ phase' = "perturbing"
          /\ report' = [report EXCEPT !.runs = Append(@, entry)]
          /\ UNCHANGED <<experiment, baseline>>
      BY <1>3, <2>2 DEF DecideRun, Given, Next1
    <3>2. entry = Expected(n + 1) /\ n + 1 <= Len(experiment.perturbations)
      BY <3>1 DEF RunsInv, NamesInv, Expected, Next1
    <3> HIDE DEF entry
    <3>3. /\ report' = [baseline |-> report.baseline, runs |-> Append(report.runs, entry)]
      BY <3>1 DEF RunsInv
    <3> DEFINE S == {Expected(i) : i \in 1..Len(experiment.perturbations)}
    <3>4. entry \in S /\ report.runs \in Seq(S)
      BY <1>0, <3>2 DEF RunsInv
    <3> HIDE DEF S
    <3>5. /\ report'.runs \in Seq(S) /\ Len(report'.runs) = n + 1
          /\ \A i \in 1..n : report'.runs[i] = report.runs[i]
          /\ report'.runs[n + 1] = entry
      BY <3>3, <3>4, AppendProperties
    <3>6. S' = S /\ \A i : Expected(i)' = Expected(i) /\ Given(i)' = Given(i)
      BY <3>1 DEF S, Expected, Given
    <3>7. \A i \in 1..(n + 1) : report'.runs[i] = Expected(i)
      BY <1>0, <3>2, <3>5 DEF RunsInv
    <3>8. RunsInv'
      <4>1. report'.runs \in Seq({Expected(i)' : i \in 1..Len(experiment'.perturbations)})
        BY <3>5, <3>6 DEF S
      <4> QED
        BY <1>0, <3>1, <3>2, <3>3, <3>5, <3>6, <3>7, <4>1 DEF RunsInv
    <3>9. \A i \in 1..n : Given(i).name # Given(n + 1).name
      BY <3>1 DEF NamesInv, Next1
    <3>10. NamesInv'
      BY <1>0, <3>1, <3>5, <3>6, <3>9 DEF NamesInv
    <3> QED
      BY <3>8, <3>10
  <2> QED
    BY <2>1, <2>2
<1>4. CASE Finish
  <2>1. /\ phase = "perturbing" /\ phase' = "done"
        /\ Len(report.runs) = Len(experiment.perturbations)
        /\ UNCHANGED <<experiment, baseline, working, report>>
    BY <1>4 DEF Finish
  <2>2. \A i : Expected(i)' = Expected(i) /\ Given(i)' = Given(i)
    BY <2>1 DEF Expected, Given
  <2> QED
    BY <2>1, <2>2 DEF RunsInv, NamesInv
<1>5. CASE UNCHANGED vars
  <2>1. \A i : Expected(i)' = Expected(i) /\ Given(i)' = Given(i)
    BY <1>5 DEF vars, Expected, Given
  <2> QED
    BY <1>5, <2>1 DEF vars, RunsInv, NamesInv, Next1
<1> QED
  BY <1>1, <1>2, <1>3, <1>4, <1>5 DEF Next

LEMMA RunsInvariant == Spec => [](RunsInv /\ NamesInv)
  BY InitRuns, RunsInductive, PTL DEF Spec

\* However many perturbations went before it, a run is what its perturbation alone
\* makes of the caller's snapshot, which RunExperiment never changes.
THEOREM ExperimentIndependent == Spec => []RunsIndependent
<1>1. RunsInv => RunsIndependent
  <2> SUFFICES ASSUME RunsInv PROVE RunsIndependent
    OBVIOUS
  <2>1. DOMAIN report.runs = 1..Len(report.runs)
    BY LenProperties DEF RunsInv
  <2>2. \A i \in 1..Len(report.runs) :
            /\ report.runs[i].name = Given(i).name
            /\ report.runs[i].decision = Decide(Perturbed(experiment.baseline, Given(i)))
    BY ExpectedFields DEF RunsInv
  <2> QED
    BY <2>1, <2>2 DEF RunsInv, RunsIndependent, Given
<1> QED
  BY <1>1, RunsInvariant, PTL

\* An experiment ends with every run, each under a name of its own, or with none.
THEOREM ExperimentAllOrNothing == Spec => []AllOrNothing
<1>1. RunsInv /\ NamesInv => AllOrNothing
  <2> SUFFICES ASSUME RunsInv, NamesInv PROVE AllOrNothing
    OBVIOUS
  <2>1. DOMAIN report.runs = 1..Len(report.runs)
    BY LenProperties DEF RunsInv
  <2>2. \A i \in 1..Len(report.runs) : report.runs[i].name = Given(i).name
    BY ExpectedFields DEF RunsInv
  <2> QED
    BY <2>1, <2>2 DEF RunsInv, NamesInv, AllOrNothing
<1> QED
  BY <1>1, RunsInvariant, PTL

-----------------------------------------------------------------------------
(* Perturbing keeps the types.                                               *)

LEMMA PlusType ==
    ASSUME NEW l \in Durations, NEW r \in Durations
    PROVE  Plus(l, r) \in Durations /\ (r = 0 => Plus(l, r) = l)
<1>1. MaxDuration \in Nat /\ l \in Int /\ r \in Int /\ Minus(0, r) \in Int
  BY WidthAssumption DEF Durations, Minus
<1>2. Minus(0, r) \in Durations /\ (r = 0 => Minus(0, r) = 0)
  BY <1>1 DEF Durations, Minus
<1>3. \A m \in Durations : Minus(l, m) \in Durations /\ (m = 0 => Minus(l, m) = l)
  BY <1>1 DEF Durations, Minus
<1> QED
  BY <1>2, <1>3 DEF Plus

LEMMA DurationMoved ==
    ASSUME NEW value \in Durations, NEW default \in Durations, NEW delta \in Durations
    PROVE  /\ MovedDuration(value, default, delta) \in Durations
           /\ MovedDuration(value, default, delta) # 0 =>
                  MovedDuration(value, default, delta) = Plus(OrWhenZero(value, default), delta)
<1>1. OrWhenZero(value, default) \in Durations /\ (value # 0 => OrWhenZero(value, default) = value)
  BY DEF OrWhenZero
<1>2. Plus(OrWhenZero(value, default), delta) \in Durations
      /\ (delta = 0 => Plus(OrWhenZero(value, default), delta) = OrWhenZero(value, default))
  BY <1>1, PlusType
<1> QED
  BY <1>1, <1>2 DEF MovedDuration

LEMMA ValueMoved ==
    ASSUME NEW value \in Int \cup {Nil}, NEW default \in Int, NEW delta \in Int
    PROVE  /\ Moved(value, Nil, default, delta) \in Int \cup {Nil}
           /\ Or(Moved(value, Nil, default, delta), default) = Or(value, default) + delta
  BY NilAssumption DEF Moved, Or

LEMMA TimeMoved ==
    ASSUME NEW value \in Int, NEW at \in Int, NEW delta \in Int
    PROVE  /\ Moved(value, ZeroTime, at, delta) \in Int
           /\ Moved(value, ZeroTime, at, delta) # ZeroTime =>
                  Moved(value, ZeroTime, at, delta) = OrWhenZero(value, at) + delta
  BY DEF Moved, OrWhenZero, ZeroTime

\* A perturbation that is not refused for its rate.
Applicable(p) == p \in Perturbation /\ p.success \in Int

\* What is made of a task that the perturbation names.
LEMMA ShiftedFields ==
    ASSUME NEW at \in Int, NEW task \in Task, NEW p, Applicable(p)
    PROVE  LET t == Shifted(at, task, p)
           IN  /\ t \in Task
               /\ t.priority  = Moved(task.priority, Nil, Config.defaultPriority, p.priority)
               /\ t.enqueued  = Moved(task.enqueued, ZeroTime, at, p.enqueued)
               /\ t.estimated = MovedDuration(task.estimated, Config.defaultEstimated, p.estimated)
               /\ t.deadline  = IF task.deadline = Nil THEN Nil ELSE task.deadline + p.deadline
               /\ t.latency   = MovedDuration(task.latency, Config.defaultLatency, p.latency)
               /\ t.success   = Moved(task.success, Nil, Config.defaultSuccess, p.success)
<1> DEFINE t == Shifted(at, task, p)
           priority  == Moved(task.priority, Nil, Config.defaultPriority, p.priority)
           enqueued  == Moved(task.enqueued, ZeroTime, at, p.enqueued)
           estimated == MovedDuration(task.estimated, Config.defaultEstimated, p.estimated)
           deadline  == IF task.deadline = Nil THEN Nil ELSE task.deadline + p.deadline
           latency   == MovedDuration(task.latency, Config.defaultLatency, p.latency)
           success   == Moved(task.success, Nil, Config.defaultSuccess, p.success)
<1>1. /\ task.priority \in Int \cup {Nil} /\ task.enqueued \in Int
      /\ task.estimated \in Durations /\ task.latency \in Durations
      /\ task.deadline \in Int \cup {Nil} /\ task.success \in Int \cup {Nil}
  BY DEF Task
<1>2. /\ p.priority \in Int /\ p.enqueued \in Durations /\ p.deadline \in Durations
      /\ p.estimated \in Durations /\ p.latency \in Durations /\ p.success \in Int
  BY DEF Applicable, Perturbation
<1>3. p.enqueued \in Int /\ p.deadline \in Int
  BY <1>2, WidthAssumption DEF Durations
<1>4. /\ priority \in Int \cup {Nil} /\ enqueued \in Int /\ estimated \in Durations
      /\ deadline \in Int \cup {Nil} /\ latency \in Durations /\ success \in Int \cup {Nil}
  <2>1. priority \in Int \cup {Nil} /\ success \in Int \cup {Nil}
    BY <1>1, <1>2, ConfigTypes, ValueMoved
  <2>2. enqueued \in Int
    BY <1>1, <1>3, TimeMoved
  <2>3. estimated \in Durations /\ latency \in Durations
    BY <1>1, <1>2, ConfigTypes, DurationMoved
  <2>4. deadline \in Int \cup {Nil}
    BY <1>1, <1>3
  <2> QED
    BY <2>1, <2>2, <2>3, <2>4
<1>5. t = [task EXCEPT !.priority = priority, !.enqueued = enqueued, !.estimated = estimated,
                       !.deadline = deadline, !.latency = latency, !.success = success]
  BY DEF Shifted
<1> HIDE DEF t, priority, enqueued, estimated, deadline, latency, success
<1>6. t \in Task
  BY <1>4, <1>5 DEF Task
<1>7. /\ t.priority = priority /\ t.enqueued = enqueued /\ t.estimated = estimated
      /\ t.deadline = deadline /\ t.latency = latency /\ t.success = success
  BY <1>5 DEF Task
<1> QED
  BY <1>6, <1>7 DEF t, priority, enqueued, estimated, deadline, latency, success

LEMMA PerturbedType ==
    ASSUME NEW snapshot \in Snapshot, NEW p, p \in Perturbation, ~PerturbationError(snapshot, p)
    PROVE  /\ Applicable(p)
           /\ Perturbed(snapshot, p) \in Snapshot /\ Perturbed(snapshot, p).at = snapshot.at
           /\ \A i \in Matches(snapshot, p) :
                  /\ snapshot.ready[i] \in Task
                  /\ Perturbed(snapshot, p).ready[i] = Shifted(snapshot.at, snapshot.ready[i], p)
<1> DEFINE s == Perturbed(snapshot, p)
           n == Len(snapshot.ready)
           tasks == [i \in DOMAIN snapshot.ready |->
                        IF i \in Matches(snapshot, p)
                        THEN Shifted(snapshot.at, snapshot.ready[i], p) ELSE snapshot.ready[i]]
           capacity == IF p.available = Nil THEN snapshot.available
                       ELSE PlusResources(snapshot.available, p.available)
<1>1. /\ snapshot.at \in Int /\ snapshot.ready \in Seq(Task) /\ snapshot.running \in Seq(Task)
      /\ snapshot.available \in Resources \cup {Nil}
  BY DEF Snapshot
<1>2. /\ n \in Nat /\ DOMAIN snapshot.ready = 1..n /\ \A i \in 1..n : snapshot.ready[i] \in Task
  BY <1>1, LenProperties, ElementOfSeq
<1>3. Applicable(p)
  <2>1. p.success \in Int \cup {Nil} /\ p.success # Nil
    BY DEF PerturbationError, Perturbation
  <2> QED
    BY <2>1 DEF Applicable
<1>4. \A i \in Matches(snapshot, p) : i \in 1..n
  BY <1>2 DEF Matches
<1>5. \A i \in 1..n : Shifted(snapshot.at, snapshot.ready[i], p) \in Task
  BY <1>1, <1>2, <1>3, ShiftedFields
<1>6. tasks \in [1..n -> Task]
  BY <1>2, <1>5
<1>7. tasks \in Seq(Task)
  BY <1>2, <1>6, FunctionIsSeq
<1>8. capacity \in Resources \cup {Nil}
  <2>1. CASE p.available = Nil
    BY <1>1, <2>1
  <2>2. CASE p.available # Nil
    <3>1. snapshot.available \in Resources
      BY <1>1, <2>2 DEF PerturbationError
    <3>2. p.available \in Resources
      BY <2>2 DEF Perturbation
    <3>3. PlusResources(snapshot.available, p.available) \in Resources
      BY <3>1, <3>2 DEF PlusResources, Resources
    <3> QED
      BY <2>2, <3>3
  <2> QED
    BY <2>1, <2>2
<1>9. \A i \in Matches(snapshot, p) : tasks[i] = Shifted(snapshot.at, snapshot.ready[i], p)
  BY <1>2, <1>4
<1>10. s = [snapshot EXCEPT !.ready = tasks, !.available = capacity]
  BY DEF Perturbed
<1> HIDE DEF s, tasks, capacity
<1>11. s \in Snapshot /\ s.at = snapshot.at /\ s.ready = tasks
  BY <1>7, <1>8, <1>10 DEF Snapshot
<1> QED
  BY <1>2, <1>3, <1>4, <1>9, <1>11 DEF s

\* What the engine makes of a task, before and after a perturbation that names it.
Counted(was, is, moved, p) ==
    /\ is.priority = was.priority + p.priority
    /\ moved.enqueued # ZeroTime => is.enqueued = was.enqueued + p.enqueued
    /\ SuccessRate(is) = SuccessRate(was) + p.success
    /\ is.deadline # Nil => is.deadline = was.deadline + p.deadline
    /\ moved.estimated # 0 => is.estimated = Plus(was.estimated, p.estimated)
    /\ moved.latency # 0 /\ is.deadline = Nil => is.latency = Plus(was.latency, p.latency)

\* Each delta counts.
LEMMA DeltaCounts ==
    ASSUME NEW at \in Int, NEW task \in Task, NEW p, Applicable(p)
    PROVE  LET moved == Shifted(at, task, p)
           IN  Counted(Normalized(at, task), Normalized(at, moved), moved, p)
<1> DEFINE moved == Shifted(at, task, p)
           was == Normalized(at, task)
           is  == Normalized(at, moved)
<1>1. /\ moved \in Task
      /\ moved.priority  = Moved(task.priority, Nil, Config.defaultPriority, p.priority)
      /\ moved.enqueued  = Moved(task.enqueued, ZeroTime, at, p.enqueued)
      /\ moved.estimated = MovedDuration(task.estimated, Config.defaultEstimated, p.estimated)
      /\ moved.deadline  = IF task.deadline = Nil THEN Nil ELSE task.deadline + p.deadline
      /\ moved.latency   = MovedDuration(task.latency, Config.defaultLatency, p.latency)
      /\ moved.success   = Moved(task.success, Nil, Config.defaultSuccess, p.success)
  BY ShiftedFields
<1> HIDE DEF moved
<1>2. \A t \in Task :
          /\ Normalized(at, t).priority = Or(t.priority, Config.defaultPriority)
          /\ Normalized(at, t).enqueued = OrWhenZero(t.enqueued, at)
          /\ Normalized(at, t).estimated = OrWhenZero(t.estimated, Config.defaultEstimated)
          /\ t.deadline = Nil =>
                 Normalized(at, t).latency = OrWhenZero(t.latency, Config.defaultLatency)
          /\ Normalized(at, t).deadline = t.deadline
          /\ Normalized(at, t).success = t.success
  BY DEF Normalized, Task
<1> HIDE DEF was, is
<1>3. /\ was.priority = Or(task.priority, Config.defaultPriority)
      /\ was.enqueued = OrWhenZero(task.enqueued, at)
      /\ was.estimated = OrWhenZero(task.estimated, Config.defaultEstimated)
      /\ task.deadline = Nil => was.latency = OrWhenZero(task.latency, Config.defaultLatency)
      /\ was.deadline = task.deadline /\ was.success = task.success
  BY <1>2 DEF was
<1>4. /\ is.priority = Or(moved.priority, Config.defaultPriority)
      /\ is.enqueued = OrWhenZero(moved.enqueued, at)
      /\ is.estimated = OrWhenZero(moved.estimated, Config.defaultEstimated)
      /\ moved.deadline = Nil => is.latency = OrWhenZero(moved.latency, Config.defaultLatency)
      /\ is.deadline = moved.deadline /\ is.success = moved.success
  BY <1>1, <1>2 DEF is
<1>5. /\ p.priority \in Int /\ p.enqueued \in Durations /\ p.deadline \in Int
      /\ p.estimated \in Durations /\ p.latency \in Durations /\ p.success \in Int
      /\ p.enqueued \in Int
  <2>1. /\ p.priority \in Int /\ p.enqueued \in Durations /\ p.deadline \in Durations
        /\ p.estimated \in Durations /\ p.latency \in Durations /\ p.success \in Int
    BY DEF Applicable, Perturbation
  <2> QED
    BY <2>1, WidthAssumption DEF Durations
<1>6. /\ task.priority \in Int \cup {Nil} /\ task.enqueued \in Int
      /\ task.estimated \in Durations /\ task.latency \in Durations
      /\ task.deadline \in Int \cup {Nil} /\ task.success \in Int \cup {Nil}
  BY DEF Task
<1>7. is.priority = was.priority + p.priority
  <2>1. Config.defaultPriority \in Int
    BY ConfigTypes
  <2>2. Or(Moved(task.priority, Nil, Config.defaultPriority, p.priority), Config.defaultPriority)
            = Or(task.priority, Config.defaultPriority) + p.priority
    <3>1. task.priority \in Int \cup {Nil} /\ p.priority \in Int
      BY <1>5, <1>6
    <3> QED
      BY <2>1, <3>1, ValueMoved
  <2> QED
    BY <1>1, <1>3, <1>4, <2>2
<1>8. SuccessRate(is) = SuccessRate(was) + p.success
  <2>1. Config.defaultSuccess \in Int
    BY ConfigTypes
  <2>2. Or(Moved(task.success, Nil, Config.defaultSuccess, p.success), Config.defaultSuccess)
            = Or(task.success, Config.defaultSuccess) + p.success
    <3>1. task.success \in Int \cup {Nil} /\ p.success \in Int
      BY <1>5, <1>6
    <3> QED
      BY <2>1, <3>1, ValueMoved
  <2> QED
    BY <1>1, <1>3, <1>4, <2>2 DEF SuccessRate
<1>9. moved.enqueued # ZeroTime => is.enqueued = was.enqueued + p.enqueued
  <2>1. moved.enqueued # ZeroTime => is.enqueued = moved.enqueued
    BY <1>4 DEF OrWhenZero, ZeroTime
  <2>2. moved.enqueued # ZeroTime => moved.enqueued = OrWhenZero(task.enqueued, at) + p.enqueued
    BY <1>1, <1>5, <1>6, TimeMoved
  <2> QED
    BY <1>3, <2>1, <2>2
<1>10. is.deadline # Nil => is.deadline = was.deadline + p.deadline
  BY <1>1, <1>3, <1>4
<1>11. moved.estimated # 0 => is.estimated = Plus(was.estimated, p.estimated)
  <2>1. moved.estimated # 0 => is.estimated = moved.estimated
    BY <1>4 DEF OrWhenZero
  <2>2. moved.estimated # 0 =>
            moved.estimated = Plus(OrWhenZero(task.estimated, Config.defaultEstimated), p.estimated)
    BY <1>1, <1>5, <1>6, DurationMoved, ConfigTypes
  <2> QED
    BY <1>3, <2>1, <2>2
<1>12. moved.latency # 0 /\ is.deadline = Nil => is.latency = Plus(was.latency, p.latency)
  <2>1. SUFFICES ASSUME moved.latency # 0, is.deadline = Nil
                 PROVE  is.latency = Plus(was.latency, p.latency)
    OBVIOUS
  <2>2. moved.deadline = Nil /\ task.deadline = Nil
    <3>1. moved.deadline = Nil
      BY <1>4, <2>1
    <3>2. task.deadline # Nil => task.deadline + p.deadline \in Int
      BY <1>5, <1>6
    <3> QED
      BY <1>1, <3>1, <3>2, NilAssumption
  <2>3. is.latency = moved.latency
    BY <1>4, <2>1, <2>2 DEF OrWhenZero
  <2>4. moved.latency = Plus(OrWhenZero(task.latency, Config.defaultLatency), p.latency)
    BY <1>1, <1>5, <1>6, <2>1, DurationMoved, ConfigTypes
  <2> QED
    BY <1>3, <2>2, <2>3, <2>4
<1> QED
  BY <1>7, <1>8, <1>9, <1>10, <1>11, <1>12 DEF Counted, moved, was, is

\* What the engine makes of the rest of the task.
Kept(was, is, moved, p) ==
    /\ p.enqueued = 0 => is.enqueued = was.enqueued
    /\ p.estimated = 0 => is.estimated = was.estimated
    /\ p.estimated # 0 => moved.estimated = Plus(was.estimated, p.estimated)
    /\ p.latency = 0 /\ is.deadline = Nil => is.latency = was.latency
    /\ is.deadline = Nil <=> was.deadline = Nil
    /\ moved.id = was.id /\ is.id = was.id /\ is.resources = was.resources
    /\ RequiresGPU(is) <=> RequiresGPU(was)

LEMMA OthersKept ==
    ASSUME NEW at \in Int, NEW task \in Task, NEW p, Applicable(p)
    PROVE  LET moved == Shifted(at, task, p)
           IN  Kept(Normalized(at, task), Normalized(at, moved), moved, p)
<1> DEFINE moved == Shifted(at, task, p)
           was == Normalized(at, task)
           is  == Normalized(at, moved)
<1>1. /\ moved \in Task
      /\ moved.enqueued  = Moved(task.enqueued, ZeroTime, at, p.enqueued)
      /\ moved.estimated = MovedDuration(task.estimated, Config.defaultEstimated, p.estimated)
      /\ moved.deadline  = IF task.deadline = Nil THEN Nil ELSE task.deadline + p.deadline
      /\ moved.latency   = MovedDuration(task.latency, Config.defaultLatency, p.latency)
  BY ShiftedFields
<1>2. moved.id = task.id /\ moved.resources = task.resources /\ (moved.gpu <=> task.gpu)
  BY DEF Shifted, Task
<1> HIDE DEF moved
<1>3. \A t \in Task :
          LET u == Normalized(at, t)
          IN  /\ u.enqueued = OrWhenZero(t.enqueued, at)
              /\ u.estimated = OrWhenZero(t.estimated, Config.defaultEstimated)
              /\ t.deadline = Nil => u.latency = OrWhenZero(t.latency, Config.defaultLatency)
              /\ u.deadline = t.deadline /\ u.id = t.id /\ u.resources = t.resources
              /\ u.gpu <=> RequiresGPU(t)
  BY DEF Normalized, Task
<1> HIDE DEF was, is
<1>4. /\ was.enqueued = OrWhenZero(task.enqueued, at)
      /\ was.estimated = OrWhenZero(task.estimated, Config.defaultEstimated)
      /\ task.deadline = Nil => was.latency = OrWhenZero(task.latency, Config.defaultLatency)
      /\ was.deadline = task.deadline /\ was.id = task.id /\ was.resources = task.resources
      /\ was.gpu <=> RequiresGPU(task)
  BY <1>3 DEF was
<1>5. /\ is.enqueued = OrWhenZero(moved.enqueued, at)
      /\ is.estimated = OrWhenZero(moved.estimated, Config.defaultEstimated)
      /\ moved.deadline = Nil => is.latency = OrWhenZero(moved.latency, Config.defaultLatency)
      /\ is.deadline = moved.deadline /\ is.id = moved.id /\ is.resources = moved.resources
      /\ is.gpu <=> RequiresGPU(moved)
  BY <1>1, <1>3 DEF is
<1>6. /\ p.enqueued = 0 => is.enqueued = was.enqueued
      /\ p.estimated = 0 => is.estimated = was.estimated
      /\ p.estimated # 0 => moved.estimated = Plus(was.estimated, p.estimated)
  BY <1>1, <1>4, <1>5 DEF Moved, MovedDuration
<1>7. is.deadline = Nil <=> was.deadline = Nil
  <2>1. task.deadline \in Int \cup {Nil} /\ p.deadline \in Int
    BY DifferenceType DEF Applicable, Perturbation, Task
  <2>2. task.deadline # Nil => task.deadline + p.deadline # Nil
    BY <2>1, NilAssumption
  <2> QED
    BY <1>1, <1>4, <1>5, <2>2
<1>8. p.latency = 0 /\ is.deadline = Nil => is.latency = was.latency
  BY <1>1, <1>4, <1>5, <1>7 DEF MovedDuration
<1>9. RequiresGPU(is) <=> RequiresGPU(was)
  BY <1>2, <1>4, <1>5 DEF RequiresGPU
<1> QED
  BY <1>2, <1>4, <1>5, <1>6, <1>7, <1>8, <1>9 DEF Kept, moved, was, is

\* A sum that stays positive has not wrapped around.
LEMMA PlusOrder ==
    ASSUME NEW l \in Durations, NEW r \in Durations, l > 0
    PROVE  /\ r > 0 => Plus(l, r) # 0 /\ (Plus(l, r) > 0 => l <= Plus(l, r))
           /\ r < 0 => Plus(l, r) < l
<1>1. MaxDuration \in Nat /\ l \in Int /\ r \in Int /\ l <= MaxDuration /\ r <= MaxDuration
      /\ -(MaxDuration + 1) <= r
  BY WidthAssumption DEF Durations
<1>2. CASE r > 0
  <2>1. Minus(0, r) = -r
    BY <1>1, <1>2 DEF Minus
  <2>2. l - (-r) = l + r
    BY <1>1
  <2>3. Minus(l, -r) = IF l + r > MaxDuration THEN l + r - 2 * (MaxDuration + 1) ELSE l + r
    BY <1>1, <1>2, <2>2 DEF Minus
  <2> QED
    BY <1>1, <1>2, <2>1, <2>3 DEF Plus
<1>3. CASE r < 0 /\ r # -(MaxDuration + 1)
  <2>1. Minus(0, r) = -r
    BY <1>1, <1>3 DEF Minus
  <2>2. l - (-r) = l + r
    BY <1>1
  <2>3. Minus(l, -r) = l + r
    BY <1>1, <1>3, <2>2 DEF Minus
  <2> QED
    BY <1>1, <1>3, <2>1, <2>3 DEF Plus
<1>4. CASE r = -(MaxDuration + 1)
  <2>1. Minus(0, r) = r
    BY <1>1, <1>4 DEF Minus
  <2>2. Minus(l, r) = l + r
    BY <1>1, <1>4 DEF Minus
  <2> QED
    BY <1>1, <1>4, <2>1, <2>2 DEF Plus
<1> QED
  BY <1>1, <1>2, <1>3, <1>4

-----------------------------------------------------------------------------
(* The snapshots that are decided upon, and what the report says of them.    *)

\* Every run so far, and the one in the works, decides upon a snapshot.
SnapshotsInv ==
    /\ phase \notin {"deciding", "failed"} => working = Nil
    /\ working = Nil \/ working \in Snapshot
    /\ phase = "deciding" => ~PerturbationError(experiment.baseline, Given(Next1))
    /\ \A i \in 1..Len(report.runs) : /\ ~PerturbationError(experiment.baseline, Given(i))
                                     /\ Perturbed(experiment.baseline, Given(i)) \in Snapshot

LEMMA GivenType ==
    ASSUME NEW e \in Experiments
    PROVE  /\ e.baseline \in Snapshot
           /\ \A i \in 1..Len(e.perturbations) : e.perturbations[i] \in Perturbation
<1>1. e.baseline \in Snapshot /\ e.perturbations \in Seq(Perturbation)
  BY ExperimentsAssumption
<1> QED
  BY <1>1, ElementOfSeq

LEMMA SnapshotsInductive ==
    RunsInv /\ NamesInv /\ SnapshotsInv /\ [Next]_vars => SnapshotsInv'
<1> SUFFICES ASSUME RunsInv, NamesInv, SnapshotsInv, [Next]_vars PROVE SnapshotsInv'
  OBVIOUS
<1>1. /\ Len(report.runs) \in Nat /\ Len(experiment.perturbations) \in Nat
      /\ experiment \in Experiments /\ baseline = experiment.baseline
      /\ baseline \in Snapshot
      /\ \A i \in 1..Len(experiment.perturbations) : Given(i) \in Perturbation
  BY PerturbationsFinite, LenProperties, GivenType DEF RunsInv, Given
<1>2. CASE Fail
  <2>1. phase' = "failed" /\ Len(report'.runs) = 0 /\ UNCHANGED working
    BY <1>2 DEF Fail, NoReport
  <2> QED
    BY <2>1 DEF SnapshotsInv
<1>3. CASE DecideBaseline /\ ~Fail
  <2>1. /\ phase = "baseline" /\ phase' = "perturbing"
        /\ report' = [report EXCEPT !.baseline = Decide(baseline)]
        /\ UNCHANGED <<experiment, baseline, working>>
    BY <1>3 DEF DecideBaseline
  <2>2. report'.runs = report.runs
    BY <2>1 DEF RunsInv
  <2> QED
    BY <2>1, <2>2 DEF SnapshotsInv, Given
<1>4. CASE Perturb /\ ~Fail
  <2> DEFINE p == Given(Next1)
  <2>1. /\ phase = "perturbing" /\ phase' = "deciding"
        /\ Len(report.runs) < Len(experiment.perturbations)
        /\ ~PerturbationError(baseline, p) /\ working' = Perturbed(baseline, p)
        /\ UNCHANGED <<experiment, report>>
    BY <1>4 DEF Perturb, Given, Next1
  <2>2. p \in Perturbation
    BY <1>1, <2>1 DEF Next1
  <2>3. working' \in Snapshot
    BY <1>1, <2>1, <2>2, PerturbedType
  <2> QED
    BY <1>1, <2>1, <2>3 DEF SnapshotsInv, Given, Next1
<1>5. CASE DecideRun /\ ~Fail
  <2> DEFINE entry == Run(report.baseline, Given(Next1), Decide(working))
             n     == Len(report.runs)
  <2>1. /\ phase = "deciding" /\ phase' = "perturbing" /\ working' = Nil
        /\ report' = [report EXCEPT !.runs = Append(@, entry)]
        /\ UNCHANGED <<experiment, baseline>>
    BY <1>5 DEF DecideRun, Given, Next1
  <2> HIDE DEF entry
  <2>2. report'.runs = Append(report.runs, entry)
    BY <2>1 DEF RunsInv
  <2>3. report.runs \in Seq({Expected(i) : i \in 1..Len(experiment.perturbations)} \cup {entry})
    <3>1. report.runs \in Seq({Expected(i) : i \in 1..Len(experiment.perturbations)})
      BY DEF RunsInv
    <3> QED
      BY <3>1
  <2>4. Len(report'.runs) = n + 1
    BY <2>2, <2>3, AppendProperties
  <2>5. /\ ~PerturbationError(experiment.baseline, Given(n + 1))
        /\ Perturbed(experiment.baseline, Given(n + 1)) \in Snapshot
    <3>1. n + 1 <= Len(experiment.perturbations) /\ ~PerturbationError(baseline, Given(n + 1))
      BY <1>1, <2>1 DEF NamesInv, SnapshotsInv, Next1
    <3>2. Given(n + 1) \in Perturbation
      BY <1>1, <3>1
    <3> QED
      BY <1>1, <3>1, <3>2, PerturbedType
  <2>6. \A i \in 1..(n + 1) : /\ ~PerturbationError(experiment.baseline, Given(i))
                             /\ Perturbed(experiment.baseline, Given(i)) \in Snapshot
    BY <1>1, <2>5 DEF SnapshotsInv
  <2> QED
    BY <2>1, <2>4, <2>6 DEF SnapshotsInv, Given
<1>6. CASE Finish
  BY <1>6 DEF Finish, SnapshotsInv, Given
<1>7. CASE UNCHANGED vars
  BY <1>7 DEF vars, SnapshotsInv, Given, Next1
<1> QED
  BY <1>2, <1>3, <1>4, <1>5, <1>6, <1>7 DEF Next

LEMMA SnapshotsInvariant == Spec => [](RunsInv /\ NamesInv /\ SnapshotsInv)
<1>1. Init => SnapshotsInv
  <2> SUFFICES ASSUME Init PROVE SnapshotsInv
    OBVIOUS
  <2>1. phase = "baseline" /\ working = Nil /\ report.runs = <<>> /\ Len(report.runs) = 0
    BY DEF Init, NoReport
  <2> QED
    BY <2>1 DEF SnapshotsInv
<1> QED
  BY <1>1, InitRuns, RunsInductive, SnapshotsInductive, PTL DEF Spec

\* Only a snapshot is ever decided upon, only while a run is in the works, and there
\* is at most one run for each perturbation.
THEOREM ExperimentTyped == Spec => []TypeOK
<1>1. RunsInv /\ NamesInv /\ SnapshotsInv => TypeOK
  BY GivenType DEF RunsInv, SnapshotsInv, TypeOK
<1> QED
  BY <1>1, SnapshotsInvariant, PTL

LEMMA SelectionFinite ==
    ASSUME NEW snapshot \in Snapshot
    PROVE  IsFiniteSet(SelectedIDs(Decide(snapshot)))
<1> DEFINE s == Decide(snapshot).selected
<1>1. s \in Seq(Task)
  BY DecideSound
<1> HIDE DEF s
<1>2. DOMAIN s = 1..Len(s) /\ Len(s) \in Nat
  BY <1>1, LenProperties
<1>3. IsFiniteSet(1..Len(s))
  BY <1>2, FS_Interval
<1> DEFINE f == [i \in 1..Len(s) |-> s[i].id]
           S == {s[i].id : i \in 1..Len(s)}
<1>4. f \in Surjection(1..Len(s), S)
  BY DEF Surjection
<1>5. IsFiniteSet(S)
  BY <1>3, <1>4, FS_Surjection
<1> QED
  BY <1>2, <1>5 DEF SelectedIDs, IDs, s

\* The distance of two selections is positive exactly when they differ, and largest
\* when they are disjoint.
LEMMA DistanceMeans ==
    ASSUME NEW left, NEW right, IsFiniteSet(left), IsFiniteSet(right)
    PROVE  LET d == Distance(left, right)
           IN  /\ Positive(d) <=> left # right
               /\ d.common = d.all => left = right
               /\ d.common = 0 => left \cap right = {}
<1> DEFINE both   == left \cap right
           either == left \cup right
<1>1. IsFiniteSet(either)
  BY FS_Union
<1>2. both \subseteq either /\ (both = either <=> left = right)
  OBVIOUS
<1>3. IsFiniteSet(both) /\ Cardinality(both) \in Nat /\ Cardinality(either) \in Nat
  BY <1>1, <1>2, FS_Subset, FS_CardinalityType
<1>4. Cardinality(both) <= Cardinality(either)
      /\ (Cardinality(both) = Cardinality(either) => both = either)
  BY <1>1, <1>2, FS_Subset
<1>5. Cardinality(both) = 0 => both = {}
  BY <1>3, FS_EmptySet
<1>6. /\ Distance(left, right).common = Cardinality(both)
      /\ Distance(left, right).all = Cardinality(either)
  BY DEF Distance
<1> HIDE DEF both, either
<1>7. Positive(Distance(left, right)) <=> Cardinality(both) < Cardinality(either)
  BY <1>6 DEF Positive
<1>8. Cardinality(both) < Cardinality(either) <=> left # right
  BY <1>2, <1>3, <1>4
<1> QED
  BY <1>2, <1>4, <1>5, <1>6, <1>7, <1>8 DEF both

\* A run is reported as changed exactly when its selection is not the baseline's.
THEOREM ChangesReported == Spec => []ChangeReported
<1>1. RunsInv /\ NamesInv /\ SnapshotsInv => ChangeReported
  <2> SUFFICES ASSUME RunsInv, SnapshotsInv, NEW i \in DOMAIN report.runs
               PROVE  LET run  == report.runs[i]
                          now  == SelectedIDs(run.decision)
                          then == SelectedIDs(report.baseline)
                      IN  /\ run.changed <=> now # then
                          /\ run.distance.common = run.distance.all => now = then
                          /\ run.distance.common = 0 => now \cap then = {}
    BY DEF ChangeReported
  <2> DEFINE first  == Decide(experiment.baseline)
             second == Decide(Perturbed(experiment.baseline, Given(i)))
             before == SelectedIDs(first)
             after  == SelectedIDs(second)
  <2>1. i \in 1..Len(report.runs)
    BY LenProperties DEF RunsInv
  <2>2. report.runs[i] = Run(first, Given(i), second)
    BY <2>1 DEF RunsInv, Expected
  <2>3. IsFiniteSet(before) /\ IsFiniteSet(after)
    <3>1. experiment.baseline \in Snapshot
      BY GivenType DEF RunsInv
    <3>2. Perturbed(experiment.baseline, Given(i)) \in Snapshot
      BY <2>1 DEF SnapshotsInv
    <3> QED
      BY <3>1, <3>2, SelectionFinite
  <2>4. report.baseline = first
    <3>1. phase \in {"baseline", "failed"} => Len(report.runs) = 0
      BY DEF RunsInv, NoReport
    <3> QED
      BY <2>1, <3>1 DEF RunsInv
  <2> HIDE DEF first, second
  <2>5. /\ report.runs[i].distance = Distance(before, after)
        /\ report.runs[i].changed <=> Positive(Distance(before, after))
        /\ report.runs[i].decision = second
    BY <2>2 DEF Run
  <2>6. /\ Positive(Distance(before, after)) <=> before # after
        /\ Distance(before, after).common = Distance(before, after).all => before = after
        /\ Distance(before, after).common = 0 => before \cap after = {}
    BY <2>3, DistanceMeans
  <2> QED
    BY <2>4, <2>5, <2>6
<1> QED
  BY <1>1, SnapshotsInvariant, PTL

\* Each delta moves what the engine makes of its task by just that much.
THEOREM DeltasMove == Spec => []DeltasCount
<1>1. RunsInv /\ NamesInv /\ SnapshotsInv => DeltasCount
  <2> DEFINE p == Given(Next1)
             before == experiment.baseline
  <2> SUFFICES ASSUME RunsInv, NamesInv, SnapshotsInv, phase = "deciding", NEW i \in Matches(before, p)
               PROVE  Counted(Normalized(before.at, before.ready[i]),
                              Normalized(working.at, working.ready[i]), working.ready[i], p)
    BY DEF DeltasCount, Counted, Given, Next1
  <2>1. before \in Snapshot /\ p \in Perturbation /\ ~PerturbationError(before, p)
        /\ working = Perturbed(before, p)
    <3>1. experiment \in Experiments /\ Next1 \in 1..Len(experiment.perturbations)
      BY LenProperties DEF RunsInv, NamesInv, Next1
    <3> QED
      BY <3>1, GivenType DEF NamesInv, SnapshotsInv, Given
  <2> HIDE DEF p, before
  <2>2. /\ Applicable(p) /\ before.ready[i] \in Task /\ working.at = before.at
        /\ working.ready[i] = Shifted(before.at, before.ready[i], p) /\ before.at \in Int
    BY <2>1, PerturbedType DEF Snapshot
  <2> QED
    BY <2>2, DeltaCounts
<1> QED
  BY <1>1, SnapshotsInvariant, PTL

-----------------------------------------------------------------------------
(* A task that becomes more urgent.                                          *)

\* c is the candidate d, or that candidate made more urgent.
MoreUrgentThan(c, d) ==
    /\ c.outcome # "rejected" /\ d.outcome # "rejected" /\ c.hasDeadline /\ d.hasDeadline
    /\ c.task.id = d.task.id /\ d.score <= c.score
    /\ c.deadline <= d.deadline /\ c.task.enqueued <= d.task.enqueued

\* What a candidate is ahead of, it stays ahead of.
LEMMA MoreUrgentAhead ==
    ASSUME NEW A \in SUBSET Candidate, NEW B \in SUBSET Candidate, Exact(A), Exact(B),
           NEW c \in B, NEW d \in A, NEW e \in A, e \in B, MoreUrgentThan(c, d), Ahead(d, e)
    PROVE  Ahead(c, e)
<1> DEFINE k == KeyOf(c)
           l == KeyOf(d)
           o == KeyOf(e)
<1>1. /\ k \in RankKey /\ l \in RankKey /\ o \in RankKey
      /\ KeyAhead(l, o) /\ (Ahead(c, e) <=> KeyAhead(k, o))
  BY AheadByKey
<1>2. /\ k.rejected = 0 /\ l.rejected = 0 /\ k.undue = 0 /\ l.undue = 0 /\ k.id = l.id
      /\ l.score <= k.score /\ k.deadline <= l.deadline /\ k.enqueued <= l.enqueued
  BY DEF KeyOf, MoreUrgentThan
<1> HIDE DEF k, l, o
<1>3. KeyAhead(k, o)
  BY <1>1, <1>2 DEF KeyAhead, RankKey
<1> QED
  BY <1>1, <1>3

\* Nothing rejected is ahead of what is not.
LEMMA RejectedBehind ==
    ASSUME NEW c, NEW d, c.outcome # "rejected", ~Ahead(c, d)
    PROVE  d.outcome # "rejected"
  BY DEF Ahead

\* t is s in sorted order, its k-th element being the f[k]-th of s.
Arranged(t, s, f, n, A) ==
    /\ t \in Seq(A) /\ Len(t) = n /\ Sorted(AheadOn(A), t)
    /\ f \in [1..n -> 1..n] /\ OneToOne(f, n) /\ Onto(f, n, n)
    /\ \A k \in 1..n : t[k] = s[f[k]]

\* What is not rejected has an ID of its own.
AcceptedOnce(s, n) ==
    \A i, j \in 1..n : /\ s[i].outcome # "rejected" /\ s[j].outcome # "rejected"
                       /\ s[i].task.id = s[j].task.id
                       => i = j

LEMMA ArrangedOnce ==
    ASSUME NEW n, NEW s, NEW t, NEW f, NEW A, Arranged(t, s, f, n, A), AcceptedOnce(s, n)
    PROVE  AcceptedOnce(t, n)
<1> SUFFICES ASSUME NEW i \in 1..n, NEW j \in 1..n, t[i].outcome # "rejected",
                    t[j].outcome # "rejected", t[i].task.id = t[j].task.id
             PROVE  i = j
  BY DEF AcceptedOnce
<1>1. t[i] = s[f[i]] /\ t[j] = s[f[j]] /\ f[i] \in 1..n /\ f[j] \in 1..n
  BY DEF Arranged
<1>2. f[i] = f[j]
  BY <1>1 DEF AcceptedOnce
<1> QED
  BY <1>2 DEF Arranged, OneToOne

\* u is s but for its m-th element, which is more urgent.
Raises(u, s, m, n) ==
    /\ \A i \in 1..n : i # m => u[i] = s[i]
    /\ MoreUrgentThan(u[m], s[m])

\* t is s in sorted order, and the m-th element of s is the k-th in t.
Placed(m, k, t, s, f, n, A) ==
    /\ Arranged(t, s, f, n, A) /\ AcceptedOnce(s, n) /\ Exact(A) /\ A \in SUBSET Candidate
    /\ k \in 1..n /\ m \in 1..n /\ f[k] = m

\* Before o, the place in v, t and v are the same, and it is before k.
SameBefore(t, v, o, k) == \A l \in 1..(o - 1) : l < k /\ t[l] = v[l]

\* Up to the place of the more urgent candidate nothing has changed.
LEMMA SamePrefix ==
    ASSUME NEW n, n \in Nat, NEW m, NEW s, NEW u, Raises(u, s, m, n),
           NEW t, NEW f, NEW A, NEW k, Placed(m, k, t, s, f, n, A),
           NEW v, NEW g, NEW B, NEW o, Placed(m, o, v, u, g, n, B)
    PROVE  SameBefore(t, v, o, k)
<1>0. /\ m \in 1..n /\ A \in SUBSET Candidate /\ B \in SUBSET Candidate /\ Exact(A) /\ Exact(B)
      /\ AcceptedOnce(s, n) /\ AcceptedOnce(u, n)
      /\ Arranged(t, s, f, n, A) /\ Arranged(v, u, g, n, B)
      /\ k \in 1..n /\ f[k] = m /\ o \in 1..n /\ g[o] = m
  BY DEF Placed
<1>1. \A x \in 1..n : t[x] \in A /\ v[x] \in B /\ f[x] \in 1..n /\ g[x] \in 1..n
                      /\ t[x] = s[f[x]] /\ v[x] = u[g[x]]
  BY <1>0, ElementOfSeq DEF Arranged
<1>2. t[k] = s[m] /\ v[o] = u[m] /\ MoreUrgentThan(v[o], t[k])
  BY <1>0, <1>1 DEF Raises
<1>3. v[o].outcome # "rejected" /\ t[k].outcome # "rejected"
  BY <1>0, <1>2 DEF MoreUrgentThan
<1>4. AcceptedOnce(t, n) /\ AcceptedOnce(v, n)
  BY <1>0, ArrangedOnce
<1>5. \A x, y \in 1..n : /\ x < y => ~Ahead(t[y], t[x]) /\ ~Ahead(v[y], v[x])
                         /\ x # y => f[x] # f[y] /\ g[x] # g[y]
  BY <1>0, <1>1 DEF Arranged, Sorted, AheadOn, OneToOne
<1>6. \A x \in 1..n : /\ x < k => t[x].outcome # "rejected" /\ f[x] # m
                      /\ x < o => v[x].outcome # "rejected" /\ g[x] # m
  BY <1>0, <1>3, <1>5, RejectedBehind
<1> DEFINE S == {l \in 1..(o - 1) : ~(l < k /\ t[l] = v[l])}
<1> SUFFICES ASSUME S # {} PROVE FALSE
  BY DEF SameBefore
<1>7. PICK l \in S : \A x \in S : l <= x
  <2>1. S \in SUBSET Nat
    OBVIOUS
  <2> HIDE DEF S
  <2> QED
    BY <1>0, <2>1, LeastNatural
<1>8. /\ l \in 1..n /\ l < o /\ ~(l < k /\ t[l] = v[l])
      /\ \A x \in 1..n : x < l => x < k /\ t[x] = v[x]
  BY <1>0, <1>7
<1> HIDE DEF S
<1>9. l <= k
  BY <1>0, <1>8
\* The candidate d that is at l now was behind l before.
<1>10. PICK x \in 1..n : f[x] = g[l]
  BY <1>0, <1>1, <1>8 DEF Arranged, Onto
<1> DEFINE d == v[l]
           c == t[k]
           e == t[l]
<1>11. t[x] = d /\ x # k /\ d.outcome # "rejected" /\ d \in A /\ d \in B
  <2>1. g[l] # m /\ d.outcome # "rejected"
    BY <1>0, <1>6, <1>8
  <2>2. u[g[l]] = s[g[l]]
    BY <1>0, <1>1, <1>8, <2>1 DEF Raises
  <2> QED
    BY <1>0, <1>1, <1>8, <1>10, <2>1, <2>2
<1>12. l <= x
  <2> SUFFICES ASSUME x < l PROVE FALSE
    BY <1>0, <1>8
  <2>1. v[x] = d
    BY <1>0, <1>8, <1>11
  <2>2. x = l
    BY <1>0, <1>4, <1>8, <1>11, <2>1 DEF AcceptedOnce
  <2> QED
    BY <1>0, <1>8, <2>2
<1>13. CASE l = k
  <2>1. k < x
    BY <1>0, <1>11, <1>12, <1>13
  <2>2. ~Ahead(d, c)
    BY <1>0, <1>5, <1>11, <2>1
  <2>3. c \in A /\ c.task.id # d.task.id
    <3>1. ~(c.task.id = d.task.id)
      BY <1>0, <1>3, <1>4, <1>11 DEF AcceptedOnce
    <3> QED
      BY <1>0, <1>1, <3>1
  <2>4. Ahead(c, d)
    BY <1>0, <1>11, <2>2, <2>3, AheadOrders
  <2>5. Ahead(v[o], d)
    BY <1>0, <1>1, <1>2, <1>11, <2>3, <2>4, MoreUrgentAhead
  <2> QED
    BY <1>0, <1>5, <1>8, <2>5
<1>14. CASE l < k
  <2>1. e # d /\ e.outcome # "rejected" /\ f[l] # m /\ e \in A /\ f[l] \in 1..n
    BY <1>0, <1>1, <1>6, <1>8, <1>14
  <2>2. PICK y \in 1..n : g[y] = f[l]
    BY <1>0, <2>1 DEF Arranged, Onto
  <2>3. v[y] = e
    <3>1. u[f[l]] = s[f[l]]
      BY <1>0, <2>1 DEF Raises
    <3> QED
      BY <1>0, <1>1, <1>8, <2>2, <3>1
  <2>4. l < y
    <3>1. y # l
      BY <1>0, <2>1, <2>3
    <3>2. ~(y < l)
      <4> SUFFICES ASSUME y < l PROVE FALSE
        OBVIOUS
      <4>1. t[y] = e
        BY <1>0, <1>8, <2>3
      <4>2. y = l
        BY <1>0, <1>4, <1>8, <2>1, <4>1 DEF AcceptedOnce
      <4> QED
        BY <1>0, <1>8, <4>2
    <3> QED
      BY <1>0, <1>8, <3>1, <3>2
  <2>5. l < x
    <3>1. x # l
      BY <1>0, <1>11, <2>1
    <3> QED
      BY <1>0, <1>8, <1>12, <3>1
  <2>6. ~Ahead(d, e) /\ ~Ahead(e, d)
    BY <1>0, <1>5, <1>8, <1>11, <2>3, <2>4, <2>5
  <2>7. e.task.id # d.task.id
    <3> SUFFICES ASSUME e.task.id = d.task.id PROVE FALSE
      OBVIOUS
    <3>1. x = l
      BY <1>0, <1>4, <1>8, <1>11, <2>1 DEF AcceptedOnce
    <3> QED
      BY <1>0, <1>8, <2>5, <3>1
  <2> QED
    BY <1>0, <1>11, <2>1, <2>6, <2>7, AheadOrders
<1> QED
  BY <1>0, <1>8, <1>9, <1>13, <1>14

\* Two runs of the admission loop agree as long as what they are given does.
LEMMA SameAdmission ==
    ASSUME NEW t \in Seq(Candidate), NEW v \in Seq(Candidate), NEW r, NEW q, NEW start,
           AdmissionRun(r, start, t), AdmissionRun(q, start, v),
           NEW p \in 0..Len(t), p <= Len(v), \A l \in 1..p : t[l] = v[l]
    PROVE  r[p] = q[p]
<1> DEFINE Q == {i \in 0..p : r[i] = q[i]}
<1>1. Len(t) \in Nat /\ Len(v) \in Nat /\ p \in Nat
  BY LenProperties
<1>2. 0 \in Q
  BY <1>1 DEF AdmissionRun
<1>3. ASSUME NEW i \in 0..(p - 1), i \in Q PROVE i + 1 \in Q
  <2>1. /\ i + 1 \in 1..Len(t) /\ i + 1 \in 1..Len(v) /\ i + 1 \in 1..p /\ (i + 1) - 1 = i
        /\ i + 1 \in 0..p
    BY <1>1
  <2>2. r[i + 1] = AdmitInto(r[i], t[i + 1]) /\ q[i + 1] = AdmitInto(q[i], v[i + 1])
    BY <2>1 DEF AdmissionRun
  <2>3. r[i] = q[i] /\ t[i + 1] = v[i + 1]
    BY <1>3, <2>1
  <2> QED
    BY <2>1, <2>2, <2>3
<1> HIDE DEF Q
<1>4. \A i \in 0..p : i \in Q
  BY <1>1, <1>2, <1>3, Induction
<1> QED
  BY <1>1, <1>4 DEF Q

AskValidly(s) == \A k \in 1..Len(s) : s[k].outcome = Undecided => Valid(s[k].task.resources)

\* A task that the budget keeps out would be kept out later as well.
LEMMA BlockedLasts ==
    ASSUME NEW s \in Seq(Candidate), NEW r, NEW start, AdmissionRun(r, start, s), AskValidly(s),
           NEW x \in Task, NEW from \in 0..Len(s), Blocked(x, r[from].budget)
    PROVE  \A i \in 0..Len(s) : from <= i => Blocked(x, r[i].budget)
<1> DEFINE n == Len(s)
           Q == {i \in 0..n : from <= i => Blocked(x, r[i].budget)}
<1>1. n \in Nat
  BY LenProperties
<1>2. 0 \in Q
  <2>1. from <= 0 => from = 0
    BY <1>1
  <2> QED
    BY <1>1, <2>1
<1>3. ASSUME NEW i \in 0..(n - 1), i \in Q PROVE i + 1 \in Q
  <2> DEFINE b == r[i].budget
             c == r[i + 1].budget
             u == s[i + 1].task
  <2>1. i + 1 \in 1..n /\ i + 1 \in 0..n /\ (i + 1) - 1 = i
    BY <1>1
  <2>2. CASE i + 1 = from \/ i + 1 < from
    <3>1. from <= i + 1 => from = i + 1
      BY <1>1, <2>2
    <3> QED
      BY <2>1, <3>1
  <2>3. CASE from <= i
    <3>1. Blocked(x, b)
      BY <1>3, <2>3
    <3>2. b \in Budget /\ u \in Task /\ (IF Admits(r, s, i + 1) THEN c = Charge(b, u) ELSE c = b)
      BY <2>1, AdmissionTurn
    <3>3. Admits(r, s, i + 1) => b.slots # 0 /\ Valid(u.resources)
      <4>1. Admits(r, s, i + 1) => Obstacle(u, b) = "" /\ s[i + 1].outcome = Undecided
        BY <2>1 DEF Admits
      <4>2. Obstacle(u, b) = "" => b.slots # 0
        BY DEF Obstacle
      <4> QED
        BY <2>1, <4>1, <4>2 DEF AskValidly
    <3> HIDE DEF b, c, u
    <3>4. Blocked(x, c)
      BY <3>1, <3>2, <3>3, ObstaclePersists
    <3> QED
      BY <2>1, <3>4 DEF c
  <2> QED
    BY <1>1, <2>2, <2>3
<1> HIDE DEF Q
<1>4. \A i \in 0..n : i \in Q
  BY <1>1, <1>2, <1>3, Induction
<1> QED
  BY <1>4 DEF Q

\* What the screening accepts has an ID of its own.
LEMMA ScreenedOnce ==
    ASSUME NEW snap \in Snapshot
    PROVE  AcceptedOnce(Screened(snap), Len(snap.ready))
<1> DEFINE s == Screened(snap)
           n == Len(snap.ready)
<1>1. /\ n \in Nat /\ DOMAIN snap.ready = 1..n /\ snap.at \in Int
      /\ \A i \in 1..n : snap.ready[i] \in Task
  BY LenProperties, ElementOfSeq DEF Snapshot
<1>2. ASSUME NEW i \in 1..n, NEW j \in 1..n, i < j, s[i].task.id = s[j].task.id
      PROVE  s[j].outcome = "rejected"
  <2> DEFINE raw  == snap.ready[j]
             seen == {snap.ready[k].id : k \in 1..(j - 1)}
             c    == Rank(snap.at, raw)
  <2>1. s[j] = Screen(snap, seen, raw)
    BY <1>1 DEF Screened
  <2>2. raw.id \in seen
    <3>1. snap.ready[i].id = raw.id
      BY <1>2, ScreenedType
    <3>2. i \in 1..(j - 1)
      BY <1>1, <1>2
    <3> QED
      BY <3>1, <3>2
  <2>3. c \in Candidate
    BY <1>1, RankType
  <2> HIDE DEF c
  <2>4. [c EXCEPT !.outcome = "rejected", !.reason = "invalid_task"].outcome = "rejected"
    BY <2>3 DEF Candidate
  <2> HIDE DEF raw, seen
  <2> QED
    BY <2>1, <2>2, <2>4 DEF Screen, c
<1> HIDE DEF s
<1> SUFFICES ASSUME NEW i \in 1..n, NEW j \in 1..n, s[i].outcome # "rejected",
                    s[j].outcome # "rejected", s[i].task.id = s[j].task.id
             PROVE  i = j
  BY DEF AcceptedOnce, s
<1>3. ~(i < j) /\ ~(j < i)
  BY <1>2
<1> QED
  BY <1>1, <1>3


\* t is the ranking of the candidates and r the run of the admission loop over it.
RankedRun(snap, n, t, f, r) ==
    /\ n \in Nat /\ t \in Seq(Candidate) /\ Len(t) = n
    /\ Arranged(t, Screened(snap), f, n, Candidates(snap))
    /\ AcceptedOnce(t, n) /\ AskValidly(t)
    /\ AdmissionRun(r, Start(snap), t)
    /\ Decide(snap).selected = r[n].selected

LEMMA DecisionRanked ==
    ASSUME NEW snap \in Snapshot, Exact(Candidates(snap))
    PROVE  \E t, f, r : RankedRun(snap, Len(snap.ready), t, f, r)
<1> DEFINE n == Len(snap.ready)
           s == Screened(snap)
           t == StableSort(Ahead, s)
           A == Candidates(snap)
<1>1. /\ n \in Nat /\ t \in Seq(A) /\ Len(t) = n /\ Sorted(AheadOn(A), t) /\ Rearranges(t, s, n)
  <2>1. n = Len(snap.ready)
    OBVIOUS
  <2> HIDE DEF n
  <2> QED
    BY <2>1, ScreenedSorted
<1>2. PICK sorting, r : Derivation(snap, sorting, r)
  BY DecisionDerived
<1>3. /\ sorting[n] = t /\ t \in Seq(Candidate) /\ AdmissionRun(r, Start(snap), t)
      /\ Admitted(snap) = r[n]
  BY <1>2 DEF Derivation
<1>4. Decide(snap).selected = r[n].selected
  BY <1>3 DEF Decide
<1>5. AskValidly(t)
  <2> SUFFICES ASSUME NEW k \in 1..Len(t), t[k].outcome = Undecided
               PROVE  Valid(t[k].task.resources)
    BY DEF AskValidly
  <2> HIDE DEF t, A
  <2>1. t[k] \in A /\ t[k].outcome # "rejected"
    BY <1>1, ElementOfSeq DEF Undecided
  <2> QED
    BY <2>1, RankedFields DEF A
<1> HIDE DEF t, s
<1>6. PICK f \in [1..n -> 1..n] : /\ \A j \in 1..n : \E k \in 1..n : f[k] = j
                                  /\ \A k, l \in 1..n : f[k] = f[l] => k = l
                                  /\ \A k \in 1..n : t[k] = s[f[k]]
  BY <1>1 DEF Rearranges
<1>7. Arranged(t, s, f, n, A)
  BY <1>1, <1>6 DEF Arranged, OneToOne, Onto
<1>8. AcceptedOnce(t, n)
  BY <1>7, ArrangedOnce, ScreenedOnce DEF s
<1>9. RankedRun(snap, n, t, f, r)
  BY <1>1, <1>3, <1>4, <1>5, <1>7, <1>8 DEF RankedRun, s
<1> QED
  BY <1>9

\* A candidate that is not rejected is selected when the loop admits it.
LEMMA SelectedWhenAdmitted ==
    ASSUME NEW snap, NEW n, NEW t, NEW f, NEW r, RankedRun(snap, n, t, f, r),
           NEW k \in 1..n, t[k].outcome # "rejected"
    PROVE  t[k].task.id \in SelectedIDs(Decide(snap)) <=> Admits(r, t, k)
<1> DEFINE chosen == r[n].selected
<1>1. /\ n \in Nat /\ t \in Seq(Candidate) /\ Len(t) = n /\ AcceptedOnce(t, n)
      /\ AdmissionRun(r, Start(snap), t) /\ Decide(snap).selected = chosen
  BY DEF RankedRun
<1>2. Start(snap).selected = <<>>
  BY DEF Start
<1>3. n \in 0..n
  BY <1>1
<1>4. PICK at : SelectedAt(at, chosen, r, t, n)
  BY <1>1, <1>2, <1>3, Selections
<1>5. chosen \in Seq(Task)
  BY <1>1, <1>3 DEF AdmissionRun, Accounts
<1> HIDE DEF chosen
<1>6. SelectedIDs(Decide(snap)) = {chosen[j].id : j \in 1..Len(chosen)}
  BY <1>1, <1>5, LenProperties DEF SelectedIDs, IDs
<1>7. ASSUME t[k].task.id \in SelectedIDs(Decide(snap)) PROVE Admits(r, t, k)
  <2>1. PICK j \in 1..Len(chosen) : chosen[j].id = t[k].task.id
    BY <1>6, <1>7
  <2>2. at[j] \in 1..n /\ chosen[j] = t[at[j]].task /\ Admits(r, t, at[j])
    BY <1>4, <2>1 DEF SelectedAt
  <2>3. t[at[j]].outcome # "rejected"
    BY <2>2 DEF Admits, Undecided
  <2>4. at[j] = k
    BY <1>1, <2>1, <2>2, <2>3 DEF AcceptedOnce
  <2> QED
    BY <2>2, <2>4
<1>8. ASSUME Admits(r, t, k) PROVE t[k].task.id \in SelectedIDs(Decide(snap))
  <2>1. PICK j \in 1..Len(chosen) : at[j] = k
    BY <1>4, <1>8 DEF SelectedAt
  <2>2. chosen[j] = t[k].task
    BY <1>4, <2>1 DEF SelectedAt
  <2> QED
    BY <1>6, <2>1, <2>2
<1> QED
  BY <1>7, <1>8

\* The budget that keeps a task out keeps out one that is less reliable and asks for
\* the same.
LEMMA BlockedAlike ==
    ASSUME NEW t \in Task, NEW u \in Task, NEW b, Blocked(t, b),
           RequiresGPU(u) <=> RequiresGPU(t), u.resources = t.resources,
           SuccessRate(u) <= SuccessRate(t)
    PROVE  Blocked(u, b)
<1>1. Config.minimumSuccess \in Int
  BY ConfigAssumption DEF ValidConfig
<1>2. SuccessRate(t) \in Int /\ SuccessRate(u) \in Int
  BY ConfigTypes DEF SuccessRate, Or, Task
<1>3. SuccessRate(t) < Config.minimumSuccess => SuccessRate(u) < Config.minimumSuccess
  <2> DEFINE x == SuccessRate(t)
             y == SuccessRate(u)
             z == Config.minimumSuccess
  <2>1. x \in Int /\ y \in Int /\ z \in Int /\ y <= x
    BY <1>1, <1>2
  <2> HIDE DEF x, y, z
  <2>2. x < z => y < z
    BY <2>1
  <2> QED
    BY <2>2 DEF x, y, z
<1> QED
  BY <1>3 DEF Blocked, Obstacle

\* other is snap with its m-th ready task more urgent, and otherwise ranked the same.
Promotes(other, snap, m) ==
    LET c == Screened(snap)[m]
        d == Screened(other)[m]
    IN  /\ Len(other.ready) = Len(snap.ready) /\ m \in 1..Len(snap.ready)
        /\ InitialBudget(other) = InitialBudget(snap)
        /\ Raises(Screened(other), Screened(snap), m, Len(snap.ready))
        /\ c.task \in Task /\ d.task \in Task /\ d.outcome = Undecided
        /\ (RequiresGPU(c.task) <=> RequiresGPU(d.task)) /\ c.task.resources = d.task.resources
        /\ SuccessRate(c.task) <= SuccessRate(d.task)

\* What was selected is selected when it is more urgent.
LEMMA PromotionKeepsSelection ==
    ASSUME NEW snap \in Snapshot, NEW other \in Snapshot,
           Exact(Candidates(snap)), Exact(Candidates(other)), NEW m, Promotes(other, snap, m),
           Screened(snap)[m].task.id \in SelectedIDs(Decide(snap))
    PROVE  Screened(other)[m].task.id \in SelectedIDs(Decide(other))
<1> DEFINE n == Len(snap.ready)
           s == Screened(snap)
           u == Screened(other)
           A == Candidates(snap)
           B == Candidates(other)
<1>1. /\ Len(other.ready) = n /\ m \in 1..n /\ InitialBudget(other) = InitialBudget(snap)
      /\ Raises(u, s, m, n) /\ s[m].task \in Task /\ u[m].task \in Task /\ u[m].outcome = Undecided
      /\ (RequiresGPU(s[m].task) <=> RequiresGPU(u[m].task))
      /\ s[m].task.resources = u[m].task.resources
      /\ SuccessRate(s[m].task) <= SuccessRate(u[m].task)
  BY DEF Promotes
<1>2. PICK t, f, r : RankedRun(snap, n, t, f, r)
  BY DecisionRanked
<1>3. PICK v, g, q : RankedRun(other, n, v, g, q)
  <2>1. \E v, g, q : RankedRun(other, Len(other.ready), v, g, q)
    BY DecisionRanked
  <2> QED
    BY <1>1, <2>1
<1>4. /\ n \in Nat /\ Arranged(t, s, f, n, A) /\ Arranged(v, u, g, n, B)
      /\ t \in Seq(Candidate) /\ v \in Seq(Candidate) /\ Len(t) = n /\ Len(v) = n
      /\ AskValidly(t) /\ AdmissionRun(r, Start(snap), t) /\ AdmissionRun(q, Start(other), v)
  BY <1>2, <1>3 DEF RankedRun
<1>5. Start(other) = Start(snap)
  BY <1>1 DEF Start
<1>6. AcceptedOnce(s, n) /\ AcceptedOnce(u, n)
  BY <1>1, ScreenedOnce
<1>7. A \in SUBSET Candidate /\ B \in SUBSET Candidate
  BY ScreenedType DEF Candidates
<1>8. MoreUrgentThan(u[m], s[m])
  BY <1>1 DEF Raises
<1> HIDE DEF s, u, A, B, n
<1>9. PICK k \in 1..n : f[k] = m
  BY <1>1, <1>4 DEF Arranged, Onto
<1>10. PICK o \in 1..n : g[o] = m
  BY <1>1, <1>4 DEF Arranged, Onto
<1>11. t[k] = s[m] /\ v[o] = u[m]
  BY <1>4, <1>9, <1>10 DEF Arranged
<1>12. t[k].outcome # "rejected" /\ v[o].outcome # "rejected"
  BY <1>8, <1>11 DEF MoreUrgentThan
<1>13. Admits(r, t, k)
  <2>1. t[k].task.id \in SelectedIDs(Decide(snap))
    BY <1>11 DEF s
  <2> QED
    BY <1>2, <1>12, <2>1, SelectedWhenAdmitted
<1>14. SameBefore(t, v, o, k)
  <2>1. Exact(A) /\ Exact(B) /\ Raises(u, s, m, n) /\ m \in 1..n
    BY <1>1 DEF A, B, s, u, n
  <2>2. Placed(m, k, t, s, f, n, A) /\ Placed(m, o, v, u, g, n, B)
    BY <1>4, <1>6, <1>7, <1>9, <1>10, <2>1 DEF Placed
  <2>3. n \in Nat
    BY <1>4
  <2> QED
    BY <2>1, <2>2, <2>3, SamePrefix
<1>15. o - 1 \in 0..n /\ k - 1 \in 0..n /\ o - 1 <= k - 1
  <2>1. o - 1 \in 1..(o - 1) \/ o - 1 = 0
    BY <1>4
  <2> QED
    BY <1>4, <1>14, <2>1 DEF SameBefore
<1> DEFINE p == o - 1
<1>16. r[p] = q[p]
  <2>1. p \in 0..Len(t) /\ p <= Len(v) /\ \A l \in 1..p : t[l] = v[l]
    BY <1>4, <1>14, <1>15 DEF SameBefore
  <2> HIDE DEF p
  <2> QED
    BY <1>4, <1>5, <2>1, SameAdmission
<1>17. ~Blocked(u[m].task, r[p].budget)
  <2> SUFFICES ASSUME Blocked(u[m].task, r[p].budget) PROVE FALSE
    OBVIOUS
  <2>1. u[m].task \in Task /\ p \in 0..Len(t) /\ k - 1 \in 0..Len(t) /\ p <= k - 1
    BY <1>1, <1>4, <1>15 DEF u
  <2> HIDE DEF p
  <2>2. Blocked(u[m].task, r[k - 1].budget)
    BY <1>4, <2>1, BlockedLasts
  <2>3. Blocked(s[m].task, r[k - 1].budget)
    BY <1>1, <2>2, BlockedAlike DEF s, u
  <2>4. Obstacle(s[m].task, r[k - 1].budget) = ""
    BY <1>11, <1>13 DEF Admits
  <2> QED
    BY <2>3, <2>4 DEF Blocked
<1>18. Admits(q, v, o)
  BY <1>1, <1>11, <1>16, <1>17 DEF Admits, Blocked, u
<1>19. v[o].task.id \in SelectedIDs(Decide(other))
  BY <1>3, <1>12, <1>18, SelectedWhenAdmitted
<1> QED
  BY <1>11, <1>19 DEF u

\* The engine accepts the task, before and after, and no default steps in.
SoundMove(at, was, is, moved, p) ==
    /\ ~Unrankable(at, was) /\ ~Unrankable(at, is)
    /\ p.latency # 0 => moved.latency # 0
    /\ p.enqueued # 0 => moved.enqueued # ZeroTime

Due(task) == Or(task.deadline, task.enqueued + task.latency)

LEMMA UrgencyGrows ==
    ASSUME NEW at \in Int, NEW was \in Task, NEW is \in Task, NEW p, Applicable(p), MoreUrgent(p),
           NEW moved, Counted(was, is, moved, p), Kept(was, is, moved, p),
           SoundMove(at, was, is, moved, p), was.priority \in Int
    PROVE  /\ was.priority <= is.priority /\ SuccessRate(was) <= SuccessRate(is)
           /\ was.estimated > 0 /\ was.estimated <= is.estimated
           /\ is.enqueued <= was.enqueued
           /\ Due(was) \in Int /\ Due(is) \in Int /\ Due(is) <= Due(was)
<1>1. /\ was.enqueued \in Int /\ is.enqueued \in Int /\ was.priority \in Int
      /\ was.estimated \in Durations /\ is.estimated \in Durations
      /\ was.latency \in Durations /\ is.latency \in Durations
      /\ was.deadline \in Int \cup {Nil} /\ is.deadline \in Int \cup {Nil}
      /\ was.success \in Int \cup {Nil}
  BY DEF Task
<1>2. /\ was.estimated \in Int /\ is.estimated \in Int /\ was.latency \in Int /\ is.latency \in Int
  BY <1>1, DifferenceType
<1>3. /\ p.priority \in Int /\ p.enqueued \in Durations /\ p.deadline \in Durations
      /\ p.estimated \in Durations /\ p.latency \in Durations /\ p.success \in Int
  BY DEF Applicable, Perturbation
<1>4. /\ p.enqueued \in Int /\ p.deadline \in Int /\ p.estimated \in Int /\ p.latency \in Int
  BY <1>3, DifferenceType
<1>5. /\ p.priority >= 0 /\ p.success >= 0 /\ p.estimated >= 0
      /\ p.enqueued <= 0 /\ p.deadline <= 0 /\ p.latency <= 0
  BY DEF MoreUrgent
<1>6. was.priority <= is.priority
  <2>1. is.priority = was.priority + p.priority
    BY DEF Counted
  <2> QED
    BY <1>1, <1>3, <1>5, <2>1
<1>7. SuccessRate(was) <= SuccessRate(is)
  <2>1. SuccessRate(is) = SuccessRate(was) + p.success
    BY DEF Counted
  <2>2. SuccessRate(was) \in Int
    BY <1>1, ConfigTypes DEF SuccessRate, Or
  <2> HIDE DEF SuccessRate
  <2> QED
    BY <1>3, <1>5, <2>1, <2>2
<1>8. was.estimated > 0 /\ is.estimated > 0
  <2>1. ~(was.estimated <= 0) /\ ~(is.estimated <= 0)
    BY DEF SoundMove, Unrankable
  <2> QED
    BY <1>2, <2>1
<1>9. was.estimated <= is.estimated
  <2>1. CASE p.estimated = 0
    BY <1>2, <2>1 DEF Kept
  <2>2. CASE p.estimated # 0
    <3>1. p.estimated > 0
      BY <1>4, <1>5, <2>2
    <3>2. /\ Plus(was.estimated, p.estimated) # 0
          /\ Plus(was.estimated, p.estimated) > 0 => was.estimated <= Plus(was.estimated, p.estimated)
      BY <1>1, <1>3, <1>8, <3>1, PlusOrder
    <3>3. is.estimated = Plus(was.estimated, p.estimated)
      BY <2>2, <3>2 DEF Kept, Counted
    <3> QED
      BY <1>8, <3>2, <3>3
  <2> QED
    BY <2>1, <2>2
<1>10. is.enqueued <= was.enqueued
  <2>1. CASE p.enqueued = 0
    BY <1>1, <2>1 DEF Kept
  <2>2. CASE p.enqueued # 0
    <3>1. is.enqueued = was.enqueued + p.enqueued
      BY <2>2 DEF SoundMove, Counted
    <3> QED
      BY <1>1, <1>4, <1>5, <3>1
  <2> QED
    BY <2>1, <2>2
<1>11. Due(was) \in Int /\ Due(is) \in Int /\ Due(is) <= Due(was)
  <2>1. CASE was.deadline # Nil
    <3>1. is.deadline # Nil /\ is.deadline = was.deadline + p.deadline
      BY <2>1 DEF Kept, Counted
    <3>2. Due(was) = was.deadline /\ Due(is) = is.deadline
      BY <2>1, <3>1 DEF Due, Or
    <3> QED
      BY <1>1, <1>4, <1>5, <2>1, <3>1, <3>2
  <2>2. CASE was.deadline = Nil
    <3>1. is.deadline = Nil
      BY <2>2 DEF Kept
    <3>2. was.latency > 0
      <4>1. ~(was.latency <= 0)
        BY <2>2 DEF SoundMove, Unrankable
      <4> QED
        BY <1>2, <4>1
    <3>3. is.latency <= was.latency
      <4>1. CASE p.latency = 0
        BY <1>2, <3>1, <4>1 DEF Kept
      <4>2. CASE p.latency # 0
        <5>1. is.latency = Plus(was.latency, p.latency)
          BY <3>1, <4>2 DEF SoundMove, Counted
        <5>2. p.latency < 0
          BY <1>4, <1>5, <4>2
        <5>3. Plus(was.latency, p.latency) < was.latency
          BY <1>1, <1>3, <3>2, <5>2, PlusOrder
        <5> QED
          BY <1>2, <5>1, <5>3
      <4> QED
        BY <4>1, <4>2
    <3>4. Due(was) = was.enqueued + was.latency /\ Due(is) = is.enqueued + is.latency
      BY <2>2, <3>1 DEF Due, Or
    <3> QED
      BY <1>1, <1>2, <1>10, <3>3, <3>4
  <2> QED
    BY <2>1, <2>2
<1> QED
  BY <1>6, <1>7, <1>8, <1>9, <1>10, <1>11

\* What the engine makes of an accepted task.
Judged(c, t, at) ==
    LET left == Minus(Sub(Due(t), at), t.estimated)
    IN  /\ c.outcome # "rejected" /\ c.hasDeadline /\ c.task = t /\ c.deadline = Due(t)
        /\ c.score = Score(t, Sub(at, t.enqueued), left)
        /\ t \in Task /\ t.priority \in Int /\ Due(t) \in Int

\* A more urgent task makes a candidate that nothing new is ahead of.
LEMMA UrgencyRanks ==
    ASSUME NEW at \in Int, NEW was, NEW is, NEW c, NEW d, Judged(c, was, at), Judged(d, is, at),
           was.id = is.id, was.priority <= is.priority, SuccessRate(was) <= SuccessRate(is),
           was.estimated > 0, was.estimated <= is.estimated, is.enqueued <= was.enqueued,
           Due(is) <= Due(was), Countable(at, is)
    PROVE  MoreUrgentThan(d, c)
<1> DEFINE left == Minus(Sub(Due(was), at), was.estimated)
           less == Minus(Sub(Due(is), at), is.estimated)
           age  == Sub(at, is.enqueued)
           younger == Sub(at, was.enqueued)
<1>1. /\ was \in Task /\ is \in Task /\ was.priority \in Int /\ is.priority \in Int
      /\ Due(was) \in Int /\ Due(is) \in Int
  BY DEF Judged
<1>2. /\ was.estimated \in Durations /\ is.estimated \in Durations
      /\ was.enqueued \in Int /\ is.enqueued \in Int
  BY <1>1 DEF Task
<1>3. left \in Int /\ less \in Int /\ age \in Int /\ younger \in Int
  BY <1>1, <1>2, DifferenceType
<1>4. less <= left
  <2>1. Due(is) - at - is.estimated >= -(MaxDuration + 1)
    BY DEF Countable, Due
  <2> QED
    BY <1>1, <1>2, <2>1, SlackOrder
<1>5. younger <= age
  <2>1. MaxDuration \in Nat
    BY WidthAssumption
  <2> QED
    BY <1>2, <2>1 DEF Sub
<1> HIDE DEF left, less, age, younger
<1>6. Score(was, younger, left) <= Score(is, age, less)
  BY <1>1, <1>3, <1>4, <1>5, ScoreOrder
<1>7. c.score = Score(was, younger, left) /\ d.score = Score(is, age, less)
  BY DEF Judged, left, less, age, younger
<1> QED
  BY <1>6, <1>7 DEF MoreUrgentThan, Judged

\* The screening defers only what already runs.
LEMMA DeferredRuns ==
    ASSUME NEW snap \in Snapshot, NEW i \in 1..Len(snap.ready),
           Screened(snap)[i].outcome = "deferred"
    PROVE  snap.ready[i].id \in IDs(snap.running)
<1> DEFINE raw  == snap.ready[i]
           seen == {snap.ready[j].id : j \in 1..(i - 1)}
           c    == Rank(snap.at, raw)
<1>1. DOMAIN snap.ready = 1..Len(snap.ready) /\ raw \in Task /\ snap.at \in Int
  BY LenProperties, ElementOfSeq DEF Snapshot
<1>2. Screened(snap)[i] = Screen(snap, seen, raw)
  BY <1>1 DEF Screened
<1>3. c \in Candidate
  BY <1>1, RankType
<1>4. c.outcome # "deferred"
  BY DEF Rank, Rejected, Undecided
<1> HIDE DEF c
<1>5. [c EXCEPT !.outcome = "rejected", !.reason = "invalid_task"].outcome = "rejected"
  BY <1>3 DEF Candidate
<1> HIDE DEF raw, seen
<1> SUFFICES ASSUME raw.id \notin IDs(snap.running) PROVE FALSE
  BY DEF raw
<1>6. Screen(snap, seen, raw) = c
      \/ Screen(snap, seen, raw) = [c EXCEPT !.outcome = "rejected", !.reason = "invalid_task"]
  BY DEF Screen, c
<1> QED
  BY <1>2, <1>4, <1>5, <1>6

\* A perturbation that changes no capacity changes the tasks it names.
LEMMA PerturbedParts ==
    ASSUME NEW snap \in Snapshot, NEW p, p \in Perturbation, ~PerturbationError(snap, p),
           p.available = Nil
    PROVE  LET other == Perturbed(snap, p)
           IN  /\ other.running = snap.running /\ InitialBudget(other) = InitialBudget(snap)
               /\ Len(snap.ready) \in Nat /\ Len(other.ready) = Len(snap.ready)
               /\ DOMAIN other.ready = 1..Len(snap.ready)
               /\ \A i \in 1..Len(snap.ready) : other.ready[i].id = snap.ready[i].id
               /\ \A i \in 1..Len(snap.ready) : i \notin Matches(snap, p) =>
                                                    other.ready[i] = snap.ready[i]
<1> DEFINE other == Perturbed(snap, p)
           n     == Len(snap.ready)
           tasks == [i \in DOMAIN snap.ready |->
                        IF i \in Matches(snap, p)
                        THEN Shifted(snap.at, snap.ready[i], p) ELSE snap.ready[i]]
<1>1. /\ snap.at \in Int /\ n \in Nat /\ DOMAIN snap.ready = 1..n
      /\ \A i \in 1..n : snap.ready[i] \in Task
  BY LenProperties, ElementOfSeq DEF Snapshot
<1>2. other = [snap EXCEPT !.ready = tasks, !.available = snap.available]
  BY DEF Perturbed
<1>3. Applicable(p) /\ other \in Snapshot
  BY PerturbedType
<1>4. \A i \in 1..n : tasks[i] = IF i \in Matches(snap, p)
                                 THEN Shifted(snap.at, snap.ready[i], p) ELSE snap.ready[i]
  BY <1>1
<1>5. DOMAIN tasks = 1..n
  BY <1>1
<1> HIDE DEF other, tasks
<1>6. other.ready = tasks /\ other.running = snap.running /\ other.available = snap.available
  BY <1>2 DEF Snapshot
<1>7. Len(other.ready) = n
  <2>1. DOMAIN other.ready = 1..Len(other.ready) /\ Len(other.ready) \in Nat
    BY <1>3, LenProperties DEF Snapshot
  <2> QED
    BY <1>1, <1>5, <1>6, <2>1
<1>8. InitialBudget(other) = InitialBudget(snap)
  BY <1>6 DEF InitialBudget
<1>9. \A i \in 1..n : other.ready[i].id = snap.ready[i].id
  <2>1. \A t \in Task : Shifted(snap.at, t, p).id = t.id
    BY DEF Shifted, Task
  <2> QED
    BY <1>1, <1>4, <1>6, <2>1
<1> QED
  BY <1>1, <1>4, <1>5, <1>6, <1>7, <1>8, <1>9 DEF other

\* The candidates of the tasks that are not named stay what they were.
LEMMA OthersRankedAlike ==
    ASSUME NEW snap \in Snapshot, NEW p, p \in Perturbation, ~PerturbationError(snap, p),
           p.available = Nil, NEW i \in 1..Len(snap.ready), i \notin Matches(snap, p)
    PROVE  Screened(Perturbed(snap, p))[i] = Screened(snap)[i]
<1> DEFINE other == Perturbed(snap, p)
           n     == Len(snap.ready)
           raw   == snap.ready[i]
           seen  == {snap.ready[j].id : j \in 1..(i - 1)}
           seenNow == {other.ready[j].id : j \in 1..(i - 1)}
<1>1. /\ other.running = snap.running /\ DOMAIN other.ready = 1..n /\ n \in Nat
      /\ \A j \in 1..n : other.ready[j].id = snap.ready[j].id
      /\ other.ready[i] = raw
  BY PerturbedParts
<1>2. other.at = snap.at /\ DOMAIN snap.ready = 1..n
  BY PerturbedType, LenProperties DEF Snapshot
<1> HIDE DEF other
<1>3. seenNow = seen
  <2>1. \A j \in 1..(i - 1) : other.ready[j].id = snap.ready[j].id
    BY <1>1
  <2> QED
    BY <2>1
<1>4. Screened(other)[i] = Screen(other, seenNow, other.ready[i])
  BY <1>1 DEF Screened
<1>5. Screened(snap)[i] = Screen(snap, seen, raw)
  BY <1>2 DEF Screened
<1>6. Screen(other, seen, raw) = Screen(snap, seen, raw)
  BY <1>1, <1>2 DEF Screen
<1> QED
  BY <1>1, <1>3, <1>4, <1>5, <1>6 DEF other

LEMMA NormalizedType ==
    ASSUME NEW at \in Int, NEW task \in Task
    PROVE  Normalized(at, task) \in Task /\ Normalized(at, task).priority \in Int
<1>1. /\ Or(task.priority, Config.defaultPriority) \in Int /\ OrWhenZero(task.enqueued, at) \in Int
      /\ OrWhenZero(task.estimated, Config.defaultEstimated) \in Durations
      /\ OrWhenZero(task.latency, Config.defaultLatency) \in Durations
      /\ task.latency \in Durations /\ RequiresGPU(task) \in BOOLEAN
  BY ConfigTypes DEF Task, Or, OrWhenZero, RequiresGPU
<1> QED
  BY <1>1 DEF Normalized, Task

\* A perturbation that makes its task more urgent promotes its candidate.
LEMMA UrgentPromotes ==
    ASSUME NEW snap \in Snapshot, NEW p, p \in Perturbation, ~PerturbationError(snap, p),
           MoreUrgent(p), TaskChange(p), NEW m \in Matches(snap, p),
           Screened(snap)[m].outcome = Undecided,
           StillSound(p, Perturbed(snap, p), Decide(Perturbed(snap, p)))
    PROVE  Promotes(Perturbed(snap, p), snap, m)
<1> DEFINE other == Perturbed(snap, p)
           n     == Len(snap.ready)
           at    == snap.at
           raw   == snap.ready[m]
           moved == other.ready[m]
           was   == Normalized(at, raw)
           is    == Normalized(at, moved)
           c     == Screened(snap)[m]
           d     == Screened(other)[m]
<1>1. /\ p.available = Nil /\ Applicable(p) /\ other \in Snapshot /\ other.at = at /\ at \in Int
      /\ raw \in Task /\ moved = Shifted(at, raw, p)
  BY PerturbedType DEF MoreUrgent, Snapshot
<1>2. /\ other.running = snap.running /\ InitialBudget(other) = InitialBudget(snap)
      /\ n \in Nat /\ Len(other.ready) = n /\ DOMAIN other.ready = 1..n
      /\ \A i \in 1..n : other.ready[i].id = snap.ready[i].id
  BY <1>1, PerturbedParts
<1>3. m \in 1..n /\ raw.id = p.task /\ m \in Matches(other, p) /\ moved.id = p.task
  <2>1. DOMAIN snap.ready = 1..n
    BY LenProperties DEF Snapshot
  <2>2. m \in 1..n /\ raw.id = p.task
    BY <2>1 DEF Matches
  <2> QED
    BY <1>2, <2>2 DEF Matches
<1>4. \A i \in 1..n : i # m => i \notin Matches(snap, p)
  <2>1. Matches(snap, p) \in SUBSET (1..n)
    BY LenProperties DEF Matches, Snapshot
  <2>2. IsFiniteSet(Matches(snap, p))
    <3>1. n \in Int
      BY <1>2
    <3> HIDE DEF n
    <3>2. IsFiniteSet(1..n)
      BY <3>1, FS_Interval
    <3> QED
      BY <2>1, <3>2, FS_Subset
  <2>3. Cardinality(Matches(snap, p)) = 1
    BY DEF PerturbationError
  <2>4. PICK x : Matches(snap, p) = {x}
    BY <2>2, <2>3, FS_Singleton
  <2> QED
    BY <2>4
<1>5. d.outcome # "rejected"
  <2> DEFINE decision == Decide(other)
  <2>1. PICK from, of : About(of, from, decision.candidates, decision.selected, other)
    BY <1>1, DecideSound
  <2>2. DOMAIN decision.candidates = 1..n
    BY <1>1, <1>2, DecideSound
  <2>3. PICK k \in 1..n : of[k] = m
    BY <1>2, <1>3, <2>1 DEF About
  <2>4. /\ decision.candidates[k].id = moved.id
        /\ decision.candidates[k].outcome = "rejected" <=> d.outcome = "rejected"
    BY <1>2, <2>1, <2>3 DEF About
  <2>5. decision.candidates[k] \in ToSet(decision.candidates)
    BY <2>2 DEF ToSet
  <2>6. \A e \in ToSet(decision.candidates) : e.id = p.task => e.outcome # "rejected"
    BY DEF StillSound
  <2> HIDE DEF decision
  <2> QED
    BY <1>3, <2>4, <2>5, <2>6
<1>6. /\ p.latency # 0 => moved.latency # 0
      /\ p.enqueued # 0 => moved.enqueued # ZeroTime
      /\ Countable(at, is)
  BY <1>1, <1>3 DEF StillSound
<1>7. Accepted(snap, raw, c) /\ Accepted(other, moved, d) /\ c.outcome # "rejected"
  <2>1. c.outcome # "rejected"
    BY DEF Undecided
  <2>2. m \in 1..Len(other.ready)
    BY <1>2, <1>3
  <2> HIDE DEF other, n
  <2> QED
    BY <1>1, <1>3, <1>5, <2>1, <2>2, ScreenedRanked DEF n
<1>8. moved \in Task
  BY <1>1, ShiftedFields
<1>9. was \in Task /\ is \in Task /\ was.priority \in Int /\ is.priority \in Int
  BY <1>1, <1>8, NormalizedType
<1>10. Counted(was, is, moved, p) /\ Kept(was, is, moved, p)
  BY <1>1, DeltaCounts, OthersKept
<1>11. /\ c.hasDeadline /\ c.task = was /\ c.deadline = Due(was) /\ ~Unrankable(at, was)
       /\ c.score = Score(was, Sub(at, was.enqueued), Minus(Sub(Due(was), at), was.estimated))
  BY <1>7 DEF Accepted, Due
<1>12. /\ d.hasDeadline /\ d.task = is /\ d.deadline = Due(is) /\ ~Unrankable(at, is)
       /\ d.score = Score(is, Sub(at, is.enqueued), Minus(Sub(Due(is), at), is.estimated))
  BY <1>1, <1>7 DEF Accepted, Due
<1> HIDE DEF was, is, c, d, moved, raw
<1>13. SoundMove(at, was, is, moved, p)
  BY <1>6, <1>11, <1>12 DEF SoundMove
<1>14. /\ was.priority <= is.priority /\ SuccessRate(was) <= SuccessRate(is)
       /\ was.estimated > 0 /\ was.estimated <= is.estimated
       /\ is.enqueued <= was.enqueued
       /\ Due(was) \in Int /\ Due(is) \in Int /\ Due(is) <= Due(was)
  BY <1>1, <1>9, <1>10, <1>13, UrgencyGrows
<1>15. Judged(c, was, at) /\ Judged(d, is, at)
  BY <1>5, <1>7, <1>9, <1>11, <1>12, <1>14 DEF Judged
<1>16. /\ is.id = was.id /\ is.resources = was.resources
       /\ RequiresGPU(is) <=> RequiresGPU(was)
  BY <1>10 DEF Kept
<1>17. MoreUrgentThan(d, c)
  BY <1>1, <1>6, <1>14, <1>15, <1>16, UrgencyRanks
<1>18. Raises(Screened(other), Screened(snap), m, n)
  <2>1. \A i \in 1..n : i # m => Screened(other)[i] = Screened(snap)[i]
    BY <1>1, <1>4, OthersRankedAlike
  <2> QED
    BY <1>17, <2>1 DEF Raises, c, d
<1>19. d.outcome = Undecided
  <2>1. d.outcome \in {Undecided, "rejected", "deferred"}
    BY <1>1, <1>2, <1>3, ScreenedType DEF d
  <2>2. d.outcome = "deferred" => moved.id \in IDs(other.running)
    BY <1>1, <1>2, <1>3, DeferredRuns DEF d, moved
  <2>3. c.task.id = raw.id /\ raw.id \notin IDs(snap.running)
    <3>1. c.task.id = raw.id
      BY <1>3, ScreenedType DEF c, raw
    <3>2. c.task.id \notin IDs(snap.running)
      BY <1>3, ScreenedType DEF c
    <3> QED
      BY <3>1, <3>2
  <2> QED
    BY <1>2, <1>3, <1>5, <2>1, <2>2, <2>3
<1> QED
  BY <1>2, <1>3, <1>9, <1>11, <1>12, <1>14, <1>16, <1>18, <1>19 DEF Promotes, c, d

\* A perturbation without any effect on tasks or capacity leaves the snapshot alone.
LEMMA NothingPerturbed ==
    ASSUME NEW snap \in Snapshot, NEW p, p \in Perturbation, ~PerturbationError(snap, p),
           p.available = Nil, ~TaskChange(p)
    PROVE  Perturbed(snap, p) = snap
<1> DEFINE other == Perturbed(snap, p)
           n     == Len(snap.ready)
<1>1. /\ p.priority = 0 /\ p.enqueued = 0 /\ p.deadline = 0
      /\ p.estimated = 0 /\ p.latency = 0 /\ p.success = 0
  <2>1. \A field \in Deltas : p[field] = 0
    BY DEF TaskChange
  <2> QED
    BY <2>1 DEF Deltas
<1>2. \A t \in Task : Shifted(snap.at, t, p) = t
  <2> SUFFICES ASSUME NEW t \in Task PROVE Shifted(snap.at, t, p) = t
    OBVIOUS
  <2>1. t.deadline \in Int \cup {Nil}
    BY DEF Task
  <2>2. (IF t.deadline = Nil THEN Nil ELSE t.deadline + p.deadline) = t.deadline
    BY <1>1, <2>1
  <2>3. /\ Moved(t.priority, Nil, Config.defaultPriority, p.priority) = t.priority
        /\ Moved(t.enqueued, ZeroTime, snap.at, p.enqueued) = t.enqueued
        /\ Moved(t.success, Nil, Config.defaultSuccess, p.success) = t.success
        /\ MovedDuration(t.estimated, Config.defaultEstimated, p.estimated) = t.estimated
        /\ MovedDuration(t.latency, Config.defaultLatency, p.latency) = t.latency
    BY <1>1 DEF Moved, MovedDuration
  <2>4. Shifted(snap.at, t, p) =
            [t EXCEPT !.priority = t.priority, !.enqueued = t.enqueued, !.estimated = t.estimated,
                      !.deadline = t.deadline, !.latency = t.latency, !.success = t.success]
    BY <2>2, <2>3 DEF Shifted
  <2> QED
    BY <2>4 DEF Task
<1>3. /\ DOMAIN snap.ready = 1..n /\ \A i \in 1..n : snap.ready[i] \in Task
      /\ snap.ready \in Seq(Task)
  BY LenProperties, ElementOfSeq DEF Snapshot
<1>4. [i \in DOMAIN snap.ready |->
          IF i \in Matches(snap, p) THEN Shifted(snap.at, snap.ready[i], p) ELSE snap.ready[i]]
      = snap.ready
  <2>1. \A i \in DOMAIN snap.ready :
            (IF i \in Matches(snap, p) THEN Shifted(snap.at, snap.ready[i], p) ELSE snap.ready[i])
            = snap.ready[i]
    BY <1>2, <1>3
  <2>2. [i \in DOMAIN snap.ready |-> snap.ready[i]] = snap.ready
    BY <1>3, LenProperties
  <2> QED
    BY <2>1, <2>2
<1>5. other = [snap EXCEPT !.ready = snap.ready, !.available = snap.available]
  BY <1>4 DEF Perturbed
<1> HIDE DEF other
<1>6. other = snap
  BY <1>5 DEF Snapshot
<1> QED
  BY <1>6 DEF other

\* No two candidates of a snapshot that an experiment decides upon have different
\* scores that count as equal.
NoNearTies ==
    \A e \in Experiments :
        /\ Exact(Candidates(e.baseline))
        /\ \A i \in 1..Len(e.perturbations) :
               LET other == Perturbed(e.baseline, e.perturbations[i])
               IN  other \in Snapshot => Exact(Candidates(other))

\* There are none where only equal scores count as equal.
LEMMA ToleranceOneSuffices == ScoreTolerance = 1 => NoNearTies
  BY ToleranceOne, GivenType DEF NoNearTies

\* The decision upon the baseline selected the task: it is a ready one, which the
\* screening left in the competition.
LEMMA SelectedReady ==
    ASSUME NEW snap \in Snapshot, NEW id, id \in SelectedIDs(Decide(snap))
    PROVE  \E m \in 1..Len(snap.ready) : /\ snap.ready[m].id = id
                                         /\ Screened(snap)[m].task.id = id
                                         /\ Screened(snap)[m].outcome = Undecided
<1> DEFINE tasks == Decide(snap).selected
<1>1. tasks \in Seq(Task)
  BY DecideSound
<1>2. PICK at, of : Chosen(at, tasks, snap)
  BY DecideSound
<1> HIDE DEF tasks
<1>3. PICK j \in 1..Len(tasks) : tasks[j].id = id
  BY <1>1, LenProperties DEF SelectedIDs, IDs, tasks
<1>4. /\ at[j] \in 1..Len(snap.ready) /\ tasks[j] = Screened(snap)[at[j]].task
      /\ Screened(snap)[at[j]].outcome = Undecided
  BY <1>2, <1>3 DEF Chosen
<1>5. Screened(snap)[at[j]].task.id = snap.ready[at[j]].id
  BY <1>4, ScreenedType
<1> QED
  BY <1>3, <1>4, <1>5

\* Where scores are told apart, the sensitivities have the right sign: a selected
\* task that only becomes more urgent stays selected, for any configuration, load and
\* size of the move.  With near ties the ranking is no order, and raising one task may
\* rearrange the others.
THEOREM UrgencyKeepsSelection ==
    ASSUME NoNearTies
    PROVE  Spec => []MoreUrgentStaysSelected
<1>1. RunsInv /\ NamesInv /\ SnapshotsInv => MoreUrgentStaysSelected
  <2> SUFFICES ASSUME RunsInv, NamesInv, SnapshotsInv, NEW i \in DOMAIN report.runs,
                      MoreUrgent(Given(i)), Given(i).task \in SelectedIDs(report.baseline),
                      StillSound(Given(i), Perturbed(experiment.baseline, Given(i)),
                                 report.runs[i].decision)
               PROVE  Given(i).task \in SelectedIDs(report.runs[i].decision)
    BY DEF MoreUrgentStaysSelected, Given
  <2> DEFINE p     == Given(i)
             snap  == experiment.baseline
             other == Perturbed(snap, p)
  <2>1. i \in 1..Len(report.runs) /\ Len(report.runs) # 0
    BY LenProperties DEF RunsInv
  <2>2. report.baseline = Decide(snap)
    <3>1. phase \in {"baseline", "failed"} => Len(report.runs) = 0
      BY DEF RunsInv, NoReport
    <3> QED
      BY <2>1, <3>1 DEF RunsInv
  <2>3. report.runs[i].decision = Decide(other)
    <3>1. report.runs[i] = Run(Decide(snap), p, Decide(other))
      BY <2>1 DEF RunsInv, Expected
    <3> QED
      BY <3>1 DEF Run
  <2>4. /\ experiment \in Experiments /\ snap \in Snapshot /\ other \in Snapshot
        /\ p \in Perturbation /\ ~PerturbationError(snap, p)
        /\ i \in 1..Len(experiment.perturbations)
    <3>1. experiment \in Experiments /\ i \in 1..Len(experiment.perturbations)
      BY <2>1, LenProperties DEF RunsInv
    <3> QED
      BY <2>1, <3>1, GivenType DEF SnapshotsInv, Given
  <2>5. Exact(Candidates(snap)) /\ Exact(Candidates(other))
    BY <2>4 DEF NoNearTies, Given
  <2>6. MoreUrgent(p) /\ p.task \in SelectedIDs(Decide(snap)) /\ StillSound(p, other, Decide(other))
        /\ p.available = Nil
    BY <2>2, <2>3 DEF MoreUrgent
  <2> HIDE DEF p, snap
  <2>7. CASE ~TaskChange(p)
    BY <2>3, <2>4, <2>6, <2>7, NothingPerturbed DEF p
  <2>8. CASE TaskChange(p)
    <3>1. PICK m \in 1..Len(snap.ready) : /\ snap.ready[m].id = p.task
                                          /\ Screened(snap)[m].task.id = p.task
                                          /\ Screened(snap)[m].outcome = Undecided
      BY <2>4, <2>6, SelectedReady
    <3>2. m \in Matches(snap, p)
      BY <2>4, <3>1, LenProperties DEF Matches, Snapshot
    <3>3. Promotes(other, snap, m)
      BY <2>4, <2>6, <2>8, <3>1, <3>2, UrgentPromotes
    <3> HIDE DEF other
    <3>4. Screened(other)[m].task.id \in SelectedIDs(Decide(other))
      BY <2>4, <2>5, <2>6, <3>1, <3>3, PromotionKeepsSelection
    <3>5. Screened(other)[m].task.id = Screened(snap)[m].task.id
      BY <3>3 DEF Promotes, Raises, MoreUrgentThan
    <3> QED
      BY <2>3, <3>1, <3>4, <3>5 DEF p
  <2> QED
    BY <2>7, <2>8
<1> QED
  BY <1>1, SnapshotsInvariant, PTL

=============================================================================
