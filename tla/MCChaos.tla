------------------------------ MODULE MCChaos ------------------------------
(***************************************************************************)
(* A model-checking instance of Chaos: snapshots in which tasks compete    *)
(* for two slots and little CPU, the perturbations of each field and of    *)
(* the capacity, one that overflows, and those that are refused.           *)
(***************************************************************************)
EXTENDS Chaos

MCConfig ==
    [maxConcurrent    |-> 2,
     maxGPU           |-> 1,
     defaultPriority  |-> 40,
     defaultEstimated |-> 2,
     defaultLatency   |-> 6,
     agingHorizon     |-> 10,
     slackHorizon     |-> 4,
     defaultSuccess   |-> 80,
     minimumSuccess   |-> 50,
     weightPriority   |-> 9,
     weightSlack      |-> 6,
     weightAge        |-> 3,
     weightReliability |-> 2,
     trustHints       |-> TRUE,
     enforceFit       |-> TRUE,
     failOpen         |-> TRUE]

Cpu(n)  == [NoResources EXCEPT !.cpu = n]

Plain(id) == [id |-> id, priority |-> Nil, enqueued |-> ZeroTime, estimated |-> 0,
              latency |-> 0, deadline |-> Nil, gpu |-> FALSE, success |-> Nil,
              resources |-> Cpu(1)]

\* Tasks that leave all to the defaults or nothing, one that needs most of the
\* CPU, two that share an ID.
Tasks == {Plain(1),
          [Plain(1) EXCEPT !.deadline = 9],
          [Plain(1) EXCEPT !.deadline = 14],
          [Plain(2) EXCEPT !.priority = 42, !.enqueued = 9, !.estimated = 3, !.latency = 4,
                           !.success = 78],
          [Plain(3) EXCEPT !.resources = Cpu(2), !.enqueued = 8]}

Baselines == [at : {10}, ready : {<<a, b, c>> : a, b, c \in Tasks}, running : {<<>>},
              available : {Cpu(2)}]
             \cup {[at |-> 10, ready |-> <<Plain(1)>>, running |-> <<Plain(2)>>, available |-> Nil]}

Still == [name |-> 1, task |-> EmptyID, priority |-> 0, enqueued |-> 0, deadline |-> 0,
          estimated |-> 0, latency |-> 0, success |-> 0, available |-> Nil]

Moves == [task : {1, 2}, field : Deltas, delta : {-3, -2, 2}]

\* Some moves wrap a duration, wrap a slack, or end at zero and so at the default.
Perturbations ==
    {[Still EXCEPT !.task = m.task, ![m.field] = m.delta] : m \in Moves}
    \cup {[Still EXCEPT !.task = 2, !.estimated = 31], [Still EXCEPT !.task = 1, !.deadline = -31],
          [Still EXCEPT !.task = 3, !.enqueued = -8], [Still EXCEPT !.task = 2, !.latency = -4]}
    \cup {[Still EXCEPT !.available = Cpu(n)] : n \in {-1, 1}}

\* Refused: no task named, no such task, no finite rate, and what no capacity is left for.
Refused == {[Still EXCEPT !.priority = 1], [Still EXCEPT !.task = 4, !.priority = 1],
            [Still EXCEPT !.success = Nil], [Still EXCEPT !.available = Cpu(-3)]}

Named(p, n) == [p EXCEPT !.name = n]

MCExperiments ==
    [baseline : Baselines, perturbations : {<<p>> : p \in Perturbations}]
    \cup
    [baseline : Baselines,
     perturbations : {<<Named([Still EXCEPT !.available = Cpu(1)], 1), p>> :
                         p \in {Named(q, n) : q \in Perturbations \cup Refused, n \in 0..2}}]

=============================================================================
