--------------------------- MODULE MCEngineDecide ---------------------------
(***************************************************************************)
(* Model-checking instances of EngineDecide: the snapshots of up to three  *)
(* ready tasks from a small pool that has every kind of task the engine    *)
(* treats differently.                                                     *)
(***************************************************************************)
EXTENDS EngineDecide

MCConfig ==
    [maxConcurrent    |-> 2,
     maxGPU           |-> 1,
     defaultPriority  |-> 0,
     defaultEstimated |-> 1,
     defaultLatency   |-> 4,
     agingHorizon     |-> 10,
     slackHorizon     |-> 4,
     defaultSuccess   |-> 100,
     minimumSuccess   |-> 50,
     weightPriority   |-> 9,
     weightSlack      |-> 6,
     weightAge        |-> 3,
     weightReliability |-> 2,
     trustHints       |-> TRUE,
     enforceFit       |-> TRUE,
     failOpen         |-> TRUE]

Now == 10

Plain(id) == [id |-> id, priority |-> Nil, enqueued |-> 8, estimated |-> 0, latency |-> 0,
              deadline |-> Nil, gpu |-> FALSE, success |-> Nil, resources |-> NoResources]

Cpu(n)  == [NoResources EXCEPT !.cpu = n]
Gpus(n) == [NoResources EXCEPT !.gpus = n]

\* Two tasks of ID 1, ties between IDs 1 and 2, GPU demand declared both ways,
\* an unreliable task, two tasks that do not fit together, and malformed ones.
Pool == {Plain(1),
         [Plain(1) EXCEPT !.gpu = TRUE, !.priority = 90],
         Plain(2),
         [Plain(2) EXCEPT !.resources = Gpus(1), !.deadline = 9],
         [Plain(3) EXCEPT !.gpu = TRUE, !.success = 60, !.resources = Cpu(2)],
         [Plain(3) EXCEPT !.success = 40],
         [Plain(4) EXCEPT !.resources = Cpu(2), !.enqueued = ZeroTime],
         [Plain(4) EXCEPT !.enqueued = Now + 1],
         [Plain(EmptyID) EXCEPT !.priority = 100]}

\* Tasks that differ only in their deadlines, for a Duration of at most 31: one
\* deadline that is too far back to be counted, the first that is not, a missed
\* one, one within the slack horizon, and two too far ahead to be counted.
FarDeadlines ==
    LET Due == 1 :> 18 @@ 2 :> 19 @@ 3 :> 48 @@ 4 :> 53 @@ 5 :> 90 @@ 6 :> 95
    IN  [at        : {50},
         ready     : TupleOf({[Plain(id) EXCEPT !.deadline = Due[id]] : id \in 1..6}, 3),
         running   : {<<Plain(7)>>},
         available : {NoResources}]

MCSnapshots ==
    [at        : {ZeroTime, Now},
     ready     : BoundedSeq(Pool, 2) \cup TupleOf(Pool \ {Plain(EmptyID)}, 3),
     running   : {<<>>, <<[Plain(2) EXCEPT !.gpu = TRUE]>>, <<Plain(EmptyID), Plain(5)>>},
     available : {[cpu |-> 3, memory |-> 0, gpus |-> 1]}]
    \cup
    [at        : {Now},
     ready     : TupleOf({Plain(1), [Plain(4) EXCEPT !.resources = Cpu(2)]}, 2),
     running   : {<<>>},
     available : {Nil, Cpu(1), Cpu(-1)}]
    \cup FarDeadlines

\* Three ready tasks enqueued one tick apart, all due beyond the slack horizon
\* (so slack scores 0 for each), the older the later due.  A tick stands for
\* 30 ns: with the default weights and horizons it is worth 0.75e-9 points of
\* score, below the engine's tolerance of 1e-9, and two ticks are above it.
\* MCConfig keeps that ratio: a tick of age is worth
\* weightAge * 100 * slackHorizon = 1200 units, the tolerance is 1600.
NearTies ==
    {[at |-> Now,
      ready |-> <<[Plain(1) EXCEPT !.enqueued = 8,  !.deadline = 30],
                  [Plain(2) EXCEPT !.enqueued = 9,  !.deadline = 29],
                  [Plain(3) EXCEPT !.enqueued = 10, !.deadline = 28]>>,
      running |-> <<>>,
      available |-> [cpu |-> 3, memory |-> 0, gpus |-> 1]]}

=============================================================================
