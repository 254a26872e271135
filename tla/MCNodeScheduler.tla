--------------------------- MODULE MCNodeScheduler ---------------------------
(***************************************************************************)
(* Model-checking instances of NodeScheduler.                              *)
(***************************************************************************)
EXTENDS NodeScheduler

CONSTANTS camA, camB, gpuC, dupC, rareD

MCConfig ==
    [maxConcurrent    |-> 2,
     maxGPU           |-> 1,
     defaultPriority  |-> 0,
     defaultEstimated |-> 1,
     defaultLatency   |-> 2,
     agingHorizon     |-> 4,
     slackHorizon     |-> 2,
     defaultSuccess   |-> 100,
     minimumSuccess   |-> 50,
     weightPriority   |-> 9,
     weightSlack      |-> 6,
     weightAge        |-> 3,
     weightReliability |-> 2,
     trustHints       |-> TRUE,
     enforceFit       |-> TRUE,
     failOpen         |-> TRUE]

\* A deployment that selects nothing when the engine rejects its input.
MCClosedConfig == [MCConfig EXCEPT !.failOpen = FALSE]

NoQuantities == [requestCPU |-> Nil, limitCPU |-> Nil, requestMemory |-> Nil,
                 limitMemory |-> Nil, limitGPU |-> Nil, nvidiaGPU |-> Nil]

Basic(name, id) == [name |-> name, id |-> id, hasSpec |-> TRUE, metadataOK |-> TRUE,
                    selector |-> FALSE, hints |-> Nil, quantities |-> NoQuantities]

Urgent == [priority |-> 100, latency |-> 2, estimated |-> 1, deadline |-> Nil, success |-> Nil]

\* Two homonyms, the first asking for a CPU, the second more urgent and asking for a GPU
\* by quantity; another runtime that asks for a GPU by selector, and a second pointer
\* of its identity whose GPU quantities contradict each other; and one that the
\* engine finds too unreliable.
Pool ==
    camA :> [Basic("cam", 1) EXCEPT !.quantities.limitCPU = 1] @@
    camB :> [Basic("cam", 2) EXCEPT !.hints = Urgent, !.quantities.nvidiaGPU = 1] @@
    gpuC :> [Basic("det", 3) EXCEPT !.selector = TRUE] @@
    dupC :> [Basic("det", 3) EXCEPT !.quantities.limitGPU = 2, !.quantities.nvidiaGPU = 1] @@
    rareD :> [Basic("seg", 4) EXCEPT !.hints = [Urgent EXCEPT !.success = 20]]

MCPlugin == [r \in Runtimes |-> Pool[r]]

\* A capacity that does not parse, one that fits every runtime, and one too small.
MCCapacities == {Malformed, [cpu |-> 1, memory |-> 0], [cpu |-> 0, memory |-> 0]}

=============================================================================
