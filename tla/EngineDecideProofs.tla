-------------------------- MODULE EngineDecideProofs --------------------------
(***************************************************************************)
(* What holds of every call of Engine.Decide, for any valid configuration  *)
(* and any snapshot.  What depends on the order of the ranking needs       *)
(* scores without near ties (NoNearTies); the rest holds for any tolerance *)
(* between scores.                                                         *)
(***************************************************************************)
EXTENDS EngineDecide, PolicyEngineProofs

-----------------------------------------------------------------------------
(* Types.                                                                    *)

\* How far each loop has come.
Progressed ==
    /\ phase = "called" => next = 1
    /\ phase \in {"called", "rank"} => next <= Len(Ready) + 1 /\ Len(ranked) = next - 1
    /\ phase \in {"called", "failed", "rank"} => sorted = <<>>
    /\ phase \in {"sort", "admit", "done"} => Len(ranked) = Len(Ready)
    /\ phase = "sort" => next <= Len(Ready) + 1 /\ Len(sorted) = next - 1
    /\ phase \notin {"admit", "done"} => selected = <<>>

TypeInv == TypeOK /\ Progressed

LEMMA ReadyType ==
    ASSUME TypeOK
    PROVE  /\ snapshot \in Snapshot
           /\ Ready \in Seq(Task) /\ Len(Ready) \in Nat
           /\ Len(ranked) \in Nat /\ Len(sorted) \in Nat /\ Len(selected) \in Nat
<1>1. snapshot \in Snapshot
  BY SnapshotsAssumption DEF TypeOK
<1>2. Ready \in Seq(Task)
  BY <1>1 DEF Ready, Snapshot
<1> QED
  BY <1>1, <1>2, LenProperties DEF TypeOK

LEMMA ScreenedNext ==
    ASSUME TypeOK, phase = "rank", next <= Len(Ready)
    PROVE  Screen(snapshot, {Ready[j].id : j \in 1..(next - 1)}, Ready[next]) \in Candidate
<1>1. next \in 1..Len(Ready)
  BY ReadyType DEF TypeOK
<1>2. Ready[next] \in Task
  BY <1>1, ReadyType, ElementOfSeq
<1> QED
  BY <1>2, ReadyType, ScreenType

LEMMA InsertedNext ==
    ASSUME TypeOK, phase = "sort", next <= Len(ranked)
    PROVE  /\ ranked[next] \in Candidate
           /\ InsertPosition(Ahead, sorted, ranked[next]) \in 1..(Len(sorted) + 1)
<1>1. next \in 1..Len(ranked)
  BY ReadyType DEF TypeOK
<1>2. ranked[next] \in Candidate
  BY <1>1, ElementOfSeq DEF TypeOK
<1>3. InsertPosition(Ahead, sorted, ranked[next]) = Position(AheadOn(Candidate), sorted, ranked[next])
  BY <1>2, AheadSortPosition DEF TypeOK
<1>4. Position(AheadOn(Candidate), sorted, ranked[next]) \in 1..(Len(sorted) + 1)
  BY PositionDivides DEF TypeOK
<1> QED
  BY <1>2, <1>3, <1>4

\* The candidate whose turn it is in the admission loop.
LEMMA CurrentType ==
    ASSUME TypeOK, phase = "admit", next <= Len(sorted)
    PROVE  /\ next \in 1..Len(sorted)
           /\ sorted[next] \in Candidate /\ sorted[next].task \in Task
<1>1. next \in 1..Len(sorted)
  BY ReadyType DEF TypeOK
<1>2. sorted[next] \in Candidate
  BY <1>1, ElementOfSeq DEF TypeOK
<1> QED
  BY <1>1, <1>2 DEF Candidate

\* The verdict on a candidate replaces it in place.
LEMMA VerdictInPlace ==
    ASSUME TypeOK, phase = "admit", next <= Len(sorted),
           NEW outcome \in Outcomes, NEW reason \in Reasons,
           sorted' = [sorted EXCEPT ![next] = Verdict(@, outcome, reason)]
    PROVE  /\ sorted' \in Seq(Candidate) /\ Len(sorted') = Len(sorted)
           /\ \A i \in 1..Len(sorted) :
                  sorted'[i] = IF i = next THEN Verdict(sorted[next], outcome, reason) ELSE sorted[i]
<1>1. Verdict(sorted[next], outcome, reason) \in Candidate
  BY CurrentType, VerdictType
<1>2. sorted \in Seq(Candidate) /\ next \in 1..Len(sorted)
  BY CurrentType DEF TypeOK
<1> QED
  BY <1>1, <1>2, ExceptSeq

LEMMA TypeInductive == TypeInv /\ [Next]_vars => TypeInv'
<1> SUFFICES ASSUME TypeInv, [Next]_vars PROVE TypeInv'
  OBVIOUS
<1> USE DEF TypeInv
<1>1. CASE CheckInput
  BY <1>1, ReadyType DEF CheckInput, TypeOK, Progressed, Ready
<1>2. CASE RankNext
  <2> DEFINE c == Screen(snapshot, {Ready[j].id : j \in 1..(next - 1)}, Ready[next])
  <2>1. c \in Candidate
    BY <1>2, ScreenedNext DEF RankNext
  <2>2. ranked' = Append(ranked, c) /\ next' = next + 1 /\ phase = "rank" /\ next <= Len(Ready)
        /\ UNCHANGED <<phase, snapshot, sorted, budget, selected, report>>
    BY <1>2 DEF RankNext
  <2> HIDE DEF c
  <2>3. ranked' \in Seq(Candidate) /\ Len(ranked') = Len(ranked) + 1
    BY <2>1, <2>2, AppendProperties DEF TypeOK
  <2>4. TypeOK'
    BY <2>2, <2>3 DEF TypeOK, Ready
  <2>5. Progressed'
    BY <2>2, <2>3, ReadyType DEF TypeOK, Progressed, Ready
  <2> QED
    BY <2>4, <2>5
<1>3. CASE EndRank
  BY <1>3, ReadyType DEF EndRank, TypeOK, Progressed, Ready
<1>4. CASE InsertNext
  <2>1. /\ sorted' \in Seq(Candidate)
        /\ Len(sorted') = Len(sorted) + 1
    BY <1>4, InsertedNext, InsertAtShape DEF InsertNext, TypeOK
  <2>2. TypeOK'
    BY <1>4, <2>1 DEF InsertNext, TypeOK, Ready
  <2>3. Progressed'
    BY <1>4, <2>1, ReadyType DEF InsertNext, TypeOK, Progressed, Ready
  <2> QED
    BY <2>2, <2>3
<1>5. CASE EndSort
  <2>1. budget' \in Budget
    BY <1>5, ReadyType, InitialBudgetType DEF EndSort
  <2>2. Len(sorted) = Len(Ready)
    BY <1>5, ReadyType DEF EndSort, TypeOK, Progressed
  <2> QED
    BY <1>5, <2>1, <2>2 DEF EndSort, TypeOK, Progressed, Ready, Budget
<1>6. CASE SkipDecided
  BY <1>6 DEF SkipDecided, TypeOK, Progressed, Ready
<1>7. CASE Defer
  <2> DEFINE obstacle == Obstacle(sorted[next].task, budget)
  <2>1. obstacle \in Reasons /\ "deferred" \in Outcomes
    BY ObstacleType DEF Outcomes
  <2>2. sorted' = [sorted EXCEPT ![next] = Verdict(@, "deferred", obstacle)]
        /\ phase = "admit" /\ next <= Len(sorted) /\ next' = next + 1
        /\ UNCHANGED <<phase, snapshot, ranked, budget, selected, report>>
    BY <1>7 DEF Defer
  <2> HIDE DEF obstacle
  <2>3. sorted' \in Seq(Candidate) /\ Len(sorted') = Len(sorted)
    BY <2>1, <2>2, VerdictInPlace
  <2> QED
    BY <2>2, <2>3 DEF TypeOK, Progressed, Ready
<1>8. CASE Select
  <2>1. sorted' \in Seq(Candidate) /\ Len(sorted') = Len(sorted)
    BY <1>8, VerdictInPlace DEF Select, Outcomes, Reasons
  <2>2. sorted[next].task \in Task
    BY <1>8, CurrentType DEF Select
  <2>3. selected' \in Seq(Task)
    BY <1>8, <2>2, AppendProperties DEF Select, TypeOK
  <2>4. budget.slots # 0
    BY <1>8 DEF Select, Obstacle
  <2>5. budget' \in Budget
    BY <1>8, <2>2, <2>4, ChargeType DEF Select, TypeOK, Budget
  <2>6. /\ phase = "admit" /\ next' = next + 1
        /\ UNCHANGED <<phase, snapshot, ranked, report>>
    BY <1>8 DEF Select
  <2>7. TypeOK'
    BY <2>1, <2>3, <2>5, <2>6 DEF TypeOK, Progressed, Ready, Budget
  <2>8. Progressed'
    BY <2>1, <2>6 DEF Progressed, Ready
  <2> QED
    BY <2>7, <2>8
<1>9. CASE Report
  <2>1. UNCHANGED <<snapshot, ranked, sorted, budget, next, selected>>
        /\ phase = "admit" /\ phase' = "done"
    BY <1>9 DEF Report
  <2> QED
    BY <2>1 DEF TypeOK, Progressed, Ready
<1>10. CASE UNCHANGED vars
  BY <1>10 DEF vars, TypeOK, Progressed, Ready
<1> QED
  BY <1>1, <1>2, <1>3, <1>4, <1>5, <1>6, <1>7, <1>8, <1>9, <1>10 DEF Next, Returned

LEMMA TypeInvariant == Spec => []TypeInv
<1>1. ASSUME Init PROVE TypeInv
  <2>1. snapshot \in Snapshot
    BY <1>1, SnapshotsAssumption DEF Init
  <2>2. Len(Ready) \in Nat
    BY <2>1, LenProperties DEF Ready, Snapshot
  <2> QED
    BY <1>1, <2>2 DEF Init, TypeInv, TypeOK, Progressed, NoResources, Resources
<1> QED
  BY <1>1, TypeInductive, PTL DEF Spec

\* Every variable of Decide keeps its type: the slots never go below zero, every
\* index is in range, and the sort neither loses nor invents a candidate.
THEOREM TypeCorrect == Spec => []TypeOK
  BY TypeInvariant, PTL DEF TypeInv

-----------------------------------------------------------------------------
(* Capacity.                                                                 *)

\* Where the slots and the GPU slots of the budget have gone.
Accounted ==
    phase \in {"admit", "done"} =>
        /\ budget.slots + Len(selected) =
               Clamp(Config.maxConcurrent - Len(snapshot.running), Config.maxConcurrent)
        /\ budget.gpuInUse = GPUCount(snapshot.running) + GPUCount(selected)
        /\ GPUCount(selected) > 0 => budget.gpuInUse <= Config.maxGPU

LEMMA AccountedInductive == TypeInv /\ Accounted /\ [Next]_vars => Accounted'
<1> SUFFICES ASSUME TypeInv, Accounted, [Next]_vars PROVE Accounted'
  OBVIOUS
<1> USE DEF TypeInv
<1>1. CASE CheckInput \/ RankNext \/ EndRank \/ InsertNext
  <2>1. phase' \notin {"admit", "done"}
    BY <1>1 DEF CheckInput, RankNext, EndRank, InsertNext
  <2> QED
    BY <2>1 DEF Accounted
<1>2. CASE EndSort
  <2>1. selected' = <<>> /\ snapshot' = snapshot /\ budget' = InitialBudget(snapshot)
    BY <1>2 DEF EndSort, Progressed
  <2>2. /\ Clamp(Config.maxConcurrent - Len(snapshot.running), Config.maxConcurrent) \in Nat
        /\ GPUCount(snapshot.running) \in Nat
    BY ReadyType, InitialBudgetType DEF InitialBudget, Budget
  <2> QED
    BY <2>1, <2>2, NoGPUs DEF Accounted, InitialBudget
<1>3. CASE SkipDecided \/ Defer \/ Report
  <2>1. phase = "admit" /\ UNCHANGED <<budget, selected, snapshot>>
    BY <1>3 DEF SkipDecided, Defer, Report
  <2> QED
    BY <2>1 DEF Accounted
<1>4. CASE Select
  <2> DEFINE t == sorted[next].task
  <2>1. /\ t \in Task /\ selected \in Seq(Task) /\ budget \in Budget
        /\ GPUCount(selected) \in Nat /\ Len(selected) \in Nat
        /\ GPUCount(snapshot.running) \in Nat
    BY <1>4, CurrentType, GPUCountType, ReadyType DEF Select, TypeOK, Budget, Snapshot
  <2>2. /\ phase = "admit" /\ snapshot' = snapshot
        /\ selected' = Append(selected, t) /\ budget' = Charge(budget, t)
    BY <1>4 DEF Select
  <2>3. RequiresGPU(t) => budget.gpuInUse < Config.maxGPU
    <3>1. ~(RequiresGPU(t) /\ budget.gpuInUse >= Config.maxGPU)
      BY <1>4 DEF Select, Obstacle
    <3>2. budget.gpuInUse \in Int /\ Config.maxGPU \in Int
      BY <2>1, ConfigTypes DEF Budget
    <3> HIDE DEF t
    <3> QED
      BY <3>1, <3>2
  <2> HIDE DEF t
  <2>4. /\ GPUCount(selected') = GPUCount(selected) + (IF RequiresGPU(t) THEN 1 ELSE 0)
        /\ Len(selected') = Len(selected) + 1
    BY <2>1, <2>2, GPUCountAppend, AppendProperties
  <2>5. /\ budget'.slots = budget.slots - 1
        /\ budget'.gpuInUse = IF RequiresGPU(t) THEN budget.gpuInUse + 1 ELSE budget.gpuInUse
    BY <2>2 DEF Charge
  <2>6. budget.slots \in Nat /\ budget.gpuInUse \in Nat
    BY <2>1 DEF Budget
  <2>7. Config.maxGPU \in Nat /\ Config.maxConcurrent \in Nat
    BY ConfigTypes
  <2>8. budget'.slots + Len(selected') = budget.slots + Len(selected)
    BY <2>1, <2>4, <2>5, <2>6, SMTT(30)
  <2>9. budget'.gpuInUse = GPUCount(snapshot'.running) + GPUCount(selected')
    BY <2>1, <2>2, <2>4, <2>5, <2>6 DEF Accounted
  <2>10. GPUCount(selected') > 0 => budget'.gpuInUse <= Config.maxGPU
    BY <2>1, <2>2, <2>3, <2>4, <2>5, <2>6, <2>7 DEF Accounted
  <2> QED
    BY <2>2, <2>8, <2>9, <2>10 DEF Accounted
<1>5. CASE UNCHANGED vars
  BY <1>5 DEF vars, Accounted
<1> QED
  BY <1>1, <1>2, <1>3, <1>4, <1>5 DEF Next, Returned

LEMMA AccountedSuffices == TypeInv /\ Accounted => CapacityRespected
<1> SUFFICES ASSUME TypeInv, Accounted PROVE CapacityRespected
  OBVIOUS
<1>1. CASE phase \notin {"admit", "done"}
  <2>1. selected = <<>>
    BY <1>1 DEF TypeInv, Progressed
  <2> QED
    BY <2>1, NoGPUs DEF CapacityRespected
<1>2. CASE phase \in {"admit", "done"}
  <2> DEFINE free == Config.maxConcurrent - Len(snapshot.running)
  <2>1. /\ Len(snapshot.running) \in Nat /\ Len(selected) \in Nat /\ budget.slots \in Nat
        /\ GPUCount(selected) \in Nat /\ selected \in Seq(Task)
    BY ReadyType, LenProperties, GPUCountType DEF TypeInv, TypeOK, Snapshot
  <2>2. selected # <<>> => Len(selected) > 0
    BY <2>1, EmptySeq
  <2>3. Len(selected) <= Clamp(free, Config.maxConcurrent)
    <3>1. free \in Int /\ Config.maxConcurrent \in Nat
      BY <2>1, ConfigTypes, SMTT(30)
    <3>2. Clamp(free, Config.maxConcurrent) \in Nat
      BY <3>1 DEF Clamp
    <3>3. budget.slots + Len(selected) = Clamp(free, Config.maxConcurrent)
      BY <1>2 DEF Accounted
    <3> QED
      BY <2>1, <3>2, <3>3
  <2>4. selected # <<>> => Len(selected) <= free
    BY <2>1, <2>2, <2>3, ConfigTypes, SMTT(30) DEF Clamp
  <2>5. GPUCount(snapshot.running) \in Nat /\ Config.maxConcurrent \in Nat
    BY ReadyType, GPUCountType, ConfigTypes DEF TypeInv, Snapshot
  <2>6. selected # <<>> => Len(snapshot.running) + Len(selected) <= Config.maxConcurrent
    BY <2>1, <2>4, <2>5
  <2>7. GPUCount(selected) > 0 =>
            GPUCount(snapshot.running) + GPUCount(selected) <= Config.maxGPU
    BY <1>2 DEF Accounted
  <2> QED
    BY <2>6, <2>7 DEF CapacityRespected
<1> QED
  BY <1>1, <1>2

\* Whatever the snapshot lists, the running and the selected tasks together
\* never exceed maxConcurrent, nor those that need a GPU maxGPUConcurrent,
\* unless the running ones already do and nothing is selected.
THEOREM CapacityKept == Spec => []CapacityRespected
<1>1. Init => Accounted
  BY DEF Init, Accounted
<1> QED
  BY <1>1, TypeInvariant, AccountedInductive, AccountedSuffices, PTL DEF Spec

-----------------------------------------------------------------------------
(* No task twice.                                                            *)

Open(c) == c.outcome = Undecided

\* The undecided candidates of a slice have IDs of their own.
Distinct(s) ==
    \A i, j \in 1..Len(s) : i # j /\ Open(s[i]) /\ Open(s[j]) => s[i].task.id # s[j].task.id

NotRunning(s) == \A i \in 1..Len(s) : Open(s[i]) => s[i].task.id \notin IDs(snapshot.running)

OwnIDs ==
    /\ \A i \in 1..Len(ranked) : ranked[i].task.id = Ready[i].id
    /\ Distinct(ranked) /\ NotRunning(ranked)
    /\ Distinct(sorted) /\ NotRunning(sorted)
    /\ phase = "sort" =>
           \A i \in 1..Len(sorted), k \in next..Len(ranked) :
               Open(sorted[i]) /\ Open(ranked[k]) => sorted[i].task.id # ranked[k].task.id

SelectedOnce ==
    /\ NeverTwiceNorRunning
    /\ phase = "admit" =>
           \A i \in 1..Len(selected), k \in next..Len(sorted) :
               Open(sorted[k]) => selected[i].id # sorted[k].task.id

\* The candidate RankNext appends: its task comes from the next ready one, and it
\* is left open only when no earlier task and no running one has its ID.
LEMMA RankedNext ==
    ASSUME TypeInv, RankNext
    PROVE  \E c \in Candidate :
              /\ ranked' = Append(ranked, c) /\ Len(ranked) = next - 1
              /\ c.task.id = Ready[next].id
              /\ Open(c) => /\ \A j \in 1..(next - 1) : c.task.id # Ready[j].id
                            /\ c.task.id \notin IDs(snapshot.running)
<1> DEFINE seen == {Ready[j].id : j \in 1..(next - 1)}
           c    == Screen(snapshot, seen, Ready[next])
<1>1. phase = "rank" /\ next <= Len(Ready) /\ ranked' = Append(ranked, c)
  BY DEF RankNext
<1>2. next \in 1..Len(Ready) /\ Len(ranked) = next - 1
  BY <1>1, ReadyType DEF TypeInv, TypeOK, Progressed
<1>3. Ready[next] \in Task /\ snapshot \in Snapshot
  BY <1>2, ReadyType, ElementOfSeq DEF TypeInv
<1> HIDE DEF seen
<1>4. /\ c \in Candidate /\ c.task.id = Ready[next].id
      /\ c.outcome = Undecided => /\ Ready[next].id \notin seen
                                  /\ Ready[next].id \notin IDs(snapshot.running)
  BY <1>3, ScreenType
<1>5. \A j \in 1..(next - 1) : Ready[j].id \in seen
  BY DEF seen
<1> HIDE DEF c
<1> QED
  BY <1>1, <1>2, <1>4, <1>5 DEF Open

LEMMA RankKeepsOwnIDs == TypeInv /\ OwnIDs /\ RankNext => OwnIDs'
<1> SUFFICES ASSUME TypeInv, OwnIDs, RankNext PROVE OwnIDs'
  OBVIOUS
<1>1. PICK c \in Candidate :
              /\ ranked' = Append(ranked, c) /\ Len(ranked) = next - 1
              /\ c.task.id = Ready[next].id
              /\ Open(c) => /\ \A j \in 1..(next - 1) : c.task.id # Ready[j].id
                            /\ c.task.id \notin IDs(snapshot.running)
  BY RankedNext
<1>2. phase = "rank" /\ UNCHANGED <<phase, snapshot, sorted>>
  BY DEF RankNext
<1>3. next \in Nat \ {0} /\ ranked \in Seq(Candidate)
  BY DEF TypeInv, TypeOK
<1>4. /\ Len(ranked') = next
      /\ \A i \in 1..(next - 1) : ranked'[i] = ranked[i]
      /\ ranked'[next] = c
  BY <1>1, <1>3, AppendProperties
<1>5. \A i \in 1..next : i \in 1..(next - 1) \/ i = next
  BY <1>3
<1>6. \A i \in 1..Len(ranked') : ranked'[i].task.id = Ready[i].id
  BY <1>1, <1>4, <1>5 DEF OwnIDs
<1>7. Distinct(ranked)'
  <2> SUFFICES ASSUME NEW i \in 1..next, NEW j \in 1..next, i # j,
                      Open(ranked'[i]), Open(ranked'[j])
               PROVE  ranked'[i].task.id # ranked'[j].task.id
    BY <1>4 DEF Distinct, Open
  <2>1. CASE i \in 1..(next - 1) /\ j \in 1..(next - 1)
    BY <1>1, <1>4, <2>1 DEF OwnIDs, Distinct
  <2>2. CASE i = next /\ j \in 1..(next - 1)
    BY <1>1, <1>4, <2>2 DEF OwnIDs
  <2>3. CASE j = next /\ i \in 1..(next - 1)
    BY <1>1, <1>4, <2>3 DEF OwnIDs
  <2> QED
    BY <1>5, <2>1, <2>2, <2>3
<1>8. NotRunning(ranked)'
  BY <1>1, <1>2, <1>4, <1>5 DEF OwnIDs, NotRunning, Open
<1>9. Distinct(sorted)' /\ NotRunning(sorted)'
  BY <1>2 DEF OwnIDs, Distinct, NotRunning, Open
<1> QED
  BY <1>2, <1>6, <1>7, <1>8, <1>9 DEF OwnIDs, Ready

\* What is inserted takes its place among the others without touching them.
LEMMA InsertKeepsOwnIDs == TypeInv /\ OwnIDs /\ InsertNext => OwnIDs'
<1> SUFFICES ASSUME TypeInv, OwnIDs, InsertNext PROVE OwnIDs'
  OBVIOUS
<1> DEFINE n == Len(sorted)
           p == InsertPosition(Ahead, sorted, ranked[next])
           From(i) == IF i < p THEN i ELSE i - 1
<1>1. /\ phase = "sort" /\ next <= Len(ranked) /\ next' = next + 1
      /\ sorted' = InsertAt(sorted, p, ranked[next])
      /\ UNCHANGED <<phase, snapshot, ranked>>
  BY DEF InsertNext
<1>2. /\ sorted \in Seq(Candidate) /\ n \in Nat /\ next \in Nat \ {0} /\ Len(ranked) \in Nat
      /\ ranked[next] \in Candidate /\ p \in 1..(n + 1)
  BY <1>1, InsertedNext, ReadyType DEF TypeInv, TypeOK
<1> HIDE DEF p
<1>3. /\ Len(sorted') = n + 1
      /\ \A i \in 1..(n + 1) :
            sorted'[i] = IF i < p THEN sorted[i] ELSE IF i = p THEN ranked[next] ELSE sorted[i - 1]
  <2> DEFINE e == ranked[next]
  <2>1. e \in Candidate /\ sorted \in Seq(Candidate) /\ p \in 1..(Len(sorted) + 1)
    BY <1>2
  <2> HIDE DEF e
  <2>2. Inserted(InsertAt(sorted, p, e), sorted, p, e)
    BY <2>1, InsertAtInserts
  <2>3. sorted' = InsertAt(sorted, p, e)
    BY <1>1 DEF e
  <2> QED
    BY <2>2, <2>3 DEF Inserted, e
<1> HIDE DEF n
<1>4. /\ \A i \in 1..(n + 1) : i # p => From(i) \in 1..n /\ sorted'[i] = sorted[From(i)]
      /\ sorted'[p] = ranked[next]
      /\ \A i, j \in 1..(n + 1) : i # p /\ j # p /\ i # j => From(i) # From(j)
  BY <1>2, <1>3
<1> HIDE DEF From
<1>5. n = Len(sorted) /\ next \in next..Len(ranked) /\ next \in 1..Len(ranked)
  BY <1>1, <1>2 DEF n
<1>6. Distinct(sorted)'
  <2> SUFFICES ASSUME NEW i \in 1..(n + 1), NEW j \in 1..(n + 1), i # j,
                      Open(sorted'[i]), Open(sorted'[j])
               PROVE  sorted'[i].task.id # sorted'[j].task.id
    BY <1>3 DEF Distinct, Open
  <2>1. CASE i # p /\ j # p
    BY <1>4, <1>5, <2>1 DEF OwnIDs, Distinct
  <2>2. CASE i = p /\ j # p
    BY <1>1, <1>4, <1>5, <2>2 DEF OwnIDs
  <2>3. CASE j = p /\ i # p
    BY <1>1, <1>4, <1>5, <2>3 DEF OwnIDs
  <2> QED
    BY <2>1, <2>2, <2>3
<1>7. NotRunning(sorted)'
  <2> SUFFICES ASSUME NEW i \in 1..(n + 1), Open(sorted'[i])
               PROVE  sorted'[i].task.id \notin IDs(snapshot.running)
    BY <1>1, <1>3 DEF NotRunning, Open
  <2>1. CASE i # p
    BY <1>4, <1>5, <2>1 DEF OwnIDs, NotRunning
  <2>2. CASE i = p
    BY <1>4, <1>5, <2>2 DEF OwnIDs, NotRunning
  <2> QED
    BY <2>1, <2>2
<1>8. ASSUME NEW i \in 1..(n + 1), NEW k \in (next + 1)..Len(ranked),
             Open(sorted'[i]), Open(ranked[k])
      PROVE  sorted'[i].task.id # ranked[k].task.id
  <2>1. k \in next..Len(ranked) /\ k \in 1..Len(ranked) /\ k # next
    BY <1>2
  <2>2. CASE i # p
    BY <1>1, <1>4, <1>5, <1>8, <2>1, <2>2 DEF OwnIDs
  <2>3. CASE i = p
    BY <1>4, <1>5, <1>8, <2>1, <2>3 DEF OwnIDs, Distinct
  <2> QED
    BY <2>2, <2>3
<1>9. (\A i \in 1..Len(ranked) : ranked[i].task.id = Ready[i].id)'
      /\ Distinct(ranked)' /\ NotRunning(ranked)'
  BY <1>1 DEF OwnIDs, Distinct, NotRunning, Open, Ready
<1>10. (\A i \in 1..Len(sorted), k \in next..Len(ranked) :
           Open(sorted[i]) /\ Open(ranked[k]) => sorted[i].task.id # ranked[k].task.id)'
  BY <1>1, <1>3, <1>8 DEF Open
<1> QED
  BY <1>6, <1>7, <1>9, <1>10 DEF OwnIDs

\* A verdict closes the current candidate and leaves the others as they are.
LEMMA VerdictKeepsOwnIDs ==
    ASSUME TypeInv, OwnIDs, phase = "admit", next <= Len(sorted),
           NEW outcome \in Outcomes \ {Undecided}, NEW reason \in Reasons,
           sorted' = [sorted EXCEPT ![next] = Verdict(@, outcome, reason)],
           UNCHANGED <<phase, snapshot, ranked>>
    PROVE  /\ OwnIDs'
           /\ Len(sorted') = Len(sorted)
           /\ \A i \in 1..Len(sorted) : Open(sorted'[i]) => sorted'[i] = sorted[i] /\ i # next
<1>1. /\ Len(sorted') = Len(sorted)
      /\ \A i \in 1..Len(sorted) :
            sorted'[i] = IF i = next THEN Verdict(sorted[next], outcome, reason) ELSE sorted[i]
  BY VerdictInPlace DEF TypeInv
<1>2. Verdict(sorted[next], outcome, reason).outcome # Undecided
  BY CurrentType, VerdictType DEF TypeInv
<1>3. \A i \in 1..Len(sorted) : Open(sorted'[i]) => sorted'[i] = sorted[i] /\ i # next
  BY <1>1, <1>2 DEF Open
<1>4. Distinct(sorted)' /\ NotRunning(sorted)'
  BY <1>1, <1>3 DEF OwnIDs, Distinct, NotRunning, Open
<1>5. (\A i \in 1..Len(ranked) : ranked[i].task.id = Ready[i].id)'
      /\ Distinct(ranked)' /\ NotRunning(ranked)'
  BY DEF OwnIDs, Distinct, NotRunning, Open, Ready
<1> QED
  BY <1>1, <1>3, <1>4, <1>5 DEF OwnIDs

\* The steps that move no candidate.
LEMMA OwnIDsUnmoved ==
    ASSUME OwnIDs, UNCHANGED <<snapshot, ranked, sorted>>,
           phase' = "sort" => UNCHANGED <<phase, next>> \/ sorted = <<>>
    PROVE  OwnIDs'
<1>1. (\A i \in 1..Len(ranked) : ranked[i].task.id = Ready[i].id)'
      /\ Distinct(ranked)' /\ NotRunning(ranked)'
  BY DEF OwnIDs, Distinct, NotRunning, Open, Ready
<1>2. Distinct(sorted)' /\ NotRunning(sorted)'
  BY DEF OwnIDs, Distinct, NotRunning, Open
<1>3. (phase = "sort" =>
           \A i \in 1..Len(sorted), k \in next..Len(ranked) :
               Open(sorted[i]) /\ Open(ranked[k]) => sorted[i].task.id # ranked[k].task.id)'
  BY DEF OwnIDs, Open
<1> QED
  BY <1>1, <1>2, <1>3 DEF OwnIDs

LEMMA OwnIDsInductive == TypeInv /\ OwnIDs /\ [Next]_vars => OwnIDs'
<1> SUFFICES ASSUME TypeInv, OwnIDs, [Next]_vars PROVE OwnIDs'
  OBVIOUS
<1>1. CASE CheckInput \/ EndSort \/ SkipDecided \/ Report
  BY <1>1, OwnIDsUnmoved DEF CheckInput, EndSort, SkipDecided, Report
<1>2. CASE EndRank
  BY <1>2, OwnIDsUnmoved DEF EndRank, TypeInv, Progressed
<1>3. CASE RankNext
  BY <1>3, RankKeepsOwnIDs
<1>4. CASE InsertNext
  BY <1>4, InsertKeepsOwnIDs
<1>5. CASE Defer
  <2> DEFINE obstacle == Obstacle(sorted[next].task, budget)
  <2>1. obstacle \in Reasons /\ "deferred" \in Outcomes \ {Undecided}
    BY ObstacleType DEF Outcomes, Undecided
  <2>2. /\ phase = "admit" /\ next <= Len(sorted)
        /\ sorted' = [sorted EXCEPT ![next] = Verdict(@, "deferred", obstacle)]
        /\ UNCHANGED <<phase, snapshot, ranked>>
    BY <1>5 DEF Defer
  <2> HIDE DEF obstacle
  <2> QED
    BY <2>1, <2>2, VerdictKeepsOwnIDs
<1>6. CASE Select
  <2>1. "selected" \in Reasons /\ "selected" \in Outcomes \ {Undecided}
    BY DEF Reasons, Outcomes, Undecided
  <2> QED
    BY <1>6, <2>1, VerdictKeepsOwnIDs DEF Select
<1>7. CASE UNCHANGED vars
  BY <1>7, OwnIDsUnmoved DEF vars
<1> QED
  BY <1>1, <1>2, <1>3, <1>4, <1>5, <1>6, <1>7 DEF Next, Returned

LEMMA SelectedOnceInductive ==
    TypeInv /\ OwnIDs /\ SelectedOnce /\ [Next]_vars => SelectedOnce'
<1> SUFFICES ASSUME TypeInv, OwnIDs, SelectedOnce, [Next]_vars PROVE SelectedOnce'
  OBVIOUS
<1>1. CASE CheckInput \/ RankNext \/ EndRank \/ InsertNext \/ EndSort
  <2>1. selected = <<>> /\ UNCHANGED <<snapshot, selected>>
    BY <1>1 DEF CheckInput, RankNext, EndRank, InsertNext, EndSort, TypeInv, Progressed
  <2>2. Len(<<>>) = 0
    OBVIOUS
  <2>3. NeverTwiceNorRunning'
    BY <2>1 DEF SelectedOnce, NeverTwiceNorRunning
  <2> QED
    BY <2>1, <2>2, <2>3 DEF SelectedOnce
<1>2. CASE SkipDecided
  <2>1. /\ phase = "admit" /\ next' = next + 1 /\ next \in Nat /\ Len(sorted) \in Nat
        /\ UNCHANGED <<snapshot, selected, sorted>>
    BY <1>2, ReadyType DEF SkipDecided, TypeInv, TypeOK
  <2>2. \A k \in next'..Len(sorted) : k \in next..Len(sorted)
    BY <2>1
  <2>3. NeverTwiceNorRunning'
    BY <2>1 DEF SelectedOnce, NeverTwiceNorRunning
  <2> QED
    BY <2>1, <2>2, <2>3 DEF SelectedOnce, Open
<1>3. CASE Defer
  <2> DEFINE obstacle == Obstacle(sorted[next].task, budget)
  <2>1. /\ phase = "admit" /\ next <= Len(sorted) /\ next' = next + 1
        /\ sorted' = [sorted EXCEPT ![next] = Verdict(@, "deferred", obstacle)]
        /\ UNCHANGED <<phase, snapshot, ranked, selected>>
    BY <1>3 DEF Defer
  <2>2. obstacle \in Reasons /\ "deferred" \in Outcomes \ {Undecided}
    BY ObstacleType DEF Outcomes, Undecided
  <2>3. next \in 1..Len(sorted) /\ Len(sorted) \in Nat
    BY <2>1, CurrentType, ReadyType DEF TypeInv
  <2> HIDE DEF obstacle
  <2>4. /\ Len(sorted') = Len(sorted)
        /\ \A i \in 1..Len(sorted) : Open(sorted'[i]) => sorted'[i] = sorted[i] /\ i # next
    BY <2>1, <2>2, VerdictKeepsOwnIDs
  <2>5. \A k \in next'..Len(sorted) : k \in next..Len(sorted) /\ k \in 1..Len(sorted)
    BY <2>1, <2>3
  <2>6. NeverTwiceNorRunning'
    BY <2>1 DEF SelectedOnce, NeverTwiceNorRunning
  <2> QED
    BY <2>1, <2>4, <2>5, <2>6 DEF SelectedOnce, Open
<1>4. CASE Select
  <2> DEFINE t == sorted[next].task
             n == Len(selected)
  <2>1. /\ phase = "admit" /\ next <= Len(sorted) /\ next' = next + 1 /\ Open(sorted[next])
        /\ sorted' = [sorted EXCEPT ![next] = Verdict(@, "selected", "selected")]
        /\ selected' = Append(selected, t)
        /\ UNCHANGED <<phase, snapshot, ranked>>
    BY <1>4 DEF Select, Open
  <2>2. "selected" \in Reasons /\ "selected" \in Outcomes \ {Undecided}
    BY DEF Reasons, Outcomes, Undecided
  <2>3. /\ next \in 1..Len(sorted) /\ Len(sorted) \in Nat /\ n \in Nat
        /\ t \in Task /\ selected \in Seq(Task)
    BY <2>1, CurrentType, ReadyType DEF TypeInv, TypeOK
  <2>4. /\ Len(sorted') = Len(sorted)
        /\ \A i \in 1..Len(sorted) : Open(sorted'[i]) => sorted'[i] = sorted[i] /\ i # next
    BY <2>1, <2>2, VerdictKeepsOwnIDs
  <2>5. \A k \in next'..Len(sorted) : /\ k \in next..Len(sorted) /\ k \in 1..Len(sorted)
                                      /\ k # next
    BY <2>1, <2>3
  <2>6. t.id \notin IDs(snapshot.running) /\ \A i \in 1..n : selected[i].id # t.id
    BY <2>1, <2>3, SMTT(30) DEF OwnIDs, NotRunning, SelectedOnce
  <2>7. \A k \in next'..Len(sorted) : Open(sorted[k]) => t.id # sorted[k].task.id
    BY <2>1, <2>3, <2>5 DEF OwnIDs, Distinct
  <2> HIDE DEF t
  <2>8. /\ selected' \in Seq(Task) /\ Len(selected') = n + 1
        /\ \A i \in 1..n : selected'[i] = selected[i]
        /\ selected'[n + 1] = t
    BY <2>1, <2>3, AppendProperties
  <2>9. /\ DOMAIN selected = 1..n /\ DOMAIN selected' = 1..(n + 1)
        /\ \A i \in 1..(n + 1) : i \in 1..n \/ i = n + 1
    BY <2>3, <2>8, LenProperties
  <2> HIDE DEF n
  <2>10. \A i, j \in 1..(n + 1) : i # j => selected'[i].id # selected'[j].id
    <3>1. \A i, j \in 1..n : i # j => selected[i].id # selected[j].id
      BY <2>9 DEF SelectedOnce, NeverTwiceNorRunning
    <3> QED
      BY <2>6, <2>8, <2>9, <3>1
  <2>11. \A i \in 1..(n + 1) : selected'[i].id \notin IDs(snapshot.running)
    <3>1. \A i \in 1..n : selected[i].id \notin IDs(snapshot.running)
      BY <2>9 DEF SelectedOnce, NeverTwiceNorRunning, IDs
    <3> QED
      BY <2>6, <2>8, <2>9, <3>1
  <2>12. NeverTwiceNorRunning'
    <3>1. IDs(selected') \cap IDs(snapshot'.running) = {}
      <4>1. ASSUME NEW x \in IDs(selected')
            PROVE  x \notin IDs(snapshot.running)
        <5>1. PICK i \in 1..(n + 1) : x = selected'[i].id
          BY <2>9 DEF IDs
        <5> QED
          BY <2>11, <5>1
      <4>2. snapshot' = snapshot
        BY <2>1
      <4> QED
        BY <4>1, <4>2
    <3> QED
      BY <2>9, <2>10, <3>1 DEF NeverTwiceNorRunning
  <2>13. ASSUME NEW i \in 1..(n + 1), NEW k \in next'..Len(sorted), Open(sorted[k])
         PROVE  selected'[i].id # sorted[k].task.id
    <3>1. CASE i \in 1..n
      BY <2>1, <2>5, <2>8, <2>13, <3>1 DEF SelectedOnce, n
    <3>2. CASE i = n + 1
      BY <2>7, <2>8, <2>13, <3>2
    <3> QED
      BY <2>9, <3>1, <3>2
  <2> QED
    BY <2>4, <2>5, <2>8, <2>12, <2>13 DEF SelectedOnce, Open
<1>5. CASE Report
  BY <1>5 DEF Report, SelectedOnce, NeverTwiceNorRunning
<1>6. CASE UNCHANGED vars
  BY <1>6 DEF vars, SelectedOnce, NeverTwiceNorRunning, Open
<1> QED
  BY <1>1, <1>2, <1>3, <1>4, <1>5, <1>6 DEF Next, Returned

\* One decision never selects an ID twice nor one that runs, whatever the
\* snapshot repeats and however the candidates are ranked.
THEOREM SelectionsDistinct == Spec => []NeverTwiceNorRunning
<1>1. ASSUME Init PROVE OwnIDs /\ SelectedOnce
  <2>1. Len(<<>>) = 0 /\ DOMAIN <<>> = {}
    OBVIOUS
  <2> QED
    BY <1>1, <2>1 DEF Init, OwnIDs, Distinct, NotRunning, SelectedOnce, NeverTwiceNorRunning, IDs
<1>2. SelectedOnce => NeverTwiceNorRunning
  BY DEF SelectedOnce
<1> QED
  BY <1>1, <1>2, TypeInvariant, OwnIDsInductive, SelectedOnceInductive, PTL DEF Spec

-----------------------------------------------------------------------------
(* Deferrals are honest.                                                     *)

CapacityReasons == {"concurrency_limit", "gpu_capacity"}

\* The admission loop has not decided about a candidate.
Pending(c) == c.outcome # "selected" /\ c.reason \notin CapacityReasons

\* What the loop has yet to reach is pending.
Unjudged ==
    /\ \A i \in 1..Len(ranked) : Pending(ranked[i])
    /\ \A i \in 1..Len(sorted) : phase = "sort" \/ (phase = "admit" /\ next <= i) => Pending(sorted[i])

\* A reason given in the loop is, and stays, that of CapacityDeferralsJustified.
Honest ==
    \A i \in 1..Len(sorted) :
        /\ sorted[i].reason = "concurrency_limit" =>
               /\ budget.slots = 0
               /\ \A j \in (i + 1)..Len(sorted) : sorted[j].outcome # "selected"
        /\ sorted[i].reason = "gpu_capacity" =>
               /\ RequiresGPU(sorted[i].task)
               /\ budget.gpuInUse >= Config.maxGPU
               /\ \A j \in (i + 1)..Len(sorted) :
                      sorted[j].outcome = "selected" => ~RequiresGPU(sorted[j].task)

DeferralsInv == Unjudged /\ (phase \in {"admit", "done"} => Honest)

LEMMA ScreenPending ==
    ASSUME NEW snap \in Snapshot, NEW seen, NEW raw \in Task
    PROVE  Pending(Screen(snap, seen, raw))
<1> DEFINE c == Rank(snap.at, raw)
<1>1. c \in Candidate
  BY RankType DEF Snapshot
<1>2. Pending(c)
  BY DEF Rank, Rejected, Undecided, Pending, CapacityReasons
<1> HIDE DEF c
<1>3. \/ Screen(snap, seen, raw) = [c EXCEPT !.outcome = "rejected", !.reason = "invalid_task"]
      \/ Screen(snap, seen, raw) = [c EXCEPT !.outcome = "deferred", !.reason = "already_running"]
      \/ Screen(snap, seen, raw) = c
  BY DEF Screen, c
<1> QED
  BY <1>1, <1>2, <1>3 DEF Candidate, Pending, CapacityReasons

\* Before the admission loop every candidate of both slices is pending.
LEMMA PreparedPending ==
    ASSUME TypeInv, Unjudged, CheckInput \/ RankNext \/ EndRank \/ InsertNext
    PROVE  DeferralsInv'
<1>1. CASE CheckInput \/ EndRank
  BY <1>1 DEF CheckInput, EndRank, TypeInv, Progressed, DeferralsInv, Unjudged, Pending
<1>2. CASE RankNext
  <2> DEFINE c == Screen(snapshot, {Ready[j].id : j \in 1..(next - 1)}, Ready[next])
  <2>1. phase = "rank" /\ phase' = "rank" /\ next <= Len(Ready) /\ sorted' = sorted
        /\ ranked' = Append(ranked, c)
    BY <1>2 DEF RankNext
  <2>2. next \in 1..Len(Ready)
    BY <2>1, ReadyType DEF TypeInv, TypeOK
  <2>3. Ready[next] \in Task /\ snapshot \in Snapshot
    BY <2>2, ReadyType, ElementOfSeq DEF TypeInv
  <2>4. Pending(c)
    BY <2>3, ScreenPending
  <2>5. c \in Candidate /\ ranked \in Seq(Candidate) /\ Len(ranked) \in Nat
    BY <2>1, ScreenedNext, ReadyType DEF TypeInv, TypeOK
  <2> HIDE DEF c
  <2>6. /\ Len(ranked') = Len(ranked) + 1
        /\ \A i \in 1..Len(ranked) : ranked'[i] = ranked[i]
        /\ ranked'[Len(ranked) + 1] = c
    BY <2>1, <2>5, AppendProperties
  <2>7. \A i \in 1..Len(ranked') : Pending(ranked'[i])
    BY <2>4, <2>5, <2>6 DEF Unjudged
  <2> QED
    BY <2>1, <2>7 DEF DeferralsInv, Unjudged, Pending
<1>3. CASE InsertNext
  <2> DEFINE p == InsertPosition(Ahead, sorted, ranked[next])
             e == ranked[next]
             n == Len(sorted)
  <2>1. /\ phase = "sort" /\ phase' = "sort" /\ next <= Len(ranked) /\ ranked' = ranked
        /\ sorted' = InsertAt(sorted, p, e)
    BY <1>3 DEF InsertNext
  <2>2. e \in Candidate /\ sorted \in Seq(Candidate) /\ p \in 1..(n + 1) /\ n \in Nat
        /\ next \in 1..Len(ranked)
    BY <2>1, InsertedNext, ReadyType DEF TypeInv, TypeOK
  <2>3. Pending(e)
    BY <2>2 DEF Unjudged
  <2> HIDE DEF p, e
  <2>4. /\ Len(sorted') = n + 1
        /\ \A i \in 1..(n + 1) :
              sorted'[i] = IF i < p THEN sorted[i] ELSE IF i = p THEN e ELSE sorted[i - 1]
    <3>1. Inserted(InsertAt(sorted, p, e), sorted, p, e)
      BY <2>2, InsertAtInserts
    <3> QED
      BY <2>1, <3>1 DEF Inserted
  <2>5. \A i \in 1..n : Pending(sorted[i])
    BY <2>1 DEF Unjudged
  <2> HIDE DEF n
  <2>6. \A i \in 1..(n + 1) : Pending(sorted'[i])
    BY <2>2, <2>3, <2>4, <2>5
  <2> QED
    BY <2>1, <2>4, <2>6 DEF DeferralsInv, Unjudged, Pending
<1> QED
  BY <1>1, <1>2, <1>3

\* One turn of the admission loop, whatever it decides.
LEMMA TurnKeepsHonest ==
    ASSUME TypeInv, DeferralsInv, SkipDecided \/ Defer \/ Select
    PROVE  DeferralsInv'
<1>1. /\ phase = "admit" /\ phase' = "admit" /\ ranked' = ranked
      /\ next' = next + 1 /\ next \in 1..Len(sorted) /\ Len(sorted) \in Nat
  BY CurrentType, ReadyType DEF SkipDecided, Defer, Select, TypeInv
<1>2. Unjudged /\ Honest
  BY <1>1 DEF DeferralsInv
<1>3. \A i \in next..Len(sorted) : i \in 1..Len(sorted) /\ Pending(sorted[i])
  BY <1>1, <1>2 DEF Unjudged
<1>4. \A i \in 1..Len(ranked') : Pending(ranked'[i])
  BY <1>1, <1>2 DEF Unjudged
<1>5. CASE SkipDecided
  <2>1. sorted' = sorted /\ budget' = budget
    BY <1>5 DEF SkipDecided
  <2>2. Honest'
    BY <1>2, <2>1 DEF Honest
  <2>3. \A i \in 1..Len(sorted') : next' <= i => Pending(sorted'[i])
    BY <1>1, <1>3, <2>1
  <2> QED
    BY <1>1, <1>4, <2>2, <2>3 DEF DeferralsInv, Unjudged, Pending
<1>6. CASE Defer
  <2> DEFINE obstacle == Obstacle(sorted[next].task, budget)
             v        == Verdict(sorted[next], "deferred", obstacle)
  <2>1. sorted' = [sorted EXCEPT ![next] = Verdict(@, "deferred", obstacle)] /\ budget' = budget
    BY <1>6 DEF Defer
  <2>2. obstacle \in Reasons /\ "deferred" \in Outcomes
    BY ObstacleType DEF Outcomes
  <2>3. sorted[next] \in Candidate
    BY <1>1, CurrentType DEF TypeInv
  <2>4. v.outcome = "deferred" /\ v.reason = obstacle /\ v.task = sorted[next].task
    BY <2>3 DEF Verdict, Candidate
  <2>5. /\ obstacle = "concurrency_limit" => budget.slots = 0
        /\ obstacle = "gpu_capacity" =>
               RequiresGPU(sorted[next].task) /\ budget.gpuInUse >= Config.maxGPU
    BY DEF Obstacle
  <2> HIDE DEF obstacle
  <2>6. /\ Len(sorted') = Len(sorted)
        /\ \A i \in 1..Len(sorted) : sorted'[i] = IF i = next THEN v ELSE sorted[i]
    BY <1>1, <2>1, <2>2, VerdictInPlace DEF TypeInv
  <2> HIDE DEF v
  <2>7. \A i \in 1..Len(sorted') : next' <= i => Pending(sorted'[i])
    BY <1>1, <1>3, <2>6
  <2>8. \A j \in 1..Len(sorted) :
            sorted'[j].outcome = "selected" => j # next /\ sorted'[j] = sorted[j]
    BY <2>4, <2>6
  <2>9. Honest'
    BY <1>1, <1>2, <1>3, <2>1, <2>4, <2>5, <2>6, <2>8 DEF Honest, Pending
  <2> QED
    BY <1>1, <1>4, <2>7, <2>9 DEF DeferralsInv, Unjudged, Pending
<1>7. CASE Select
  <2> DEFINE t == sorted[next].task
             v == Verdict(sorted[next], "selected", "selected")
  <2>1. /\ sorted' = [sorted EXCEPT ![next] = Verdict(@, "selected", "selected")]
        /\ budget' = Charge(budget, t) /\ Obstacle(t, budget) = ""
    BY <1>7 DEF Select
  <2>2. sorted[next] \in Candidate
    BY <1>1, CurrentType DEF TypeInv
  <2>3. v.outcome = "selected" /\ v.reason = "selected" /\ v.task = t
    BY <2>2 DEF Verdict, Candidate
  <2>4. budget.slots # 0 /\ (budget.gpuInUse >= Config.maxGPU => ~RequiresGPU(t))
    BY <2>1 DEF Obstacle
  <2>5. budget.gpuInUse >= Config.maxGPU => budget'.gpuInUse >= Config.maxGPU
    BY <2>1, <2>4 DEF Charge
  <2>6. /\ Len(sorted') = Len(sorted)
        /\ \A i \in 1..Len(sorted) : sorted'[i] = IF i = next THEN v ELSE sorted[i]
    <3>1. "selected" \in Outcomes /\ "selected" \in Reasons
      BY DEF Outcomes, Reasons
    <3>2. phase = "admit" /\ next <= Len(sorted) /\ TypeOK
      BY <1>1 DEF TypeInv
    <3>3. sorted' = [sorted EXCEPT ![next] = Verdict(@, "selected", "selected")]
      BY <2>1
    <3> QED
      BY <3>1, <3>2, <3>3, VerdictInPlace
  <2> HIDE DEF v, t
  <2>7. \A i \in 1..Len(sorted') : next' <= i => Pending(sorted'[i])
    BY <1>1, <1>3, <2>6
  <2>8. \A i \in 1..Len(sorted) : sorted'[i].reason \in CapacityReasons =>
            /\ i # next /\ sorted'[i] = sorted[i]
            /\ sorted[i].reason = "gpu_capacity"
    BY <1>2, <2>3, <2>4, <2>6 DEF Honest, CapacityReasons
  <2>9. Honest'
    <3> SUFFICES ASSUME NEW i \in 1..Len(sorted), sorted'[i].reason \in CapacityReasons
                 PROVE  /\ sorted'[i].reason = "gpu_capacity"
                        /\ RequiresGPU(sorted'[i].task)
                        /\ budget'.gpuInUse >= Config.maxGPU
                        /\ \A j \in (i + 1)..Len(sorted) :
                               sorted'[j].outcome = "selected" => ~RequiresGPU(sorted'[j].task)
      BY <1>1, <2>6 DEF Honest, CapacityReasons, RequiresGPU
    <3>1. /\ sorted'[i] = sorted[i] /\ sorted[i].reason = "gpu_capacity"
          /\ RequiresGPU(sorted[i].task) /\ budget.gpuInUse >= Config.maxGPU
          /\ \A j \in (i + 1)..Len(sorted) :
                 sorted[j].outcome = "selected" => ~RequiresGPU(sorted[j].task)
      BY <1>2, <2>8 DEF Honest
    <3>2. ~RequiresGPU(t)
      BY <2>4, <3>1
    <3>3. \A j \in (i + 1)..Len(sorted) : j \in 1..Len(sorted)
      BY <1>1
    <3> QED
      BY <2>3, <2>5, <2>6, <3>1, <3>2, <3>3
  <2> QED
    BY <1>1, <1>4, <2>7, <2>9 DEF DeferralsInv, Unjudged, Pending
<1> QED
  BY <1>5, <1>6, <1>7

LEMMA DeferralsInductive == TypeInv /\ DeferralsInv /\ [Next]_vars => DeferralsInv'
<1> SUFFICES ASSUME TypeInv, DeferralsInv, [Next]_vars PROVE DeferralsInv'
  OBVIOUS
<1>1. CASE CheckInput \/ RankNext \/ EndRank \/ InsertNext
  BY <1>1, PreparedPending DEF DeferralsInv
<1>2. CASE EndSort
  <2>1. phase = "sort" /\ phase' = "admit" /\ UNCHANGED <<ranked, sorted>>
    BY <1>2 DEF EndSort
  <2>2. \A i \in 1..Len(sorted) : Pending(sorted[i])
    BY <2>1 DEF DeferralsInv, Unjudged
  <2> QED
    BY <2>1, <2>2 DEF DeferralsInv, Unjudged, Honest, Pending, CapacityReasons
<1>3. CASE SkipDecided \/ Defer \/ Select
  BY <1>3, TurnKeepsHonest
<1>4. CASE Report
  BY <1>4 DEF Report, DeferralsInv, Unjudged, Honest, Pending
<1>5. CASE UNCHANGED vars
  BY <1>5 DEF vars, DeferralsInv, Unjudged, Honest, Pending
<1> QED
  BY <1>1, <1>2, <1>3, <1>4, <1>5 DEF Next, Returned

\* When a decision is returned, a task deferred for want of a slot or of a GPU was
\* kept out only by tasks ranked ahead of it, and what it wanted is used up.
THEOREM DeferralsHonest == Spec => []CapacityDeferralsJustified
<1>1. ASSUME Init PROVE DeferralsInv
  <2>1. Len(<<>>) = 0
    OBVIOUS
  <2> QED
    BY <1>1, <2>1 DEF Init, DeferralsInv, Unjudged
<1>2. TypeInv /\ DeferralsInv => CapacityDeferralsJustified
  <2> SUFFICES ASSUME TypeInv, DeferralsInv, phase = "done", NEW i \in DOMAIN sorted,
                      NEW later, later = {j \in (i + 1)..Len(sorted) : sorted[j].outcome = "selected"}
               PROVE  /\ sorted[i].reason = "concurrency_limit" => budget.slots = 0 /\ later = {}
                      /\ sorted[i].reason = "gpu_capacity" =>
                             /\ RequiresGPU(sorted[i].task)
                             /\ budget.gpuInUse >= Config.maxGPU
                             /\ \A j \in later : ~RequiresGPU(sorted[j].task)
    BY DEF CapacityDeferralsJustified
  <2>1. i \in 1..Len(sorted) /\ Honest
    BY LenProperties DEF TypeInv, TypeOK, DeferralsInv
  <2> QED
    BY <2>1 DEF Honest
<1> QED
  BY <1>1, <1>2, TypeInvariant, DeferralsInductive, PTL DEF Spec


-----------------------------------------------------------------------------
(* The loops compute Decide.                                                 *)

\* The candidate at place k of the slice when the admission loop is at place at.
Judged(admission, t, k, at) == IF k < at THEN Judgment(admission, t, k) ELSE t[k]

\* What the loops have computed is what a derivation of the decision has computed
\* after as many steps.
Keeping(sorting, admission) ==
    LET n == Len(Ready)
        t == sorting[n]
    IN  /\ phase = "sort" => sorted = sorting[next - 1]
        /\ phase = "admit" =>
               /\ next \in 1..(n + 1)
               /\ budget = admission[next - 1].budget /\ selected = admission[next - 1].selected
               /\ \A k \in 1..n : sorted[k] = Judged(admission, t, k, next)
        /\ phase = "done" => sorted = admission[n].decided /\ selected = admission[n].selected

Following ==
    /\ \A k \in 1..Len(ranked) : ranked[k] = Screened(snapshot)[k]
    /\ \A sorting, admission : Derivation(snapshot, sorting, admission) => Keeping(sorting, admission)
    /\ phase = "done" =>
           [at |-> snapshot.at, selected |-> selected, candidates |-> report] = Decide(snapshot)

\* What the runs of a derivation do at each step.
LEMMA DerivationSteps ==
    ASSUME NEW snap \in Snapshot, NEW sorting, NEW admission,
           Derivation(snap, sorting, admission), NEW n, n = Len(snap.ready)
    PROVE  /\ n \in Nat /\ Len(sorting[n]) = n /\ sorting[n] \in Seq(Candidate)
           /\ sorting[0] = <<>>
           /\ \A k \in 1..n : sorting[k] =
                 InsertAt(sorting[k - 1],
                          Position(AheadOn(Candidate), sorting[k - 1], Screened(snap)[k]),
                          Screened(snap)[k])
           /\ admission[0].budget = InitialBudget(snap) /\ admission[0].selected = <<>>
           /\ AdmissionRun(admission, Start(snap), sorting[n])
           /\ Admitted(snap) = admission[n]
           /\ admission[n].decided \in Seq(Candidate) /\ Len(admission[n].decided) = n
           /\ \A k \in 1..n : admission[n].decided[k] = Judgment(admission, sorting[n], k)
<1>1. /\ InsertionRun(sorting, AheadOn(Candidate), Candidate, Screened(snap))
      /\ AdmissionRun(admission, Start(snap), sorting[n])
      /\ Len(Screened(snap)) = n /\ n \in Nat
      /\ sorting[n] \in Seq(Candidate) /\ Len(sorting[n]) = n
      /\ Admitted(snap) = admission[n] /\ admission[n] \in Accounts
  BY DEF Derivation
<1>2. Start(snap).decided = <<>> /\ Start(snap).selected = <<>>
      /\ Start(snap).budget = InitialBudget(snap)
  BY DEF Start
<1>3. n \in 0..n
  BY <1>1
<1>4. Len(admission[n].decided) = n /\ \A k \in 1..n : admission[n].decided[k] = Judgment(admission, sorting[n], k)
  BY <1>1, <1>2, <1>3, Judgments
<1> QED
  BY <1>1, <1>2, <1>4 DEF InsertionRun, AdmissionRun, Accounts

\* A step of the first loop, and the steps between the loops.
LEMMA RankFollows ==
    ASSUME TypeInv, Following, CheckInput \/ RankNext \/ EndRank
    PROVE  Following'
<1>1. snapshot' = snapshot /\ phase \in {"called", "rank"} /\ sorted' = sorted
      /\ phase' \in {"failed", "rank", "sort"} /\ selected' = selected
  BY DEF CheckInput, RankNext, EndRank
<1>2. ASSUME NEW k \in 1..Len(ranked') PROVE ranked'[k] = Screened(snapshot)[k]
  <2>1. CASE ranked' = ranked
    BY <2>1 DEF Following
  <2>2. CASE RankNext
    <3> DEFINE c == Screen(snapshot, {Ready[j].id : j \in 1..(next - 1)}, Ready[next])
    <3>1. /\ next \in 1..Len(Ready) /\ Len(ranked) = next - 1 /\ ranked' = Append(ranked, c)
          /\ phase = "rank" /\ next <= Len(Ready)
      BY <2>2, ReadyType DEF RankNext, TypeInv, TypeOK, Progressed
    <3>2. c \in Candidate /\ ranked \in Seq(Candidate)
      BY <3>1, ScreenedNext DEF TypeInv, TypeOK
    <3>3. DOMAIN snapshot.ready = 1..Len(Ready)
      BY ReadyType, LenProperties DEF TypeInv, Ready
    <3>4. Screened(snapshot)[next] = c
      BY <3>1, <3>3 DEF Screened, Ready
    <3> HIDE DEF c
    <3>5. /\ Len(ranked') = Len(ranked) + 1 /\ ranked'[Len(ranked) + 1] = c
          /\ \A i \in 1..Len(ranked) : ranked'[i] = ranked[i]
      BY <3>1, <3>2, AppendProperties
    <3>6. k = next \/ k \in 1..Len(ranked)
      BY <3>1, <3>5
    <3> QED
      BY <3>1, <3>4, <3>5, <3>6 DEF Following
  <2> QED
    BY <2>1, <2>2 DEF CheckInput, EndRank
<1>3. ASSUME NEW sorting, NEW admission, Derivation(snapshot, sorting, admission)
      PROVE  Keeping(sorting, admission)'
  <2>1. phase' = "sort" => EndRank
    BY <1>1 DEF CheckInput, RankNext
  <2>2. phase' = "sort" => next' = 1 /\ sorted' = <<>>
    BY <1>1, <2>1 DEF EndRank, TypeInv, Progressed
  <2>3. sorting[0] = <<>> /\ 1 - 1 = 0
    <3>1. snapshot \in Snapshot
      BY ReadyType DEF TypeInv
    <3> DEFINE n == Len(snapshot.ready)
    <3>2. n = Len(snapshot.ready)
      OBVIOUS
    <3> HIDE DEF n
    <3> QED
      BY <1>3, <3>1, <3>2, DerivationSteps
  <2> QED
    BY <1>1, <2>2, <2>3 DEF Keeping
<1> QED
  BY <1>1, <1>2, <1>3 DEF Following

LEMMA SortFollows ==
    ASSUME TypeInv, Following, InsertNext \/ EndSort
    PROVE  Following'
<1>1. /\ snapshot' = snapshot /\ phase = "sort" /\ ranked' = ranked /\ selected' = selected
      /\ phase' \in {"sort", "admit"}
  BY DEF InsertNext, EndSort
<1>2. /\ Len(ranked) = Len(Ready) /\ Len(sorted) = next - 1 /\ selected = <<>>
      /\ next \in Nat \ {0} /\ next <= Len(Ready) + 1 /\ Len(Ready) \in Nat
      /\ snapshot \in Snapshot /\ sorted \in Seq(Candidate)
  BY <1>1, ReadyType DEF TypeInv, TypeOK, Progressed
<1>3. ASSUME NEW sorting, NEW admission, Derivation(snapshot, sorting, admission)
      PROVE  Keeping(sorting, admission)'
  <2> DEFINE n == Len(Ready)
  <2>0. n = Len(snapshot.ready) /\ Ready' = Ready /\ snapshot.ready = Ready
    BY <1>1 DEF Ready
  <2>1. sorted = sorting[next - 1]
    BY <1>1, <1>3 DEF Following, Keeping
  <2>2. /\ n \in Nat /\ sorting[n] \in Seq(Candidate)
        /\ \A k \in 1..n : sorting[k] =
             InsertAt(sorting[k - 1],
                      Position(AheadOn(Candidate), sorting[k - 1], Screened(snapshot)[k]),
                      Screened(snapshot)[k])
        /\ admission[0].budget = InitialBudget(snapshot) /\ admission[0].selected = <<>>
    BY <1>2, <1>3, <2>0, DerivationSteps
  <2>3. CASE InsertNext
    <3>1. /\ sorted' = InsertAt(sorted, InsertPosition(Ahead, sorted, ranked[next]), ranked[next])
          /\ next' = next + 1 /\ phase' = "sort" /\ next <= Len(ranked)
      BY <2>3 DEF InsertNext
    <3>2. next \in 1..n /\ ranked[next] \in Candidate
      BY <1>1, <1>2, <3>1, InsertedNext DEF TypeInv
    <3>3. ranked[next] = Screened(snapshot)[next]
      BY <1>2, <3>2 DEF Following
    <3>4. InsertPosition(Ahead, sorted, ranked[next]) =
              Position(AheadOn(Candidate), sorted, ranked[next])
      BY <1>2, <3>2, AheadSortPosition
    <3>5. sorted' = sorting[next]
      BY <2>1, <2>2, <3>1, <3>2, <3>3, <3>4
    <3>6. next' - 1 = next
      BY <1>2, <3>1
    <3> QED
      BY <3>1, <3>5, <3>6 DEF Keeping
  <2>4. CASE EndSort
    <3>1. /\ next' = 1 /\ phase' = "admit" /\ sorted' = sorted
          /\ budget' = InitialBudget(snapshot) /\ next > Len(ranked)
      BY <2>4 DEF EndSort
    <3>2. next - 1 = n /\ next' - 1 = 0 /\ 1 \in 1..(n + 1)
      BY <1>2, <3>1
    <3>3. \A k \in 1..n : ~(k < 1)
      BY <1>2
    <3> QED
      BY <1>1, <1>2, <2>0, <2>1, <2>2, <3>1, <3>2, <3>3 DEF Keeping, Judged
  <2> QED
    BY <2>3, <2>4
<1> QED
  BY <1>1, <1>3 DEF Following

LEMMA AdmissionFollows ==
    ASSUME TypeInv, Following, SkipDecided \/ Defer \/ Select
    PROVE  Following'
<1>1. /\ snapshot' = snapshot /\ phase = "admit" /\ phase' = "admit" /\ ranked' = ranked
      /\ next' = next + 1 /\ next <= Len(sorted)
  BY DEF SkipDecided, Defer, Select
<1>2. /\ Len(sorted) = Len(Ready) /\ next \in 1..Len(sorted) /\ Len(Ready) \in Nat
      /\ sorted[next] \in Candidate /\ snapshot \in Snapshot
  BY <1>1, CurrentType, ReadyType DEF TypeInv, TypeOK
<1>3. ASSUME NEW sorting, NEW admission, Derivation(snapshot, sorting, admission)
      PROVE  Keeping(sorting, admission)'
  <2> DEFINE n == Len(Ready)
             t == sorting[n]
             c == t[next]
  <2>0. n = Len(snapshot.ready) /\ Ready' = Ready
    BY <1>1 DEF Ready
  <2>1. /\ budget = admission[next - 1].budget /\ selected = admission[next - 1].selected
        /\ \A k \in 1..n : sorted[k] = Judged(admission, t, k, next)
    BY <1>1, <1>3 DEF Following, Keeping
  <2>2. /\ t \in Seq(Candidate) /\ Len(t) = n /\ AdmissionRun(admission, Start(snapshot), t)
    BY <1>2, <1>3, <2>0, DerivationSteps
  <2> HIDE DEF t
  <2>3. IF Admits(admission, t, next)
        THEN /\ admission[next].budget = Charge(admission[next - 1].budget, c.task)
             /\ admission[next].selected = Append(admission[next - 1].selected, c.task)
        ELSE /\ admission[next].budget = admission[next - 1].budget
             /\ admission[next].selected = admission[next - 1].selected
    BY <1>2, <2>2, AdmissionTurn, SMTT(30)
  <2>4. sorted[next] = c /\ next \in 1..n
    BY <1>2, <2>1 DEF Judged
  <2>5. Admits(admission, t, next) <=> c.outcome = Undecided /\ Obstacle(c.task, budget) = ""
    BY <2>1 DEF Admits
  <2>6. /\ budget' = admission[next].budget /\ selected' = admission[next].selected
        /\ sorted' \in Seq(Candidate)
        /\ \A k \in 1..n : sorted'[k] = IF k = next THEN Judgment(admission, t, next) ELSE sorted[k]
    <3>1. CASE SkipDecided
      <4>1. sorted[next].outcome # Undecided /\ UNCHANGED <<sorted, budget, selected>>
        BY <3>1 DEF SkipDecided
      <4>2. Judgment(admission, t, next) = c
        BY <2>4, <4>1 DEF Judgment
      <4> QED
        BY <2>1, <2>3, <2>4, <2>5, <4>1, <4>2 DEF TypeInv, TypeOK
    <3>2. CASE Defer
      <4> DEFINE obstacle == Obstacle(c.task, budget)
      <4>1. /\ sorted[next].outcome = Undecided /\ obstacle # ""
            /\ sorted' = [sorted EXCEPT ![next] = Verdict(@, "deferred", obstacle)]
            /\ UNCHANGED <<budget, selected>>
        BY <2>4, <3>2 DEF Defer
      <4>2. Judgment(admission, t, next) = Verdict(c, "deferred", obstacle)
        BY <2>1, <2>4, <2>5, <4>1 DEF Judgment
      <4>3. obstacle \in Reasons /\ "deferred" \in Outcomes
        BY ObstacleType DEF Outcomes
      <4>4. sorted' \in Seq(Candidate)
            /\ \A k \in 1..n : sorted'[k] = IF k = next THEN Verdict(sorted[next], "deferred", obstacle)
                                            ELSE sorted[k]
        <5> HIDE DEF obstacle
        <5> QED
          BY <1>1, <1>2, <4>1, <4>3, VerdictInPlace DEF TypeInv
      <4> QED
        BY <2>1, <2>3, <2>4, <2>5, <4>1, <4>2, <4>4
    <3>3. CASE Select
      <4>1. /\ sorted[next].outcome = Undecided /\ Obstacle(c.task, budget) = ""
            /\ sorted' = [sorted EXCEPT ![next] = Verdict(@, "selected", "selected")]
            /\ selected' = Append(selected, c.task) /\ budget' = Charge(budget, c.task)
        BY <2>4, <3>3 DEF Select
      <4>2. Judgment(admission, t, next) = Verdict(c, "selected", "selected")
        BY <2>4, <2>5, <4>1 DEF Judgment
      <4>3. sorted' \in Seq(Candidate)
            /\ \A k \in 1..n : sorted'[k] = IF k = next THEN Verdict(sorted[next], "selected", "selected")
                                            ELSE sorted[k]
        <5>1. "selected" \in Outcomes /\ "selected" \in Reasons
          BY DEF Outcomes, Reasons
        <5> QED
          BY <1>1, <1>2, <4>1, <5>1, VerdictInPlace DEF TypeInv
      <4> QED
        BY <2>1, <2>3, <2>4, <2>5, <4>1, <4>2, <4>3
    <3> QED
      BY <3>1, <3>2, <3>3
  <2>7. \A k \in 1..n : sorted'[k] = Judged(admission, t, k, next + 1)
    <3> SUFFICES ASSUME NEW k \in 1..n PROVE sorted'[k] = Judged(admission, t, k, next + 1)
      OBVIOUS
    <3>1. k < next + 1 <=> k = next \/ k < next
      BY <2>4
    <3> QED
      BY <2>1, <2>4, <2>6, <3>1 DEF Judged
  <2>8. next + 1 \in 1..(n + 1) /\ (next + 1) - 1 = next
    BY <1>2
  <2> QED
    BY <1>1, <2>0, <2>6, <2>7, <2>8 DEF Keeping, t
<1> QED
  BY <1>1, <1>3 DEF Following

\* The sort of the report is that of Decide.
LEMMA ReportFollows ==
    ASSUME TypeInv, Following, Report
    PROVE  Following'
<1>1. /\ phase = "admit" /\ phase' = "done" /\ next > Len(sorted)
      /\ UNCHANGED <<snapshot, ranked, sorted, selected>>
  BY DEF Report
<1>2. /\ Len(sorted) = Len(Ready) /\ Len(Ready) \in Nat /\ sorted \in Seq(Candidate)
      /\ snapshot \in Snapshot /\ next \in Nat
  BY <1>1, ReadyType DEF TypeInv, TypeOK
<1> DEFINE n == Len(Ready)
<1>3. n = Len(snapshot.ready)
  BY DEF Ready
<1>4. ASSUME NEW sorting, NEW admission, Derivation(snapshot, sorting, admission)
      PROVE  /\ sorted = admission[n].decided /\ selected = admission[n].selected
             /\ Admitted(snapshot) = admission[n]
  <2>1. /\ next \in 1..(n + 1) /\ selected = admission[next - 1].selected
        /\ \A k \in 1..n : sorted[k] = Judged(admission, sorting[n], k, next)
    BY <1>1, <1>4 DEF Following, Keeping
  <2>2. next - 1 = n /\ \A k \in 1..n : k < next
    BY <1>1, <1>2, <2>1
  <2>3. /\ Admitted(snapshot) = admission[n]
        /\ admission[n].decided \in Seq(Candidate) /\ Len(admission[n].decided) = n
        /\ \A k \in 1..n : admission[n].decided[k] = Judgment(admission, sorting[n], k)
    BY <1>2, <1>3, <1>4, DerivationSteps, SMTT(30)
  <2>4. \A k \in 1..n : sorted[k] = admission[n].decided[k]
    BY <2>1, <2>2, <2>3 DEF Judged
  <2>5. sorted = admission[n].decided
    BY <1>2, <2>3, <2>4, SeqEqual
  <2> QED
    BY <2>1, <2>2, <2>3, <2>5
<1>5. ASSUME NEW sorting, NEW admission, Derivation(snapshot, sorting, admission)
      PROVE  Keeping(sorting, admission)'
  BY <1>1, <1>4, <1>5 DEF Keeping, Ready
<1>6. [at |-> snapshot.at, selected |-> selected, candidates |-> report'] = Decide(snapshot)
  <2>1. PICK sorting, admission : Derivation(snapshot, sorting, admission)
    BY <1>2, DecisionDerived
  <2>2. sorted = Admitted(snapshot).decided /\ selected = Admitted(snapshot).selected
    BY <1>4, <2>1
  <2> QED
    BY <2>2 DEF Decide, Report
<1> QED
  BY <1>1, <1>5, <1>6 DEF Following

LEMMA FollowingInductive == TypeInv /\ Following /\ [Next]_vars => Following'
<1> SUFFICES ASSUME TypeInv, Following, [Next]_vars PROVE Following'
  OBVIOUS
<1>1. CASE UNCHANGED vars
  BY <1>1 DEF vars, Following, Keeping, Ready
<1> QED
  BY <1>1, RankFollows, SortFollows, AdmissionFollows, ReportFollows DEF Next, Returned

LEMMA FollowingInvariant == Spec => []Following
<1>1. Init => Following
  BY DEF Init, Following, Keeping
<1> QED
  BY <1>1, TypeInvariant, FollowingInductive, PTL DEF Spec

-----------------------------------------------------------------------------
(* The order of the input.                                                   *)

\* s and t hold the same n elements, each of them once.
SameElements(s, t, n) ==
    /\ \A k \in 1..n : (\E l \in 1..n : s[k] = t[l]) /\ (\E l \in 1..n : t[k] = s[l])
    /\ OneToOne(s, n) /\ OneToOne(t, n)

Total(R, A) == \A c, d \in A : c # d => <<c, d>> \in R \/ <<d, c>> \in R

\* There is one way to sort them.
LEMMA SortedUnique ==
    ASSUME NEW A, NEW R, Total(R, A),
           NEW n \in Nat, NEW s \in Seq(A), NEW t \in Seq(A), Len(s) = n, Len(t) = n,
           Sorted(R, s), Sorted(R, t), SameElements(s, t, n)
    PROVE  s = t
<1> DEFINE S == {k \in 1..n : s[k] # t[k]}
<1>1. \A k \in 1..n : s[k] \in A /\ t[k] \in A
  BY ElementOfSeq
<1>2. ASSUME S # {} PROVE FALSE
  <2>1. PICK k \in S : \A m \in S : k <= m
    <3>1. S \in SUBSET Nat
      OBVIOUS
    <3> HIDE DEF S
    <3> QED
      BY <1>2, <3>1, LeastNatural
  <2>2. /\ k \in 1..n /\ s[k] # t[k]
        /\ \A m \in 1..n : m < k => s[m] = t[m]
    BY <2>1
  <2> HIDE DEF S
  <2>3. PICK m \in 1..n : s[k] = t[m]
    BY <2>2 DEF SameElements
  <2>4. PICK l \in 1..n : t[k] = s[l]
    BY <2>2 DEF SameElements
  <2>5. ~(m < k) /\ ~(l < k)
    <3>1. ASSUME m < k PROVE FALSE
      <4>1. s[m] = s[k]
        BY <2>2, <2>3, <3>1
      <4> QED
        BY <2>2, <3>1, <4>1 DEF SameElements, OneToOne
    <3>2. ASSUME l < k PROVE FALSE
      <4>1. t[l] = t[k]
        BY <2>2, <2>4, <3>2
      <4> QED
        BY <2>2, <3>2, <4>1 DEF SameElements, OneToOne
    <3> QED
      BY <3>1, <3>2
  <2>6. k < m /\ k < l
    BY <2>2, <2>3, <2>4, <2>5
  <2>7. <<t[m], t[k]>> \notin R /\ <<s[l], s[k]>> \notin R
    BY <2>2, <2>6 DEF Sorted
  <2> QED
    BY <1>1, <2>2, <2>3, <2>4, <2>7 DEF Total
<1>3. \A k \in 1..n : s[k] = t[k]
  BY <1>2
<1> QED
  BY <1>3, SeqEqual

Distinctly(snap) == \A i, j \in 1..Len(snap.ready) : snap.ready[i].id = snap.ready[j].id => i = j

\* The ready tasks of other are those of snap, the i-th the p[i]-th.
Reorders(p, other, snap) ==
    LET n == Len(snap.ready)
    IN  /\ other.at = snap.at /\ other.running = snap.running
        /\ other.available = snap.available /\ Len(other.ready) = n
        /\ p \in [1..n -> 1..n] /\ OneToOne(p, n) /\ Onto(p, n, n)
        /\ \A i \in 1..n : other.ready[i] = snap.ready[p[i]]

\* Each is screened as it was, when none repeats the ID of another.
LEMMA ScreenedReordered ==
    ASSUME NEW snap \in Snapshot, NEW other \in Snapshot, NEW p, Reorders(p, other, snap),
           Distinctly(snap), NEW n, n = Len(snap.ready)
    PROVE  \A i \in 1..n : Screened(other)[i] = Screened(snap)[p[i]]
<1> SUFFICES ASSUME NEW i \in 1..n PROVE Screened(other)[i] = Screened(snap)[p[i]]
  OBVIOUS
<1>1. /\ n \in Nat /\ Len(other.ready) = n /\ p[i] \in 1..n
      /\ DOMAIN snap.ready = 1..n /\ DOMAIN other.ready = 1..n
      /\ other.at = snap.at /\ other.running = snap.running
      /\ other.ready[i] = snap.ready[p[i]]
  BY LenProperties DEF Reorders, Snapshot
<1> DEFINE raw   == snap.ready[p[i]]
           seen  == {snap.ready[j].id : j \in 1..(p[i] - 1)}
           seen2 == {other.ready[j].id : j \in 1..(i - 1)}
<1>2. Screened(snap)[p[i]] = Screen(snap, seen, raw) /\ Screened(other)[i] = Screen(other, seen2, raw)
  BY <1>1 DEF Screened
<1>3. raw.id \notin seen
  <2> SUFFICES ASSUME NEW j \in 1..(p[i] - 1), snap.ready[j].id = raw.id PROVE FALSE
    OBVIOUS
  <2> QED
    BY <1>1 DEF Distinctly
<1>4. raw.id \notin seen2
  <2> SUFFICES ASSUME NEW j \in 1..(i - 1), other.ready[j].id = raw.id PROVE FALSE
    OBVIOUS
  <2>1. j \in 1..n /\ j # i
    BY <1>1
  <2>2. other.ready[j] = snap.ready[p[j]] /\ p[j] \in 1..n /\ p[j] # p[i]
    BY <1>1, <2>1 DEF Reorders, OneToOne
  <2> QED
    BY <1>1, <2>2 DEF Distinctly
<1> HIDE DEF raw, seen, seen2
<1> QED
  BY <1>1, <1>2, <1>3, <1>4 DEF Screen

\* The decision is the same, whatever the order.
LEMMA OrderLeavesDecision ==
    ASSUME NEW snap \in Snapshot, NEW other \in Snapshot, NEW p, Reorders(p, other, snap),
           Distinctly(snap), Exact(Candidates(snap))
    PROVE  Decide(other) = Decide(snap)
<1> DEFINE n == Len(snap.ready)
           A == Candidates(snap)
           s == Screened(snap)
           s2 == Screened(other)
           t == StableSort(Ahead, s)
           t2 == StableSort(Ahead, s2)
<1>1. n \in Nat /\ Len(other.ready) = n /\ \A i \in 1..n : p[i] \in 1..n
  BY LenProperties DEF Reorders, Snapshot
<1>2. \A i \in 1..n : s2[i] = s[p[i]]
  <2>1. n = Len(snap.ready)
    OBVIOUS
  <2> HIDE DEF n
  <2> QED
    BY <2>1, ScreenedReordered
<1>3. Candidates(other) = A
  <2>1. ASSUME NEW c \in A PROVE c \in Candidates(other)
    <3>1. PICK j \in 1..n : c = s[j]
      BY DEF Candidates
    <3>2. PICK i \in 1..n : p[i] = j
      BY <3>1 DEF Reorders, Onto
    <3> QED
      BY <1>1, <1>2, <3>1, <3>2 DEF Candidates
  <2>2. ASSUME NEW c \in Candidates(other) PROVE c \in A
    BY <1>1, <1>2, <2>2 DEF Candidates
  <2> QED
    BY <2>1, <2>2
<1>4. /\ t \in Seq(A) /\ Len(t) = n /\ Sorted(AheadOn(A), t) /\ Rearranges(t, s, n)
      /\ t2 \in Seq(A) /\ Len(t2) = n /\ Sorted(AheadOn(A), t2) /\ Rearranges(t2, s2, n)
  BY <1>1, <1>3, ScreenedSorted
<1>5. \A i, j \in 1..n : s[i] = s[j] => i = j
  <2>1. \A i \in 1..n : s[i].task.id = snap.ready[i].id
    BY ScreenedType
  <2> QED
    BY <2>1 DEF Distinctly
<1>6. Total(AheadOn(A), A)
  <2> SUFFICES ASSUME NEW c \in A, NEW d \in A, c # d
               PROVE  <<c, d>> \in AheadOn(A) \/ <<d, c>> \in AheadOn(A)
    BY DEF Total
  <2>1. A \in SUBSET Candidate
    BY ScreenedType DEF Candidates
  <2>2. PICK i \in 1..n : c = s[i]
    BY DEF Candidates
  <2>3. PICK j \in 1..n : d = s[j]
    BY DEF Candidates
  <2>4. c.task.id # d.task.id
    <3>1. s[i].task.id = snap.ready[i].id /\ s[j].task.id = snap.ready[j].id
      BY ScreenedType
    <3> QED
      BY <2>2, <2>3, <3>1 DEF Distinctly
  <2>5. Ahead(c, d) \/ Ahead(d, c)
    BY <2>1, <2>4, AheadOrders
  <2> QED
    BY <2>5 DEF AheadOn
<1> HIDE DEF A, s, s2, t, t2
<1>7. SameElements(t, t2, n)
  <2>1. PICK f \in [1..n -> 1..n] : Onto(f, n, n) /\ OneToOne(f, n) /\ \A k \in 1..n : t[k] = s[f[k]]
    BY <1>4 DEF Rearranges, Onto, OneToOne
  <2>2. PICK g \in [1..n -> 1..n] : Onto(g, n, n) /\ OneToOne(g, n) /\ \A k \in 1..n : t2[k] = s2[g[k]]
    BY <1>4 DEF Rearranges, Onto, OneToOne
  <2>3. \A k \in 1..n : t2[k] = s[p[g[k]]] /\ p[g[k]] \in 1..n /\ f[k] \in 1..n /\ g[k] \in 1..n
    BY <1>1, <1>2, <2>1, <2>2
  <2>4. OneToOne(t, n)
    <3> SUFFICES ASSUME NEW k \in 1..n, NEW l \in 1..n, t[k] = t[l] PROVE k = l
      BY DEF OneToOne
    <3>1. t[k] = s[f[k]] /\ t[l] = s[f[l]] /\ f[k] \in 1..n /\ f[l] \in 1..n
      BY <2>1, <2>3
    <3>2. f[k] = f[l]
      BY <1>5, <3>1
    <3> QED
      BY <2>1, <3>2 DEF OneToOne
  <2>5. OneToOne(t2, n)
    <3> SUFFICES ASSUME NEW k \in 1..n, NEW l \in 1..n, t2[k] = t2[l] PROVE k = l
      BY DEF OneToOne
    <3>1. /\ t2[k] = s[p[g[k]]] /\ t2[l] = s[p[g[l]]]
          /\ p[g[k]] \in 1..n /\ p[g[l]] \in 1..n /\ g[k] \in 1..n /\ g[l] \in 1..n
      BY <2>3
    <3>3. p[g[k]] = p[g[l]]
      BY <1>5, <3>1
    <3>2. g[k] = g[l]
      BY <3>1, <3>3 DEF Reorders, OneToOne
    <3> QED
      BY <2>2, <3>2 DEF OneToOne
  <2>6. ASSUME NEW k \in 1..n PROVE \E l \in 1..n : t[k] = t2[l]
    <3>1. f[k] \in 1..n
      BY <2>3
    <3>2. PICK i \in 1..n : p[i] = f[k]
      BY <3>1 DEF Reorders, Onto
    <3>3. PICK l \in 1..n : g[l] = i
      BY <1>1, <3>2, <2>2 DEF Onto
    <3>4. t[k] = s[f[k]] /\ t2[l] = s[p[g[l]]]
      BY <2>1, <2>3
    <3>5. p[g[l]] = f[k]
      BY <3>2, <3>3
    <3> QED
      BY <3>4, <3>5
  <2>7. ASSUME NEW k \in 1..n PROVE \E l \in 1..n : t2[k] = t[l]
    <3>1. PICK l \in 1..n : f[l] = p[g[k]]
      BY <2>1, <2>3 DEF Onto
    <3>2. t[l] = s[f[l]] /\ t2[k] = s[p[g[k]]]
      BY <2>1, <2>3
    <3>3. s[f[l]] = s[p[g[k]]]
      BY <3>1
    <3> QED
      BY <3>2, <3>3
  <2> QED
    BY <2>4, <2>5, <2>6, <2>7 DEF SameElements
<1>8. t2 = t
  BY <1>1, <1>4, <1>6, <1>7, SortedUnique
<1>9. InitialBudget(other) = InitialBudget(snap)
  BY DEF InitialBudget, Reorders
<1>10. Admitted(other) = Admitted(snap)
  BY <1>8, <1>9 DEF Admitted, s, s2, t, t2
<1>11. other.at = snap.at
  BY DEF Reorders
<1> QED
  BY <1>10, <1>11 DEF Decide

\* No two candidates of a snapshot have scores that differ by less than the tolerance.
NoNearTies == \A snap \in Snapshots : Exact(Candidates(snap))

\* So it is with a tolerance that only lets equal scores count as equal.
LEMMA ExactTolerance == ScoreTolerance = 1 => NoNearTies
  BY ToleranceOne, SnapshotsAssumption DEF NoNearTies

\* Listing the ready tasks in another order leaves the decision as it is, whatever the
\* configuration, the width of a Duration and the number of tasks, as long as no two
\* candidates nearly tie: with near ties Ahead is not transitive, and the order counts.
THEOREM OrderIrrelevant ==
    ASSUME NoNearTies
    PROVE  Spec => []OrderIndependent
<1>1. TypeInv /\ Following => OrderIndependent
  <2> SUFFICES ASSUME TypeInv, Following, phase = "done",
                      IsInjective([i \in DOMAIN Ready |-> Ready[i].id]),
                      NEW p \in Bijection(DOMAIN Ready, DOMAIN Ready)
               PROVE  Decide(Permuted(p)) =
                          [at |-> snapshot.at, selected |-> selected, candidates |-> report]
    BY DEF OrderIndependent
  <2> DEFINE n == Len(Ready)
             other == Permuted(p)
  <2>1. /\ snapshot \in Snapshot /\ Ready \in Seq(Task) /\ n \in Nat /\ DOMAIN Ready = 1..n
        /\ Ready = snapshot.ready
    BY ReadyType, LenProperties DEF TypeInv, Ready
  <2>2. /\ p \in [1..n -> 1..n] /\ OneToOne(p, n) /\ Onto(p, n, n)
    BY <2>1 DEF Bijection, Injection, Surjection, IsInjective, OneToOne, Onto
  <2>3. /\ [i \in 1..n |-> Ready[p[i]]] \in Seq(Task)
        /\ Len([i \in 1..n |-> Ready[p[i]]]) = n
    <3> DEFINE s == [i \in 1..n |-> Ready[p[i]]]
    <3>1. s \in [1..n -> Task]
      BY <2>1, <2>2, ElementOfSeq
    <3> HIDE DEF s
    <3> QED
      BY <2>1, <3>1, FunctionIsSeq DEF s
  <2>4. /\ other.at = snapshot.at /\ other.running = snapshot.running
        /\ other.available = snapshot.available /\ other.ready = [i \in 1..n |-> Ready[p[i]]]
        /\ other \in Snapshot
    BY <2>1, <2>3 DEF Permuted, Snapshot
  <2>5. Reorders(p, other, snapshot)
    <3> HIDE DEF other
    <3> QED
      BY <2>1, <2>2, <2>3, <2>4 DEF Reorders
  <2>6. Distinctly(snapshot)
    BY <2>1 DEF IsInjective, Distinctly
  <2>7. Exact(Candidates(snapshot))
    BY NoNearTies DEF NoNearTies, TypeInv, TypeOK
  <2> HIDE DEF other
  <2>8. Decide(other) = Decide(snapshot)
    BY <2>1, <2>4, <2>5, <2>6, <2>7, OrderLeavesDecision
  <2> QED
    BY <2>8 DEF Following, other
<1> QED
  BY <1>1, TypeInvariant, FollowingInvariant, PTL

-----------------------------------------------------------------------------
(* Deadlines.                                                                *)

\* What tasks have in common that differ in their IDs and deadlines only.
LEMMA AlikeFields ==
    ASSUME NEW t \in Task, NEW u \in Task, Alike(t, u)
    PROVE  /\ t.priority = u.priority /\ t.enqueued = u.enqueued /\ t.estimated = u.estimated
           /\ t.gpu = u.gpu /\ t.success = u.success /\ t.resources = u.resources
<1> DEFINE r == [t EXCEPT !.id = EmptyID, !.deadline = Nil, !.latency = 0]
           q == [u EXCEPT !.id = EmptyID, !.deadline = Nil, !.latency = 0]
<1>1. r = q
  BY DEF Alike
<1>2. /\ r.priority = t.priority /\ r.enqueued = t.enqueued /\ r.estimated = t.estimated
      /\ r.gpu = t.gpu /\ r.success = t.success /\ r.resources = t.resources
  BY DEF Task
<1>3. /\ q.priority = u.priority /\ q.enqueued = u.enqueued /\ q.estimated = u.estimated
      /\ q.gpu = u.gpu /\ q.success = u.success /\ q.resources = u.resources
  BY DEF Task
<1> HIDE DEF r, q
<1> QED
  BY <1>1, <1>2, <1>3

\* Of two tasks that differ in nothing else the one due earlier is ahead.
LEMMA EarlierAhead ==
    ASSUME NEW snap \in Snapshot, NEW c \in Candidates(snap), NEW d \in Candidates(snap),
           c.outcome # "rejected", d.outcome # "rejected", Alike(c.task, d.task),
           c.deadline - snap.at - c.task.estimated >= -(MaxDuration + 1),
           c.deadline < d.deadline
    PROVE  Ahead(c, d)
<1> DEFINE lc == Minus(Sub(c.deadline, snap.at), c.task.estimated)
           ld == Minus(Sub(d.deadline, snap.at), d.task.estimated)
           age == Sub(snap.at, c.task.enqueued)
<1>1. /\ c \in Candidate /\ c.task \in Task /\ c.deadline \in Int /\ snap.at \in Int
      /\ c.task.estimated \in Durations /\ c.task.estimated > 0
      /\ c.task.priority \in Int /\ c.task.enqueued \in Int /\ c.hasDeadline
      /\ lc \in Int /\ c.score = Score(c.task, age, lc)
  BY RankedFields
<1>2. /\ d \in Candidate /\ d.task \in Task /\ d.deadline \in Int /\ d.hasDeadline
      /\ ld \in Int /\ d.score = Score(d.task, Sub(snap.at, d.task.enqueued), ld)
  BY RankedFields
<1>3. /\ d.task.priority = c.task.priority /\ d.task.enqueued = c.task.enqueued
      /\ d.task.estimated = c.task.estimated /\ d.task.success = c.task.success
  BY <1>1, <1>2, AlikeFields
<1>4. lc <= ld
  <2>1. c.task.estimated <= c.task.estimated /\ c.deadline <= d.deadline
    <3>1. c.task.estimated \in Int
      BY <1>1, DifferenceType
    <3> HIDE DEF lc, ld, age
    <3> QED
      BY <1>1, <1>2, <3>1
  <2>2. lc <= Minus(Sub(d.deadline, snap.at), c.task.estimated)
    BY <1>1, <1>2, <2>1, SlackOrder
  <2> QED
    BY <1>3, <2>2
<1>5. age \in Int
  BY <1>1, DifferenceType
<1>6. d.score = Score(d.task, age, ld)
  BY <1>2, <1>3
<1> HIDE DEF lc, ld, age
<1>7. Score(d.task, age, ld) <= Score(c.task, age, lc)
  <2>1. /\ d.task.priority <= c.task.priority /\ age <= age
        /\ SuccessRate(d.task) <= SuccessRate(c.task)
    <3>1. SuccessRate(d.task) = SuccessRate(c.task) /\ SuccessRate(c.task) \in Int
      BY <1>1, <1>3, ConfigTypes DEF SuccessRate, Or, Task
    <3> QED
      BY <1>1, <1>3, <1>5, <3>1
  <2> QED
    BY <1>1, <1>2, <1>3, <1>4, <1>5, <2>1, ScoreOrder
<1>8. c.score \in Int /\ d.score \in Int /\ d.score <= c.score
  BY <1>1, <1>2, <1>6, <1>7 DEF Candidate
<1>9. c.hasDeadline = d.hasDeadline
  <2>1. c.hasDeadline \in BOOLEAN /\ d.hasDeadline \in BOOLEAN
    BY <1>1, <1>2 DEF Candidate
  <2> QED
    BY <1>1, <1>2, <2>1
<1>10. AlmostEqual(c.score, d.score) \/ c.score > d.score
  BY <1>8, ToleranceAssumption DEF AlmostEqual
<1> QED
  BY <1>1, <1>2, <1>9, <1>10 DEF Ahead

\* The admission loop changes nothing of a candidate but outcome and reason.
LEMMA JudgmentFields ==
    ASSUME NEW t \in Seq(Candidate), NEW r, NEW start, AdmissionRun(r, start, t),
           NEW k \in 1..Len(t), t[k].outcome \in {Undecided, "rejected", "deferred"}
    PROVE  LET c == Judgment(r, t, k)
           IN  /\ c.task = t[k].task /\ c.deadline = t[k].deadline /\ (c.miss <=> t[k].miss)
               /\ c.outcome = "rejected" <=> t[k].outcome = "rejected"
               /\ c.outcome = "selected" <=> Admits(r, t, k)
               /\ t[k].outcome # Undecided => c.reason = t[k].reason
<1>1. t[k] \in Candidate
  BY AdmissionTurn
<1> DEFINE obstacle == Obstacle(t[k].task, r[k - 1].budget)
<1>2. CASE t[k].outcome # Undecided
  BY <1>2 DEF Judgment, Admits
<1>3. CASE Admits(r, t, k)
  <2>1. Judgment(r, t, k) = [t[k] EXCEPT !.outcome = "selected", !.reason = "selected"]
        /\ t[k].outcome = Undecided
    BY <1>3 DEF Judgment, Admits, Verdict
  <2> QED
    BY <1>1, <1>3, <2>1 DEF Candidate, Undecided
<1>4. CASE t[k].outcome = Undecided /\ ~Admits(r, t, k)
  <2>1. Judgment(r, t, k) = [t[k] EXCEPT !.outcome = "deferred", !.reason = obstacle]
    BY <1>4 DEF Judgment, Verdict
  <2> HIDE DEF obstacle
  <2> QED
    BY <1>1, <1>4, <2>1 DEF Candidate, Undecided
<1> QED
  BY <1>2, <1>3, <1>4

\* What the first loop defers already runs.
LEMMA ScreenedReason ==
    ASSUME NEW snap \in Snapshot, NEW c \in Candidates(snap), c.outcome = "deferred"
    PROVE  c.reason = "already_running"
<1>1. PICK i \in 1..Len(snap.ready) : c = Screened(snap)[i]
  BY DEF Candidates
<1> DEFINE raw  == snap.ready[i]
           seen == {snap.ready[j].id : j \in 1..(i - 1)}
           k    == Rank(snap.at, raw)
<1>2. raw \in Task /\ snap.at \in Int /\ DOMAIN snap.ready = 1..Len(snap.ready)
  BY ElementOfSeq, LenProperties DEF Snapshot
<1>3. c = Screen(snap, seen, raw)
  BY <1>1, <1>2 DEF Screened
<1>4. k \in Candidate
  BY <1>2, RankType
<1>5. k.outcome # "deferred"
  BY DEF Rank, Rejected, Undecided
<1>6. \/ c = [k EXCEPT !.outcome = "rejected", !.reason = "invalid_task"]
      \/ c = [k EXCEPT !.outcome = "deferred", !.reason = "already_running"]
      \/ c = k
  BY <1>3 DEF Screen
<1> HIDE DEF k
<1> QED
  BY <1>4, <1>5, <1>6 DEF Candidate

\* The candidates c and d at the places i and j of a ranking at time now: a deadline
\* that cannot be met is a predicted miss, and the earlier of two deadlines goes first.
EarlierGoesFirst(now, c, i, d, j) ==
    /\ c.deadline - now <= c.task.estimated => c.miss
    /\ d.outcome # "rejected" /\ Alike(c.task, d.task) /\ c.deadline < d.deadline
       => /\ i < j
          /\ d.outcome = "selected" => c.outcome = "selected" \/ c.reason = "already_running"

\* What the sort and the admission loop make of the candidates, at any two places.
LEMMA DecidedPair ==
    ASSUME NEW snap \in Snapshot, Exact(Candidates(snap)),
           NEW sorting, NEW admission, Derivation(snap, sorting, admission),
           NEW n, n = Len(snap.ready), NEW i \in 1..n, NEW j \in 1..n,
           NEW c, c = admission[n].decided[i], NEW d, d = admission[n].decided[j],
           c.outcome # "rejected",
           c.deadline - snap.at - c.task.estimated >= -(MaxDuration + 1)
    PROVE  EarlierGoesFirst(snap.at, c, i, d, j)
<1> DEFINE A == Candidates(snap)
           t == sorting[n]
<1>1. /\ n \in Nat /\ t \in Seq(Candidate) /\ Len(t) = n
      /\ AdmissionRun(admission, Start(snap), t)
      /\ c = Judgment(admission, t, i) /\ d = Judgment(admission, t, j)
  BY DerivationSteps
<1>2. t = StableSort(Ahead, Screened(snap))
  BY DEF Derivation
<1>3. t \in Seq(A) /\ Sorted(AheadOn(A), t)
  BY <1>2, ScreenedSorted
<1> HIDE DEF t
<1>4. \A k \in 1..n : t[k] \in A
  BY <1>1, <1>3, ElementOfSeq
<1>5. \A e \in A : e \in Candidate /\ e.outcome \in {Undecided, "rejected", "deferred"}
  BY ScreenedType DEF Candidates
<1>6. /\ c.task = t[i].task /\ c.deadline = t[i].deadline /\ (c.miss <=> t[i].miss)
      /\ c.outcome = "rejected" <=> t[i].outcome = "rejected"
      /\ c.outcome = "selected" <=> Admits(admission, t, i)
      /\ t[i].outcome # Undecided => c.reason = t[i].reason
  BY <1>1, <1>4, <1>5, JudgmentFields
<1>7. /\ d.task = t[j].task /\ d.deadline = t[j].deadline
      /\ d.outcome = "rejected" <=> t[j].outcome = "rejected"
      /\ d.outcome = "selected" <=> Admits(admission, t, j)
  BY <1>1, <1>4, <1>5, JudgmentFields
<1>8. t[i] \in A /\ t[i].outcome # "rejected"
  BY <1>4, <1>6
<1>9. c.deadline - snap.at <= c.task.estimated => c.miss
  <2> DEFINE left == Minus(Sub(t[i].deadline, snap.at), t[i].task.estimated)
  <2>1. /\ t[i].task.estimated \in Durations /\ t[i].task.estimated > 0
        /\ t[i].deadline \in Int /\ snap.at \in Int /\ (t[i].miss <=> left <= 0)
    BY <1>8, RankedFields
  <2>2. t[i].deadline <= t[i].deadline /\ t[i].task.estimated <= t[i].task.estimated
    <3>1. t[i].task.estimated \in Int
      BY <2>1, DifferenceType
    <3> HIDE DEF left
    <3> QED
      BY <2>1, <3>1
  <2>3. t[i].deadline - snap.at <= t[i].task.estimated => left <= 0
    BY <1>6, <2>1, <2>2, SlackOrder
  <2> HIDE DEF left
  <2> QED
    BY <1>6, <2>1, <2>3
<1>10. ASSUME d.outcome # "rejected", Alike(c.task, d.task), c.deadline < d.deadline
       PROVE  /\ i < j
              /\ d.outcome = "selected" => c.outcome = "selected" \/ c.reason = "already_running"
  <2>1. t[j] \in A /\ t[j].outcome # "rejected"
    BY <1>4, <1>7, <1>10
  <2>2. Ahead(t[i], t[j])
    BY <1>6, <1>7, <1>8, <1>10, <2>1, EarlierAhead
  <2>3. i # j
    <3>1. c.deadline \in Int
      BY <1>6, <1>8, RankedFields
    <3>2. c.deadline # d.deadline
      BY <1>10, <3>1
    <3>3. i = j => c = d
      OBVIOUS
    <3> QED
      BY <3>2, <3>3
  <2>4. ~(j < i)
    <3>1. <<t[i], t[j]>> \in AheadOn(A)
      BY <1>8, <2>1, <2>2 DEF AheadOn
    <3> QED
      BY <1>1, <1>3, <3>1 DEF Sorted
  <2>5. i < j
    BY <1>1, <2>3, <2>4
  <2>6. ASSUME d.outcome = "selected", c.outcome # "selected"
        PROVE  c.reason = "already_running"
    <3>1. ~Admits(admission, t, i) /\ Admits(admission, t, j)
      BY <1>6, <1>7, <2>6
    <3>2. CASE t[i].outcome = "deferred"
      BY <1>6, <1>8, <3>2, ScreenedReason DEF Undecided
    <3>3. CASE t[i].outcome = Undecided
      <4>1. ASSUME NEW k \in 1..Len(t), t[k].outcome = Undecided
            PROVE  Valid(t[k].task.resources)
        <5>1. t[k] \in A /\ t[k].outcome # "rejected"
          BY <1>1, <1>4, <4>1 DEF Undecided
        <5> QED
          BY <5>1, RankedFields
      <4>2. j - 1 \in 0..Len(t) /\ i \in 1..(j - 1)
        BY <1>1, <2>5
      <4> DEFINE b == admission[j - 1].budget
      <4>3. Blocked(t[i].task, b)
        BY <1>1, <3>1, <3>3, <4>1, <4>2, DeferralsLast
      <4>4. Obstacle(t[j].task, b) = ""
        BY <3>1 DEF Admits
      <4>5. Obstacle(t[i].task, b) = Obstacle(t[j].task, b)
        <5>1. t[i].task \in Task /\ t[j].task \in Task
          BY <1>8, <2>1, RankedFields
        <5>2. /\ t[i].task.gpu = t[j].task.gpu /\ t[i].task.success = t[j].task.success
              /\ t[i].task.resources = t[j].task.resources
          BY <1>6, <1>7, <1>10, <5>1, AlikeFields
        <5> HIDE DEF b
        <5> QED
          BY <5>2 DEF Obstacle, SuccessRate, RequiresGPU
      <4> QED
        BY <4>3, <4>4, <4>5 DEF Blocked
    <3> QED
      BY <1>5, <1>8, <3>2, <3>3
  <2> QED
    BY <2>5, <2>6
<1> QED
  BY <1>9, <1>10 DEF EarlierGoesFirst

\* Of two tasks that differ only in their deadlines the earlier is never left out for
\* the later, and a deadline that cannot be met is reported as a predicted miss, for
\* every deadline that Countable describes, whatever the configuration and the load.
\* The sort puts them in this order only if Ahead is transitive: without near ties.
THEOREM EarlierFirst ==
    ASSUME NoNearTies
    PROVE  Spec => []EarlierDeadlineServed
<1>1. TypeInv /\ Following => EarlierDeadlineServed
  <2> SUFFICES ASSUME TypeInv, Following, phase = "done",
                      NEW i \in DOMAIN sorted, NEW j \in DOMAIN sorted,
                      sorted[i].outcome # "rejected", Countable(sorted[i])
               PROVE  /\ sorted[i].deadline - snapshot.at <= sorted[i].task.estimated => sorted[i].miss
                      /\ /\ sorted[j].outcome # "rejected" /\ Alike(sorted[i].task, sorted[j].task)
                         /\ sorted[i].deadline < sorted[j].deadline
                         => /\ i < j
                            /\ sorted[j].outcome = "selected" =>
                                   \/ sorted[i].outcome = "selected"
                                   \/ sorted[i].reason = "already_running"
    BY DEF EarlierDeadlineServed
  <2> DEFINE n == Len(snapshot.ready)
  <2>1. /\ snapshot \in Snapshot /\ snapshot \in Snapshots /\ n \in Nat /\ Ready = snapshot.ready
        /\ sorted \in Seq(Candidate) /\ Len(sorted) = n
    BY ReadyType DEF TypeInv, TypeOK, Ready
  <2>2. i \in 1..n /\ j \in 1..n
    BY <2>1, LenProperties
  <2>3. PICK sorting, admission : Derivation(snapshot, sorting, admission)
    BY <2>1, DecisionDerived
  <2>4. sorted = admission[n].decided
    BY <2>1, <2>3 DEF Following, Keeping
  <2>5. Exact(Candidates(snapshot))
    BY <2>1, NoNearTies DEF NoNearTies
  <2>6. sorted[i].deadline - snapshot.at - sorted[i].task.estimated >= -(MaxDuration + 1)
    BY DEF Countable
  <2>7. n = Len(snapshot.ready)
    OBVIOUS
  <2> DEFINE c == admission[n].decided[i]
             d == admission[n].decided[j]
  <2>8. c = sorted[i] /\ d = sorted[j]
    BY <2>4
  <2>9. c.outcome # "rejected" /\ c.deadline - snapshot.at - c.task.estimated >= -(MaxDuration + 1)
    BY <2>6, <2>8
  <2>10. c = admission[n].decided[i] /\ d = admission[n].decided[j]
    OBVIOUS
  <2> HIDE DEF n, c, d
  <2>11. EarlierGoesFirst(snapshot.at, c, i, d, j)
    BY <2>1, <2>2, <2>3, <2>5, <2>7, <2>9, <2>10, DecidedPair
  <2> QED
    BY <2>8, <2>11 DEF EarlierGoesFirst
<1> QED
  BY <1>1, TypeInvariant, FollowingInvariant, PTL

-----------------------------------------------------------------------------
(* Decide implements BudgetedAdmission.                                      *)

Kinds == {"cpu", "memory", "gpus"}

First(s) == CHOOSE t \in s : TRUE

\* g adds up what the tasks of every subset of T need.
Adds(g, T, kind) ==
    /\ IsFiniteSet(T) /\ T \in SUBSET Task /\ kind \in Kinds
    /\ g \in [SUBSET T -> Int]
    /\ \A s \in SUBSET T : g[s] = IF s = {} THEN 0
                                  ELSE First(s).resources[kind] + g[s \ {First(s)}]

LEMMA ResourceType ==
    ASSUME NEW t \in Task, NEW kind \in Kinds
    PROVE  t.resources[kind] \in Int
  BY DEF Task, Resources, Kinds

LEMMA DemandAdds ==
    ASSUME NEW T \in SUBSET Task, IsFiniteSet(T), NEW kind \in Kinds
    PROVE  \E g : Adds(g, T, kind) /\ Admission!Demand(kind, T) = g[T]
<1> DEFINE Follows(g) == g = [s \in SUBSET T |->
                                 IF s = {} THEN 0
                                 ELSE First(s).resources[kind] + g[s \ {First(s)}]]
           fold == CHOOSE g : Follows(g)
           pick == [s \in SUBSET T |-> First(s)]
           step == [p \in T \X Int |-> p[1].resources[kind] + p[2]]
<1>1. Admission!Demand(kind, T) = fold[T]
  BY DEF Admission!Demand, Admission!MapThenSumSet, Admission!MapThenFoldSet, First
<1>2. \A s \in SUBSET T : s # {} => First(s) \in s
  BY DEF First
<1>3. \A x \in T, a \in Int : step[<<x, a>>] = x.resources[kind] + a /\ step[<<x, a>>] \in Int
  BY ResourceType
<1>4. \A s \in SUBSET T : pick[s] = First(s)
  OBVIOUS
<1> HIDE DEF step, pick
<1>5. Foldable(T, Int, 0, pick, step)
  BY <1>2, <1>3, <1>4 DEF Foldable
<1>6. PICK f : FoldedBy(f, T, Int, 0, pick, step)
  BY <1>5, FoldExists
<1>7. f \in [SUBSET T -> Int]
  BY <1>6 DEF FoldedBy
<1>8. ASSUME NEW s \in SUBSET T
      PROVE  f[s] = IF s = {} THEN 0 ELSE First(s).resources[kind] + f[s \ {First(s)}]
  <2>1. f[s] = IF s = {} THEN 0 ELSE step[<<First(s), f[s \ {First(s)}]>>]
    BY <1>4, <1>6 DEF FoldedBy
  <2>2. ASSUME s # {} PROVE First(s) \in T /\ f[s \ {First(s)}] \in Int
    <3>1. First(s) \in s /\ s \ {First(s)} \in SUBSET T
      BY <1>2, <2>2
    <3> QED
      BY <1>7, <3>1
  <2> QED
    BY <1>3, <2>1, <2>2
<1>9. Follows(f)
  BY <1>7, <1>8
<1>10. Follows(fold)
  <2> HIDE DEF Follows
  <2> QED
    BY <1>9
<1> HIDE DEF fold
<1>11. Adds(f, T, kind)
  BY <1>7, <1>8 DEF Adds
<1>12. \A s \in SUBSET T :
           fold[s] = IF s = {} THEN 0 ELSE First(s).resources[kind] + fold[s \ {First(s)}]
  BY <1>10
<1> HIDE DEF Follows
<1>13. \A s \in SUBSET T : fold[s] = f[s]
  <2> DEFINE Q == {s \in SUBSET T : fold[s] = f[s]}
  <2>1. ASSUME NEW s \in SUBSET T, \A x \in s : s \ {x} \in Q PROVE s \in Q
    <3>1. CASE s = {}
      BY <1>8, <1>12, <3>1
    <3>2. CASE s # {}
      <4>1. s \ {First(s)} \in Q
        BY <1>2, <2>1, <3>2
      <4>2. fold[s \ {First(s)}] = f[s \ {First(s)}]
        BY <4>1
      <4> QED
        BY <1>8, <1>12, <3>2, <4>2
    <3> QED
      BY <3>1, <3>2
  <2> HIDE DEF Q
  <2>2. \A s \in SUBSET T : s \in Q
    BY <2>1, SubsetInduction
  <2> QED
    BY <2>2 DEF Q
<1> QED
  BY <1>1, <1>11, <1>13

\* It does not matter which task is taken first.
LEMMA AddsAny ==
    ASSUME NEW g, NEW T, NEW kind, Adds(g, T, kind)
    PROVE  \A s \in SUBSET T : \A x \in s : g[s] = x.resources[kind] + g[s \ {x}]
<1> DEFINE Q == {s \in SUBSET T : \A x \in s : g[s] = x.resources[kind] + g[s \ {x}]}
<1>1. /\ IsFiniteSet(T) /\ T \in SUBSET Task /\ kind \in Kinds /\ g \in [SUBSET T -> Int]
      /\ \A s \in SUBSET T : s # {} => First(s) \in s
      /\ \A s \in SUBSET T : s # {} => g[s] = First(s).resources[kind] + g[s \ {First(s)}]
  BY DEF Adds, First
<1>2. ASSUME NEW s \in SUBSET T, \A x \in s : s \ {x} \in Q PROVE s \in Q
  <2> SUFFICES ASSUME NEW x \in s PROVE g[s] = x.resources[kind] + g[s \ {x}]
    OBVIOUS
  <2> DEFINE p == First(s)
  <2>1. p \in s /\ g[s] = p.resources[kind] + g[s \ {p}]
    BY <1>1
  <2> HIDE DEF p
  <2>2. CASE x = p
    BY <2>1, <2>2
  <2>3. CASE x # p
    <3> DEFINE r == (s \ {x}) \ {p}
    <3>1. r = (s \ {p}) \ {x} /\ r \in SUBSET T /\ x \in s \ {p} /\ p \in s \ {x}
          /\ s \ {x} \in SUBSET T /\ s \ {p} \in SUBSET T
      BY <2>1, <2>3
    <3>2. s \ {p} \in Q /\ s \ {x} \in Q
      BY <1>2, <2>1
    <3>3. g[s \ {p}] = x.resources[kind] + g[r]
      BY <3>1, <3>2
    <3>4. g[s \ {x}] = p.resources[kind] + g[r]
      BY <3>1, <3>2
    <3>5. x.resources[kind] \in Int /\ p.resources[kind] \in Int /\ g[r] \in Int
      BY <1>1, <2>1, <3>1, ResourceType
    <3> HIDE DEF r
    <3> QED
      BY <2>1, <3>3, <3>4, <3>5
  <2> QED
    BY <2>2, <2>3
<1> HIDE DEF Q
<1>3. \A s \in SUBSET T : s \in Q
  BY <1>1, <1>2, SubsetInduction
<1> QED
  BY <1>3 DEF Q

\* One more task adds its own need.
LEMMA DemandOfOneMore ==
    ASSUME NEW T \in SUBSET Task, IsFiniteSet(T), NEW t \in Task, t \notin T, NEW kind \in Kinds
    PROVE  /\ Admission!Demand(kind, T) \in Int
           /\ Admission!Demand(kind, T \cup {t}) = Admission!Demand(kind, T) + t.resources[kind]
<1> DEFINE U == T \cup {t}
<1>1. U \in SUBSET Task /\ IsFiniteSet(U) /\ U \ {t} = T /\ t \in U /\ T \in SUBSET U
  BY FS_AddElement
<1> HIDE DEF U
<1>2. PICK g : Adds(g, T, kind) /\ Admission!Demand(kind, T) = g[T]
  BY DemandAdds
<1>3. PICK h : Adds(h, U, kind) /\ Admission!Demand(kind, U) = h[U]
  BY <1>1, DemandAdds
<1>4. h[U] = t.resources[kind] + h[T]
  BY <1>1, <1>3, AddsAny
<1>5. \A s \in SUBSET T : g[s] = h[s]
  <2> DEFINE Q == {s \in SUBSET T : g[s] = h[s]}
  <2>1. ASSUME NEW s \in SUBSET T, \A x \in s : s \ {x} \in Q PROVE s \in Q
    <3>1. s \in SUBSET U
      BY <1>1
    <3>2. CASE s = {}
      BY <1>2, <1>3, <3>1, <3>2 DEF Adds
    <3>3. CASE s # {}
      <4>1. First(s) \in s
        BY <3>3 DEF First
      <4>2. g[s \ {First(s)}] = h[s \ {First(s)}]
        BY <2>1, <4>1
      <4> QED
        BY <1>2, <1>3, <3>1, <3>3, <4>2 DEF Adds
    <3> QED
      BY <3>2, <3>3
  <2> HIDE DEF Q
  <2>2. \A s \in SUBSET T : s \in Q
    BY <2>1, SubsetInduction
  <2> QED
    BY <2>2 DEF Q
<1>6. g[T] = h[T] /\ g[T] \in Int /\ t.resources[kind] \in Int
  BY <1>2, <1>5, ResourceType DEF Adds
<1> QED
  BY <1>2, <1>3, <1>4, <1>6 DEF U

LEMMA DemandOfNone ==
    ASSUME NEW kind \in Kinds
    PROVE  Admission!Demand(kind, {}) = 0
<1>1. IsFiniteSet({}) /\ {} \in SUBSET Task
  BY FS_EmptySet
<1>2. PICK g : Adds(g, {}, kind) /\ Admission!Demand(kind, {}) = g[{}]
  BY <1>1, DemandAdds
<1> QED
  BY <1>2 DEF Adds

\* What the normalized task of a ranked candidate says of the GPU is what it requires.
LEMMA GPUDeclared ==
    ASSUME NEW snap \in Snapshot, NEW c \in Candidates(snap), c.outcome # "rejected"
    PROVE  RequiresGPU(c.task) <=> c.task.gpu
<1>1. PICK i \in 1..Len(snap.ready) : c = Screened(snap)[i]
  BY DEF Candidates
<1> DEFINE raw == snap.ready[i]
           t   == Normalized(snap.at, raw)
<1>2. c.task = t /\ raw \in Task
  BY <1>1, ScreenedRanked, ElementOfSeq DEF Accepted, Snapshot
<1>3. (t.gpu <=> RequiresGPU(raw)) /\ t.resources = raw.resources
  BY <1>2 DEF Normalized, Task
<1> HIDE DEF t
<1> QED
  BY <1>2, <1>3 DEF RequiresGPU

ChosenTasks == ToSet(selected)

\* How the tasks chosen so far are counted and charged.
Charged ==
    /\ IsFiniteSet(ChosenTasks) /\ ChosenTasks \in SUBSET Task
    /\ Cardinality(ChosenTasks) = Len(selected)
    /\ Cardinality({t \in ChosenTasks : t.gpu}) = GPUCount(selected)
    /\ phase \in {"admit", "done"} /\ Config.enforceFit =>
           \A kind \in Kinds : budget.available[kind] + Admission!Demand(kind, ChosenTasks) =
                                   Or(snapshot.available, NoResources)[kind]

\* What is yet undecided when its turn comes was ranked, and keeps an ID of its own.
LEMMA TurnOfOpen ==
    ASSUME TypeInv, Following, SelectedOnce, phase = "admit", next <= Len(sorted),
           sorted[next].outcome = Undecided
    PROVE  /\ sorted[next] \in Candidates(snapshot) /\ sorted[next].task \notin ChosenTasks
           /\ RequiresGPU(sorted[next].task) <=> sorted[next].task.gpu
<1>1. /\ next \in 1..Len(sorted) /\ Len(sorted) = Len(Ready) /\ Len(Ready) \in Nat
      /\ snapshot \in Snapshot /\ selected \in Seq(Task) /\ Len(sorted) \in Nat
  BY CurrentType, ReadyType DEF TypeInv, TypeOK
<1>2. sorted[next] \in Candidates(snapshot)
  <2> DEFINE n == Len(snapshot.ready)
  <2>1. n = Len(Ready)
    BY DEF Ready
  <2>2. PICK sorting, admission : Derivation(snapshot, sorting, admission)
    BY <1>1, DecisionDerived
  <2>3. sorted[next] = sorting[n][next]
    BY <1>1, <2>1, <2>2 DEF Following, Keeping, Judged
  <2>4. Rearranges(sorting[n], Screened(snapshot), n)
    BY <2>2 DEF Derivation
  <2>5. PICK k \in 1..n : sorting[n][next] = Screened(snapshot)[k]
    BY <1>1, <2>1, <2>4 DEF Rearranges
  <2> QED
    BY <2>3, <2>5 DEF Candidates
<1>3. sorted[next].task \notin ChosenTasks
  <2>1. ASSUME NEW i \in DOMAIN selected, selected[i] = sorted[next].task PROVE FALSE
    <3>1. i \in 1..Len(selected) /\ next \in next..Len(sorted)
      BY <1>1, LenProperties
    <3> QED
      BY <2>1, <3>1 DEF SelectedOnce, Open
  <2> QED
    BY <2>1 DEF ChosenTasks, ToSet
<1> QED
  BY <1>1, <1>2, <1>3, GPUDeclared DEF Undecided

\* The tasks chosen with one more.
LEMMA ChosenAppend ==
    ASSUME NEW s \in Seq(Task), NEW t \in Task
    PROVE  ToSet(Append(s, t)) = ToSet(s) \cup {t}
<1>1. /\ DOMAIN s = 1..Len(s) /\ Len(s) \in Nat
      /\ DOMAIN Append(s, t) = 1..(Len(s) + 1)
      /\ Append(s, t)[Len(s) + 1] = t /\ \A i \in 1..Len(s) : Append(s, t)[i] = s[i]
  BY LenProperties, AppendProperties
<1>2. ASSUME NEW x \in ToSet(Append(s, t)) PROVE x \in ToSet(s) \cup {t}
  <2>1. PICK i \in 1..(Len(s) + 1) : x = Append(s, t)[i]
    BY <1>1 DEF ToSet
  <2>2. i = Len(s) + 1 \/ i \in 1..Len(s)
    BY <1>1
  <2> QED
    BY <1>1, <2>1, <2>2 DEF ToSet
<1>3. ASSUME NEW x \in ToSet(s) PROVE x \in ToSet(Append(s, t))
  <2>1. PICK i \in 1..Len(s) : x = s[i]
    BY <1>1 DEF ToSet
  <2> QED
    BY <1>1, <2>1 DEF ToSet
<1>4. t \in ToSet(Append(s, t))
  <2>1. Len(s) + 1 \in DOMAIN Append(s, t)
    BY <1>1
  <2> QED
    BY <1>1, <2>1 DEF ToSet
<1> QED
  BY <1>2, <1>3, <1>4

LEMMA SelectCharged ==
    ASSUME TypeInv, Following, SelectedOnce, Charged, Select
    PROVE  /\ Charged'
           /\ sorted[next].task \in Task \ ChosenTasks
           /\ ChosenTasks' = ChosenTasks \cup {sorted[next].task}
<1> DEFINE t == sorted[next].task
<1>1. /\ phase = "admit" /\ phase' = "admit" /\ next <= Len(sorted) /\ snapshot' = snapshot
      /\ sorted[next].outcome = Undecided /\ Obstacle(t, budget) = ""
      /\ selected' = Append(selected, t) /\ budget' = Charge(budget, t)
  BY DEF Select
<1>2. t \in Task /\ t \notin ChosenTasks /\ (RequiresGPU(t) <=> t.gpu)
  BY <1>1, CurrentType, TurnOfOpen DEF TypeInv
<1>3. selected \in Seq(Task) /\ Len(selected) \in Nat /\ budget.available \in Resources
  BY ReadyType DEF TypeInv, TypeOK
<1> HIDE DEF t
<1>4. ChosenTasks' = ChosenTasks \cup {t}
  BY <1>1, <1>2, <1>3, ChosenAppend DEF ChosenTasks
<1>5. /\ IsFiniteSet(ChosenTasks') /\ ChosenTasks' \in SUBSET Task
      /\ Cardinality(ChosenTasks') = Len(selected')
  <2>1. Len(selected') = Len(selected) + 1
    BY <1>1, <1>2, <1>3, AppendProperties
  <2> QED
    BY <1>2, <1>4, <2>1, FS_AddElement DEF Charged
<1>6. Cardinality({u \in ChosenTasks' : u.gpu}) = GPUCount(selected')
  <2> DEFINE G == {u \in ChosenTasks : u.gpu}
  <2>1. IsFiniteSet(G) /\ t \notin G
    BY <1>2, FS_Subset DEF Charged
  <2>2. GPUCount(selected') = GPUCount(selected) + (IF RequiresGPU(t) THEN 1 ELSE 0)
    BY <1>1, <1>2, <1>3, GPUCountAppend
  <2>3. Cardinality(G) = GPUCount(selected) /\ GPUCount(selected) \in Nat
    BY <1>3, GPUCountType DEF Charged
  <2>4. CASE t.gpu
    <3>1. {u \in ChosenTasks' : u.gpu} = G \cup {t}
      BY <1>4, <2>4
    <3> HIDE DEF G
    <3>2. Cardinality(G \cup {t}) = Cardinality(G) + 1
      BY <2>1, FS_AddElement
    <3> QED
      BY <1>2, <2>2, <2>3, <2>4, <3>1, <3>2
  <2>5. CASE ~t.gpu
    <3>1. {u \in ChosenTasks' : u.gpu} = G
      BY <1>4, <2>5
    <3> HIDE DEF G
    <3> QED
      <4>1. ~RequiresGPU(t)
        BY <1>2, <2>5
      <4>2. GPUCount(selected') = GPUCount(selected)
        BY <2>2, <2>3, <4>1
      <4> QED
        BY <2>3, <3>1, <4>2
  <2> QED
    BY <2>4, <2>5
<1>7. ASSUME Config.enforceFit, NEW kind \in Kinds
      PROVE  budget'.available[kind] + Admission!Demand(kind, ChosenTasks') =
                 Or(snapshot.available, NoResources)[kind]
  <2> DEFINE d == Admission!Demand(kind, ChosenTasks)
             total == Or(snapshot.available, NoResources)[kind]
  <2>1. budget.available[kind] + d = total
    BY <1>1, <1>7 DEF Charged
  <2>2. d \in Int /\ Admission!Demand(kind, ChosenTasks') = d + t.resources[kind]
    BY <1>2, <1>4, DemandOfOneMore DEF Charged
  <2>3. budget'.available = Subtract(budget.available, t.resources)
    BY <1>1, <1>7 DEF Charge
  <2>4. t.resources \in Resources
    BY <1>2 DEF Task
  <2>5. /\ budget'.available[kind] = budget.available[kind] - t.resources[kind]
        /\ budget.available[kind] \in Int /\ t.resources[kind] \in Int
    BY <1>3, <2>3, <2>4 DEF Subtract, Resources, Kinds
  <2> HIDE DEF d
  <2>6. budget'.available[kind] + Admission!Demand(kind, ChosenTasks') = total
    <3> HIDE DEF total
    <3> QED
      BY <2>1, <2>2, <2>5
  <2> QED
    BY <2>6
<1> QED
  BY <1>1, <1>2, <1>4, <1>5, <1>6, <1>7 DEF Charged, t

LEMMA ChargedInductive ==
    TypeInv /\ Following /\ SelectedOnce /\ Charged /\ [Next]_vars => Charged'
<1> SUFFICES ASSUME TypeInv, Following, SelectedOnce, Charged, [Next]_vars PROVE Charged'
  OBVIOUS
<1>1. CASE Select
  BY <1>1, SelectCharged
<1>2. CASE EndSort
  <2>1. /\ selected = <<>> /\ selected' = selected /\ snapshot' = snapshot
        /\ budget' = InitialBudget(snapshot)
    BY <1>2 DEF EndSort, TypeInv, Progressed
  <2>2. ChosenTasks = {} /\ ChosenTasks' = {}
    BY <2>1 DEF ChosenTasks, ToSet
  <2>3. budget'.available = Or(snapshot.available, NoResources)
    BY <2>1 DEF InitialBudget
  <2>4. Or(snapshot.available, NoResources) \in Resources
    BY ReadyType DEF Or, Snapshot, NoResources, Resources, TypeInv
  <2>5. ASSUME NEW kind \in Kinds
        PROVE  budget'.available[kind] + Admission!Demand(kind, ChosenTasks') =
                   Or(snapshot.available, NoResources)[kind]
    <3>1. Admission!Demand(kind, ChosenTasks') = 0
      BY <2>2, DemandOfNone
    <3>2. Or(snapshot.available, NoResources)[kind] \in Int
      BY <2>4 DEF Resources, Kinds
    <3> QED
      BY <2>3, <3>1, <3>2
  <2> QED
    BY <2>1, <2>2, <2>5 DEF Charged
<1>3. CASE CheckInput \/ RankNext \/ EndRank \/ InsertNext
  <2>1. selected' = selected /\ phase' \notin {"admit", "done"}
    BY <1>3 DEF CheckInput, RankNext, EndRank, InsertNext
  <2> QED
    BY <2>1 DEF Charged, ChosenTasks
<1>4. CASE SkipDecided \/ Defer \/ Report \/ UNCHANGED vars
  <2>1. /\ selected' = selected /\ budget' = budget /\ snapshot' = snapshot
        /\ phase' \in {"admit", "done"} => phase \in {"admit", "done"}
    BY <1>4 DEF SkipDecided, Defer, Report, vars
  <2> QED
    BY <2>1 DEF Charged, ChosenTasks
<1> QED
  BY <1>1, <1>2, <1>3, <1>4 DEF Next, Returned

\* What the room of Admission is, and what fits in it.
LEMMA RoomMeaning ==
    /\ Room.slots = Clamp(Config.maxConcurrent - Len(snapshot.running), Config.maxConcurrent)
    /\ Room.gpus = Clamp(Config.maxGPU - GPUCount(snapshot.running), Config.maxGPU)
    /\ Room.limited = Config.enforceFit
    /\ Room.available = Or(snapshot.available, NoResources)
    /\ \A tasks : Admission!FitsRoom(tasks) <=>
           /\ Cardinality(tasks) <= Room.slots
           /\ Cardinality({t \in tasks : t.gpu}) <= Room.gpus
           /\ Room.limited =>
                  \A kind \in Kinds : Admission!Demand(kind, tasks) <= Room.available[kind]
<1>1. /\ Room.slots = InitialBudget(snapshot).slots
      /\ Room.gpus = Clamp(Config.maxGPU - GPUCount(snapshot.running), Config.maxGPU)
      /\ Room.limited = Config.enforceFit
      /\ Room.available = Or(snapshot.available, NoResources)
  BY DEF Room
<1>2. InitialBudget(snapshot).slots =
          Clamp(Config.maxConcurrent - Len(snapshot.running), Config.maxConcurrent)
  BY DEF InitialBudget
<1>3. \A tasks : Admission!Cardinality(tasks) = Cardinality(tasks)
  BY Zenon DEF Admission!Cardinality, Cardinality
<1>4. ASSUME NEW tasks
      PROVE  Admission!FitsRoom(tasks) <=>
           /\ Cardinality(tasks) <= Room.slots
           /\ Cardinality({t \in tasks : t.gpu}) <= Room.gpus
           /\ Room.limited =>
                  \A kind \in Kinds : Admission!Demand(kind, tasks) <= Room.available[kind]
  <2>1. /\ Admission!Cardinality(tasks) = Cardinality(tasks)
        /\ Admission!Cardinality({t \in tasks : t.gpu}) = Cardinality({t \in tasks : t.gpu})
    BY <1>3
  <2> QED
    BY <2>1, Zenon DEF Admission!FitsRoom, Kinds
<1> QED
  BY <1>1, <1>2, <1>4

\* What the admission loop selects still fits, and is on offer.
LEMMA SelectChooses ==
    ASSUME TypeInv, TypeInv', Following, SelectedOnce, Accounted', Charged, Select
    PROVE  \E t \in Eligible \ ToSet(selected) : Admission!Choose(t)
<1> DEFINE t == sorted[next].task
<1>1. /\ phase = "admit" /\ phase' = "admit" /\ next <= Len(sorted) /\ snapshot' = snapshot
      /\ sorted[next].outcome = Undecided /\ Obstacle(t, budget) = ""
      /\ budget' = Charge(budget, t)
  BY DEF Select
<1>2. /\ Charged' /\ t \in Task \ ChosenTasks /\ ChosenTasks' = ChosenTasks \cup {t}
  BY SelectCharged
<1>3. t \in Eligible
  <2>1. sorted[next] \in Candidates(snapshot)
    BY <1>1, TurnOfOpen
  <2>2. PICK i \in 1..Len(snapshot.ready) : sorted[next] = Screened(snapshot)[i]
    BY <2>1 DEF Candidates
  <2>3. snapshot \in Snapshot
    BY ReadyType DEF TypeInv
  <2>4. sorted[next] \in ToSet(Screened(snapshot))
    <3>1. DOMAIN Screened(snapshot) = 1..Len(snapshot.ready)
      BY <2>3, ScreenedType, LenProperties
    <3> QED
      BY <2>2, <3>1 DEF ToSet
  <2>5. SuccessRate(t) >= Config.minimumSuccess
    <3>1. ~(SuccessRate(t) < Config.minimumSuccess)
      BY <1>1 DEF Obstacle
    <3>2. SuccessRate(t) \in Int /\ Config.minimumSuccess \in Int
      <4>1. Config.defaultSuccess \in Int
        BY ConfigTypes
      <4>2. Config.minimumSuccess \in 0..Config.defaultSuccess
        BY ConfigAssumption DEF ValidConfig
      <4> QED
        BY <1>2, <4>1, <4>2 DEF SuccessRate, Or, Task
    <3> QED
      BY <3>1, <3>2
  <2> QED
    BY <1>1, <2>4, <2>5 DEF Eligible
<1>4. Cardinality(ChosenTasks') <= Room.slots
  <2>1. /\ budget'.slots + Len(selected') = Room.slots
        /\ Cardinality(ChosenTasks') = Len(selected')
    BY <1>1, <1>2, RoomMeaning DEF Accounted, Charged
  <2>2. budget'.slots \in Nat /\ Len(selected') \in Nat
    BY LenProperties DEF TypeInv, TypeOK
  <2> QED
    BY <2>1, <2>2
<1>5. Cardinality({u \in ChosenTasks' : u.gpu}) <= Room.gpus
  <2> DEFINE mine == GPUCount(selected')
             taken == GPUCount(snapshot.running)
  <2>1. /\ mine > 0 => budget'.gpuInUse <= Config.maxGPU
        /\ budget'.gpuInUse = taken + mine
        /\ Cardinality({u \in ChosenTasks' : u.gpu}) = mine
    BY <1>1, <1>2 DEF Accounted, Charged
  <2>2. mine \in Nat /\ taken \in Nat /\ Config.maxGPU \in Nat
    BY ReadyType, GPUCountType, ConfigTypes DEF TypeInv, TypeOK, Snapshot
  <2>3. Room.gpus = Clamp(Config.maxGPU - taken, Config.maxGPU)
    BY RoomMeaning
  <2> HIDE DEF mine, taken
  <2> QED
    BY <2>1, <2>2, <2>3 DEF Clamp
<1>6. ASSUME Room.limited, NEW kind \in Kinds
      PROVE  Admission!Demand(kind, ChosenTasks') <= Room.available[kind]
  <2>1. Config.enforceFit
    BY <1>6, RoomMeaning
  <2>2. budget'.available[kind] + Admission!Demand(kind, ChosenTasks') = Room.available[kind]
    BY <1>1, <1>2, <2>1, RoomMeaning DEF Charged
  <2>3. Fits(budget.available, t.resources)
    BY <1>1, <2>1 DEF Obstacle
  <2>4. budget'.available = Subtract(budget.available, t.resources)
    BY <1>1, <2>1 DEF Charge
  <2>5. budget.available \in Resources /\ t.resources \in Resources
    BY <1>2 DEF TypeInv, TypeOK, Task
  <2>6. budget'.available[kind] \in Int /\ budget'.available[kind] >= 0
    BY <2>3, <2>4, <2>5 DEF Fits, Subtract, Resources, Kinds
  <2>7. Admission!Demand(kind, ChosenTasks') \in Int
    <3>1. Admission!Demand(kind, ChosenTasks) \in Int
          /\ Admission!Demand(kind, ChosenTasks') =
                 Admission!Demand(kind, ChosenTasks) + t.resources[kind]
      BY <1>2, DemandOfOneMore DEF Charged
    <3> QED
      BY <1>2, <3>1, ResourceType
  <2> QED
    BY <2>2, <2>6, <2>7
<1>7. Admission!FitsRoom(ChosenTasks')
  BY <1>4, <1>5, <1>6, RoomMeaning
<1>8. UNCHANGED <<Eligible, Room, phase>>
  BY <1>1 DEF Eligible, Room
<1> HIDE DEF t
<1>9. Admission!Choose(t)
  BY <1>1, <1>2, <1>7, <1>8 DEF Admission!Choose, ChosenTasks
<1> QED
  BY <1>2, <1>3, <1>9 DEF ChosenTasks

\* When the loop is through, whatever is left of the offer is blocked.
LEMMA LeftOutBlocked ==
    ASSUME TypeInv, Following, phase = "admit", next > Len(sorted), NEW t \in Eligible \ ChosenTasks
    PROVE  /\ t \in Task /\ (RequiresGPU(t) <=> t.gpu)
           /\ SuccessRate(t) >= Config.minimumSuccess /\ Blocked(t, budget)
<1> DEFINE n == Len(snapshot.ready)
<1>1. /\ snapshot \in Snapshot /\ n = Len(Ready) /\ Len(sorted) = n /\ n \in Nat
      /\ next \in Nat \ {0}
  BY ReadyType DEF TypeInv, TypeOK, Ready
<1>2. PICK c \in ToSet(Screened(snapshot)) :
          c.outcome = Undecided /\ SuccessRate(c.task) >= Config.minimumSuccess /\ t = c.task
  BY DEF Eligible
<1>3. PICK i \in 1..n : c = Screened(snapshot)[i]
  <2>1. DOMAIN Screened(snapshot) = 1..n
    BY <1>1, ScreenedType, LenProperties
  <2> QED
    BY <2>1 DEF ToSet
<1>4. c \in Candidates(snapshot) /\ c.outcome # "rejected"
  BY <1>2, <1>3 DEF Candidates, Undecided
<1>5. t \in Task /\ (RequiresGPU(t) <=> t.gpu)
  BY <1>1, <1>2, <1>4, RankedFields, GPUDeclared
<1>6. PICK sorting, admission : Derivation(snapshot, sorting, admission)
  BY <1>1, DecisionDerived
<1> DEFINE s == sorting[n]
<1>7. /\ s \in Seq(Candidate) /\ Len(s) = n /\ AdmissionRun(admission, Start(snapshot), s)
      /\ Rearranges(s, Screened(snapshot), n)
  BY <1>6 DEF Derivation
<1>8. budget = admission[n].budget /\ selected = admission[n].selected
  <2>1. /\ next \in 1..(Len(Ready) + 1)
        /\ budget = admission[next - 1].budget /\ selected = admission[next - 1].selected
    BY <1>6 DEF Following, Keeping
  <2>2. next - 1 = n
    BY <1>1, <2>1
  <2> QED
    BY <2>1, <2>2
<1> HIDE DEF s
<1>9. PICK k \in 1..n : s[k] = c
  BY <1>3, <1>7 DEF Rearranges
<1>10. \A m \in 1..n : s[m] \in Candidates(snapshot)
  <2> SUFFICES ASSUME NEW m \in 1..n PROVE s[m] \in Candidates(snapshot)
    OBVIOUS
  <2>1. PICK f \in [1..n -> 1..n] : \A l \in 1..n : s[l] = Screened(snapshot)[f[l]]
    BY <1>7 DEF Rearranges
  <2>2. f[m] \in 1..n /\ s[m] = Screened(snapshot)[f[m]]
    BY <2>1
  <2> QED
    BY <2>2 DEF Candidates
<1>11. n \in 0..Len(s)
  BY <1>1, <1>7
<1>12. ~Admits(admission, s, k)
  <2> SUFFICES ASSUME Admits(admission, s, k) PROVE FALSE
    OBVIOUS
  <2>1. Start(snapshot).selected = <<>>
    BY DEF Start
  <2>2. PICK at : SelectedAt(at, admission[n].selected, admission, s, n)
    BY <1>7, <1>11, <2>1, Selections
  <2>3. PICK m \in 1..Len(selected) : at[m] = k
    BY <1>8, <2>2 DEF SelectedAt
  <2>4. selected[m] = s[at[m]].task
    BY <1>8, <2>2 DEF SelectedAt
  <2>5. selected[m] = t
    BY <1>2, <1>9, <2>3, <2>4
  <2>6. m \in DOMAIN selected
    BY LenProperties DEF TypeInv, TypeOK
  <2> QED
    BY <2>5, <2>6 DEF ChosenTasks, ToSet
<1>13. \A m \in 1..Len(s) : s[m].outcome = Undecided => Valid(s[m].task.resources)
  <2> SUFFICES ASSUME NEW m \in 1..Len(s), s[m].outcome = Undecided
               PROVE  Valid(s[m].task.resources)
    OBVIOUS
  <2>1. s[m] \in Candidates(snapshot) /\ s[m].outcome # "rejected"
    BY <1>7, <1>10 DEF Undecided
  <2> QED
    BY <1>1, <2>1, RankedFields
<1>14. Blocked(s[k].task, admission[n].budget)
  BY <1>2, <1>7, <1>9, <1>11, <1>12, <1>13, DeferralsLast
<1> QED
  BY <1>2, <1>5, <1>8, <1>9, <1>14

\* What the budget cannot bear would not fit the room either.
LEMMA BlockedDoesNotFit ==
    ASSUME TypeInv, Accounted, Charged, phase = "admit",
           NEW t \in Task \ ChosenTasks, RequiresGPU(t) <=> t.gpu,
           SuccessRate(t) >= Config.minimumSuccess, Blocked(t, budget)
    PROVE  ~Admission!FitsRoom(ChosenTasks \cup {t})
<1> DEFINE C == ChosenTasks \cup {t}
           mine == GPUCount(selected)
           taken == GPUCount(snapshot.running)
<1>1. /\ Len(selected) \in Nat /\ mine \in Nat /\ taken \in Nat /\ Config.maxGPU \in Nat
      /\ budget.available \in Resources /\ t.resources \in Resources
  BY ReadyType, GPUCountType, ConfigTypes DEF TypeInv, TypeOK, Snapshot, Task
<1>2. /\ Len(selected) + budget.slots = Room.slots /\ budget.slots \in Nat
      /\ budget.gpuInUse = taken + mine /\ Room.gpus = Clamp(Config.maxGPU - taken, Config.maxGPU)
  BY RoomMeaning DEF Accounted, TypeInv, TypeOK
<1>3. /\ IsFiniteSet(ChosenTasks) /\ ChosenTasks \in SUBSET Task /\ t \notin ChosenTasks
      /\ Cardinality(ChosenTasks) = Len(selected)
      /\ Cardinality({u \in ChosenTasks : u.gpu}) = mine
  BY DEF Charged
<1>4. ~(SuccessRate(t) < Config.minimumSuccess)
  <2>1. Config.defaultSuccess \in Int /\ Config.minimumSuccess \in 0..Config.defaultSuccess
    BY ConfigTypes, ConfigAssumption DEF ValidConfig
  <2>2. SuccessRate(t) \in Int
    BY <2>1 DEF SuccessRate, Or, Task
  <2> QED
    BY <2>1, <2>2
<1>5. \/ budget.slots = 0
      \/ RequiresGPU(t) /\ budget.gpuInUse >= Config.maxGPU
      \/ Config.enforceFit /\ ~Fits(budget.available, t.resources)
  BY <1>4 DEF Blocked, Obstacle
<1> HIDE DEF C, mine, taken
<1>6. CASE budget.slots = 0
  <2>1. Cardinality(C) = Len(selected) + 1
    BY <1>3, FS_AddElement DEF C
  <2>2. ~(Cardinality(C) <= Room.slots)
    BY <1>1, <1>2, <1>6, <2>1
  <2> QED
    BY <2>2, RoomMeaning DEF C
<1>7. CASE RequiresGPU(t) /\ budget.gpuInUse >= Config.maxGPU
  <2> DEFINE G == {u \in ChosenTasks : u.gpu}
  <2>1. t.gpu
    BY <1>7
  <2>2. IsFiniteSet(G) /\ t \notin G
    BY <1>3, FS_Subset
  <2>3. {u \in C : u.gpu} = G \cup {t}
    BY <2>1 DEF C
  <2>4. Cardinality(G) = mine
    BY <1>3
  <2> HIDE DEF G
  <2>5. Cardinality(G \cup {t}) = mine + 1
    BY <2>2, <2>4, FS_AddElement
  <2>6. mine + 1 > Room.gpus
    BY <1>1, <1>2, <1>7 DEF Clamp
  <2>7. ~(Cardinality({u \in C : u.gpu}) <= Room.gpus)
    <3>1. Room.gpus \in Int
      BY <1>1, <1>2 DEF Clamp
    <3>2. ~(mine + 1 <= Room.gpus)
      BY <1>1, <2>6, <3>1
    <3>3. Cardinality({u \in C : u.gpu}) = mine + 1
      BY <2>3, <2>5, Zenon
    <3> QED
      BY <3>2, <3>3, Zenon
  <2> QED
    BY <2>7, RoomMeaning DEF C
<1>8. CASE Config.enforceFit /\ ~Fits(budget.available, t.resources)
  <2>1. PICK kind \in Kinds : ~(budget.available[kind] >= t.resources[kind])
    BY <1>8 DEF Fits, Kinds
  <2> DEFINE d == Admission!Demand(kind, ChosenTasks)
             more == Admission!Demand(kind, C)
  <2>2. d \in Int /\ more = d + t.resources[kind]
    BY <1>3, DemandOfOneMore DEF C
  <2>3. budget.available[kind] + d = Room.available[kind]
    BY <1>8, RoomMeaning DEF Charged
  <2>4. budget.available[kind] \in Int /\ t.resources[kind] \in Int
    BY <1>1 DEF Resources, Kinds
  <2> HIDE DEF d, more
  <2>5. ~(more <= Room.available[kind])
    BY <2>1, <2>2, <2>3, <2>4
  <2>6. Room.limited
    BY <1>8, RoomMeaning
  <2> QED
    BY <2>5, <2>6, RoomMeaning DEF C, more
<1> QED
  BY <1>5, <1>6, <1>7, <1>8

\* The report closes the admission: nothing that is left out would still fit.
LEMMA ReportCloses ==
    ASSUME TypeInv, Following, Accounted, Charged, Report
    PROVE  Admission!Close
<1>1. /\ phase = "admit" /\ phase' = "done" /\ next > Len(sorted)
      /\ snapshot' = snapshot /\ selected' = selected
  BY DEF Report
<1>2. ASSUME NEW t \in Eligible \ ChosenTasks
      PROVE  ~Admission!FitsRoom(ChosenTasks \cup {t})
  BY <1>1, LeftOutBlocked, BlockedDoesNotFit
<1>3. UNCHANGED <<Eligible, Room>>
  BY <1>1 DEF Eligible, Room
<1>4. ~(phase = "done") /\ (phase = "done")' = TRUE
  BY <1>1
<1> QED
  BY <1>1, <1>2, <1>3, <1>4 DEF Admission!Close, ChosenTasks

\* The other steps change nothing of the admission.
LEMMA OtherStepsStutter ==
    ASSUME TypeInv, [Next]_vars, ~Select, ~Report
    PROVE  UNCHANGED Admission!vars
<1>1. snapshot' = snapshot /\ selected' = selected
  BY DEF Next, CheckInput, RankNext, EndRank, InsertNext, EndSort, SkipDecided, Defer,
         Returned, vars
<1>2. (phase = "done")' = (phase = "done")
  BY DEF Next, CheckInput, RankNext, EndRank, InsertNext, EndSort, SkipDecided, Defer,
         Returned, vars
<1>3. UNCHANGED <<Eligible, Room>>
  BY <1>1 DEF Eligible, Room
<1> QED
  BY <1>1, <1>2, <1>3 DEF Admission!vars

\* Decide is a budgeted admission: what it selects fits the free slots, GPU
\* slots and resources together, and when it returns nothing it leaves out
\* would still fit.
THEOREM DecideAdmits == Spec => ImplementsAdmission
<1>1. ASSUME Init
      PROVE  Admission!Init /\ OwnIDs /\ SelectedOnce /\ Accounted /\ Charged
  <2>1. Len(<<>>) = 0 /\ DOMAIN <<>> = {} /\ selected = <<>> /\ phase = "called"
    BY <1>1 DEF Init
  <2>2. ToSet(selected) = {} /\ ~(phase = "done")
    BY <2>1 DEF ToSet
  <2>3. Admission!Init
    BY <2>2 DEF Admission!Init
  <2>4. OwnIDs /\ SelectedOnce /\ Accounted
    BY <1>1, <2>1 DEF Init, OwnIDs, Distinct, NotRunning, SelectedOnce, NeverTwiceNorRunning,
                      IDs, Accounted
  <2>5. Charged
    <3>1. Cardinality({}) = 0 /\ IsFiniteSet({})
      BY FS_EmptySet
    <3>2. GPUCount(selected) = 0
      BY <2>1, NoGPUs
    <3>3. ChosenTasks = {} /\ {t \in ChosenTasks : t.gpu} = {}
      BY <2>2 DEF ChosenTasks
    <3> QED
      BY <2>1, <3>1, <3>2, <3>3 DEF Charged
  <2> QED
    BY <2>3, <2>4, <2>5
<1>2. /\ TypeInv /\ TypeInv' /\ Following /\ SelectedOnce /\ Accounted /\ Accounted' /\ Charged
      /\ [Next]_vars
      => [Admission!Next]_(Admission!vars)
  <2> SUFFICES ASSUME TypeInv, TypeInv', Following, SelectedOnce, Accounted, Accounted', Charged,
                      [Next]_vars
               PROVE  [Admission!Next]_(Admission!vars)
    OBVIOUS
  <2>1. CASE Select
    BY <2>1, SelectChooses DEF Admission!Next
  <2>2. CASE Report
    BY <2>2, ReportCloses DEF Admission!Next
  <2>3. CASE ~Select /\ ~Report
    BY <2>3, OtherStepsStutter
  <2> QED
    BY <2>1, <2>2, <2>3
<1> QED
  BY <1>1, <1>2, TypeInvariant, FollowingInvariant, OwnIDsInductive, SelectedOnceInductive,
     AccountedInductive, ChargedInductive, PTL
     DEF Spec, ImplementsAdmission, Admission!Spec
=============================================================================
