-------------------------- MODULE AssignmentProofs --------------------------
(***************************************************************************)
(* Proofs about the two components that give something to whoever is       *)
(* there.                                                                  *)
(*                                                                         *)
(* Coordinator, for any number of map and reduce tasks, and however often  *)
(* tasks time out: no reduce task is handed out before every map task was  *)
(* reported, nobody is told that the job is finished before every task     *)
(* was, a task is handed out again when its time is over and then only,    *)
(* and a bucket is lost only if its task was done again under another      *)
(* number.                                                                 *)
(*                                                                         *)
(* ShardCfg, for any number of shards that analyze can count, any groups   *)
(* and any calls before: Rebalance ends, with a configuration that         *)
(* CheckConfig accepts, and leaves as many shards as possible where they   *)
(* are.                                                                    *)
(*                                                                         *)
(* The two specifications share neither constants nor variables.           *)
(***************************************************************************)
EXTENDS Coordinator, ShardCfg, FoldLemmas, FiniteSetTheorems, FunctionTheorems

-----------------------------------------------------------------------------
(* Coordinator.                                                            *)

\* checkTimeout leaves completed tasks alone and completes none.
LEMMA CheckTimeoutType ==
    ASSUME CoordinatorTypeOK
    PROVE  /\ CheckTimeout \in [Task -> {"idle", "in-progress", "completed"}]
           /\ \A t \in Task : CheckTimeout[t] = "completed" <=> status[t] = "completed"
           /\ \A t \in Task : status[t] = "idle" => CheckTimeout[t] = "idle"
BY DEF CheckTimeout, CoordinatorTypeOK

\* What is handed out is an attempt.
LEMMA AssignType ==
    ASSUME CoordinatorTypeOK, NEW t \in Task, NEW type, NEW bucket \in Nat,
           Assign(CheckTimeout, t, type, bucket)
    PROVE  /\ status' \in [Task -> {"idle", "in-progress", "completed"}]
           /\ overdue' \subseteq Task
           /\ attempts' \subseteq Attempt /\ IsFiniteSet(attempts')
           /\ attempts \subseteq attempts'
<1> DEFINE a == [task |-> t, n |-> Cardinality(attempts), bucket |-> bucket]
<1>1. Cardinality(attempts) \in Nat
  BY FS_CardinalityType DEF CoordinatorTypeOK
<1>2. a \in Attempt
  BY <1>1 DEF Attempt
<1>3. attempts' = attempts \cup {a}
  BY DEF Assign
<1> HIDE DEF a
<1>4. IsFiniteSet(attempts')
  BY <1>3, FS_AddElement DEF CoordinatorTypeOK
<1>5. attempts' \subseteq Attempt /\ attempts \subseteq attempts'
  BY <1>2, <1>3 DEF CoordinatorTypeOK
<1>6. status' \in [Task -> {"idle", "in-progress", "completed"}] /\ overdue' \subseteq Task
  BY CheckTimeoutType DEF Assign, CoordinatorTypeOK
<1>7. QED
  BY <1>4, <1>5, <1>6

\* Every step keeps the types.
LEMMA TypeStep == CoordinatorTypeOK /\ [CoordinatorNext]_coordinatorVars => CoordinatorTypeOK'
<1> SUFFICES ASSUME CoordinatorTypeOK, [CoordinatorNext]_coordinatorVars PROVE CoordinatorTypeOK'
  OBVIOUS
<1>1. CASE GetTask
  <2>1. reported' \subseteq attempts /\ lost' \subseteq attempts /\ slow' \in Nat
    BY <1>1 DEF GetTask, CoordinatorTypeOK
  <2>2. ASSUME NEW type \in {"finished", "wait"}, Answer(CheckTimeout, type) PROVE CoordinatorTypeOK'
    BY <2>1, <2>2, CheckTimeoutType DEF Answer, CoordinatorTypeOK
  <2>3. ASSUME NEW t \in Task, NEW type \in {"map", "reduce"}, NEW bucket \in Nat,
               Assign(CheckTimeout, t, type, bucket), reduceCount' \in Nat
        PROVE  CoordinatorTypeOK'
    <3>1. reply' = type
      BY <2>3 DEF Assign
    <3>2. QED
      BY <2>1, <2>3, <3>1, AssignType DEF CoordinatorTypeOK
  <2>4. reduceCount \in Nat
    BY DEF CoordinatorTypeOK
  <2>5. reduceCount + 1 \in Nat
    BY <2>4
  <2>6. QED
    BY <1>1, <2>2, <2>3, <2>4, <2>5 DEF GetTask
<1>2. ASSUME NEW a \in attempts, ReportTask(a) PROVE CoordinatorTypeOK'
  BY <1>2 DEF ReportTask, CoordinatorTypeOK
<1>3. ASSUME NEW a \in attempts, Crash(a) PROVE CoordinatorTypeOK'
  BY <1>3 DEF Crash, CoordinatorTypeOK
<1>4. ASSUME NEW t \in Task, TenSeconds(t) PROVE CoordinatorTypeOK'
  <2>1. slow \in Nat
    BY DEF CoordinatorTypeOK
  <2>2. slow' \in Nat
    BY <1>4, <2>1 DEF TenSeconds
  <2>3. QED
    BY <1>4, <2>2 DEF TenSeconds, CoordinatorTypeOK
<1>5. CASE UNCHANGED coordinatorVars
  BY <1>5 DEF coordinatorVars, CoordinatorTypeOK
<1>6. QED
  BY <1>1, <1>2, <1>3, <1>4, <1>5 DEF CoordinatorNext

\* The first state is well typed.
LEMMA TypeInit == CoordinatorInit => CoordinatorTypeOK
<1> SUFFICES ASSUME CoordinatorInit PROVE CoordinatorTypeOK
  OBVIOUS
<1>1. attempts = {} /\ IsFiniteSet({})
  BY FS_EmptySet DEF CoordinatorInit
<1>2. IsFiniteSet(attempts)
  BY <1>1
<1>3. reduceCount \in Nat /\ slow \in Nat
  BY DEF CoordinatorInit
<1>4. QED
  BY <1>1, <1>2, <1>3 DEF CoordinatorInit, CoordinatorTypeOK

\* Every variable keeps its type.
THEOREM TypeCorrect == CoordinatorSpec => []CoordinatorTypeOK
BY TypeInit, TypeStep, PTL DEF CoordinatorSpec

-----------------------------------------------------------------------------

\* Map tasks and reduce tasks have different ids.
LEMMA PhasesDisjoint == MapTask \cap ReduceTask = {}
BY JobAssumption DEF MapTask, ReduceTask

\* A phase that is completed, and one that is idle.
LEMMA PhaseStatusMeans ==
    ASSUME CoordinatorTypeOK, NEW T \in SUBSET Task
    PROVE  PhaseStatus(CheckTimeout, T) = "completed" => \A t \in T : status[t] = "completed"
BY CheckTimeoutType DEF PhaseStatus

\* Nothing has been done at first.
LEMMA JobInit == CoordinatorInit => JobInv
BY DEF CoordinatorInit, Task, JobInv, ReduceAfterMaps, FinishedMeansReported, Reported

\* Every step keeps JobInv.
LEMMA JobStep == CoordinatorTypeOK /\ JobInv /\ [CoordinatorNext]_coordinatorVars => JobInv'
<1> SUFFICES ASSUME CoordinatorTypeOK, JobInv, [CoordinatorNext]_coordinatorVars PROVE JobInv'
  OBVIOUS
<1> USE DEF Task
<1>1. CASE GetTask
  <2>1. reported' = reported /\ \A t \in Task : Reported(t)' <=> Reported(t)
    BY <1>1 DEF GetTask, Reported
  <2>2. ASSUME Answer(CheckTimeout, "wait")
        PROVE  JobInv'
    BY <2>1, <2>2, CheckTimeoutType
       DEF Answer, JobInv, ReduceAfterMaps, FinishedMeansReported, CoordinatorTypeOK
  <2>3. ASSUME Answer(CheckTimeout, "finished"),
               PhaseStatus(CheckTimeout, MapTask) = "completed",
               PhaseStatus(CheckTimeout, ReduceTask) = "completed"
        PROVE  JobInv'
    <3>1. \A t \in Task : status[t] = "completed"
      BY <2>3, PhaseStatusMeans
    <3>2. QED
      BY <2>1, <2>3, <3>1, CheckTimeoutType
         DEF Answer, JobInv, ReduceAfterMaps, FinishedMeansReported, CoordinatorTypeOK
  <2>4. ASSUME NEW t \in MapTask, CheckTimeout[t] = "idle", Assign(CheckTimeout, t, "map", 0)
        PROVE  JobInv'
    <3>1. status[t] # "completed" /\ t \in Task /\ t \notin ReduceTask
      BY <2>4, CheckTimeoutType, PhasesDisjoint
    <3>2. \A u \in ReduceTask : status[u] = "idle"
      BY <3>1 DEF JobInv, CoordinatorTypeOK
    <3>3. ~\E a \in attempts : a.task \in ReduceTask
      BY <3>1 DEF JobInv, ReduceAfterMaps
    <3>4. ~\E a \in attempts' : a.task \in ReduceTask
      BY <2>4, <3>1, <3>3 DEF Assign
    <3>5. \A u \in Task : status'[u] = IF u = t THEN "in-progress" ELSE CheckTimeout[u]
      BY <2>4, CheckTimeoutType DEF Assign
    <3>6. \A u \in Task : status'[u] = "completed" <=> Reported(u)'
      BY <2>1, <3>1, <3>5, CheckTimeoutType DEF JobInv
    <3>7. \A u \in ReduceTask : status'[u] = "idle"
      BY <3>1, <3>2, <3>5, CheckTimeoutType
    <3>8. reply' = "map"
      BY <2>4 DEF Assign
    <3>9. QED
      BY <3>4, <3>6, <3>7, <3>8 DEF JobInv, ReduceAfterMaps, FinishedMeansReported
  <2>5. ASSUME NEW t \in ReduceTask, CheckTimeout[t] = "idle",
               Assign(CheckTimeout, t, "reduce", reduceCount),
               PhaseStatus(CheckTimeout, MapTask) = "completed"
        PROVE  JobInv'
    <3>1. status[t] # "completed" /\ t \in Task /\ t \notin MapTask
      BY <2>5, CheckTimeoutType, PhasesDisjoint
    <3>2. \A u \in MapTask : status[u] = "completed" /\ Reported(u)'
      BY <2>1, <2>5, PhaseStatusMeans DEF JobInv
    <3>3. \A u \in Task : status'[u] = IF u = t THEN "in-progress" ELSE CheckTimeout[u]
      BY <2>5, CheckTimeoutType DEF Assign
    <3>4. \A u \in Task : status'[u] = "completed" <=> Reported(u)'
      BY <2>1, <3>1, <3>3, CheckTimeoutType DEF JobInv
    <3>5. reply' = "reduce"
      BY <2>5 DEF Assign
    <3>6. QED
      BY <3>2, <3>4, <3>5 DEF JobInv, ReduceAfterMaps, FinishedMeansReported
  <2>6. QED
    BY <1>1, <2>2, <2>3, <2>4, <2>5 DEF GetTask, IsFirstIdle
<1>2. ASSUME NEW a \in attempts, ReportTask(a) PROVE JobInv'
  <2>1. a.task \in Task
    BY DEF CoordinatorTypeOK, Attempt
  <2>2. \A u \in Task : Reported(u)' <=> Reported(u) \/ u = a.task
    BY <1>2 DEF ReportTask, Reported
  <2>3. \A u \in Task : status'[u] = IF u = a.task THEN "completed" ELSE status[u]
    BY <1>2, <2>1 DEF ReportTask, CoordinatorTypeOK
  <2>4. \A u \in Task : status'[u] = "completed" <=> Reported(u)'
    BY <2>2, <2>3 DEF JobInv
  <2>5. a.task \in ReduceTask => \A u \in MapTask : status[u] = "completed"
    BY DEF JobInv, ReduceAfterMaps
  <2>6. (\E u \in ReduceTask : status'[u] # "idle") =>
            \A u \in MapTask : status'[u] = "completed"
    BY <2>1, <2>3, <2>5 DEF JobInv
  <2>7. ReduceAfterMaps' /\ FinishedMeansReported'
    BY <1>2, <2>2 DEF ReportTask, JobInv, ReduceAfterMaps, FinishedMeansReported
  <2>8. QED
    BY <2>4, <2>6, <2>7 DEF JobInv
<1>3. ASSUME UNCHANGED <<status, attempts, reported, reply>> PROVE JobInv'
  BY <1>3 DEF JobInv, ReduceAfterMaps, FinishedMeansReported, Reported
<1>4. QED
  BY <1>1, <1>2, <1>3 DEF CoordinatorNext, Crash, TenSeconds, coordinatorVars

\* The statuses say what was reported, and what follows from them.
THEOREM JobInvariant == CoordinatorSpec => []JobInv
<1>1. CoordinatorTypeOK /\ JobInv /\ [CoordinatorNext]_coordinatorVars => CoordinatorTypeOK' /\ JobInv'
  BY TypeStep, JobStep
<1>2. QED
  BY <1>1, TypeInit, JobInit, PTL DEF CoordinatorSpec

\* No reduce task is handed out before every map task was reported.
THEOREM MapsFirst == CoordinatorSpec => []ReduceAfterMaps
<1>1. JobInv => ReduceAfterMaps
  BY DEF JobInv
<1>2. QED
  BY <1>1, JobInvariant, PTL

\* GetTask says that the job is finished only if every task was reported.
THEOREM FinishedCorrect == CoordinatorSpec => []FinishedMeansReported
<1>1. JobInv => FinishedMeansReported
  BY DEF JobInv
<1>2. QED
  BY <1>1, JobInvariant, PTL

-----------------------------------------------------------------------------
(* The buckets.                                                            *)

\* There are NReduce reduce tasks.
LEMMA ReduceTasks == IsFiniteSet(ReduceTask) /\ Cardinality(ReduceTask) = NReduce
<1>1. NMap \in Int /\ NMap + NReduce - 1 \in Int
  BY JobAssumption
<1>2. IsFiniteSet(ReduceTask)
  BY <1>1, FS_Interval DEF ReduceTask
<1>3. Cardinality(ReduceTask)
        = IF NMap > NMap + NReduce - 1 THEN 0 ELSE (NMap + NReduce - 1) - NMap + 1
  BY <1>1, FS_Interval DEF ReduceTask
<1>4. QED
  BY <1>2, <1>3, JobAssumption

\* So finitely many were handed out.
LEMMA HandedOutFinite == IsFiniteSet(HandedOut) /\ Cardinality(HandedOut) \in Nat
BY ReduceTasks, FS_Subset, FS_CardinalityType DEF HandedOut

\* Nothing has been handed out at first.
LEMMA BucketInit == CoordinatorInit => BucketInv
<1> SUFFICES ASSUME CoordinatorInit PROVE BucketInv
  OBVIOUS
<1>1. reduceCount = 0 /\ HandedOut = {}
  BY DEF CoordinatorInit, HandedOut
<1>2. Cardinality(HandedOut) = 0
  BY <1>1, FS_EmptySet
<1>3. QED
  BY <1>1, <1>2 DEF BucketInv

\* Every step keeps BucketInv.
LEMMA BucketStep == CoordinatorTypeOK /\ BucketInv /\ [CoordinatorNext]_coordinatorVars => BucketInv'
<1> SUFFICES ASSUME CoordinatorTypeOK, BucketInv, [CoordinatorNext]_coordinatorVars PROVE BucketInv'
  OBVIOUS
<1>1. ASSUME UNCHANGED <<attempts, reduceCount>> PROVE BucketInv'
  BY <1>1 DEF BucketInv, HandedOut
<1>2. ASSUME NEW t \in MapTask, Assign(CheckTimeout, t, "map", 0), UNCHANGED reduceCount
      PROVE  BucketInv'
  <2>1. t \notin ReduceTask
    BY PhasesDisjoint
  <2>2. HandedOut' = HandedOut
    BY <1>2, <2>1 DEF Assign, HandedOut
  <2>3. attempts \subseteq attempts'
    BY <1>2 DEF Assign
  <2>4. QED
    BY <1>2, <2>2, <2>3 DEF BucketInv
<1>3. ASSUME NEW t \in ReduceTask, Assign(CheckTimeout, t, "reduce", reduceCount),
             reduceCount' = reduceCount + 1
      PROVE  BucketInv'
  <2> DEFINE new == [task |-> t, n |-> Cardinality(attempts), bucket |-> reduceCount]
  <2>1. attempts' = attempts \cup {new} /\ new.task = t /\ new.bucket = reduceCount
    BY <1>3 DEF Assign
  <2> HIDE DEF new
  <2>2. HandedOut' = HandedOut \cup {t}
    BY <2>1 DEF HandedOut
  <2>3. Cardinality(HandedOut') <= Cardinality(HandedOut) + 1
    <3>1. CASE t \in HandedOut
      <4>1. HandedOut' = HandedOut
        BY <2>2, <3>1
      <4>2. QED
        BY <4>1, HandedOutFinite
    <3>2. CASE t \notin HandedOut
      <4>1. Cardinality(HandedOut \cup {t}) = Cardinality(HandedOut) + 1
        BY <3>2, HandedOutFinite, FS_AddElement
      <4>2. QED
        BY <2>2, <4>1, HandedOutFinite
    <3>3. QED
      BY <3>1, <3>2
  <2>4. /\ reduceCount \in Nat /\ Cardinality(HandedOut') \in Nat
        /\ Cardinality(HandedOut) \in Nat /\ Cardinality(HandedOut) <= reduceCount
    BY <2>2, HandedOutFinite, FS_AddElement, FS_CardinalityType DEF CoordinatorTypeOK, BucketInv
  <2>5. Cardinality(HandedOut') <= reduceCount'
    BY <1>3, <2>3, <2>4
  <2>6. ASSUME NEW b \in 0 .. reduceCount' - 1
        PROVE  \E a \in attempts' : a.task \in ReduceTask /\ a.bucket = b
    <3>1. b \in 0 .. reduceCount - 1 \/ b = reduceCount
      BY <1>3, <2>4
    <3>2. QED
      BY <2>1, <3>1 DEF BucketInv
  <2>7. QED
    BY <2>5, <2>6 DEF BucketInv
<1>4. CASE GetTask
  BY <1>1, <1>2, <1>3, <1>4 DEF GetTask, Answer, IsFirstIdle
<1>5. QED
  BY <1>1, <1>4 DEF CoordinatorNext, ReportTask, Crash, TenSeconds, coordinatorVars

-----------------------------------------------------------------------------
(* What is handed out again.                                               *)

\* What is idle after checkTimeout was idle or is overdue.
LEMMA IdleAgain ==
    ASSUME CoordinatorTypeOK, IdleInv, NEW t \in Task, CheckTimeout[t] = "idle"
    PROVE  t \in overdue \/ ~\E a \in attempts : a.task = t
BY DEF CheckTimeout, IdleInv

\* Every step keeps IdleInv.
LEMMA IdleStep == CoordinatorTypeOK /\ IdleInv /\ [CoordinatorNext]_coordinatorVars => IdleInv'
<1> SUFFICES ASSUME CoordinatorTypeOK, IdleInv, [CoordinatorNext]_coordinatorVars PROVE IdleInv'
  OBVIOUS
<1>1. ASSUME NEW type, Answer(CheckTimeout, type) PROVE IdleInv'
  BY <1>1, IdleAgain DEF Answer, IdleInv
<1>2. ASSUME NEW t \in Task, NEW type, NEW bucket, Assign(CheckTimeout, t, type, bucket)
      PROVE  IdleInv'
  <2> DEFINE new == [task |-> t, n |-> Cardinality(attempts), bucket |-> bucket]
  <2>1. attempts' = attempts \cup {new} /\ new.task = t /\ overdue' = overdue \ {t}
    BY <1>2 DEF Assign
  <2> HIDE DEF new
  <2>2. \A u \in Task : status'[u] = IF u = t THEN "in-progress" ELSE CheckTimeout[u]
    BY <1>2, CheckTimeoutType DEF Assign
  <2>3. ASSUME NEW u \in Task, status'[u] = "idle"
        PROVE  u \in overdue' \/ ~\E a \in attempts' : a.task = u
    <3>1. u # t /\ CheckTimeout[u] = "idle"
      BY <2>2, <2>3
    <3>2. u \in overdue \/ ~\E a \in attempts : a.task = u
      BY <3>1, IdleAgain
    <3>3. QED
      BY <2>1, <3>1, <3>2
  <2>4. QED
    BY <2>3 DEF IdleInv
<1>3. CASE GetTask
  BY <1>1, <1>2, <1>3 DEF GetTask
<1>4. ASSUME NEW a \in attempts, ReportTask(a) PROVE IdleInv'
  <2>1. \A u \in Task : status'[u] = "idle" => status[u] = "idle"
    BY <1>4 DEF ReportTask, CoordinatorTypeOK
  <2>2. QED
    BY <1>4, <2>1 DEF ReportTask, IdleInv
<1>5. ASSUME NEW t \in Task, TenSeconds(t) PROVE IdleInv'
  BY <1>5 DEF TenSeconds, IdleInv
<1>6. ASSUME UNCHANGED <<status, overdue, attempts>> PROVE IdleInv'
  BY <1>6 DEF IdleInv
<1>7. QED
  BY <1>3, <1>4, <1>5, <1>6 DEF CoordinatorNext, Crash, coordinatorVars

\* The types, JobInv, BucketInv and IdleInv hold together, for any number of
\* tasks.
THEOREM CoordinatorInvariant == CoordinatorSpec => []CoordinatorInv
<1>1. CoordinatorInit => IdleInv
  BY DEF CoordinatorInit, IdleInv
<1>2. CoordinatorInit => CoordinatorInv
  BY <1>1, TypeInit, JobInit, BucketInit DEF CoordinatorInv
<1>3. CoordinatorInv /\ [CoordinatorNext]_coordinatorVars => CoordinatorInv'
  BY TypeStep, JobStep, BucketStep, IdleStep DEF CoordinatorInv
<1>4. QED
  BY <1>2, <1>3, PTL DEF CoordinatorSpec

\* What a step may hand out, and when it may send a worker to wait.
HandsOutRightly ==
    /\ \A a \in attempts' \ attempts :
         /\ ~Reported(a.task)
         /\ (\E b \in attempts : b.task = a.task) => a.task \in overdue
    /\ reply' = "wait" /\ reply # "wait" =>
         \A t \in Task : status[t] = "in-progress" => t \notin overdue

\* GetTask hands out what is due and nothing else.
LEMMA HandsOut == CoordinatorInv /\ [CoordinatorNext]_coordinatorVars => HandsOutRightly
<1> SUFFICES ASSUME CoordinatorInv, [CoordinatorNext]_coordinatorVars PROVE HandsOutRightly
  OBVIOUS
<1>0. CoordinatorTypeOK /\ JobInv /\ IdleInv
  BY DEF CoordinatorInv
<1>1. ASSUME attempts' = attempts, reply' # "wait" \/ reply' = reply PROVE HandsOutRightly
  BY <1>1 DEF HandsOutRightly
<1>2. ASSUME NEW t \in Task, NEW type \in {"map", "reduce"}, NEW bucket,
             CheckTimeout[t] = "idle", Assign(CheckTimeout, t, type, bucket)
      PROVE  HandsOutRightly
  <2> DEFINE new == [task |-> t, n |-> Cardinality(attempts), bucket |-> bucket]
  <2>1. attempts' = attempts \cup {new} /\ new.task = t /\ reply' # "wait"
    BY <1>2 DEF Assign
  <2> HIDE DEF new
  <2>2. ~Reported(t)
    BY <1>0, <1>2, CheckTimeoutType DEF JobInv
  <2>3. (\E b \in attempts : b.task = t) => t \in overdue
    BY <1>0, <1>2, IdleAgain
  <2>4. QED
    BY <2>1, <2>2, <2>3 DEF HandsOutRightly
<1>3. ASSUME Answer(CheckTimeout, "wait"),
             \/ PhaseStatus(CheckTimeout, MapTask) = "in-progress"
             \/ /\ PhaseStatus(CheckTimeout, MapTask) = "completed"
                /\ PhaseStatus(CheckTimeout, ReduceTask) = "in-progress"
      PROVE  HandsOutRightly
  <2>1. ASSUME NEW t \in Task, status[t] = "in-progress" PROVE CheckTimeout[t] # "idle"
    <3>1. CASE t \in MapTask
      BY <1>3, <3>1 DEF PhaseStatus
    <3>2. CASE t \in ReduceTask
      <4>1. \A u \in MapTask : status[u] = "completed"
        BY <1>0, <2>1, <3>2 DEF JobInv
      <4>2. \A u \in MapTask : CheckTimeout[u] = "completed"
        BY <1>0, <4>1, CheckTimeoutType DEF Task
      <4>3. PhaseStatus(CheckTimeout, MapTask) = "completed"
        BY <4>2 DEF PhaseStatus
      <4>4. QED
        BY <1>3, <3>2, <4>3 DEF PhaseStatus
    <3>3. QED
      BY <3>1, <3>2 DEF Task
  <2>2. \A t \in Task : status[t] = "in-progress" => t \notin overdue
    BY <2>1 DEF CheckTimeout
  <2>3. QED
    BY <1>3, <2>2 DEF Answer, HandsOutRightly
<1>4. ASSUME Answer(CheckTimeout, "finished") PROVE HandsOutRightly
  BY <1>1, <1>4 DEF Answer
<1>5. CASE GetTask
  BY <1>2, <1>3, <1>4, <1>5 DEF GetTask, IsFirstIdle
<1>6. QED
  BY <1>1, <1>5 DEF CoordinatorNext, ReportTask, Crash, TenSeconds, coordinatorVars

\* A task is handed out again only when its time is over and nobody has reported
\* it, and no worker waits for one whose time is over (GetTask, checkTimeout).
THEOREM TasksHandedOutAgain == CoordinatorSpec => HandedOutAgain
<1>1. CoordinatorInv /\ [CoordinatorNext]_coordinatorVars => [HandsOutRightly]_coordinatorVars
  BY HandsOut
<1>2. CoordinatorSpec => [][HandsOutRightly]_coordinatorVars
  BY <1>1, CoordinatorInvariant, PTL DEF CoordinatorSpec
<1>3. QED
  BY <1>2, PTL DEF HandedOutAgain, HandsOutRightly

\* When the job is finished, a bucket whose number no reported reduce task had
\* was given to a worker that has not reported, and whose task was done by
\* another one with another number.
THEOREM BucketsLost == CoordinatorSpec => []LostBucketWasReassigned
<1>1. CoordinatorInv => LostBucketWasReassigned
  <2> SUFFICES ASSUME CoordinatorInv, reply = "finished", NEW b \in 0 .. NReduce - 1
               PROVE  \/ \E a \in reported : a.task \in ReduceTask /\ a.bucket = b
                      \/ \E a \in attempts \ reported, other \in reported :
                           a.task \in ReduceTask /\ a.bucket = b
                           /\ other.task = a.task /\ other.bucket # b
    BY DEF LostBucketWasReassigned
  <2>1. \A t \in ReduceTask : Reported(t)
    BY DEF CoordinatorInv, JobInv, FinishedMeansReported, Task
  <2>2. HandedOut = ReduceTask
    BY <2>1 DEF CoordinatorInv, CoordinatorTypeOK, HandedOut, Reported
  <2>3. NReduce <= reduceCount /\ reduceCount \in Nat
    BY <2>2, ReduceTasks DEF CoordinatorInv, BucketInv, CoordinatorTypeOK
  <2>4. b \in 0 .. reduceCount - 1
    BY <2>3, JobAssumption
  <2>5. PICK a \in attempts : a.task \in ReduceTask /\ a.bucket = b
    BY <2>4 DEF CoordinatorInv, BucketInv
  <2>6. PICK other \in reported : other.task = a.task
    BY <2>1, <2>5 DEF Reported
  <2>7. QED
    BY <2>5, <2>6
<1>2. QED
  BY <1>1, CoordinatorInvariant, PTL

-----------------------------------------------------------------------------
(* analyze.                                                                *)

\* Groups have between 0 and NShards shards.
LEMMA ShardFinite == NShards \in Nat /\ IsFiniteSet(Shard) /\ Cardinality(Shard) = NShards
<1>1. NShards \in Nat /\ NShards > 0
  BY NShardsAssumption
<1>2. IsFiniteSet(Shard) /\ Cardinality(Shard) = IF 0 > NShards - 1 THEN 0 ELSE (NShards - 1) - 0 + 1
  BY <1>1, FS_Interval DEF Shard
<1>3. QED
  BY <1>1, <1>2

\* A group has between none and all of the shards.
LEMMA CountType ==
    \A sh, g : /\ IsFiniteSet({s \in Shard : sh[s] = g})
               /\ Count(sh, g) \in Nat /\ Count(sh, g) <= NShards
<1> SUFFICES ASSUME NEW sh, NEW g
             PROVE  /\ IsFiniteSet({s \in Shard : sh[s] = g})
                    /\ Count(sh, g) \in Nat /\ Count(sh, g) <= NShards
  OBVIOUS
<1> DEFINE A == {s \in Shard : sh[s] = g}
<1>1. A \in SUBSET Shard
  OBVIOUS
<1> HIDE DEF A
<1>2. IsFiniteSet(A) /\ Cardinality(A) <= NShards
  BY <1>1, ShardFinite, FS_Subset
<1>3. Cardinality(A) \in Nat
  BY <1>2, FS_CardinalityType
<1>4. Count(sh, g) = Cardinality(A)
  BY DEF Count, A
<1>5. QED
  BY <1>2, <1>3, <1>4 DEF A

\* analyze finds a group with the fewest shards, if there is a group.
LEMMA LeastLoadedLemma ==
    ASSUME NEW sh, NEW groups \in SUBSET Gid, groups # {}
    PROVE  /\ LeastLoaded(sh, groups) \in groups
           /\ \A h \in groups : Count(sh, LeastLoaded(sh, groups)) <= Count(sh, h)
<1> DEFINE K == {Count(sh, g) : g \in groups}
<1>1. K \in SUBSET Nat /\ K # {}
  BY CountType
<1>2. PICK k \in K : \A m \in K : k <= m
  <2> HIDE DEF K
  <2>1. QED
    BY <1>1, Least
<1> DEFINE U == {g \in groups : Count(sh, g) = k}
<1>3. U \in SUBSET Nat /\ U # {}
  BY <1>2, GidAssumption
<1>4. PICK g \in U : \A m \in U : g <= m
  <2> HIDE DEF U
  <2>1. QED
    BY <1>3, Least
<1>5. g \in groups /\ Count(sh, g) = k
  BY <1>4
<1>6. ASSUME NEW h \in groups
      PROVE  Count(sh, g) < Count(sh, h) \/ (Count(sh, g) = Count(sh, h) /\ g <= h)
  <2>1. Count(sh, h) \in K /\ Count(sh, h) \in Nat /\ k \in Nat
    BY CountType, <1>5
  <2>2. k <= Count(sh, h)
    BY <1>2, <2>1
  <2>3. CASE Count(sh, h) = k
    <3>1. h \in U
      BY <2>3
    <3>2. QED
      BY <1>4, <1>5, <2>3, <3>1
  <2>4. CASE Count(sh, h) # k
    BY <1>5, <2>1, <2>2, <2>4
  <2>5. QED
    BY <2>3, <2>4
<1> DEFINE L == LeastLoaded(sh, groups)
<1>7. L \in groups /\ \A h \in groups :
          Count(sh, L) < Count(sh, h) \/ (Count(sh, L) = Count(sh, h) /\ L <= h)
  <2> DEFINE P(x) == \A h \in groups :
          Count(sh, x) < Count(sh, h) \/ (Count(sh, x) = Count(sh, h) /\ x <= h)
  <2>1. L = CHOOSE x \in groups : P(x)
    BY DEF LeastLoaded
  <2>2. P(g)
    BY <1>6
  <2>3. L \in groups /\ P(L)
    <3> HIDE DEF P, L
    <3>1. QED
      BY <1>5, <2>1, <2>2
  <2>4. QED
    BY <2>3
<1> HIDE DEF L
<1>8. ASSUME NEW h \in groups PROVE Count(sh, L) <= Count(sh, h)
  <2>1. Count(sh, L) \in Nat /\ Count(sh, h) \in Nat
    BY CountType
  <2>2. QED
    BY <1>7, <2>1
<1>9. QED
  BY <1>7, <1>8 DEF L

\* And one with the most shards.
LEMMA MostLoadedLemma ==
    ASSUME NEW sh, NEW groups \in SUBSET Gid, groups # {}
    PROVE  /\ MostLoaded(sh, groups) \in groups
           /\ \A h \in groups : Count(sh, h) <= Count(sh, MostLoaded(sh, groups))
<1> DEFINE K == {Count(sh, g) : g \in groups}
<1>1. K \in SUBSET Nat /\ K # {} /\ \A m \in K : m <= NShards
  BY CountType
<1>2. PICK k \in K : \A m \in K : m <= k
  <2> HIDE DEF K
  <2>1. QED
    BY <1>1, ShardFinite, Greatest
<1> DEFINE U == {g \in groups : Count(sh, g) = k}
<1>3. U \in SUBSET Nat /\ U # {}
  BY <1>2, GidAssumption
<1>4. PICK g \in U : \A m \in U : g <= m
  <2> HIDE DEF U
  <2>1. QED
    BY <1>3, Least
<1>5. g \in groups /\ Count(sh, g) = k
  BY <1>4
<1>6. ASSUME NEW h \in groups
      PROVE  Count(sh, g) > Count(sh, h) \/ (Count(sh, g) = Count(sh, h) /\ g <= h)
  <2>1. Count(sh, h) \in K /\ Count(sh, h) \in Nat /\ k \in Nat
    BY CountType, <1>5
  <2>2. Count(sh, h) <= k
    BY <1>2, <2>1
  <2>3. CASE Count(sh, h) = k
    <3>1. h \in U
      BY <2>3
    <3>2. QED
      BY <1>4, <1>5, <2>3, <3>1
  <2>4. CASE Count(sh, h) # k
    BY <1>5, <2>1, <2>2, <2>4
  <2>5. QED
    BY <2>3, <2>4
<1> DEFINE L == MostLoaded(sh, groups)
<1>7. L \in groups /\ \A h \in groups :
          Count(sh, L) > Count(sh, h) \/ (Count(sh, L) = Count(sh, h) /\ L <= h)
  <2> DEFINE P(x) == \A h \in groups :
          Count(sh, x) > Count(sh, h) \/ (Count(sh, x) = Count(sh, h) /\ x <= h)
  <2>1. L = CHOOSE x \in groups : P(x)
    BY DEF MostLoaded
  <2>2. P(g)
    BY <1>6
  <2>3. L \in groups /\ P(L)
    <3> HIDE DEF P, L
    <3>1. QED
      BY <1>5, <2>1, <2>2
  <2>4. QED
    BY <2>3
<1> HIDE DEF L
<1>8. ASSUME NEW h \in groups PROVE Count(sh, h) <= Count(sh, L)
  <2>1. Count(sh, L) \in Nat /\ Count(sh, h) \in Nat
    BY CountType
  <2>2. QED
    BY <1>7, <2>1
<1>9. QED
  BY <1>7, <1>8 DEF L

-----------------------------------------------------------------------------
(* What a shard that changes its group does to the groups' shards.         *)

Of(sh, g) == {s \in Shard : sh[s] = g}

Moved(sh, new, x, m, l) ==
    /\ Of(new, l) = Of(sh, l) \cup {x} /\ Count(new, l) = Count(sh, l) + 1
    /\ Of(new, m) = Of(sh, m) \ {x} /\ Count(new, m) = Count(sh, m) - 1
    /\ \A g : g # l /\ g # m => Of(new, g) = Of(sh, g) /\ Count(new, g) = Count(sh, g)

\* Only the group it leaves and the group it comes to change, by one.
LEMMA ChangedGroups ==
    ASSUME NEW R, NEW sh \in [Shard -> R], NEW x \in Shard, NEW l, sh[x] # l
    PROVE  Moved(sh, [sh EXCEPT ![x] = l], x, sh[x], l)
<1> DEFINE new == [sh EXCEPT ![x] = l]
<1> DEFINE m == sh[x]
<1>1. \A g : Count(sh, g) = Cardinality(Of(sh, g)) /\ Count(new, g) = Cardinality(Of(new, g))
  BY DEF Count, Of
<1>2. \A g : IsFiniteSet(Of(sh, g)) /\ Cardinality(Of(sh, g)) \in Nat
  <2>1. ASSUME NEW g PROVE IsFiniteSet(Of(sh, g)) /\ Cardinality(Of(sh, g)) \in Nat
    BY CountType DEF Of, Count
  <2>2. QED
    BY <2>1
<1>3. x \in Of(sh, m) /\ x \notin Of(sh, l)
  BY DEF Of
<1>4. Of(new, l) = Of(sh, l) \cup {x}
  BY DEF Of
<1>5. Of(new, m) = Of(sh, m) \ {x}
  BY DEF Of
<1>6. \A g : g # l /\ g # m => Of(new, g) = Of(sh, g)
  BY DEF Of
<1>7. Cardinality(Of(sh, l) \cup {x}) = Cardinality(Of(sh, l)) + 1
  BY <1>2, <1>3, FS_AddElement
<1>8. Cardinality(Of(sh, m) \ {x}) = Cardinality(Of(sh, m)) - 1
  BY <1>2, <1>3, FS_RemoveElement
<1>9. QED
  BY <1>1, <1>4, <1>5, <1>6, <1>7, <1>8 DEF Moved

-----------------------------------------------------------------------------
(* The first loop of Rebalance.                                            *)

\* What the loop does with shard s.
Assigned(sh, s, groups) ==
    IF sh[s] \in groups THEN sh ELSE [sh EXCEPT ![s] = LeastLoaded(sh, groups)]

\* No group has lost a shard, and those that have got one are among the
\* smallest but for one.
Grown(old, sh, groups) ==
    \A g \in groups :
        /\ Of(old, g) \subseteq Of(sh, g)
        /\ ~(Of(sh, g) \subseteq Of(old, g)) =>
               \A k \in groups : Count(sh, g) <= Count(sh, k) + 1

\* The first loop keeps it so.
LEMMA AssignGrows ==
    ASSUME NEW groups \in SUBSET Gid, groups # {}, NEW sh \in [Shard -> Gid \cup {0}],
           NEW old, Grown(old, sh, groups), NEW x \in Shard
    PROVE  Grown(old, Assigned(sh, x, groups), groups)
<1>1. CASE sh[x] \in groups
  BY <1>1 DEF Assigned
<1>2. CASE sh[x] \notin groups
  <2> DEFINE l == LeastLoaded(sh, groups)
             new == Assigned(sh, x, groups)
  <2>1. l \in groups /\ \A k \in groups : Count(sh, l) <= Count(sh, k)
    BY LeastLoadedLemma
  <2>2. new = [sh EXCEPT ![x] = l] /\ sh[x] # l
    BY <1>2, <2>1 DEF Assigned
  <2> HIDE DEF l, new
  <2>3. /\ Of(new, l) = Of(sh, l) \cup {x} /\ Count(new, l) = Count(sh, l) + 1
        /\ \A g : g # l /\ g # sh[x] => Of(new, g) = Of(sh, g) /\ Count(new, g) = Count(sh, g)
    <3>1. Moved(sh, [sh EXCEPT ![x] = l], x, sh[x], l)
      BY <2>2, ChangedGroups
    <3>2. QED
      BY <2>2, <3>1 DEF Moved
  <2>4. \A g : Count(sh, g) \in Nat
    BY CountType
  <2>5. \A g \in groups : g # l => Of(new, g) = Of(sh, g) /\ Count(new, g) = Count(sh, g)
    BY <1>2, <2>3
  <2>6. ASSUME NEW g \in groups
        PROVE  Of(old, g) \subseteq Of(new, g)
    BY <2>3, <2>5 DEF Grown
  <2>7. ASSUME NEW g \in groups, ~(Of(new, g) \subseteq Of(old, g)), NEW k \in groups
        PROVE  Count(new, g) <= Count(new, k) + 1
    <3>1. CASE g = l
      <4>1. Count(new, g) = Count(sh, l) + 1 /\ Count(sh, l) <= Count(new, k)
        <5>1. CASE k = l
          BY <2>3, <2>4, <3>1, <5>1
        <5>2. CASE k # l
          BY <2>1, <2>3, <2>5, <3>1, <5>2
        <5>3. QED
          BY <5>1, <5>2
      <4>2. Count(new, k) \in Nat
        BY CountType
      <4>3. QED
        BY <2>4, <4>1, <4>2
    <3>2. CASE g # l
      <4>1. Count(new, g) = Count(sh, g) /\ Count(sh, g) <= Count(sh, k) + 1
        BY <2>5, <2>7, <3>2 DEF Grown
      <4>2. Count(new, k) = Count(sh, k) \/ Count(new, k) = Count(sh, k) + 1
        BY <2>3, <2>5
      <4>3. QED
        BY <2>4, <4>1, <4>2
    <3>3. QED
      BY <3>1, <3>2
  <2>8. Grown(old, new, groups)
    BY <2>6, <2>7 DEF Grown
  <2>9. QED
    BY <2>8 DEF new
<1>3. QED
  BY <1>1, <1>2

\* After the first loop every shard has a group, and no group has lost one.
LEMMA AssignAllLemma ==
    ASSUME NEW groups \in SUBSET Gid, groups # {}, NEW shards \in [Shard -> Gid \cup {0}]
    PROVE  /\ AssignAll(shards, groups) \in [Shard -> groups]
           /\ Grown(shards, AssignAll(shards, groups), groups)
<1> DEFINE S == [Shard -> Gid \cup {0}]
           seq == [n \in 1..NShards |-> n - 1]
           H == [x \in S \X (1..NShards) |-> Assigned(x[1], x[2] - 1, groups)]
           Eq(f) == f = [s \in SUBSET (1..NShards) |->
                           IF s = {} THEN shards
                           ELSE Assigned(f[s \ {Max(s)}], seq[Max(s)], groups)]
           iter == CHOOSE f : Eq(f)
<1>1. AssignAll(shards, groups) = iter[1..NShards]
  BY DEF AssignAll, Assigned, FoldLeft, MapThenFoldSet
<1>2. ASSUME NEW sh \in S, NEW i \in 1..NShards
      PROVE  Assigned(sh, i - 1, groups) \in S
  <2>1. LeastLoaded(sh, groups) \in Gid
    BY LeastLoadedLemma
  <2>2. QED
    BY <2>1 DEF Assigned
<1>3. H \in [S \X (1..NShards) -> S]
  <2> HIDE DEF S
  <2>1. QED
    BY <1>2
<1>4. \E f : Eq(f)
  <2> HIDE DEF H
  <2>0. PICK g : IsFold(g, S, shards, NShards, H)
    <3> HIDE DEF S
    <3>1. shards \in S /\ NShards \in Nat
      BY ShardFinite DEF S
    <3>2. QED
      BY <1>3, <3>1, FoldExists
  <2>1. /\ g \in [SUBSET (1..NShards) -> S]
        /\ \A s \in SUBSET (1..NShards) :
             g[s] = IF s = {} THEN shards ELSE H[<<g[s \ {Max(s)}], Max(s)>>]
    BY <2>0 DEF IsFold
  <2>2. ASSUME NEW s \in SUBSET (1..NShards), s # {}
        PROVE  g[s] = Assigned(g[s \ {Max(s)}], seq[Max(s)], groups)
    <3>1. Max(s) \in 1..NShards
      BY <2>2, ShardFinite, MaxLemma
    <3>2. s \ {Max(s)} \in SUBSET (1..NShards)
      OBVIOUS
    <3> HIDE DEF S
    <3>3. g[s \ {Max(s)}] \in S
      BY <2>1, <3>2
    <3>4. g[s] = H[<<g[s \ {Max(s)}], Max(s)>>]
      BY <2>1, <2>2
    <3>5. seq[Max(s)] = Max(s) - 1
      BY <3>1
    <3> HIDE DEF seq
    <3>6. QED
      BY <3>1, <3>3, <3>4, <3>5 DEF H
  <2> HIDE DEF seq, S
  <2>3. Eq(g)
    BY <2>1, <2>2
  <2> HIDE DEF Eq
  <2>4. QED
    BY <2>3
<1>5. Eq(iter)
  <2> HIDE DEF Eq
  <2>1. QED
    BY <1>4
<1> HIDE DEF iter
<1> DEFINE Some(k) == k <= NShards => /\ iter[1..k] \in S
                                      /\ \A s \in Shard : s < k => iter[1..k][s] \in groups
                                      /\ Grown(shards, iter[1..k], groups)
           T == {k \in Nat : Some(k)}
<1>6. Some(0)
  <2>1. iter[1..0] = shards
    <3>1. 1..0 = {} /\ 1..0 \in SUBSET (1..NShards)
      OBVIOUS
    <3>2. QED
      BY <1>5, <3>1
  <2>2. Grown(shards, shards, groups)
    BY DEF Grown
  <2>3. QED
    BY <2>1, <2>2 DEF Shard
<1>7. ASSUME NEW k \in Nat, Some(k) PROVE Some(k + 1)
  <2> SUFFICES ASSUME k + 1 <= NShards
               PROVE  /\ iter[1 .. k + 1] \in S
                      /\ \A s \in Shard : s < k + 1 => iter[1 .. k + 1][s] \in groups
                      /\ Grown(shards, iter[1 .. k + 1], groups)
    OBVIOUS
  <2> DEFINE old == iter[1..k]
  <2>1. /\ Max(1 .. k + 1) = k + 1 /\ (1 .. k + 1) \ {k + 1} = 1..k
        /\ 1 .. k + 1 \in SUBSET (1..NShards) /\ 1 .. k + 1 # {}
    <3>1. Max(1 .. k + 1) = k + 1 /\ (1 .. k + 1) \ {k + 1} = 1..k
      BY MaxOfInterval
    <3>2. k + 1 \in 1 .. k + 1 /\ 1 .. k + 1 \in SUBSET (1..NShards)
      BY ShardFinite
    <3>3. QED
      BY <3>1, <3>2
  <2>2. seq[k + 1] = k /\ k \in Shard
    BY ShardFinite DEF Shard
  <2>3. iter[1 .. k + 1] = Assigned(old, k, groups)
    <3> HIDE DEF seq
    <3>1. QED
      BY <1>5, <2>1, <2>2
  <2>4. old \in S /\ (\A s \in Shard : s < k => old[s] \in groups) /\ Grown(shards, old, groups)
    BY <1>7, ShardFinite
  <2> HIDE DEF old
  <2>5. LeastLoaded(old, groups) \in groups
    BY LeastLoadedLemma
  <2>6. \A s \in Shard : s < k + 1 => s < k \/ s = k
    BY ShardFinite DEF Shard
  <2>7. /\ iter[1 .. k + 1] \in S
        /\ \A s \in Shard : s < k + 1 => iter[1 .. k + 1][s] \in groups
    BY <2>2, <2>3, <2>4, <2>5, <2>6 DEF Assigned
  <2>8. Grown(shards, iter[1 .. k + 1], groups)
    BY <2>2, <2>3, <2>4, AssignGrows
  <2>9. QED
    BY <2>7, <2>8
<1>8. Some(NShards)
  <2> HIDE DEF Some
  <2>1. 0 \in T /\ \A k \in Nat : k \in T => k + 1 \in T
    BY <1>6, <1>7
  <2>2. \A k \in Nat : k \in T
    <3> HIDE DEF T
    <3>1. QED
      BY <2>1, Induction
  <2>3. QED
    BY <2>2, ShardFinite
<1>9. /\ iter[1..NShards] \in S /\ \A s \in Shard : iter[1..NShards][s] \in groups
      /\ Grown(shards, iter[1..NShards], groups)
  BY <1>8, ShardFinite DEF Shard
<1>10. iter[1..NShards] \in [Shard -> groups]
  BY <1>9
<1>11. QED
  BY <1>1, <1>9, <1>10

-----------------------------------------------------------------------------
(* The second loop of Rebalance: it ends, since each move lowers the number *)
(* of pairs of shards that are in one group.                               *)

Pairs(sh) == {p \in Shard \X Shard : sh[p[1]] = sh[p[2]]}

PairCount(sh) == Cardinality(Pairs(sh))

\* There are finitely many pairs of shards.
LEMMA PairCountType ==
    ASSUME NEW sh
    PROVE  /\ IsFiniteSet(Pairs(sh)) /\ PairCount(sh) \in Nat
           /\ PairCount(sh) <= Cardinality(Shard \X Shard)
           /\ Cardinality(Shard \X Shard) \in Nat
<1>1. IsFiniteSet(Shard \X Shard) /\ Pairs(sh) \in SUBSET (Shard \X Shard)
  BY ShardFinite, FS_Product DEF Pairs
<1>2. QED
  BY <1>1, FS_Subset, FS_CardinalityType DEF PairCount

\* The pairs one shard makes with the shards of a set that it is not in.
LEMMA StarCount ==
    ASSUME NEW x \in Shard, NEW A \in SUBSET Shard, x \notin A
    PROVE  LET star == ({x} \X A) \cup (A \X {x})
           IN  IsFiniteSet(star) /\ Cardinality(star) = 2 * Cardinality(A)
<1> DEFINE L == {x} \X A
           R == A \X {x}
<1>1. IsFiniteSet(A) /\ Cardinality(A) \in Nat
  BY ShardFinite, FS_Subset, FS_CardinalityType
<1>2. IsFiniteSet({x}) /\ Cardinality({x}) = 1
  BY FS_Singleton
<1>3. IsFiniteSet(L) /\ Cardinality(L) = 1 * Cardinality(A)
  BY <1>1, <1>2, FS_Product
<1>4. IsFiniteSet(R) /\ Cardinality(R) = Cardinality(A) * 1
  BY <1>1, <1>2, FS_Product
<1>5. L \cap R = {}
  OBVIOUS
<1> HIDE DEF L, R
<1>6. IsFiniteSet(L \cup R) /\ Cardinality(L \cup R) = Cardinality(L) + Cardinality(R) - Cardinality(L \cap R)
  BY <1>3, <1>4, FS_Union
<1>7. Cardinality(L \cap R) = 0
  BY <1>5, FS_EmptySet
<1>8. Cardinality(L \cup R) = 2 * Cardinality(A)
  BY <1>1, <1>3, <1>4, <1>6, <1>7
<1>9. QED
  BY <1>6, <1>8 DEF L, R

\* Two sets that share all but X and Y.
LEMMA SwapCount ==
    ASSUME NEW Q, NEW X, NEW Y, IsFiniteSet(Q), IsFiniteSet(X), IsFiniteSet(Y),
           Q \cap X = {}, Q \cap Y = {}, Cardinality(Y) < Cardinality(X)
    PROVE  Cardinality(Q \cup Y) < Cardinality(Q \cup X)
<1>1. Cardinality(Q) \in Nat /\ Cardinality(X) \in Nat /\ Cardinality(Y) \in Nat
  BY FS_CardinalityType
<1>2. Cardinality(Q \cup X) = Cardinality(Q) + Cardinality(X) - Cardinality(Q \cap X)
  BY FS_Union
<1>3. Cardinality(Q \cup Y) = Cardinality(Q) + Cardinality(Y) - Cardinality(Q \cap Y)
  BY FS_Union
<1>4. Cardinality(Q \cap X) = 0 /\ Cardinality(Q \cap Y) = 0
  BY FS_EmptySet
<1>5. QED
  BY <1>1, <1>2, <1>3, <1>4

\* A shard x that leaves group m for group l, where m has two shards more.
LEMMA MoveLowers ==
    ASSUME NEW groups, NEW sh \in [Shard -> groups], NEW x \in Shard, NEW l \in groups,
           Count(sh, sh[x]) >= Count(sh, l) + 2
    PROVE  PairCount([sh EXCEPT ![x] = l]) < PairCount(sh)
<1> DEFINE A == {s \in Shard : sh[s] = sh[x]}
           A1 == A \ {x}
           B == {s \in Shard : sh[s] = l}
           X == ({x} \X A1) \cup (A1 \X {x})
           Y == ({x} \X B) \cup (B \X {x})
           new == [sh EXCEPT ![x] = l]
           Q == {p \in Pairs(sh) : p[1] = p[2] \/ (p[1] # x /\ p[2] # x)}
<1>1. sh[x] # l
  <2>1. Count(sh, l) \in Nat
    BY CountType
  <2>2. QED
    BY <2>1
<1>2. IsFiniteSet(A) /\ x \in A /\ Cardinality(A) = Count(sh, sh[x]) /\ Cardinality(B) = Count(sh, l)
  BY CountType DEF Count
<1>3. Cardinality(A1) = Cardinality(A) - 1 /\ A1 \in SUBSET Shard /\ x \notin A1
  <2> HIDE DEF A
  <2>1. Cardinality(A1) = Cardinality(A) - 1
    BY <1>2, FS_RemoveElement
  <2>2. QED
    BY <2>1 DEF A
<1>4. B \in SUBSET Shard /\ x \notin B
  BY <1>1
<1>5. Cardinality(A) \in Nat /\ Cardinality(B) \in Nat
  BY <1>2, CountType
<1>6. Pairs(sh) = Q \cup X
  BY DEF Pairs
<1>7. Pairs(new) = Q \cup Y
  BY <1>1 DEF Pairs
<1>8. Q \cap X = {} /\ Q \cap Y = {}
  BY <1>1
<1>9. IsFiniteSet(X) /\ Cardinality(X) = 2 * Cardinality(A1)
  <2> HIDE DEF A1
  <2>1. QED
    BY <1>3, StarCount
<1>10. IsFiniteSet(Y) /\ Cardinality(Y) = 2 * Cardinality(B)
  <2> HIDE DEF B
  <2>1. QED
    BY <1>4, StarCount
<1>11. IsFiniteSet(Q)
  <2>1. Q \in SUBSET Pairs(sh)
    OBVIOUS
  <2> HIDE DEF Q
  <2>2. QED
    BY <2>1, PairCountType, FS_Subset
<1> HIDE DEF A, A1, B, X, Y, Q
<1>12. Cardinality(Y) < Cardinality(X)
  BY <1>2, <1>3, <1>5, <1>9, <1>10
<1>13. Cardinality(Q \cup Y) < Cardinality(Q \cup X)
  BY <1>8, <1>9, <1>10, <1>11, <1>12, SwapCount
<1> HIDE DEF new
<1>14. PairCount(new) < PairCount(sh)
  BY <1>6, <1>7, <1>13 DEF PairCount
<1>15. QED
  BY <1>14 DEF new

Gained(old, sh, g) == ~(Of(sh, g) \subseteq Of(old, g))
Lost(old, sh, g) == ~(Of(old, g) \subseteq Of(sh, g))

\* No group both gets and loses shards; those that lost one are among the
\* largest, those that got one among the smallest, but for one, and none of
\* these is larger than any of those.
Lean(old, sh, groups) ==
    /\ \A g \in groups : ~(Gained(old, sh, g) /\ Lost(old, sh, g))
    /\ \A h \in groups : Lost(old, sh, h) => \A k \in groups : Count(sh, k) <= Count(sh, h) + 1
    /\ \A g \in groups : Gained(old, sh, g) => \A k \in groups : Count(sh, g) <= Count(sh, k) + 1
    /\ \A g, h \in groups : Gained(old, sh, g) /\ Lost(old, sh, h) => Count(sh, g) <= Count(sh, h)

\* It is so when the first loop ends.
LEMMA GrownIsLean ==
    ASSUME NEW old, NEW sh, NEW groups, Grown(old, sh, groups)
    PROVE  Lean(old, sh, groups)
BY DEF Grown, Lean, Gained, Lost

\* m has the most shards and l the fewest.
Extremes(sh, groups, m, l) ==
    \A k \in groups : Count(sh, l) <= Count(sh, k) /\ Count(sh, k) <= Count(sh, m)

\* And each turn of the second loop keeps it so.
LEMMA MoveLean ==
    ASSUME NEW groups, NEW sh \in [Shard -> groups], NEW old, Lean(old, sh, groups),
           NEW x \in Shard, NEW l \in groups,
           Extremes(sh, groups, sh[x], l), Count(sh, sh[x]) >= Count(sh, l) + 2
    PROVE  Lean(old, [sh EXCEPT ![x] = l], groups)
<1> DEFINE m == sh[x]
<1>1. \A k \in groups : Count(sh, l) <= Count(sh, k) /\ Count(sh, k) <= Count(sh, m)
  BY DEF Extremes
<1> DEFINE new == [sh EXCEPT ![x] = l]
<1>2. \A g : Count(sh, g) \in Nat /\ Count(new, g) \in Nat
  BY CountType
<1>3. m # l /\ m \in groups
  BY <1>2
<1>4. new = [sh EXCEPT ![x] = l]
  OBVIOUS
<1> HIDE DEF new
<1>5. /\ Of(new, l) = Of(sh, l) \cup {x} /\ Count(new, l) = Count(sh, l) + 1
      /\ Of(new, m) = Of(sh, m) \ {x} /\ Count(new, m) = Count(sh, m) - 1
      /\ \A g : g # l /\ g # m => Of(new, g) = Of(sh, g) /\ Count(new, g) = Count(sh, g)
  <2>1. Moved(sh, [sh EXCEPT ![x] = l], x, sh[x], l)
    BY <1>3, ChangedGroups
  <2>2. QED
    BY <1>4, <2>1 DEF Moved
<1>6. ~Lost(old, sh, l)
  <2>1. Lost(old, sh, l) => Count(sh, m) <= Count(sh, l) + 1
    BY <1>3 DEF Lean
  <2>2. QED
    BY <1>2, <2>1
<1>7. ~Gained(old, sh, m)
  <2>1. Gained(old, sh, m) => Count(sh, m) <= Count(sh, l) + 1
    BY <1>3 DEF Lean
  <2>2. QED
    BY <1>2, <2>1
<1>8. ~Lost(old, new, l) /\ ~Gained(old, new, m)
  BY <1>5, <1>6, <1>7 DEF Lost, Gained
<1>9. \A g : g # l /\ g # m => /\ Lost(old, new, g) <=> Lost(old, sh, g)
                               /\ Gained(old, new, g) <=> Gained(old, sh, g)
  BY <1>5 DEF Lost, Gained
<1>10. \A g \in groups : ~(Gained(old, new, g) /\ Lost(old, new, g))
  BY <1>8, <1>9 DEF Lean
<1>11. ASSUME NEW h \in groups, Lost(old, new, h), NEW k \in groups
       PROVE  Count(new, k) <= Count(new, h) + 1
  <2>1. /\ k # l => Count(new, k) <= Count(sh, k)
    BY <1>2, <1>5
  <2>2. CASE h = m
    BY <1>1, <1>2, <1>3, <1>5, <2>1, <2>2
  <2>3. CASE h # m
    <3>1. h # l /\ Lost(old, sh, h) /\ Count(new, h) = Count(sh, h)
      BY <1>5, <1>8, <1>9, <1>11, <2>3
    <3>2. Count(sh, k) <= Count(sh, h) + 1 /\ Count(sh, l) <= Count(sh, h)
      BY <1>1, <3>1 DEF Lean
    <3>3. QED
      BY <1>2, <1>5, <2>1, <3>1, <3>2
  <2>4. QED
    BY <2>2, <2>3
<1>12. ASSUME NEW g \in groups, Gained(old, new, g), NEW k \in groups
       PROVE  Count(new, g) <= Count(new, k) + 1
  <2>1. k # m => Count(sh, k) <= Count(new, k)
    BY <1>2, <1>5
  <2>2. CASE g = l
    BY <1>1, <1>2, <1>3, <1>5, <2>1, <2>2
  <2>3. CASE g # l
    <3>1. g # m /\ Gained(old, sh, g) /\ Count(new, g) = Count(sh, g)
      BY <1>5, <1>8, <1>9, <1>12, <2>3
    <3>2. Count(sh, g) <= Count(sh, k) + 1 /\ Count(sh, g) <= Count(sh, m)
      BY <1>1, <3>1 DEF Lean
    <3>3. QED
      BY <1>2, <1>5, <2>1, <3>1, <3>2
  <2>4. QED
    BY <2>2, <2>3
<1>13. ASSUME NEW g \in groups, NEW h \in groups, Gained(old, new, g), Lost(old, new, h)
       PROVE  Count(new, g) <= Count(new, h)
  <2>1. g # m /\ h # l
    BY <1>8, <1>13
  <2>2. h # m => Lost(old, sh, h) /\ Count(new, h) = Count(sh, h) /\ Count(sh, m) <= Count(sh, h) + 1
    <3>1. h # m => Lost(old, sh, h) /\ Count(new, h) = Count(sh, h)
      BY <1>5, <1>9, <1>13, <2>1
    <3>2. QED
      BY <1>3, <3>1 DEF Lean
  <2>3. g # l => Gained(old, sh, g) /\ Count(new, g) = Count(sh, g) /\ Count(sh, g) <= Count(sh, l) + 1
    <3>1. g # l => Gained(old, sh, g) /\ Count(new, g) = Count(sh, g)
      BY <1>5, <1>9, <1>13, <2>1
    <3>2. QED
      BY <1>3, <3>1 DEF Lean
  <2>4. CASE g = l /\ h = m
    BY <1>2, <1>5, <2>4
  <2>5. CASE g = l /\ h # m
    BY <1>2, <1>5, <2>2, <2>5
  <2>6. CASE g # l /\ h = m
    BY <1>2, <1>5, <2>3, <2>6
  <2>7. CASE g # l /\ h # m
    <3>1. Count(sh, g) <= Count(sh, h)
      BY <2>2, <2>3, <2>7 DEF Lean
    <3>2. QED
      BY <2>2, <2>3, <2>7, <3>1
  <2>8. QED
    BY <2>4, <2>5, <2>6, <2>7
<1>14. Lean(old, new, groups)
  BY <1>10, <1>11, <1>12, <1>13 DEF Lean
<1>15. QED
  BY <1>14 DEF new

\* One turn of the second loop: it keeps every shard in a group, and when the
\* loop has not ended it leaves fewer pairs.
LEMMA MoveOneLemma ==
    ASSUME NEW groups \in SUBSET Gid, groups # {}, NEW sh \in [Shard -> groups],
           ~Level(sh, groups)
    PROVE  /\ MoveOne(sh, groups) \in [Shard -> groups]
           /\ PairCount(MoveOne(sh, groups)) < PairCount(sh)
           /\ \A old : Lean(old, sh, groups) => Lean(old, MoveOne(sh, groups), groups)
<1> DEFINE mg == MostLoaded(sh, groups)
           lg == LeastLoaded(sh, groups)
           U == {s \in Shard : sh[s] = mg}
           First(s) == s \in Shard /\ sh[s] = mg /\ \A t \in Shard : sh[t] = mg => s <= t
           x == CHOOSE s \in Shard : sh[s] = mg /\ \A t \in Shard : sh[t] = mg => s <= t
<1>1. lg \in groups /\ Extremes(sh, groups, mg, lg)
  BY LeastLoadedLemma, MostLoadedLemma DEF Extremes
<1>2. Count(sh, mg) \in Nat /\ Count(sh, lg) \in Nat
  BY CountType
<1>3. Count(sh, mg) >= Count(sh, lg) + 2
  BY <1>2 DEF Level
<1>4. U # {}
  <2>1. Cardinality(U) = Count(sh, mg)
    BY DEF Count
  <2>2. Cardinality({}) = 0
    BY FS_EmptySet
  <2> HIDE DEF U, mg, lg
  <2>3. Cardinality(U) # 0
    BY <1>2, <1>3, <2>1
  <2>4. QED
    BY <2>2, <2>3
<1>5. PICK s \in U : \A t \in U : s <= t
  <2>1. U \in SUBSET Nat
    BY DEF Shard
  <2> HIDE DEF U
  <2>2. QED
    BY <1>4, <2>1, Least
<1>6. x \in Shard /\ sh[x] = mg
  <2>1. s \in Shard /\ sh[s] = mg /\ \A t \in Shard : sh[t] = mg => s <= t
    BY <1>5
  <2> HIDE DEF mg
  <2>2. QED
    BY <2>1
<1>7. MoveOne(sh, groups) = [sh EXCEPT ![x] = lg]
  BY DEF MoveOne
<1> HIDE DEF x, mg, lg
<1>8. ASSUME NEW old, Lean(old, sh, groups) PROVE Lean(old, MoveOne(sh, groups), groups)
  <2>1. Extremes(sh, groups, sh[x], lg) /\ Count(sh, sh[x]) >= Count(sh, lg) + 2
    BY <1>1, <1>3, <1>6
  <2>2. Lean(old, [sh EXCEPT ![x] = lg], groups)
    BY <1>1, <1>6, <1>8, <2>1, MoveLean
  <2>3. QED
    BY <1>7, <2>2
<1>9. MoveOne(sh, groups) \in [Shard -> groups] /\ PairCount(MoveOne(sh, groups)) < PairCount(sh)
  BY <1>1, <1>3, <1>6, <1>7, MoveLowers
<1>10. QED
  BY <1>8, <1>9

\* The second loop ends, and only when the groups are level.
LEMMA MoveAllLemma ==
    ASSUME NEW groups \in SUBSET Gid, groups # {}, NEW sh \in [Shard -> groups],
           NEW old, Lean(old, sh, groups)
    PROVE  /\ MoveAll(sh, groups) \in [Shard -> groups] /\ Level(MoveAll(sh, groups), groups)
           /\ Lean(old, MoveAll(sh, groups), groups)
<1> DEFINE D == [Shard -> groups]
           I == {y \in D : Lean(old, y, groups)}
           Done == {y \in D : Level(y, groups)}
           G == [y \in D |-> IF y \in Done THEN y ELSE MoveOne(y, groups)]
           N == Cardinality(Shard \X Shard)
           mu == [y \in D |-> PairCount(y)]
           Eq(f) == f = [y \in D |-> IF Level(y, groups) THEN y ELSE f[MoveOne(y, groups)]]
           move == CHOOSE f : Eq(f)
<1>1. MoveAll(sh, groups) = move[sh]
  BY DEF MoveAll
<1>2. ASSUME NEW y \in D PROVE y \notin Done => MoveOne(y, groups) \in D
                                                /\ PairCount(MoveOne(y, groups)) < PairCount(y)
  BY MoveOneLemma
<1>3. ASSUME NEW y \in I, y \notin Done PROVE MoveOne(y, groups) \in I
  BY <1>3, MoveOneLemma
<1>4. Done \in SUBSET D /\ G \in [D -> D]
  <2> HIDE DEF D
  <2>1. QED
    BY <1>2
<1>5. N \in Nat /\ mu \in [D -> 0..N]
  <2>1. ASSUME NEW y \in D PROVE PairCount(y) \in 0..N
    <3>1. PairCount(y) \in Nat /\ PairCount(y) <= N /\ N \in Nat
      BY PairCountType
    <3> HIDE DEF N
    <3>2. QED
      BY <3>1
  <2>2. N \in Nat
    BY PairCountType
  <2> HIDE DEF D, N
  <2>3. QED
    BY <2>1, <2>2
<1>6. \A y \in D \ Done : mu[G[y]] < mu[y]
  <2> HIDE DEF D
  <2>1. QED
    BY <1>2
<1>7. ASSUME NEW f
      PROVE  Eq(f) <=> IsLoop(f, D, Done, G)
  <2> HIDE DEF D
  <2>1. \A y \in D : (IF Level(y, groups) THEN y ELSE f[MoveOne(y, groups)])
                       = (IF y \in Done THEN y ELSE f[G[y]])
    OBVIOUS
  <2> HIDE DEF Done, G
  <2>2. QED
    BY <2>1 DEF IsLoop
<1>8. I \in SUBSET D /\ \A y \in I \ Done : G[y] \in I
  <2> HIDE DEF D
  <2>1. ASSUME NEW y \in I, y \notin Done PROVE G[y] \in I
    BY <1>3, <2>1
  <2>2. QED
    BY <2>1
<1>9. sh \in I
  OBVIOUS
<1> HIDE DEF D, Done, G, mu, N, Eq, I
<1>10. \E f : IsLoop(f, D, Done, G)
  BY <1>4, <1>5, <1>6, LoopExists
<1>11. Eq(move)
  BY <1>7, <1>10
<1>12. IsLoop(move, D, Done, G)
  BY <1>7, <1>11
<1> HIDE DEF move
<1>13. \A y \in I : move[y] \in Done \cap I
  BY <1>4, <1>5, <1>6, <1>12, <1>8, LoopResult
<1>14. move[sh] \in Done /\ move[sh] \in I
  BY <1>13, <1>9
<1>15. QED
  BY <1>1, <1>14 DEF D, Done, I

-----------------------------------------------------------------------------
(* Rebalance.                                                              *)

\* What CheckConfig asks of shards and groups.
Good(sh, groups) ==
    groups # {} => /\ \A s \in Shard : sh[s] \in groups
                   /\ \A g, h \in groups : Count(sh, g) <= Count(sh, h) + 1

\* Whatever distribution it starts from, Rebalance ends, with one that
\* CheckConfig accepts, and no group has both got and lost a shard:
\* shardcfg.go:120-154.
THEOREM RebalanceIsGood ==
    ASSUME NEW groups \in SUBSET Gid, NEW sh \in [Shard -> Gid \cup {0}]
    PROVE  /\ Rebalance(sh, groups) \in [Shard -> Gid \cup {0}]
           /\ Good(Rebalance(sh, groups), groups)
           /\ groups # {} => Lean(sh, Rebalance(sh, groups), groups)
<1>1. CASE groups = {}
  BY <1>1 DEF Rebalance, Good
<1>2. CASE groups # {}
  <2> DEFINE new == Rebalance(sh, groups)
             mg == MostLoaded(new, groups)
             lg == LeastLoaded(new, groups)
  <2>1. AssignAll(sh, groups) \in [Shard -> groups] /\ Lean(sh, AssignAll(sh, groups), groups)
    BY <1>2, AssignAllLemma, GrownIsLean
  <2>2. new \in [Shard -> groups] /\ Level(new, groups) /\ Lean(sh, new, groups)
    BY <1>2, <2>1, MoveAllLemma DEF Rebalance
  <2> HIDE DEF new
  <2>3. Count(new, mg) < Count(new, lg) + 2
    BY <2>2 DEF Level
  <2>4. ASSUME NEW g \in groups, NEW h \in groups
        PROVE  Count(new, g) <= Count(new, h) + 1
    <3>1. Count(new, g) <= Count(new, mg)
      BY <1>2, MostLoadedLemma
    <3>2. Count(new, lg) <= Count(new, h)
      BY <1>2, LeastLoadedLemma
    <3>3. /\ Count(new, g) \in Nat /\ Count(new, h) \in Nat
          /\ Count(new, mg) \in Nat /\ Count(new, lg) \in Nat
      BY CountType
    <3> HIDE DEF mg, lg
    <3>4. QED
      BY <2>3, <3>1, <3>2, <3>3
  <2>5. new \in [Shard -> Gid \cup {0}] /\ Good(new, groups)
    BY <2>2, <2>4 DEF Good
  <2>6. QED
    BY <2>2, <2>5 DEF new
<1>3. QED
  BY <1>1, <1>2

-----------------------------------------------------------------------------
(* Rebalance moves as few shards as possible.                              *)

\* How many shards the groups have.
Load(sh, groups) == [g \in groups |-> Count(sh, g)]

\* How many a group keeps, if it is to have q[g].
Keep(q, sh, groups) == [g \in groups |-> Min({q[g], Count(sh, g)})]

\* The sets that these count.
LEMMA OfType ==
    ASSUME NEW sh, NEW g
    PROVE  /\ Of(sh, g) \in SUBSET Shard /\ IsFiniteSet(Of(sh, g))
           /\ Count(sh, g) = Cardinality(Of(sh, g)) /\ Count(sh, g) \in Nat
BY CountType DEF Of, Count

\* Kept is a sum.
LEMMA KeptIsSum ==
    ASSUME NEW S, IsFiniteSet(S), NEW q \in [S -> Nat], NEW h \in [S -> Nat],
           \A g \in S : h[g] = Min({q[g], Count(Shards, g)})
    PROVE  \E f : IsSum(f, h, S) /\ f[S] = Kept(q)
<1> DEFINE Eq(f) == f = [s \in SUBSET S |->
                           IF s = {} THEN 0
                           ELSE Min({q[AnyOf(s)], Count(Shards, AnyOf(s))}) + f[s \ {AnyOf(s)}]]
           f == CHOOSE f : Eq(f)
<1>1. Kept(q) = f[S]
  <2>1. DOMAIN q = S
    OBVIOUS
  <2>2. QED
    BY <2>1 DEF Kept, MapThenSumSet, MapThenFoldSet, AnyOf
<1>2. ASSUME NEW e PROVE Eq(e) <=> IsSum(e, h, S)
  <2>1. ASSUME NEW s \in SUBSET S
        PROVE  (IF s = {} THEN 0
                ELSE Min({q[AnyOf(s)], Count(Shards, AnyOf(s))}) + e[s \ {AnyOf(s)}])
               = (IF s = {} THEN 0 ELSE h[AnyOf(s)] + e[s \ {AnyOf(s)}])
    <3>1. s # {} => h[AnyOf(s)] = Min({q[AnyOf(s)], Count(Shards, AnyOf(s))})
      BY AnyOfLemma
    <3>2. QED
      BY <3>1
  <2>2. [s \in SUBSET S |->
                IF s = {} THEN 0
                ELSE Min({q[AnyOf(s)], Count(Shards, AnyOf(s))}) + e[s \ {AnyOf(s)}]]
        = [s \in SUBSET S |-> IF s = {} THEN 0 ELSE h[AnyOf(s)] + e[s \ {AnyOf(s)}]]
    BY <2>1
  <2>3. QED
    BY <2>2 DEF IsSum
<1>3. \E e : IsSum(e, h, S)
  BY SumExists
<1> HIDE DEF Eq
<1>4. Eq(f)
  BY <1>2, <1>3
<1>5. IsSum(f, h, S)
  BY <1>2, <1>4
<1>6. QED
  BY <1>1, <1>5

\* The groups have all the shards between them.
LEMMA LoadSum ==
    ASSUME NEW groups, IsFiniteSet(groups), NEW new \in [Shard -> groups]
    PROVE  \E F : IsSum(F, Load(new, groups), groups) /\ F[groups] = NShards
                  /\ F[groups] = MapThenSumSet(LAMBDA g : Load(new, groups)[g], groups)
<1> DEFINE f == Load(new, groups)
           P == [g \in groups |-> Of(new, g)]
<1>1. f \in [groups -> Nat] /\ \A g \in groups : f[g] = Cardinality(P[g])
  BY OfType DEF Load
<1>2. P \in [groups -> SUBSET Shard] /\ \A g, h \in groups : g # h => P[g] \cap P[h] = {}
  BY DEF Of
<1>3. UNION {P[g] : g \in groups} = Shard
  BY DEF Of
<1> HIDE DEF f, P
<1>4. PICK F : IsSum(F, f, groups) /\ F[groups] = MapThenSumSet(LAMBDA g : f[g], groups)
  BY <1>1, SumOfFunction
<1>5. F[groups] = Cardinality(UNION {P[g] : g \in groups})
  BY <1>1, <1>2, <1>4, ShardFinite, SumOfSizes
<1>6. F[groups] = NShards
  BY <1>3, <1>5, ShardFinite
<1>7. QED
  BY <1>4, <1>6 DEF f

\* The shards that stay are as many as the groups keep.
LEMMA KeptSum ==
    ASSUME NEW groups, IsFiniteSet(groups), NEW new \in [Shard -> groups],
           Lean(Shards, new, groups)
    PROVE  Kept(Load(new, groups)) = Cardinality({s \in Shard : new[s] = Shards[s]})
<1> DEFINE f == Load(new, groups)
           k == Keep(f, Shards, groups)
           P == [g \in groups |-> Of(new, g) \cap Of(Shards, g)]
<1>1. f \in [groups -> Nat]
  BY OfType DEF Load
<1>2. ASSUME NEW g \in groups
      PROVE  Min({f[g], Count(Shards, g)}) = Cardinality(P[g]) /\ Cardinality(P[g]) \in Nat
  <2> DEFINE A == Of(new, g)
             B == Of(Shards, g)
  <2>1. /\ IsFiniteSet(A) /\ Count(new, g) = Cardinality(A) /\ Cardinality(A) \in Nat
        /\ IsFiniteSet(B) /\ Count(Shards, g) = Cardinality(B) /\ Cardinality(B) \in Nat
    BY OfType
  <2>2. f[g] = Count(new, g) /\ P[g] = A \cap B
    BY DEF Load
  <2>3. A \subseteq B \/ B \subseteq A
    BY DEF Lean, Gained, Lost
  <2> HIDE DEF A, B, f, P
  <2>4. Min({f[g], Count(Shards, g)}) = IF Cardinality(A) <= Cardinality(B) THEN Cardinality(A) ELSE Cardinality(B)
    BY <2>1, <2>2, MinOfTwo
  <2>5. CASE A \subseteq B
    <3>1. A \cap B = A /\ Cardinality(A) <= Cardinality(B)
      BY <2>1, <2>5, FS_Subset
    <3>2. QED
      BY <2>1, <2>2, <2>4, <3>1
  <2>6. CASE B \subseteq A
    <3>1. A \cap B = B /\ Cardinality(B) <= Cardinality(A)
      BY <2>1, <2>6, FS_Subset
    <3>2. QED
      BY <2>1, <2>2, <2>4, <3>1
  <2>7. QED
    BY <2>3, <2>5, <2>6
<1>3. P \in [groups -> SUBSET Shard] /\ \A g, h \in groups : g # h => P[g] \cap P[h] = {}
  BY DEF Of
<1>4. UNION {P[g] : g \in groups} = {s \in Shard : new[s] = Shards[s]}
  BY DEF Of
<1> HIDE DEF f, P
<1>5. /\ k \in [groups -> Nat] /\ \A g \in groups : k[g] = Min({f[g], Count(Shards, g)})
      /\ \A g \in groups : k[g] = Cardinality(P[g])
  BY <1>2 DEF Keep
<1> HIDE DEF k
<1>6. PICK K : IsSum(K, k, groups) /\ K[groups] = Kept(f)
  BY <1>1, <1>5, KeptIsSum
<1>7. K[groups] = Cardinality(UNION {P[g] : g \in groups})
  BY <1>3, <1>5, <1>6, ShardFinite, SumOfSizes
<1>8. QED
  BY <1>4, <1>6, <1>7 DEF f

\* An even distribution gives every group the quotient, or one more.
LEMMA LoadIsQuota ==
    ASSUME NEW groups, IsFiniteSet(groups), groups # {}, NEW new \in [Shard -> groups],
           Good(new, groups)
    PROVE  Load(new, groups) \in Quotas(groups)
<1> DEFINE f == Load(new, groups)
           n == Cardinality(groups)
<1>1. f \in [groups -> Nat] /\ \A g \in groups : f[g] = Count(new, g) /\ f[g] \in Nat
  BY OfType DEF Load
<1>2. PICK g0 \in groups : \A g \in groups : f[g0] <= f[g]
  <2> DEFINE T == {f[g] : g \in groups}
  <2> HIDE DEF f
  <2>1. T \in SUBSET Nat /\ T # {}
    BY <1>1
  <2>2. PICK t \in T : \A u \in T : t <= u
    <3> HIDE DEF T
    <3>1. QED
      BY <2>1, Least
  <2>3. PICK g \in groups : t = f[g]
    BY <2>2
  <2>4. \A h \in groups : f[h] \in T
    OBVIOUS
  <2>5. QED
    BY <2>2, <2>3, <2>4
<1> DEFINE m == f[g0]
<1>3. m \in Nat /\ \A g \in groups : m <= f[g] /\ f[g] <= m + 1
  <2>1. \A g \in groups : Count(new, g) <= Count(new, g0) + 1
    BY DEF Good
  <2> HIDE DEF f
  <2>2. QED
    BY <1>1, <1>2, <2>1
<1>4. n \in Nat /\ n > 0
  <2>1. n \in Nat /\ n # 0
    BY FS_CardinalityType, FS_EmptySet
  <2>2. QED
    BY <2>1
<1>5. PICK F : IsSum(F, f, groups) /\ F[groups] = NShards
                  /\ F[groups] = MapThenSumSet(LAMBDA g : Load(new, groups)[g], groups)
  BY LoadSum
<1> HIDE DEF f, n, m
<1> DEFINE low == [g \in groups |-> m]
           high == [g \in groups |-> m + 1]
           one == [g \in groups |-> IF g = g0 THEN 1 ELSE 0]
           zero == [g \in groups |-> 0]
           P == [g \in groups |-> IF g = g0 THEN {g0} ELSE {}]
<1>6. /\ low \in [groups -> Nat] /\ high \in [groups -> Nat]
      /\ one \in [groups -> Nat] /\ zero \in [groups -> Nat]
  BY <1>3
<1>7. PICK Z : IsSum(Z, zero, groups)
  BY <1>6, SumExists
<1>8. PICK L : IsSum(L, low, groups)
  BY <1>6, SumExists
<1>9. PICK H : IsSum(H, high, groups)
  BY <1>6, SumExists
<1>10. PICK O : IsSum(O, one, groups)
  BY <1>6, SumExists
<1>11. L[groups] = m * n
  <2>1. \A g \in groups : low[g] = m
    OBVIOUS
  <2> HIDE DEF low
  <2>2. QED
    BY <1>3, <1>6, <1>8, <2>1, SumOfConstant DEF n
<1>12. H[groups] = (m + 1) * n
  <2>1. (\A g \in groups : high[g] = m + 1) /\ m + 1 \in Nat
    BY <1>3
  <2> HIDE DEF high
  <2>2. QED
    BY <1>6, <1>9, <2>1, SumOfConstant DEF n
<1>13. O[groups] = 1
  <2>1. P \in [groups -> SUBSET groups] /\ \A g, h \in groups : g # h => P[g] \cap P[h] = {}
    OBVIOUS
  <2>2. \A g \in groups : one[g] = Cardinality(P[g])
    BY FS_EmptySet, FS_Singleton
  <2>3. UNION {P[g] : g \in groups} = {g0}
    OBVIOUS
  <2> HIDE DEF P, one
  <2>4. O[groups] = Cardinality(UNION {P[g] : g \in groups})
    BY <1>6, <1>10, <2>1, <2>2, SumOfSizes
  <2>5. QED
    BY <2>3, <2>4, FS_Singleton
<1>14. L[groups] + O[groups] <= F[groups] + O[groups]
  <2>1. \A g \in groups : low[g] + one[g] <= f[g] + one[g]
    BY <1>1, <1>3
  <2> HIDE DEF low, one
  <2>2. QED
    BY <1>1, <1>5, <1>6, <1>8, <1>10, <2>1, SumCompare
<1>15. F[groups] + O[groups] <= H[groups] + Z[groups]
  <2>1. \A g \in groups : f[g] + one[g] <= high[g] + zero[g]
    <3>1. ASSUME NEW g \in groups PROVE f[g] + one[g] <= high[g] + zero[g]
      <4>1. f[g0] = m
        BY DEF m
      <4>2. QED
        BY <1>1, <1>3, <4>1
    <3>2. QED
      BY <3>1
  <2> HIDE DEF one, high, zero
  <2>2. QED
    BY <1>1, <1>5, <1>6, <1>9, <1>10, <1>7, <2>1, SumCompare
<1>16. Z[groups] = 0
  <2>1. \A g \in groups : zero[g] = 0
    OBVIOUS
  <2> HIDE DEF zero
  <2>2. Z[groups] = 0 * n
    BY <1>6, <1>7, <2>1, SumOfConstant DEF n
  <2>3. QED
    BY <1>4, <2>2
<1>17. m * n <= NShards /\ NShards < (m + 1) * n
  <2> DEFINE a == m * n
             b == (m + 1) * n
  <2>1. a \in Nat /\ b \in Nat
    BY <1>3, <1>4
  <2>2. L[groups] = a /\ H[groups] = b
    BY <1>11, <1>12
  <2> HIDE DEF a, b
  <2>3. a <= NShards /\ NShards < b
    BY <1>5, <1>13, <1>14, <1>15, <1>16, <2>1, <2>2, ShardFinite
  <2>4. QED
    BY <2>3 DEF a, b
<1>18. NShards \div n = m
  BY <1>3, <1>4, <1>17, ShardFinite, QuotientIs
<1>19. \A g \in groups : f[g] \in {m, m + 1}
  BY <1>1, <1>3
<1>20. f \in [groups -> {m, m + 1}]
  BY <1>1, <1>19
<1>21. MapThenSumSet(LAMBDA g : f[g], groups) = NShards
  BY <1>5 DEF f
<1>22. QED
  BY <1>18, <1>20, <1>21 DEF Quotas, n, f

\* Either no group that is one above the quotient got there by the change, or
\* none that is at the quotient had more: the two would trade a shard.
LEMMA NoTrade ==
    ASSUME NEW groups, NEW new, Lean(Shards, new, groups), NEW low \in Nat
    PROVE  \/ \A g \in groups : Count(new, g) = low + 1 => Count(Shards, g) >= low + 1
           \/ \A h \in groups : Count(new, h) = low => Count(Shards, h) <= low
<1> SUFFICES ASSUME NEW g \in groups, Count(new, g) = low + 1, ~(Count(Shards, g) >= low + 1),
                    NEW h \in groups, Count(new, h) = low, ~(Count(Shards, h) <= low)
             PROVE  FALSE
  OBVIOUS
<1>1. Gained(Shards, new, g)
  <2>1. Of(new, g) \subseteq Of(Shards, g) => Count(new, g) <= Count(Shards, g)
    BY OfType, FS_Subset
  <2>2. Count(Shards, g) \in Nat
    BY OfType
  <2>3. QED
    BY <2>1, <2>2 DEF Gained
<1>2. Lost(Shards, new, h)
  <2>1. Of(Shards, h) \subseteq Of(new, h) => Count(Shards, h) <= Count(new, h)
    BY OfType, FS_Subset
  <2>2. Count(Shards, h) \in Nat
    BY OfType
  <2>3. QED
    BY <2>1, <2>2 DEF Lost
<1>3. Count(new, g) <= Count(new, h)
  BY <1>1, <1>2 DEF Lean
<1>4. QED
  BY <1>3

\* What one group keeps then.
LEMMA KeepsLess ==
    ASSUME NEW low \in Nat, NEW c \in Nat, NEW f \in Nat, NEW q \in Nat, NEW kf, NEW kq,
           f = low \/ f = low + 1, q = low \/ q = low + 1,
           kf = IF f <= c THEN f ELSE c, kq = IF q <= c THEN q ELSE c
    PROVE  /\ (f = low + 1 => c >= low + 1) => kq + f <= kf + q
           /\ (f = low => c <= low) => kq + f <= kf + f
<1>1. CASE f = low /\ q = low
  BY <1>1
<1>2. CASE f = low /\ q = low + 1
  BY <1>2
<1>3. CASE f = low + 1 /\ q = low
  BY <1>3
<1>4. CASE f = low + 1 /\ q = low + 1
  BY <1>4
<1>5. QED
  BY <1>1, <1>2, <1>3, <1>4

\* No even distribution keeps more.
LEMMA KeepsMost ==
    ASSUME NEW groups, IsFiniteSet(groups), groups # {}, NEW new \in [Shard -> groups],
           Good(new, groups), Lean(Shards, new, groups), NEW q \in Quotas(groups)
    PROVE  /\ Kept(q) \in Nat /\ Kept(Load(new, groups)) \in Nat
           /\ Kept(q) <= Kept(Load(new, groups))
<1> DEFINE f == Load(new, groups)
           low == NShards \div Cardinality(groups)
           kf == Keep(f, Shards, groups)
           kq == Keep(q, Shards, groups)
<1>1. low \in Nat
  <2>1. Cardinality(groups) \in Nat /\ Cardinality(groups) # 0
    BY FS_CardinalityType, FS_EmptySet
  <2>2. QED
    BY <2>1, ShardFinite
<1>2. f \in Quotas(groups)
  BY LoadIsQuota
<1>3. q \in [groups -> {low, low + 1}] /\ MapThenSumSet(LAMBDA g : q[g], groups) = NShards
  BY DEF Quotas
<1>4. f \in [groups -> {low, low + 1}] /\ \A g \in groups : f[g] = Count(new, g)
  <2>1. f \in [groups -> {low, low + 1}]
    <3> HIDE DEF f
    <3>1. QED
      BY <1>2 DEF Quotas
  <2>2. QED
    BY <2>1 DEF Load
<1> HIDE DEF f, low
<1>5. q \in [groups -> Nat] /\ f \in [groups -> Nat]
  BY <1>1, <1>3, <1>4
<1>6. ASSUME NEW g \in groups
      PROVE  /\ kf[g] = Min({f[g], Count(Shards, g)}) /\ kq[g] = Min({q[g], Count(Shards, g)})
             /\ kf[g] = IF f[g] <= Count(Shards, g) THEN f[g] ELSE Count(Shards, g)
             /\ kq[g] = IF q[g] <= Count(Shards, g) THEN q[g] ELSE Count(Shards, g)
             /\ Count(Shards, g) \in Nat /\ f[g] \in Nat /\ q[g] \in Nat
  <2>1. Count(Shards, g) \in Nat /\ f[g] \in Nat /\ q[g] \in Nat
    BY <1>5, OfType
  <2>2. QED
    BY <2>1, MinOfTwo DEF Keep
<1>7. kf \in [groups -> Nat] /\ kq \in [groups -> Nat]
  <2>1. kf = [g \in groups |-> kf[g]] /\ kq = [g \in groups |-> kq[g]]
    BY DEF Keep
  <2> HIDE DEF kf, kq
  <2>2. \A g \in groups : kf[g] \in Nat /\ kq[g] \in Nat
    BY <1>6
  <2>3. QED
    BY <2>1, <2>2
<1> HIDE DEF kf, kq
<1>8. PICK KF : IsSum(KF, kf, groups) /\ KF[groups] = Kept(f)
  BY <1>5, <1>6, <1>7, KeptIsSum
<1>9. PICK KQ : IsSum(KQ, kq, groups) /\ KQ[groups] = Kept(q)
  BY <1>5, <1>6, <1>7, KeptIsSum
<1>10. PICK F : IsSum(F, f, groups) /\ F[groups] = NShards
  <2>1. PICK F : IsSum(F, Load(new, groups), groups) /\ F[groups] = NShards
                 /\ F[groups] = MapThenSumSet(LAMBDA g : Load(new, groups)[g], groups)
    BY LoadSum
  <2>2. QED
    BY <2>1 DEF f
<1>11. PICK Q : IsSum(Q, q, groups) /\ Q[groups] = NShards
  <2>1. PICK Q : IsSum(Q, q, groups) /\ Q[groups] = MapThenSumSet(LAMBDA g : q[g], groups)
    BY <1>5, SumOfFunction
  <2>2. QED
    BY <1>3, <2>1
<1>12. KF[groups] \in Nat /\ KQ[groups] \in Nat
  BY <1>7, <1>8, <1>9, SumType
<1>13. CASE \A g \in groups : Count(new, g) = low + 1 => Count(Shards, g) >= low + 1
  <2>1. \A g \in groups : kq[g] + f[g] <= kf[g] + q[g]
    <3>1. ASSUME NEW g \in groups PROVE kq[g] + f[g] <= kf[g] + q[g]
      <4>1. (f[g] = low \/ f[g] = low + 1) /\ (q[g] = low \/ q[g] = low + 1)
        BY <1>3, <1>4
      <4>2. f[g] = low + 1 => Count(Shards, g) >= low + 1
        BY <1>4, <1>13
      <4>3. QED
        <5>1. /\ kf[g] = IF f[g] <= Count(Shards, g) THEN f[g] ELSE Count(Shards, g)
              /\ kq[g] = IF q[g] <= Count(Shards, g) THEN q[g] ELSE Count(Shards, g)
              /\ Count(Shards, g) \in Nat /\ f[g] \in Nat /\ q[g] \in Nat
          BY <1>6
        <5>2. QED
          BY <1>1, <4>1, <4>2, <5>1, KeepsLess
    <3>2. QED
      BY <3>1
  <2>2. KQ[groups] + F[groups] <= KF[groups] + Q[groups]
    BY <1>5, <1>7, <1>8, <1>9, <1>10, <1>11, <2>1, SumCompare
  <2>3. QED
    BY <1>8, <1>9, <1>10, <1>11, <1>12, <2>2, ShardFinite DEF f
<1>14. CASE \A h \in groups : Count(new, h) = low => Count(Shards, h) <= low
  <2>1. \A g \in groups : kq[g] + f[g] <= kf[g] + f[g]
    <3>1. ASSUME NEW g \in groups PROVE kq[g] + f[g] <= kf[g] + f[g]
      <4>1. (f[g] = low \/ f[g] = low + 1) /\ (q[g] = low \/ q[g] = low + 1)
        BY <1>3, <1>4
      <4>2. f[g] = low => Count(Shards, g) <= low
        BY <1>4, <1>14
      <4>3. QED
        <5>1. /\ kf[g] = IF f[g] <= Count(Shards, g) THEN f[g] ELSE Count(Shards, g)
              /\ kq[g] = IF q[g] <= Count(Shards, g) THEN q[g] ELSE Count(Shards, g)
              /\ Count(Shards, g) \in Nat /\ f[g] \in Nat /\ q[g] \in Nat
          BY <1>6
        <5>2. QED
          BY <1>1, <4>1, <4>2, <5>1, KeepsLess
    <3>2. QED
      BY <3>1
  <2>2. KQ[groups] + F[groups] <= KF[groups] + F[groups]
    BY <1>5, <1>7, <1>8, <1>9, <1>10, <2>1, SumCompare
  <2>3. QED
    BY <1>8, <1>9, <1>10, <1>12, <2>2, ShardFinite DEF f
<1>15. QED
  BY <1>1, <1>13, <1>14, NoTrade

\* An even and lean distribution keeps as many shards as any.
LEMMA LeanIsBest ==
    ASSUME NEW groups, IsFiniteSet(groups), groups # {}, NEW new \in [Shard -> groups],
           Good(new, groups), Lean(Shards, new, groups)
    PROVE  Cardinality({s \in Shard : new[s] = Shards[s]})
             = Max({Kept(q) : q \in Quotas(groups)})
<1> DEFINE k == Kept(Load(new, groups))
           T == {Kept(q) : q \in Quotas(groups)}
           P(x) == \A y \in T : x >= y
<1>1. k \in T
  BY LoadIsQuota
<1>2. T \in SUBSET Nat /\ \A y \in T : y <= k
  BY KeepsMost
<1>3. k = Cardinality({s \in Shard : new[s] = Shards[s]})
  BY KeptSum
<1> HIDE DEF k, T
<1>4. k \in Nat /\ P(k)
  BY <1>1, <1>2
<1>5. \A x \in T : P(x) => x = k
  BY <1>1, <1>2
<1>6. Max(T) = CHOOSE x \in T : P(x)
  BY DEF Max
<1>7. Max(T) = k
  <2> HIDE DEF P
  <2>1. QED
    BY <1>1, <1>4, <1>5, <1>6
<1>8. QED
  BY <1>3, <1>7 DEF T

-----------------------------------------------------------------------------
(* What Join and Leave make of the groups.                                 *)

Disjoint(groups) == \A g, h \in DOMAIN groups : g # h => groups[g] \cap groups[h] = {}

GroupsOK(groups) ==
    IsFiniteSet(DOMAIN groups) /\ \E S \in SUBSET Gid : groups \in [S -> ServerList]

\* An order of the elements of a finite set has them all.
LEMMA OrderHasAll ==
    ASSUME NEW S, IsFiniteSet(S), NEW order \in SetToSeqs(S)
    PROVE  \A g \in S : \E n \in 1..Cardinality(S) : order[n] = g
<1> DEFINE I == 1..Cardinality(S)
<1>1. Cardinality(S) \in Nat
  BY FS_CardinalityType
<1>2. Cardinality(I) = Cardinality(S)
  <2>1. Cardinality(I) = IF 1 > Cardinality(S) THEN 0 ELSE Cardinality(S) - 1 + 1
    BY <1>1, FS_Interval
  <2>2. QED
    BY <1>1, <2>1
<1>3. order \in [I -> S] /\ \A i, j \in I : i # j => order[i] # order[j]
  BY DEF SetToSeqs
<1> HIDE DEF I
<1>4. order \in Injection(I, S)
  BY <1>3 DEF Injection, IsInjective
<1>5. order \in Surjection(I, S)
  BY <1>2, <1>4, FS_Injection
<1>6. \A g \in S : \E n \in I : order[n] = g
  BY <1>5 DEF Surjection
<1>7. QED
  BY <1>6 DEF I

\* Groups that Join has added share no server with another group.
LEMMA AddLemma ==
    ASSUME GroupsOK(Groups), Disjoint(Groups),
           NEW G \in SUBSET Gid, NEW joining \in [G -> ServerList],
           NEW S \in SUBSET (G \ DOMAIN Groups), IsFiniteSet(S), CanAdd(joining, S)
    PROVE  GroupsOK(With(Groups, joining, S)) /\ Disjoint(With(Groups, joining, S))
<1> DEFINE W == With(Groups, joining, S)
           D == DOMAIN Groups \cup S
<1>1. PICK S0 \in SUBSET Gid : Groups \in [S0 -> ServerList]
  BY DEF GroupsOK
<1>2. W \in [D -> ServerList] /\ D \in SUBSET Gid
  BY <1>1 DEF With
<1>3. GroupsOK(W)
  <2>1. IsFiniteSet(D)
    BY FS_Union DEF GroupsOK
  <2> HIDE DEF W, D
  <2>2. QED
    BY <1>2, <2>1 DEF GroupsOK
<1>4. \A g \in DOMAIN Groups : W[g] = Groups[g]
  BY DEF With
<1>5. \A g \in S : W[g] = joining[g]
  BY DEF With
<1>6. PICK order \in SetToSeqs(S) : \A n \in 1..Cardinality(S) :
          ~Conflicts(order[n], joining, {order[m] : m \in 1 .. n - 1})
  BY DEF CanAdd
<1>7. Cardinality(S) \in Nat /\ order \in [1..Cardinality(S) -> S]
  BY FS_CardinalityType DEF SetToSeqs
<1>8. ASSUME NEW n \in 1..Cardinality(S), NEW h \in DOMAIN Groups
      PROVE  Groups[h] \cap joining[order[n]] = {}
  <2> DEFINE P == {order[m] : m \in 1 .. n - 1}
  <2>1. ~Conflicts(order[n], joining, P)
    BY <1>6
  <2>2. h # order[n] /\ With(Groups, joining, P)[h] = Groups[h]
    BY <1>7 DEF With
  <2> HIDE DEF P
  <2>3. QED
    BY <2>1, <2>2 DEF Conflicts
<1>9. ASSUME NEW n \in 1..Cardinality(S), NEW k \in 1..Cardinality(S), k < n,
             order[k] # order[n]
      PROVE  joining[order[k]] \cap joining[order[n]] = {}
  <2> DEFINE P == {order[m] : m \in 1 .. n - 1}
  <2>1. ~Conflicts(order[n], joining, P)
    BY <1>6
  <2>2. k \in 1 .. n - 1
    BY <1>7, <1>9
  <2>3. order[k] \in P /\ order[k] \notin DOMAIN Groups
    BY <1>7, <2>2
  <2>4. With(Groups, joining, P)[order[k]] = joining[order[k]]
    <3> HIDE DEF P
    <3>1. QED
      BY <2>3 DEF With
  <2> HIDE DEF P
  <2>5. QED
    BY <1>9, <2>1, <2>3, <2>4 DEF Conflicts
<1>10. ASSUME NEW g \in S, NEW h \in DOMAIN Groups PROVE Groups[h] \cap joining[g] = {}
  <2>1. PICK n \in 1..Cardinality(S) : order[n] = g
    BY OrderHasAll
  <2>2. QED
    BY <1>8, <2>1
<1>11. ASSUME NEW g \in S, NEW h \in S, g # h PROVE joining[g] \cap joining[h] = {}
  <2>1. PICK n \in 1..Cardinality(S) : order[n] = g
    BY OrderHasAll
  <2>2. PICK k \in 1..Cardinality(S) : order[k] = h
    BY OrderHasAll
  <2>3. k < n \/ n < k
    BY <1>7, <1>11, <2>1, <2>2
  <2>4. QED
    BY <1>9, <1>11, <2>1, <2>2, <2>3
<1>12. Disjoint(W)
  <2> SUFFICES ASSUME NEW g \in D, NEW h \in D, g # h PROVE W[g] \cap W[h] = {}
    <3> HIDE DEF W, D
    <3>1. QED
      BY <1>2 DEF Disjoint
  <2>1. CASE g \in DOMAIN Groups /\ h \in DOMAIN Groups
    <3>1. Groups[g] \cap Groups[h] = {}
      BY <2>1 DEF Disjoint
    <3> HIDE DEF W
    <3>2. QED
      BY <1>4, <2>1, <3>1
  <2>2. CASE g \in DOMAIN Groups /\ h \in S
    <3> HIDE DEF W
    <3>1. QED
      BY <1>4, <1>5, <1>10, <2>2
  <2>3. CASE g \in S /\ h \in DOMAIN Groups
    <3> HIDE DEF W
    <3>1. Groups[h] \cap joining[g] = {} /\ W[g] = joining[g] /\ W[h] = Groups[h]
      BY <1>4, <1>5, <1>10, <2>3
    <3>2. QED
      BY <3>1
  <2>4. CASE g \in S /\ h \in S
    <3>1. joining[g] \cap joining[h] = {}
      BY <1>11, <2>4
    <3> HIDE DEF W
    <3>2. QED
      BY <1>5, <2>4, <3>1
  <2>5. QED
    BY <2>1, <2>2, <2>3, <2>4
<1>13. QED
  BY <1>3, <1>12

\* Groups that Leave has not removed are as they were.
LEMMA RemoveLemma ==
    ASSUME GroupsOK(Groups), Disjoint(Groups), NEW S
    PROVE  GroupsOK(Without(Groups, S)) /\ Disjoint(Without(Groups, S))
<1>1. PICK S0 \in SUBSET Gid : Groups \in [S0 -> ServerList]
  BY DEF GroupsOK
<1>2. Without(Groups, S) \in [S0 \ S -> ServerList] /\ S0 \ S \in SUBSET Gid
  BY <1>1 DEF Without
<1>3. GroupsOK(Without(Groups, S))
  <2>1. IsFiniteSet(S0 \ S)
    BY <1>1, FS_Subset DEF GroupsOK
  <2>2. QED
    BY <1>2, <2>1 DEF GroupsOK
<1>4. Disjoint(Without(Groups, S))
  BY DEF Without, Disjoint
<1>5. QED
  BY <1>3, <1>4

-----------------------------------------------------------------------------
(* The specification.                                                      *)

\* The two invariants, which are inductive together, of finitely many groups.
IndInv == ServersDisjoint /\ ChangedConfigIsGood /\ IsFiniteSet(DOMAIN Groups)

\* What MovesAsFewAsPossible says of a step.
FewMoves ==
    Num' # Num /\ DOMAIN Groups' # {} =>
        Cardinality({s \in Shard : Shards'[s] = Shards[s]})
          = Max({Kept(q) : q \in Quotas(DOMAIN Groups')})

\* The conjuncts of IndInv.
LEMMA IndInvParts ==
    IndInv <=> /\ Num \in 0..MaxNum /\ Shards \in [Shard -> Gid \cup {0}]
               /\ GroupsOK(Groups) /\ Disjoint(Groups)
               /\ balanced \in BOOLEAN /\ exited \in BOOLEAN
               /\ (balanced => Good(Shards, DOMAIN Groups))
  BY Zenon DEF IndInv, ServersDisjoint, TypeOK, ChangedConfigIsGood, GroupsOK, Disjoint, Good

\* The same of the next state.
LEMMA IndInvPartsPrime ==
    IndInv' <=> /\ Num' \in 0..MaxNum /\ Shards' \in [Shard -> Gid \cup {0}]
                /\ GroupsOK(Groups') /\ Disjoint(Groups')
                /\ balanced' \in BOOLEAN /\ exited' \in BOOLEAN
                /\ (balanced' => Good(Shards', DOMAIN Groups'))
  BY Zenon DEF IndInv, ServersDisjoint, TypeOK, ChangedConfigIsGood, GroupsOK, Disjoint, Good, Count

\* The configuration without groups.
LEMMA InitLemma == Init => IndInv
<1> SUFFICES ASSUME Init PROVE IndInv
  OBVIOUS
<1>1. Num \in 0..MaxNum /\ Shards \in [Shard -> Gid \cup {0}]
  BY BoundAssumption DEF Init
<1>2. DOMAIN Groups = {} /\ Groups \in [{} -> ServerList]
  BY DEF Init
<1>3. GroupsOK(Groups) /\ Disjoint(Groups) /\ Good(Shards, DOMAIN Groups)
  BY <1>2, FS_EmptySet DEF GroupsOK, Disjoint, Good
<1>4. balanced \in BOOLEAN /\ exited \in BOOLEAN
  BY DEF Init
<1>5. QED
  BY <1>1, <1>3, <1>4, IndInvParts

\* A call that succeeds.
LEMMA ChangeLemma ==
    ASSUME IndInv, NEW groups, GroupsOK(groups), Disjoint(groups), ChangeTo(groups)
    PROVE  IndInv' /\ FewMoves
<1>1. Num' \in 0..MaxNum
  BY BoundAssumption, IndInvParts DEF ChangeTo
<1>2. DOMAIN groups \in SUBSET Gid
  BY DEF GroupsOK
<1>3. Shards' \in [Shard -> Gid \cup {0}] /\ Good(Shards', DOMAIN groups)
  BY <1>2, IndInvParts, RebalanceIsGood DEF ChangeTo
<1>4. Groups' = groups /\ balanced' \in BOOLEAN /\ exited' \in BOOLEAN
  BY IndInvParts DEF ChangeTo
<1>5. IndInv'
  BY <1>1, <1>3, <1>4, IndInvPartsPrime
<1>6. CASE DOMAIN groups # {}
  <2> DEFINE D == DOMAIN groups
             new == Rebalance(Shards, D)
  <2>1. new \in [Shard -> Gid \cup {0}] /\ Good(new, D) /\ Lean(Shards, new, D)
    BY <1>2, <1>6, IndInvParts, RebalanceIsGood
  <2>2. IsFiniteSet(D)
    BY DEF GroupsOK
  <2> HIDE DEF new
  <2>3. new \in [Shard -> D]
    BY <1>6, <2>1 DEF Good
  <2>4. Shards' = new /\ DOMAIN Groups' = D
    BY DEF ChangeTo, new
  <2> HIDE DEF D
  <2>5. Cardinality({s \in Shard : new[s] = Shards[s]}) = Max({Kept(q) : q \in Quotas(D)})
    BY <1>6, <2>1, <2>2, <2>3, LeanIsBest DEF D
  <2>6. FewMoves
    BY <2>4, <2>5 DEF FewMoves
  <2>7. QED
    BY <1>5, <2>6
<1>7. CASE DOMAIN groups = {}
  BY <1>4, <1>5, <1>7 DEF FewMoves
<1>8. QED
  BY <1>6, <1>7

\* A call that fails half-way.
LEMMA FailLemma ==
    ASSUME IndInv, NEW groups, GroupsOK(groups), Disjoint(groups), FailWith(groups)
    PROVE  IndInv' /\ FewMoves
<1>1. IndInv'
  BY IndInvParts, IndInvPartsPrime DEF FailWith
<1>2. Num' = Num
  BY DEF FailWith
<1>3. QED
  BY <1>1, <1>2 DEF FewMoves

\* A call that ends the process.
LEMMA FatalLemma == ASSUME IndInv, Fatalf PROVE IndInv' /\ FewMoves
<1>1. /\ Num' = Num /\ Shards' = Shards /\ Groups' = Groups /\ balanced' = balanced
      /\ exited' \in BOOLEAN
  BY DEF Fatalf
<1>2. IndInv'
  BY <1>1, IndInvParts, IndInvPartsPrime
<1>3. QED
  BY <1>1, <1>2 DEF FewMoves

\* JoinBalance, with any argument and in any order of its map.
LEMMA JoinLemma ==
    ASSUME IndInv, NEW G \in GidSets, NEW joining \in [G -> ServerList], JoinBalance(joining)
    PROVE  IndInv' /\ FewMoves
<1> DEFINE new == G \ DOMAIN Groups
<1>1. G \in SUBSET Gid /\ IsFiniteSet(G) /\ DOMAIN joining = G
  BY DEF GidSets
<1>2. GroupsOK(Groups) /\ Disjoint(Groups)
  BY IndInvParts
<1>3. ASSUME NEW S \in SUBSET new, CanAdd(joining, S)
      PROVE  GroupsOK(With(Groups, joining, S)) /\ Disjoint(With(Groups, joining, S))
  <2>1. IsFiniteSet(S)
    BY <1>1, FS_Subset
  <2>2. QED
    BY <1>1, <1>2, <1>3, <2>1, AddLemma
<1>4. CASE new = G /\ CanAdd(joining, G) /\ ChangeTo(With(Groups, joining, G))
  <2>1. G \in SUBSET new
    BY <1>4
  <2>2. QED
    BY <1>3, <1>4, <2>1, ChangeLemma
<1>5. ASSUME NEW S \in SUBSET new, CanAdd(joining, S), FailWith(With(Groups, joining, S))
      PROVE  IndInv' /\ FewMoves
  BY <1>3, <1>5, FailLemma
<1>6. CASE Fatalf
  BY <1>6, FatalLemma
<1>7. \/ new = G /\ CanAdd(joining, G) /\ ChangeTo(With(Groups, joining, G))
      \/ \E S \in SUBSET new : CanAdd(joining, S) /\ FailWith(With(Groups, joining, S))
      \/ Fatalf
  BY <1>1 DEF JoinBalance
<1> HIDE DEF new
<1>8. QED
  BY <1>4, <1>5, <1>6, <1>7

\* LeaveBalance, with any list of groups.
LEMMA LeaveLemma ==
    ASSUME IndInv, NEW gids, LeaveBalance(gids)
    PROVE  IndInv' /\ FewMoves
<1>1. \A S : GroupsOK(Without(Groups, S)) /\ Disjoint(Without(Groups, S))
  BY IndInvParts, RemoveLemma
<1>2. \/ \E S : ChangeTo(Without(Groups, S))
      \/ \E S : FailWith(Without(Groups, S))
      \/ Fatalf
  BY DEF LeaveBalance
<1>3. QED
  BY <1>1, <1>2, ChangeLemma, FailLemma, FatalLemma

\* Every call keeps the invariant.
LEMMA StepLemma == ASSUME IndInv, [Next]_vars PROVE IndInv' /\ FewMoves
<1>1. CASE UNCHANGED vars
  <2>1. IndInv'
    BY <1>1, IndInvParts, IndInvPartsPrime DEF vars
  <2>2. Num' = Num
    BY <1>1 DEF vars
  <2>3. QED
    BY <2>1, <2>2 DEF FewMoves
<1>2. CASE Next
  BY <1>2, JoinLemma, LeaveLemma DEF Next
<1>3. QED
  BY <1>1, <1>2

\* It holds in every state.
LEMMA IndInvariant == Spec => []IndInv
  BY InitLemma, StepLemma, PTL DEF Spec

\* After every Join or Leave that succeeds, however many calls before it failed
\* half-way, the configuration passes CheckConfig: shardcfg.go:207-221.
THEOREM ChangesAreGood == Spec => []ChangedConfigIsGood
  BY IndInvariant, PTL DEF IndInv

\* No server is ever in two groups: Join looks at the groups it has itself
\* added, shardcfg.go:156-183.
THEOREM GroupsAreDisjoint == Spec => []ServersDisjoint
  BY IndInvariant, PTL DEF IndInv

\* Every change of the configuration moves as few shards as any even
\* distribution over the new groups needs, from whatever distribution the
\* calls before left behind: shardcfg.go:120-154.
THEOREM FewestMoves == Spec => MovesAsFewAsPossible
<1>1. ASSUME IndInv, [Next]_vars PROVE [FewMoves]_vars
  BY <1>1, StepLemma
<1>2. QED
  BY <1>1, IndInvariant, PTL DEF Spec, MovesAsFewAsPossible, FewMoves
=============================================================================
