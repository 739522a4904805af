---------------------------- MODULE Coordinator ----------------------------
(***************************************************************************)
(* mr/coordinator.go: the tasks of a MapReduce job, handed out by GetTask  *)
(* and completed by ReportTask, both under one mutex.  A task that is in   *)
(* progress for more than ten seconds is handed out again, while whoever   *)
(* had it before may still report it.                                      *)
(*                                                                         *)
(* The callers are any processes that use the two RPCs: they ask at any    *)
(* time, report what they were handed, any number of times and however     *)
(* late, and crash.                                                        *)
(***************************************************************************)
EXTENDS Integers, FiniteSets

CONSTANTS NMap,         \* len(files)
          NReduce,      \* nReduce
          MaxSlow,      \* bound: how often a caller that lives is too slow
          MaxCrashes    \* bound: how many callers crash

ASSUME JobAssumption == NMap \in Nat /\ NReduce \in Nat

VARIABLES status,       \* status[t]: tasks[t].Status
          overdue,      \* the tasks whose StartTime is more than ten seconds ago
          reduceCount,  \* c.reduceCount
          reply,        \* the TaskType of GetTask's last reply, "" before
          attempts,     \* history: what was handed out, numbered, with BucketNum
          reported,     \* history: the attempts that were reported
          lost,         \* the attempts whose caller crashed
          slow          \* how often a caller that lives was too slow

coordinatorVars == <<status, overdue, reduceCount, reply, attempts, reported, lost, slow>>

MapTask == 0 .. NMap - 1
ReduceTask == NMap .. NMap + NReduce - 1
Task == MapTask \cup ReduceTask
Attempt == [task : Task, n : Nat, bucket : Nat]

CoordinatorTypeOK ==
    /\ status \in [Task -> {"idle", "in-progress", "completed"}]
    /\ overdue \subseteq Task
    /\ reduceCount \in Nat
    /\ reply \in {"", "map", "reduce", "wait", "finished"}
    /\ attempts \subseteq Attempt /\ IsFiniteSet(attempts)
    /\ reported \subseteq attempts
    /\ lost \subseteq attempts
    /\ slow \in Nat

\* MakeCoordinator
CoordinatorInit ==
    /\ status = [t \in Task |-> "idle"]
    /\ overdue = {}
    /\ reduceCount = 0
    /\ reply = ""
    /\ attempts = {}
    /\ reported = {}
    /\ lost = {}
    /\ slow = 0

\* The caller that t was handed to last has crashed.
Abandoned(t) ==
    \E a \in lost : a.task = t /\ \A b \in attempts : b.task = t => b.n <= a.n

\* Ten seconds have passed since t was handed out.
TenSeconds(t) ==
    /\ status[t] = "in-progress" /\ t \notin overdue
    /\ Abandoned(t) \/ slow < MaxSlow
    /\ slow' = IF Abandoned(t) THEN slow ELSE slow + 1
    /\ overdue' = overdue \cup {t}
    /\ UNCHANGED <<status, reduceCount, reply, attempts, reported, lost>>

Crash(a) ==
    /\ a \notin lost /\ Cardinality(lost) < MaxCrashes
    /\ lost' = lost \cup {a}
    /\ UNCHANGED <<status, overdue, reduceCount, reply, attempts, reported, slow>>

-----------------------------------------------------------------------------
(* GetTask.                                                                *)

\* Faulty: never gives a task out again.
CheckTimeoutNever == status

\* Faulty: does not look at the status.
CheckTimeoutAny == [t \in Task |-> IF t \in overdue THEN "idle" ELSE status[t]]

\* The status of the tasks after checkTimeout.
CheckTimeout ==
    [t \in Task |->
        IF t \in overdue /\ status[t] = "in-progress" THEN "idle" ELSE status[t]]

\* Faulty: takes tasks that are in progress for completed ones.
PhaseStatusNoProgress(st, T) ==
    IF \E t \in T : st[t] = "idle" THEN "idle" ELSE "completed"

\* getMapTask and getReduceTask: how far the tasks of one type are ...
PhaseStatus(st, T) ==
    IF \E t \in T : st[t] = "idle" THEN "idle"
    ELSE IF \E t \in T : st[t] = "in-progress" THEN "in-progress"
    ELSE "completed"

\* ... and the first that is idle.
IsFirstIdle(st, T, t) ==
    t \in T /\ st[t] = "idle" /\ \A u \in T : st[u] = "idle" => t <= u

\* Faulty: numbers the buckets from -1.
AssignOffByOne(st, t, type, bucket) ==
    /\ status' = [st EXCEPT ![t] = "in-progress"]
    /\ overdue' = overdue \ {t}
    /\ reply' = type
    /\ attempts' = attempts \cup {[task |-> t, n |-> Cardinality(attempts), bucket |-> bucket - 1]}

\* t is handed out, with a new StartTime.
Assign(st, t, type, bucket) ==
    /\ status' = [st EXCEPT ![t] = "in-progress"]
    /\ overdue' = overdue \ {t}
    /\ reply' = type
    /\ attempts' = attempts \cup {[task |-> t, n |-> Cardinality(attempts), bucket |-> bucket]}

Answer(st, type) ==
    /\ status' = st
    /\ reply' = type
    /\ UNCHANGED <<overdue, attempts, reduceCount>>

GetTask ==
    LET st == CheckTimeout
        map == PhaseStatus(st, MapTask)
        reduce == PhaseStatus(st, ReduceTask)
    IN  /\ \/ map = "completed" /\ reduce = "completed" /\ Answer(st, "finished")
           \/ /\ map = "idle"
              /\ \E t \in Task : IsFirstIdle(st, MapTask, t) /\ Assign(st, t, "map", 0)
              /\ UNCHANGED reduceCount
           \/ map = "in-progress" /\ Answer(st, "wait")
           \/ /\ map = "completed" /\ reduce = "idle"
              /\ \E t \in Task : IsFirstIdle(st, ReduceTask, t)
                                 /\ Assign(st, t, "reduce", reduceCount)
              /\ reduceCount' = reduceCount + 1
           \/ map = "completed" /\ reduce = "in-progress" /\ Answer(st, "wait")
        /\ UNCHANGED <<reported, lost, slow>>

-----------------------------------------------------------------------------

\* A report counts whoever sends it and whatever the status of the task is.
ReportTask(a) ==
    /\ a \notin lost
    /\ status' = [status EXCEPT ![a.task] = "completed"]
    /\ reported' = reported \cup {a}
    /\ UNCHANGED <<overdue, reduceCount, reply, attempts, lost, slow>>

CoordinatorNext ==
    \/ GetTask
    \/ \E a \in attempts : ReportTask(a) \/ Crash(a)
    \/ \E t \in Task : TenSeconds(t)

CoordinatorSpec == CoordinatorInit /\ [][CoordinatorNext]_coordinatorVars

-----------------------------------------------------------------------------
(* Properties.                                                             *)

Reported(t) == \E a \in reported : a.task = t

\* No reduce task is handed out before every map task was reported by somebody
\* that had it, however timeouts, late reports and new assignments interleave.
ReduceAfterMaps ==
    (\E a \in attempts : a.task \in ReduceTask) => \A t \in MapTask : Reported(t)

\* GetTask tells a worker that the job is finished only if every task was
\* reported.
FinishedMeansReported ==
    reply = "finished" => \A t \in Task : Reported(t)

\* The inductive invariant behind both: the statuses say what was reported.
JobInv ==
    /\ \A t \in Task : status[t] = "completed" <=> Reported(t)
    /\ (\E t \in ReduceTask : status[t] # "idle") => \A t \in MapTask : status[t] = "completed"
    /\ ReduceAfterMaps
    /\ FinishedMeansReported

\* Every bucket number below reduceCount was handed out with a reduce task, and
\* at least as many numbers as reduce tasks were.
HandedOut == {t \in ReduceTask : \E a \in attempts : a.task = t}

BucketInv ==
    /\ \A b \in 0 .. reduceCount - 1 : \E a \in attempts : a.task \in ReduceTask /\ a.bucket = b
    /\ Cardinality(HandedOut) <= reduceCount

\* A task that is idle was never handed out, or whoever had it last has had it
\* for too long.
IdleInv ==
    \A t \in Task : status[t] = "idle" => t \in overdue \/ ~\E a \in attempts : a.task = t

\* The whole inductive invariant.
CoordinatorInv == CoordinatorTypeOK /\ JobInv /\ BucketInv /\ IdleInv

\* A task goes to a second worker only ten seconds after the last one got it,
\* and never after somebody reported it, in time or late; and it does then: no
\* worker is sent to wait for one that is too late.
HandedOutAgain ==
    [][ /\ \A a \in attempts' \ attempts :
             /\ ~Reported(a.task)
             /\ (\E b \in attempts : b.task = a.task) => a.task \in overdue
        /\ reply' = "wait" /\ reply # "wait" =>
             \A t \in Task : status[t] = "in-progress" => t \notin overdue ]_coordinatorVars

\* "nReduce (the number of partitions)", each reduced by the task responsible
\* for it: when the job is finished, a reduce task with the number of each
\* bucket was reported, unless the worker that was given this number has not
\* reported and its task counts as done by another one, with another number.
LostBucketWasReassigned ==
    reply = "finished" =>
        \A b \in 0 .. NReduce - 1 :
            \/ \E a \in reported : a.task \in ReduceTask /\ a.bucket = b
            \/ \E a \in attempts \ reported, other \in reported :
                 a.task \in ReduceTask /\ a.bucket = b
                 /\ other.task = a.task /\ other.bucket # b
=============================================================================
