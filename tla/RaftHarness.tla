---------------------------- MODULE RaftHarness ----------------------------
(***************************************************************************)
(* A test of a server group: the goroutine of the test, which shuts down,  *)
(* restarts, connects and partitions servers and annotates what it did     *)
(* (Annotation), and, in the tests of raft1, the servers of raft1/server.go*)
(* with the checks of raft1/test.go on what each Raft applies.             *)
(*                                                                         *)
(* An instance <<i, n>> is the n-th rfsrv of server i.  Kill does not stop *)
(* its applier, and mksrv starts the applier before it puts the rfsrv into *)
(* ts.srvs: either may run checkLogs while srvs[i] is another instance.    *)
(* Raft itself is external: it hands committed commands to its applyCh in  *)
(* the order of their indices; a faulty one hands anything.                *)
(***************************************************************************)
EXTENDS Annotation

CONSTANTS Cmd,              \* commands
          Committed,        \* the log that a correct Raft commits
          MaxIndex,         \* bound: indices of the log
          MaxInst,          \* bound: how often a server is made
          MaxRestarts,      \* bound: how many servers are restarted
          MaxFailing,       \* bound: appliers that a faulty Raft makes fail
          SnapShotInterval

ASSUME BoundAssumption == MaxIndex \in Nat /\ MaxInst \in Nat \ {0} /\ MaxRestarts \in Nat
                          /\ MaxFailing \in Nat /\ SnapShotInterval \in Nat \ {0}

Index == 1..MaxIndex
Inst == Srv \X (1..MaxInst)
Nil == "nil"

\* The goroutines, beside the appliers, that call cleanup: the test's own and
\* the one of captureSignal.
Tester == <<0, 0>>
Signal == <<0, 1>>

ASSUME CommittedAssumption == Committed \in [Index -> Cmd]
ASSUME SrvAssumption == Srv \subseteq Nat \ {0} /\ Nil \notin Cmd
ASSUME CleanerAssumption == Cleaner = Inst \cup {Tester, Signal}

VARIABLES kind,         \* raft: a test of raft1; kv: of a key/value service
          snapshot,     \* ts.snapshot
          correct,      \* Raft is correct
          srvs,         \* srvs[i]: the instance in ts.srvs[i]
          newest,       \* newest[i]: the latest instance of server i
          raft,         \* the instances whose rs.raft is not nil
          logs,         \* rs.logs
          lastApplied,  \* rs.lastApplied, and where a correct Raft is
          saved,        \* the snapshot in the instance's Persister, <<>> if none
          connected,    \* sg.connected
          main,         \* where the test's goroutine is
          failing,      \* instances whose applier met an error
          exited        \* why the process has exited

\* History, which no action reads: an applier ran for an instance that was not,
\* or no longer, the one in ts.srvs; and a file with operations was written.
VARIABLES stale, wroteOps

srvVars == <<srvs, newest, raft, logs, lastApplied, saved>>
fixed == <<kind, snapshot, correct>>
history == <<stale, wroteOps>>
vars == <<anVars, fixed, srvVars, connected, main, failing, exited, history>>

\* rs.logs, with the 0 that a snapshot adds.
Log == UNION {[D -> Cmd \cup {Nil}] : D \in SUBSET (0..MaxIndex)}

\* xlog of a snapshot, as a function on 0..index.
Snap == (UNION {[0..n -> Cmd \cup {Nil}] : n \in Index}) \cup {<<>>}
SnapIndex(s) == Cardinality(DOMAIN s) - 1

TypeOK ==
    /\ AnTypeOK
    /\ kind \in {"raft", "kv"} /\ snapshot \in BOOLEAN
    /\ correct \in BOOLEAN
    /\ srvs \in [Srv -> 1..MaxInst] /\ newest \in [Srv -> 1..MaxInst]
    /\ raft \subseteq Inst
    /\ logs \in [Inst -> Log] /\ lastApplied \in [Inst -> 0..MaxIndex]
    /\ saved \in [Inst -> Snap]
    /\ connected \in [Srv -> BOOLEAN]
    /\ main \in {"test", "one", "restart", "finished", "failed", "done"}
    /\ failing \subseteq Inst
    /\ exited \in {"no", "apply error", "panic", "interrupted"}
    /\ stale \in BOOLEAN /\ wroteOps \in BOOLEAN

Init ==
    /\ AnnotateTest
    /\ kind \in {"raft", "kv"}
    /\ snapshot \in BOOLEAN /\ correct \in BOOLEAN
    /\ kind = "kv" \/ snapshot => correct
    /\ kind = "kv" => ~snapshot
    /\ srvs = [i \in Srv |-> 1] /\ newest = srvs
    /\ raft = Srv \X {1}
    /\ logs = [p \in Inst |-> <<>>]
    /\ lastApplied = [p \in Inst |-> 0]
    /\ saved = [p \in Inst |-> <<>>]
    /\ connected = AllConnected
    /\ main = "test" /\ failing = {} /\ exited = "no"
    /\ stale = FALSE /\ wroteOps = FALSE

Current(i) == <<i, srvs[i]>>
Up(i) == <<i, newest[i]>> \in raft

-----------------------------------------------------------------------------
(* The servers of raft1.                                                   *)

\* Faulty: compares with the servers before its own only.
AgreesBefore(i, index, cmd) ==
    \A j \in Srv : j < i /\ index \in DOMAIN logs[Current(j)] => logs[Current(j)][index] = cmd

\* No server has committed another value for this entry.
Agrees(i, index, cmd) ==
    \A j \in Srv : index \in DOMAIN logs[Current(j)] => logs[Current(j)][index] = cmd

\* The rest of checkLogs: the log of srvs[i], whoever asks.
Put(log, index, cmd) == [n \in DOMAIN log \cup {index} |-> IF n = index THEN cmd ELSE log[n]]

\* The applier of p stops the process: the annotation, after that of a snapshot
\* it has taken, then cleanup and Fatalf.
ApplyError(p, before) ==
    /\ Annotate(before \cup {CheckerKind})
    /\ failing' = failing \cup {p}
    /\ UNCHANGED <<finalized, finfo, visEnable, file, cleaning, content, exited>>

Applied == UNCHANGED <<finalized, finfo, visEnable, file, cleaning, content, failing, exited>>

\* Faulty: stops before the latest command.
SnapshotOfBefore(log, index) ==
    [n \in 0..index |-> IF n \in DOMAIN log /\ n < index THEN log[n] ELSE Nil]

\* rs.logs[0..index], with nil for what it does not have.
SnapshotOf(log, index) == [n \in 0..index |-> IF n \in DOMAIN log THEN log[n] ELSE Nil]

\* Is the snapshot taken after this command?
TakesSnapshot(index) == snapshot /\ (index + 1) % SnapShotInterval = 0

\* What the applier of p does with a command.  applierSnap compares the index
\* with lastApplied first; a snapshot of a killed instance calls a nil Raft.
ApplyCommand(p, index, cmd) ==
    LET i == p[1]
        me == Current(i)
        inOrder == snapshot => index = lastApplied[p] + 1
        prevok == index > 1 => index - 1 \in DOMAIN logs[me]
        good == inOrder /\ Agrees(i, index, cmd) /\ prevok
        takes == TakesSnapshot(index)
        snapped == IF takes THEN {"info"} ELSE {}
    IN  /\ logs' = IF inOrder THEN [logs EXCEPT ![me] = Put(@, index, cmd)] ELSE logs
        /\ lastApplied' = IF correct THEN [lastApplied EXCEPT ![p] = index] ELSE lastApplied
        /\ stale' = (stale \/ me # p \/ p \notin raft)
        /\ IF takes /\ p \notin raft
           THEN /\ exited' = "panic"
                /\ UNCHANGED <<anVars, saved, failing>>
           ELSE /\ saved' = IF takes THEN [saved EXCEPT ![p] = SnapshotOf(logs'[p], index)] ELSE saved
                /\ IF good
                   THEN Applied /\ Annotate(snapped)
                   ELSE ApplyError(p, snapped)
        /\ UNCHANGED <<fixed, srvs, newest, raft, connected, main, wroteOps>>

\* Raft hands the next command to the applier of p; a faulty Raft any command.
Deliver(p) ==
    /\ kind = "raft" /\ p[2] <= newest[p[1]] /\ p \notin failing
    /\ correct \/ Cardinality(failing) < MaxFailing
    /\ \E index \in Index, cmd \in Cmd :
         /\ correct => index = lastApplied[p] + 1 /\ cmd = Committed[index]
         /\ ApplyCommand(p, index, cmd)

\* Raft hands the snapshot of a leader to the applier of p.  ingestSnap's errors
\* (nothing to decode, another server's index) are those of a faulty Raft, which
\* is modelled without snapshots only.
DeliverSnapshot(p, q) ==
    /\ snapshot /\ p[2] <= newest[p[1]] /\ p \notin failing
    /\ q \in raft /\ SnapIndex(saved[q]) > lastApplied[p]
    /\ logs' = [logs EXCEPT ![p] = saved[q]]
    /\ lastApplied' = [lastApplied EXCEPT ![p] = SnapIndex(saved[q])]
    /\ UNCHANGED <<anVars, fixed, srvs, newest, raft, saved, connected, main, failing, exited, history>>

\* log.Fatalf of the applier, after AnnotateCheckerFailureBeforeExit.
Exit(p) ==
    /\ p \in failing /\ cleaning[p] = "done"
    /\ exited' = "apply error"
    /\ UNCHANGED <<anVars, fixed, srvVars, connected, main, failing, history>>

-----------------------------------------------------------------------------
(* The goroutine of the test.  Each operation on the group is followed by  *)
(* its annotation.                                                         *)

TestStep(next) == main = "test" /\ main' = next /\ UNCHANGED <<fixed, failing, exited, history>>

AnnotateOnly == UNCHANGED <<finalized, visEnable, file, cleaning, content>>

Connect(i, yes) ==
    /\ TestStep("test") /\ kind = "kv"
    /\ connected' = [connected EXCEPT ![i] = yes]
    /\ AnnotateConnection(connected')
    /\ AnnotateOnly /\ UNCHANGED srvVars

\* Partition reconnects everybody, each to its side.
Partition(p1) ==
    /\ TestStep("test") /\ kind = "kv"
    /\ connected' = AllConnected
    /\ AnnotateTwoPartitions(p1, Srv \ p1)
    /\ AnnotateOnly /\ UNCHANGED srvVars

\* ShutdownServer: the server's Persister is superseded by a copy, then Kill.
Shutdown(S) ==
    /\ TestStep("test")
    /\ \E i \in S : Up(i)
    /\ raft' = {p \in raft : p[1] \notin S}
    /\ connected' = [i \in Srv |-> connected[i] /\ i \notin S]
    /\ AnnotateShutdown(S)
    /\ AnnotateOnly /\ UNCHANGED <<srvs, newest, logs, lastApplied, saved>>

\* StartServer, mksrv: newRfsrv ingests the snapshot and starts the applier.
Restart(i) ==
    LET p == <<i, newest[i] + 1>>
        snap == saved[<<i, newest[i]>>]
    IN  /\ TestStep("restart")
        /\ ~Up(i) /\ newest[i] < MaxInst
        /\ Cardinality({q \in Inst : q[2] < newest[q[1]]}) < MaxRestarts
        /\ newest' = [newest EXCEPT ![i] = @ + 1]
        /\ raft' = raft \cup {p}
        /\ saved' = [saved EXCEPT ![p] = snap]
        /\ IF snap = <<>> THEN UNCHANGED <<logs, lastApplied>>
           ELSE /\ logs' = [logs EXCEPT ![p] = snap]
                /\ lastApplied' = [lastApplied EXCEPT ![p] = SnapIndex(snap)]
        /\ UNCHANGED <<anVars, srvs, connected>>

\* mksrv's ts.srvs[srv] = s, after which nobody reads the log of the instance
\* before; then ConnectAll.
Restarted(S) ==
    /\ main = "restart" /\ main' = "test"
    /\ \A i \in S : Up(i)
    /\ {i \in Srv : srvs[i] # newest[i]} \subseteq S
    /\ srvs' = newest
    /\ logs' = [p \in Inst |-> IF p[2] < newest[p[1]] THEN <<>> ELSE logs[p]]
    /\ connected' = AllConnected
    /\ AnnotateRestart(S)
    /\ AnnotateOnly
    /\ UNCHANGED <<fixed, newest, raft, lastApplied, saved, failing, exited, history>>

\* ConnectAll once all servers are up.
ClearFailure ==
    /\ TestStep("test") /\ kind = "kv"
    /\ \A i \in Srv : Up(i)
    /\ connected' = AllConnected
    /\ AnnotateClearFailure
    /\ AnnotateOnly /\ UNCHANGED srvVars

\* Who has committed something at this index, and what.
NCommitted(index) == {i \in Srv : index \in DOMAIN logs[Current(i)]}

One ==
    /\ TestStep("one") /\ kind = "raft"
    /\ AnnotateCheckerBegin
    /\ AnnotateOnly /\ UNCHANGED <<marks, srvVars, connected>>

\* one() returns with the agreement; or it times out, or nCommitted meets two
\* values, and the test fails.  Its loop over Start is left out: it may return
\* once anybody has committed anything, and fail at any time.
OneReturns ==
    /\ main = "one"
    /\ main' \in (IF \E index \in Index : NCommitted(index) # {} THEN {"test"} ELSE {}) \cup {"failed"}
    /\ AnnotateCheckerEnd
    /\ AnnotateOnly /\ UNCHANGED <<fixed, finfo, srvVars, connected, failing, exited, history>>

SetFinalized ==
    /\ TestStep("test") /\ kind = "kv" /\ ~finalized
    /\ SetAnnotationFinalized
    /\ UNCHANGED <<srvVars, connected>>

CheckHistory(illegal) ==
    /\ main = "test" /\ kind = "kv"
    /\ CheckPorcupine(illegal)
    /\ main' = IF illegal THEN "failed" ELSE "test"
    /\ wroteOps' = (wroteOps \/ "ops" \in file')
    /\ UNCHANGED <<fixed, srvVars, connected, failing, exited, stale>>

EndTest ==
    /\ TestStep("finished")
    /\ UNCHANGED <<anVars, srvVars, connected>>

\* Config.Cleanup and the other callers of Annotation.cleanup.  (SIGINT is left
\* to the tests without appliers.)
CleanupStep(p) ==
    /\ \/ p = Tester /\ main \in {"finished", "failed"} /\ Cleanup(p, main = "failed")
       \/ p = Signal /\ kind = "kv" /\ Cleanup(p, TRUE)
       \/ p \in failing /\ Cleanup(p, TRUE)
       \/ Clear(p) \/ Finalize(p) \/ OpenFile(p) \/ WriteFile(p)
    /\ UNCHANGED <<fixed, srvVars, connected, main, failing, exited, history>>

Cleaned ==
    /\ main \in {"finished", "failed"} /\ cleaning[Tester] = "done"
    /\ main' = "done"
    /\ UNCHANGED <<anVars, fixed, srvVars, connected, failing, exited, history>>

\* os.Exit of captureSignal's goroutine.
Interrupted ==
    /\ cleaning[Signal] = "done"
    /\ exited' = "interrupted"
    /\ UNCHANGED <<anVars, fixed, srvVars, connected, main, failing, history>>

Main ==
    \/ \E i \in Srv : Restart(i) \/ \E yes \in BOOLEAN : Connect(i, yes)
    \/ \E S \in SUBSET Srv \ {{}} : Shutdown(S) \/ Restarted(S) \/ Partition(S)
    \/ ClearFailure \/ One \/ OneReturns \/ SetFinalized
    \/ \E illegal \in BOOLEAN : CheckHistory(illegal)
    \/ EndTest \/ Cleaned

Next ==
    /\ exited = "no"
    /\ \/ Main
       \/ \E p \in Inst : Deliver(p) \/ Exit(p) \/ \E q \in Inst : DeliverSnapshot(p, q)
       \/ \E p \in Cleaner : CleanupStep(p)
       \/ Interrupted

Spec == Init /\ [][Next]_vars

-----------------------------------------------------------------------------
(* Properties.                                                             *)

Undisturbed == \A p \in Cleaner : cleaning[p] = "no"

\* The appliers stop the test before it goes on with servers that have applied
\* different commands at an index, or that have left one out: in the tests
\* without snapshots, whatever Raft hands to them and while servers restart.
LogInv ==
    /\ TypeOK
    /\ failing = {} /\ ~snapshot =>
         \A i \in Srv :
            LET log == logs[Current(i)]
            IN  /\ \A n \in DOMAIN log : n > 1 => n - 1 \in DOMAIN log
                /\ \A j \in Srv, n \in DOMAIN log :
                      n \in DOMAIN logs[Current(j)] => logs[Current(j)][n] = log[n]

\* A correct Raft fails no test: an applier meets an error only after an
\* applier has run for an instance that is not the one in ts.srvs, or that was
\* killed.  Neither restarts nor snapshots that Raft installs raise one.
NoFalseAlarm ==
    correct /\ ~stale => failing = {} /\ exited \notin {"apply error", "panic"}

\* The ongoing annotation shows the servers that are down and who is cut off
\* as finfo has it, and there is none without a fault.
FaultShown ==
    Undisturbed =>
        /\ finfo.crashed = {i \in Srv : <<i, srvs[i]>> \notin raft}
        /\ \/ continuous.two # {}
           \/ continuous = IF NoFault(finfo.connected, finfo.crashed) THEN None
                           ELSE FaultText(finfo.connected, finfo.crashed)

\* Between finalize and the end of its write: the file does not show its
\* annotations yet.
Writing(p) == cleaning[p] \in {"open", "write"}

InError(kinds) == kinds \cap {"point", "interval"} # {}

\* The failure that stops a test is in its visualization if nobody is writing
\* one when the process exits, unless the test was just ending or three appliers
\* fail (the second then clears what the first has finalized, and the third
\* writes the file again); and the file with the operations of the clients
\* "won't be overridden by that without client operations (generated at cleanup
\* time)", but for an interrupt.
VisKept ==
    /\ exited = "apply error" /\ visEnable # "never"
       /\ cleaning[Tester] = "no" /\ Cardinality(failing) <= 2
       /\ (\A p \in Cleaner : ~Writing(p))
         => InError(file)
    /\ wroteOps /\ cleaning[Signal] = "no" => "ops" \in file

-----------------------------------------------------------------------------
(* What the proofs need: the inductive invariant behind these properties.  *)

\* ts.srvs lags behind newRfsrv only while mksrv runs.
Installed ==
    /\ \A i \in Srv : srvs[i] <= newest[i]
    /\ main # "restart" => srvs = newest

\* Without snapshots an instance that is not in ts.srvs yet has an empty log:
\* its applier writes to the log of the one that is.
PlainInv ==
    ~snapshot => \A p \in Inst : saved[p] = <<>> /\ (p[2] > srvs[p[1]] => logs[p] = <<>>)

\* A correct Raft, as long as no applier ran too early or too late: snapshots
\* have what was committed, and the log of an instance that is, or will be, in
\* ts.srvs has exactly the commands up to lastApplied.
RaftInv ==
    correct /\ ~stale => \A p \in Inst :
        /\ \A n \in DOMAIN saved[p] \ {0} : saved[p][n] = Committed[n]
        /\ p[2] >= srvs[p[1]] => \A n \in Index :
             /\ n \in DOMAIN logs[p] <=> n <= lastApplied[p]
             /\ n \in DOMAIN logs[p] => logs[p][n] = Committed[n]

Done == \E p \in failing : cleaning[p] = "done"
Taken == \E p \in failing : cleaning[p] \in {"open", "write", "done"}

\* Who is cleaning up, and why.
CleanInv ==
    /\ kind = "kv" => failing = {} /\ ~snapshot
    /\ kind = "raft" => cleaning[Signal] = "no" /\ ~wroteOps
    /\ \A p \in Inst : cleaning[p] # "no" => p \in failing
    /\ cleaning[Tester] # "no" => main \in {"finished", "failed", "done"}
    /\ IsFiniteSet(failing)
    /\ exited = "apply error" => Done

\* The operations stay in the file, since nobody finalizes after checkPorcupine.
OpsInv ==
    /\ "ops" \notin annotations
    /\ \A p \in Cleaner : "ops" \notin content[p]
    /\ "ops" \in file => wroteOps
    /\ wroteOps /\ cleaning[Signal] = "no" =>
         /\ "ops" \in file
         /\ cleaning[Tester] \in {"clear", "done"} \/ (cleaning[Tester] = "no" /\ finalized)

\* An applier's error stays among the annotations until it is in the hands of
\* the first that finalizes them, and with that until it is in the file: only
\* the second applier that fails clears them, and only after that.
ErrorInv ==
    kind = "raft" /\ visEnable # "never" /\ cleaning[Tester] = "no" =>
        /\ finalized => Taken
        /\ Cardinality(failing) <= 2 =>
             /\ (\E p \in failing : cleaning[p] = "clear") => Taken
             /\ Done /\ (\A p \in failing : ~Writing(p)) => InError(file)
             /\ \A p \in failing :
                  /\ cleaning[p] \in {"no", "finalize"} => InError(annotations)
                  /\ Writing(p) => InError(content[p])

\* The whole inductive invariant.
IndInv ==
    /\ LogInv /\ Installed /\ PlainInv
    /\ NoFalseAlarm /\ RaftInv
    /\ FaultShown
    /\ CleanInv /\ OpsInv /\ ErrorInv
=============================================================================
