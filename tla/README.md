# TLA+ models of mit-6.5824-lab

The repository holds solutions to the MIT 6.5840 labs, in Go, and the harness
they are tested with. This directory models the parts that carry logic of their
own, checks them with TLC on small instances and proves the central properties
for every instance with TLAPS. Paths below are relative to `src/src/`.

## The system

| Part | State | Operations | How it interacts |
|---|---|---|---|
| `labrpc/labrpc.go`, simulated network | maps of ends, connections and servers; the flags reliable and done; a goroutine per request and one per handler | MakeEnd, DeleteEnd, Connect, Enable, AddServer, DeleteServer, Reliable, Cleanup, ClientEnd.Call, processReq, dispatch | every client and server goes through it |
| `kvsrv1/server.go`, key/value server | map from key to value and version | Get, Put, both under one mutex | handlers called by labrpc |
| `kvsrv1/client.go`, clerk | requestCount of the running Put | Get, Put: resend until answered | ClientEnd.Call |
| `kvsrv1/lock/lock.go`, lock | the key of the lock, the value written last | Acquire, Release (CheckAndReput) | Get and Put of a clerk |
| `raft1/raft.go`, leader election | currTerm, role, votedFor, votesReceived, lastHeartBeat | ticker, preElection, RequestVote, AppendEntries, sendRequestVote | RPCs between peers; goroutines share the state |
| `tester1/group.go`, `srv.go`, `persister.go`, server groups | who is connected, the ends and the Persister of each server | StartServer, ShutdownServer, connect, disconnect, Partition, Persister.Copy and Save | configures labrpc while requests are in flight |
| `shardkv1/shardcfg/shardcfg.go`, shard configuration | Num, Shards, Groups | Join, Leave, Rebalance, CheckConfig | called by the shard tests and the controller |
| `mr/coordinator.go`, MapReduce coordinator | status and start time of each task, reduceCount | GetTask, ReportTask, checkTimeout | RPCs of worker processes |
| `tester1/clnts.go`, clients of a test | the clerks; per client its ends and the servers it may reach | MakeClientTo, makeEnd on the first call, ConnectAll, ConnectTo, Disconnect, DisconnectAll, DeleteClient, cleanup | makes, enables and deletes ends of labrpc while calls are in flight |
| `kvtest1/kvtest.go`, `porcupine.go`, `models1/kv.go`, key/value tests | what each client has counted; the log of operations | OneClientPut, OneClientAppend, PutAtLeastOnce, SpreadPuts, SpawnClientsAndWait, the checks | goroutines with a clerk each; channels done and ca |
| `raft1/server.go`, `test.go`, Raft tests | per server the log of applied commands, lastApplied, the Raft; the array of servers | applier, applierSnap, ingestSnap, Kill, mksrv, checkLogs, nCommitted, one | an applier per instance reads its Raft's applyCh; restarts by the test |
| `tester1/annotation.go`, annotations | annotations, ongoing ones, finalized; who is connected and crashed | AnnotateConnection, -Shutdown, -Restart, -TwoPartitions, -Checker*, finalize, clear, cleanup | one global object for the test, the servers, the interrupt and checkPorcupine |
| `tester1/config.go`, test configuration | network, clients and groups of a test | MakeConfig, Cleanup, Fatalf, End | takes the other parts down |
| `mr/worker.go` | files | doMap, doReduce | see "Not modelled" |
| `kvraft1`, `shardkv1` servers, clients and controller | none yet | stubs | not modelled |

What is hard here: requests and replies are lost or late, a caller gives up
while the handler it started runs on, and the clerk resends; a Put may have
happened although its caller was told ErrMaybe; Raft's ticker reads shared
state without the lock; a server is shut down, copied and restarted while its
old instance is still running; a task of a job times out while its worker still
reports it; the applier of a killed server goes on checking logs; several
goroutines end a test and write its visualization. `PROJECT.json` lists each such hazard with its line and the
properties that cover it.

What makes each part correct:

* network: `Call` returns true only if a server that was still registered executed the request; it returns unless a live server's handler hangs;
* clients: they reach the servers they may reach, through ends that exist, and are deleted once;
* key/value store: linearizable; a Put takes effect at most once and what it returns stays true; operations return;
* lock: one holder; only the owner frees it; Acquire and Release make progress;
* election: one vote per peer and term, one leader per term, terms only grow;
* server group: nothing a client was told is saved is lost by a restart; Partition separates the two sides;
* shard configuration: balanced after every change, no server in two groups, no needless move;
* coordinator: reduces after maps, finished only when all is reported, a task goes to somebody else when its time is over and only then, every bucket is reduced;
* the tests themselves: they accept what a correct store or Raft does, notice what a faulty Raft applies, end, and leave a visualization that shows the failure.

## Modules

| Module | Models | Notes |
|---|---|---|
| `KVServer` | `kvsrv1/server.go`, `kvsrv1/rpc/rpc.go` | the handlers as functions of the store; used by the modules below |
| `VersionedKV` | what a clerk promises its users | the abstract specification: an operation is called, executed once at some point (a Put may return ErrMaybe) and returns |
| `KVSystem` | `kvsrv1/client.go` and the server over `LabRPC` | the detailed specification; `Linearizable` says that it implements `VersionedKV` |
| `Lock` | `kvsrv1/lock/lock.go` over `VersionedKV` | one action per Get or Put that returns: `AcquireGot`, `CreateReturned`, `TakeReturned`, `ConfirmReturned`, `ReleaseGot`, `CheckReturned`, `ReputReturned` |
| `KVTest` | `kvtest1/kvtest.go`, `kvtest1/porcupine.go`, `models1/kv.go` over `VersionedKV` | four tests: put and append (SpawnClientsAndWait and its checks), at-least-once, spread; `KvStep` is the porcupine model, run along the store's own order |
| `LabRPC` | `labrpc/labrpc.go` | actions only; `KVSystem`, `Clnts` and `ServerGrp` are the systems over them |
| `Clnts` | `tester1/clnts.go`, Cleanup of `config.go`, over `LabRPC` | arbitrary clients, handlers and a tester that reconfigures at any time |
| `Annotation` | `tester1/annotation.go`, checkPorcupine | operators; `cleanup` is five: isFinalized, clear and finalize lock separately, and the file is opened and written after the lock is released |
| `RaftHarness` | `raft1/server.go`, `raft1/test.go` with `Annotation` | the test's goroutine, an applier per instance of a server and the goroutine of SIGINT; Raft is external |
| `RaftElection` | `raft1/raft.go` | every read that the ticker makes without the lock is an action of its own |
| `ServerGrp` | `tester1/group.go`, `srv.go`, `persister.go` over `LabRPC` | ShutdownServer is three actions, which requests come between; the service is external: a handler saves its argument and replies |
| `ShardCfg` | `shardkv1/shardcfg/shardcfg.go` | a call is one action; Join's random map order is the choice of the groups added before it stops |
| `Coordinator` | `mr/coordinator.go` | the callers are arbitrary processes that use the two RPCs |
| `LockProofs`, `ClntsProofs`, `KVSystemProofs`, `KVTestProofs`, `ServerGrpProofs` | theorems about the module of that name | |
| `RaftProofs`, `AssignmentProofs` | theorems about `RaftElection` and `RaftHarness`, and about `Coordinator` and `ShardCfg` | the two specifications of a module share neither constants nor variables; those of `RaftElection` and `Coordinator` have their names in those of their definitions (`ElectionSpec`, `CoordinatorInv`) |
| `FoldLemmas` | nothing of the code | induction over numbers and finite sets, what recursive functions and folds compute, and sums; used by the proofs about loops |
| `MC*` | instances for TLC | constants, symmetry |

Definitions whose comment begins with "Faulty" are mutants: plausible errors in
the code, each of which makes TLC refute one of the properties. They are no part
of the specifications.

### State and code

* `LabRPC.calls[r]` stands for a request with its goroutines: `stage` is what
  the caller waits for (sent, waiting, answered, failed), `handler` is the
  goroutine around `dispatch`. The two end independently, as in the code: a slot
  is free again when both have ended. A `*Server` is a number, so that a server
  that was deleted and one registered later under its name differ.
  Delays are left to interleaving. Byte counts, gob encoding and the choice
  between services and methods of one server are left out.
* `KVSystem.clerk[c]` is the loop of Get or Put. `requestCount` stops at 2; the
  code only compares it with 1. `effects`, `verdict` and `seen` are history.
* `Lock` keeps `pc` (the call Acquire or Release is waiting for), `valWritten`,
  `currVersion`. `Fresh` values are those no client carries and the lock does
  not hold: `RandValue(8)` is taken to be unique.
* `RaftElection.expired[i]` stands for the comparison of lastHeartBeat with the
  election timeout. The log only ever holds the dummy entry, so the log checks
  of RequestVote always pass and are left out.
* `ServerGrp.live[i]` is the instance whose Persister is `srvs[i].saved`;
  `disk[n]` is what instance `n` has saved, killed or not.
* `Clnts.srvs[c]` is `Server` for nil. An end is named by its client and server.
  `stale` (ends that ConnectTo left enabled), `deleted` and `fatal` are history.
* `KVTest.pc[c]` is the call a client waits for, `ver`, `err`, `res` its local
  variables; `main` and `next` are SpawnClientsAndWait with its two loops. A send
  on an unbuffered channel and its receive are one step. No client starts a round while clients are being signalled; in the
  code one that is not signalled yet may, between two sends, which is as if it had started before the first. `kv`, `at` and `accepted` are
  history: the porcupine model taken along the order of execution, a
  witness that a linearization exists.
* `RaftHarness`: an instance is a server and the number of its rfsrv. `srvs[i]` lags
  behind `newest[i]` between newRfsrv and the assignment to ts.srvs. `logs` of an
  instance that nobody reads any more are emptied. `Committed` is what a correct Raft
  applies; with `correct` false any command arrives at any index, also at the other appliers after one has
  failed (`MaxFailing` bounds how many).
* `Annotation` keeps the kinds of the annotations made, and the ongoing one as the
  servers its text names; `file` is what the visualization shows, `cleaning[p]` where a goroutine is in cleanup and
  `content[p]` what finalize returned to it. VIS_FILE is one file, and checkPorcupine is one step.
* `Coordinator.overdue` is the set of tasks with a StartTime more than ten
  seconds ago. `attempts` and `reported` are history.

## Runs

| Run | What it asks | Bounds |
|---|---|---|
| `lock_unreliable` | mutual exclusion, release by the owner only, progress, with ErrMaybe | 2 clients, 2 acquisitions each, 3 random values |
| `lock_orphan` (violation) | does somebody always acquire the lock? | the same |
| `clnts` | true means executed by a live server; a client reaches what it may; ends are deleted once and stay dead; Call returns | 1 client, 2 server names, 3 servers made, 1 request |
| `kv_linearizable` | refinement of `VersionedKV` | 2 clerks, 2 operations each, 1 key, lost requests and replies |
| `kv_disconnect` | the inductive invariant behind it, a Put takes effect at most once, its result stays true, operations return | 2 clerks, 1 operation each, 2 requests in flight of one clerk and 1 of the other, ends disabled and enabled |
| `kvtest` | the tests' checks and the porcupine model accept a correct store; tests end | 2 clients and the test's goroutine, 2 rounds each, ErrMaybe |
| `raft_election` | one vote per term, one majority, terms grow | 3 peers, terms up to 2, 2 elections |
| `raft_two_leaders` (violation) | one leader per term? | the same |
| `raft_harness` | disagreement stops the test, a correct Raft does not; faults and failures are shown | 2 servers, 1 restart, 2 indices, a snapshot at index 1; a faulty Raft goes on until one applier has failed |
| `group_restart` | acknowledged items survive restarts; Partition splits | 2 servers, 3 starts, 1 item, 1 request |
| `shardcfg` | CheckConfig after each change, disjoint servers, fewest moves | 7 shards, 4 group ids, 4 server lists of which two share a server, 3 changes, 2 groups per call |
| `mr_coordinator` | phases in order, finished means reported, what is handed out again, which buckets are lost | 2 + 2 tasks, 1 slow caller, 2 crashes |

Why the bounds are enough for the interesting cases. Two clients of the lock
with two acquisitions each meet every pair of calls, a lock that was freed and
taken again, and a value that is written a second time. One request in `clnts`
is enough because requests do not influence each other; three servers for two
names allow one to be deleted and re-added while the request is under way, and the
clients' maps meet only in `DeleteClient` and `cleanup`, which go client by client. Two
requests of a clerk in `kv_disconnect` let an abandoned handler run during a
later attempt, and after the operation has returned. Two elections of
three peers give competing candidates, stale replies and a deposed leader. With three
starts for two servers one of them is restarted while a handler of its first instance
runs. Seven shards divide evenly neither between two groups nor between three. Two
crashes and a slow caller make one task be handed out three times. Two clients with two
rounds retry against each other, skip an entry after an ErrMaybe, and are signalled in
the middle of a retry. With two servers and one restart there is a zombie applier, a
server that disagrees with it, and two or three appliers that fail at once and meet in every step of cleanup (over a
correct Raft, by the zombies; a faulty one that makes several fail, `MaxFailing` > 1, is left to the proofs); the
snapshot interval of 10 is 2, so that a snapshot is taken, installed and ingested at
restart. Symmetry is
used for sets of model values that no operator orders, and never with a
liveness property.

`CHECK_DEADLOCK FALSE` is set where a system may stop: operations, elections
and acquisitions are bounded, and `log.Fatalf` ends the process of `ShardCfg`.

### Fairness

* `Lock`: a clerk's call returns (that is `OpReturns`, checked on `KVSystem`), a client
  in Acquire or Release keeps running, and a holder calls Release, as the
  clients of `lock_test.go` do. Nothing forces a client to call Acquire.
* `Clnts`: goroutines of requests run; handlers need not return.
* `KVTest`: clerks answer (that is `OpReturns`), goroutines run, the sleep ends, and a Put
  was performed by then; PutAtLeastOnce sees ErrMaybe finitely often (`MaxMaybe`), since
  the network loses each reply with a probability below one.
* `KVSystem`: goroutines run and handlers return; strong fairness for the
  delivery of a request and of a reply, since the unreliable network drops each
  with a fixed probability below one. Nothing forces an end to be enabled again:
  `OpReturns` promises a return only to clerks whose end stays enabled.

Nothing is assumed of the callers of `Coordinator`: the one worker of the repository asks once
(`mr/worker.go:36`), so that a job ends is not claimed. What its coordinator owes to those that do ask is
`HandedOutAgain`.

## What the runs show beyond the properties that hold

* **The lock can be orphaned** (`lock_orphan`). The Put that creates the lock's
  key is treated as failed when it returns ErrMaybe. If it was performed,
  the lock holds a value that its client has forgotten and all spin.
  `AcquiresUnlessOrphaned` shows that this is the only way for progress to fail.
* **Two leaders in one term** (`raft_two_leaders`). sendRequestVote counts every
  reply of the current term, granted or not, and votesReceived is never reset.
  What RequestVote grants would be enough: `OneWinnerPerTerm` holds and is proved.
* **Buckets are lost** (`mr_coordinator`). BucketNum is a running count of
  assignments, so a reduce task handed out again gets another bucket.
  `LostBucketWasReassigned` shows that this is the only way to lose one.
* **ConnectTo does not disconnect** (`clnts`). Ends to servers that are not in the new list stay
  enabled, against the comment on srvs. `ReachesOnlyAllowed` holds with just this exception.
* **A killed server may stop a test** (`raft_harness`). Its applier still runs and writes into the log of
  the next instance; with snapshots it calls a nil Raft. `NoFalseAlarm` shows that
  nothing else raises an alarm over a correct Raft.
* **Two failing appliers may leave no visualization** (`raft_harness`). finalize sets finalized before the file
  is written. An applier that fails then takes the file for written, and its Fatalf ends the process. `VisKept` shows
  that with up to two failing appliers this is the only way to lose the failure: it holds when nobody is between
  finalize and the end of the write. With three, the second clears what the first finalized, and the
  third may write the file again without the failure. A SIGINT, of which the second half of `VisKept` says nothing, is
  like a failing applier, and may also come while checkPorcupine writes.

Read in the code, without a run of their own: ticker may send heartbeats of a
term it does not lead (`raft1/raft.go:286-289`) and ask for votes in a
term it is not a candidate of (`:297`); heartbeats of the current term do not
reset the timeout (`:177`); the porcupine model does not accept ErrNoKey from a Put
(`models1/kv.go:62`), which the server returns and `kvsrv_test.go:40` expects (the loops of
kvtest never meet it: `HistoryAccepted`); SpreadPuts logs none of its Puts (`kvtest1/kvtest.go:299`);
the check of a run on a network that performs no Put in time fails in GetJson (`:178`);
annotateContinuousEnd adds an annotation without a start when "there's no on-going"
one (`tester1/annotation.go:481`), and AnnotateCheckerEnd resets a copy of ckbegin
(`:173`); MakeClientTo after cleanup writes to a nil map (`tester1/clnts.go:158`);
MakePartition of an even number of servers names server 0 twice (`tester1/group.go:285`);
ConnectAll while a server is down enables the ends that its killed instance still
holds (`tester1/group.go:155`); the worker asks for one task only, under
RPC names without a service, and Done is always false (`mr/worker.go:36,142`,
`mr/coordinator.go:258`).

## Proofs

Each inductive invariant was checked by TLC on the instance of a run first; those named
`IndInv`, `ElectionInv` or `CoordinatorInv` in a run's configuration are checked by it every time.

* `LockProofs` (any clients, keys and values; no bound on acquisitions is
  used): `IndInv`, that is `LockInv` with `TypeOK`. Mutual exclusion is not inductive
  alone: a client that is about to take the lock must be known to Put over a
  version at which the lock was free (`TakeIsOfFreeLock`), a client in Release to
  own the lock at the version it read or to have freed it (`ReleaseInv`), and
  random values to differ (`DistinctTokens`). From it: `MutualExclusion`,
  `OnlyOwnerReleases`, `ReleaseFrees`.
* `ClntsProofs` (any clients, servers, requests and arguments): `IndInv`. It has the network's invariant:
  a `*Server` is registered once, so one that is registered at the check before
  the answer was registered when its handler ran; and `EndInv`, which says of each end what the
  network's two maps hold from what its client knows: an enabled end is allowed or
  stale, only an end that was made and not deleted has a connection, and a deleted
  one belongs to nobody in clerks. From it: `OkMeansExecuted`, `NeverDeletedTwice`,
  `ReachesOnlyAllowed`, `DeletedEndsAreDead`. The properties are not inductive alone: what
  a request meets when it arrives depends on all connects since its end was made.
* `RaftProofs`, of the election (any finite set of peers): `ElectionInv`, that is `ElectionTypeOK` and `VoteInv`, with the fact that a
  vote of a term is cast when the voter enters the term, so that a second one
  is impossible; two majorities of a finite set intersect, hence `OneWinnerPerTerm`;
  `TermsAndLeaders` from the types.
* `RaftProofs`, of the tests (any servers, instances, commands, log lengths and snapshot intervals): `IndInv` has four
  independent parts. `LogInv` needs `PlainInv`: an instance that is not in ts.srvs yet has an empty log,
  because its applier writes to the log of the one that is. `NoFalseAlarm` needs `RaftInv`: while every
  applier runs for the server in ts.srvs, logs are exactly the committed commands up to
  lastApplied and snapshots are right, so the next command passes the checks. `FaultShown` needs
  `Installed`: ts.srvs lags behind only while mksrv runs, so that finfo.crashed can be computed from it.
  `VisKept` needs `CleanInv`, `OpsInv` and `ErrorInv`: only failed appliers, the test's end and the signal
  clean up; the error is among the annotations until somebody finalizes them, then in the local annotations of that
  applier until its write is done, then in the file. A second one that finds finalized set clears the annotations,
  which nobody needs then, as there is no third (`NoThird`).
* `ServerGrpProofs` (any finite set of servers, any items and requests): `IndInv`, the types and `DurableInv`. A registered
  server is the one whose Persister the group keeps (`RegisteredIsLive`), because
  DeleteServer comes before the copy; an answer is given only while the handler's
  instance is registered; so the item is in the Persister that is copied. From
  it: `AckedIsDurable`. `PartitionSplits` is about the two loops of Partition (`Gather`), one after the other. Its
  invariant (`Gathered`) is that the servers handled so far are connected, have all ends among themselves and none to
  or from the other side; a turn adds one server, since connect enables the ends of those that are connected
  already, and leaves the other side as it was (`Untouched`), so the second loop keeps what the first one did.
  Partition is called only when all servers have been started, so the ends exist.
* `AssignmentProofs`, of the coordinator (any numbers of tasks, timeouts and crashes): `CoordinatorInv`, that is `JobInv`, `BucketInv` and `IdleInv` with
  `CoordinatorTypeOK`; from it `ReduceAfterMaps`, `FinishedMeansReported`, `HandedOutAgain` and `LostBucketWasReassigned`. `HandedOutAgain`
  needs `IdleInv`, because checkTimeout sets every overdue task to Idle and GetTask hands out one of them: the others wait as
  Idle for the next call, or for a late report. The last needs a count:
  every number below reduceCount was given to some reduce task, and reduceCount is at least the number of
  reduce tasks that were handed out. When all of them are reported, each bucket has been given out, and the task that
  has it was reported, if not under this bucket then under another.
* `AssignmentProofs`, of the shard configuration (any groups and servers; up to 256 shards, since analyze looks for a
  minimum below 257): `RebalanceIsGood`. The first loop leaves no shard without a group. The second ends, because moving
  a shard from a group to one with at least two fewer lowers the number of pairs of shards in the same group
  (`MoveLowers`), and where it ends no two groups are more than one shard apart. From it `ChangedConfigIsGood`;
  `ServersDisjoint` because Join compares each group with those it has added itself (`AddLemma`). The two are
  inductive together.
  `MovesAsFewAsPossible` needs to know which groups a rebalance has taken shards from and given shards to. `Lean`,
  which every turn of the second loop keeps (`MoveLean`), says that these are different groups, that one that lost
  a shard is among the largest and one that got a shard among the smallest, but for one, and that none that got a shard
  is larger than one that lost one. At the end each group has the quotient of shards and groups, or one more
  (`LoadIsQuota`), so no two groups could trade the one more and keep another shard by it (`NoTrade`). Then group
  by group, or group by group with what the quotas differ by, no quotas keep more (`KeepsLess`), and the sums compare
  as their terms do (`SumCompare`).
* `KVSystemProofs` (any clerks, keys, values, versions, operations and requests in flight): `IndInv`. The requests of
  an operation that are still somewhere, waiting, running or abandoned, are all the same; a Put
  that took effect has raised the version of its key above the one that its requests carry, so none of them can
  take effect again; a Put that has sent one request only, which is
  answered with ErrVersion, leaves no other request behind that could succeed. From it
  `AtMostOnce` and `VerdictHolds`, with ends disabled at any time.
  `LinInv` adds that no handler outlives its call, and that what an operation has seen is what its latest request
  returned unless an earlier one has performed it; from it come `NoKeyHolds` and the refinement: `Refinement` shows that every step of clerks, network and handlers is a
  call, an execution or a return of `VersionedKV`, or none of them, under the mapping that `KVSystem` instantiates it
  with. Both have the hypothesis that no end is ever disabled (`Disconnectable = {}`), which is how the run
  `kv_linearizable` is configured: a caller gives up when its end is disabled while the handler runs on, and that
  handler may still perform a Put after a resent request was answered ErrNoKey and Put has returned it.
* `KVTestProofs` (any clients and rounds): `IndInv` says where each loop is and which version it puts with (`LoopInv`),
  that an answer is what the model gives in the state in which the operation was executed (`AnswerInv`), that the
  state of the porcupine model is the store (`ModelInv`), and that the value at the version
  after an own Put that returned OK is one's own (`ReadInv`). From it `HistoryAccepted` and `OkPutIsRead`. The hypothesis
  `AnyList` is that values are all lists of entries; the run has short ones, which its bounds never exceed.
  `PassInv` adds that only lists are put (`ListInv`), that nobody gets ErrNoKey or reads anything but a list
  (`SoundInv`), and that a client of PutAtLeastOnce or SpreadPuts knows the version of its key whatever its
  Puts returned (`OwnInv`); from it `OnlyCountsFail`: no client calls Fatalf. `CountInv` is about what is counted
  and gives the rest of `ChecksPass`, that the test's own checks pass too. For the put test every version of the key is a Put that some client has
  counted or will count when its call returns (`VersionsInv`, a sum over the clients). For the append test it
  says what the loop of CheckAppends makes of the list at any time: the entries of a client are in order
  (`OrderInv`); the rounds it finished without leaving an entry are ones that it counted as maybe, and if its entry of the
  current round is there it will count it (`EntriesInv`); a Put that will be performed adds the entry to the
  list as it is, since it carries the version that was read with it (`FreshInv`). When all clients are gone nobody
  changes the store, so the check reads what they left (`CheckInv`, `CollectInv`). Two more hypotheses: `NoJson`, "" is not
  the JSON of a list, and `OwnKeys`, no two clients have the same key.

The assumptions are those named in the modules: bounds and task counts are natural
numbers, the sets of peers and of servers are finite, the values that stand for "none"
are none of the others.

What a loop computes is proved by induction. The library states induction for a predicate, which the
provers cannot instantiate; `FoldLemmas` states it for a set (`Induction`, from the fact that a set of natural numbers has a least
element) and derives what the loops of the models need: a fold takes its elements one by one (`FoldExists`,
`FoldRuns`), and a recursive function whose argument gets smaller in some measure exists and ends
(`LoopExists`, `LoopResult`). Sums over finite sets exist (`SumExists`), compare as their terms do (`SumCompare`),
and the sizes of disjoint sets add up to the size of their union (`SumOfSizes`).

Only model-checked: the liveness properties (`ReleaseReturns`, `AcquiresUnlessOrphaned`, `CallReturns`, `OpReturns`, `TestEnds`),
since TLAPS does not treat fairness here. Every invariant and every other action property
of a passing run is proved.

## Not modelled

* `kvraft1`, `kvraft1/rsm`, `shardkv1` clients, servers and controller: stubs in this commit.
* Replication, persistence and snapshots of Raft: stubs. `RaftHarness` takes a Raft from
  outside; `RaftElection` has no restart, since nothing is persisted that a restart could read.
* The polling checks of `raft1/test.go` (checkOneLeader, checkTerms, checkNoLeader, checkNoAgreement, wait): they
  change nothing but annotations and depend on how long elections take. `one` is modelled by its outcomes: it may return
  once anything is committed, and fail at any time.
* A faulty Raft in tests with snapshots, and with it the error exits of ingestSnap (`raft1/server.go:179-198`).
* `mr/worker.go`: it asks for one task only, under RPC names that net/rpc refuses; its file
  handling is I/O. The MapReduce applications are pure functions.
* `labgob`: reflection over field names around encoding/gob. `main`: argument parsing, plugins.
* Statistics, texts, colours, timestamps and the HTML of the visualization; the delays of the network, which
  are left to interleaving; several groups of servers.

## Plan

Done: KVServer, VersionedKV, Lock, LabRPC, KVSystem, Clnts, KVTest, RaftElection, RaftHarness,
Annotation, ServerGrp, ShardCfg, Coordinator, and the proofs above: every safety property that a passing run
checks is proved. Left: replication and persistence of Raft, and the services over it, once the repository has them.
