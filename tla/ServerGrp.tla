----------------------------- MODULE ServerGrp -----------------------------
(***************************************************************************)
(* A server group of the tester (tester1/group.go, srv.go, persister.go)   *)
(* on the network of LabRPC: servers are started, connected, partitioned   *)
(* and shut down while requests to them are in flight.  Each start makes a *)
(* new instance of the service with a new Persister and new ClientEnds;    *)
(* the instances before it are killed but may still run.                   *)
(*                                                                         *)
(* The service is external: a handler saves what it is given and replies,  *)
(* as Raft must.  Requests come from clients, over one end per server that *)
(* is always enabled (Clnts.makeEnd).  The tester's goroutine runs one     *)
(* operation of the group at a time; ShutdownServer is three steps, which  *)
(* the goroutines of requests may come between.                            *)
(***************************************************************************)
EXTENDS Naturals, FiniteSets, SequencesExt

CONSTANTS Srv,          \* indices into srvs[]
          Item,         \* what clients ask a server to save
          Req,          \* slots for the requests in flight
          MaxServers    \* bound: how often a server is started

ASSUME MaxServersAssumption == MaxServers \in Nat
ASSUME NilAssumption == "nil" \notin Srv
ASSUME SrvAssumption == IsFiniteSet(Srv)

VARIABLES connected,    \* sg.connected
          starts,       \* starts[i]: which set of ends srvs[i] has
          live,         \* live[i]: the instance whose Persister is srvs[i].saved, or 0
          saved,        \* saved[i]: the content of srvs[i].saved if live[i] = 0
          disk,         \* disk[n]: the content of the Persister of instance n
          shutting,     \* where ShutdownServer is
          acked,        \* history: what clients were told is saved
          enabled, connections, servers, made, reliable, done, calls

netConfig == <<enabled, connections, servers, made, reliable, done>>
persisters == <<live, saved, disk>>
vars == <<connected, starts, persisters, shutting, acked, netConfig, calls>>

\* srvs[i].endNames[j], of the g-th set of ends; the ends that makeSrvGrp
\* makes are replaced by the first start and left out here.
SrvEnd(i, j, g) == <<"srv", i, j, g>>
ClntEnd(i) == <<"clnt", i>>

\* An end that has not been made yet is disabled, which is all a request sees.
End == {SrvEnd(i, j, g) : i \in Srv, j \in Srv, g \in 1..MaxServers}
       \cup {ClntEnd(i) : i \in Srv}

Net == INSTANCE LabRPC WITH
         Server <- Srv, Args <- Item, Reply <- {"OK"},
         NoEnd <- <<"nil">>, NoServer <- "nil", NoArgs <- "nil", NoReplyMsg <- "nil"

Idle == [step |-> "idle", srv |-> "nil"]

WiringTypeOK == connected \in [Srv -> BOOLEAN] /\ enabled \in [End -> BOOLEAN]

StoreTypeOK ==
    /\ starts \in [Srv -> Nat] /\ \A i \in Srv : starts[i] <= made
    /\ live \in [Srv -> 0..MaxServers]
    /\ saved \in [Srv -> SUBSET Item]
    /\ disk \in [1..MaxServers -> SUBSET Item]
    /\ shutting \in [step : {"delete", "copy"}, srv : Srv] \cup {Idle}
    /\ acked \subseteq Srv \X Item
    /\ connections \in [End -> Srv]
    /\ servers \in [Srv -> 0..MaxServers]
    /\ made \in 0..MaxServers
    /\ reliable \in BOOLEAN
    /\ calls \in [Req -> Net!CallRec]
    /\ \A r \in Req : calls[r].stage # "idle" => calls[r].end \in End

\* makeSrvGrp
Init ==
    /\ connected = [i \in Srv |-> FALSE]
    /\ starts = [i \in Srv |-> 0]
    /\ live = [i \in Srv |-> 0]
    /\ saved = [i \in Srv |-> {}]
    /\ disk = [n \in 1..MaxServers |-> {}]
    /\ shutting = Idle
    /\ acked = {}
    /\ enabled = [e \in End |-> e \in {ClntEnd(i) : i \in Srv}]
    /\ connections = [e \in End |-> IF e[1] = "clnt" THEN e[2] ELSE e[3]]
    /\ servers = [i \in Srv |-> 0]
    /\ made = 0
    /\ reliable = TRUE
    /\ done = FALSE
    /\ calls = [r \in Req |-> Net!FreeCall]

-----------------------------------------------------------------------------
(* Connecting and partitioning: functions of w, the enabled ends and       *)
(* sg.connected.                                                           *)

Between(i, S) ==
    {SrvEnd(i, j, starts[i]) : j \in S} \cup {SrvEnd(j, i, starts[j]) : j \in S}

\* Faulty: leaves the ends of the other servers alone.
ConnectSrvOutgoing(w, i, to) ==
    LET conn == [w.connected EXCEPT ![i] = TRUE]
    IN  [connected |-> conn,
         enabled |-> [e \in End |->
             w.enabled[e] \/ e \in {SrvEnd(i, j, starts[i]) : j \in {k \in to : conn[k]}}]]

\* sg.connect(i, to): only ends to and from servers that are connected.
ConnectSrv(w, i, to) ==
    LET conn == [w.connected EXCEPT ![i] = TRUE]
    IN  [connected |-> conn,
         enabled |-> [e \in End |->
             w.enabled[e] \/ e \in Between(i, {j \in to : conn[j]})]]

\* sg.disconnect(i, from)
DisconnectSrv(w, i, from) ==
    [connected |-> [w.connected EXCEPT ![i] = FALSE],
     enabled |-> [e \in End |-> w.enabled[e] /\ e \notin Between(i, from)]]

Wiring == [connected |-> connected, enabled |-> enabled]

Rewire(w) ==
    /\ connected' = w.connected
    /\ enabled' = w.enabled
    /\ UNCHANGED <<starts, persisters, acked, connections, servers, made, reliable, done, calls>>

ConnectOne(i) == Rewire(ConnectSrv(Wiring, i, Srv)) /\ UNCHANGED shutting

ConnectAll ==
    LET One(w, i) == ConnectSrv(w, i, Srv)
    IN  Rewire(FoldLeft(One, Wiring, SetToSeq(Srv))) /\ UNCHANGED shutting

DisconnectAll(i) == Rewire(DisconnectSrv(Wiring, i, Srv)) /\ UNCHANGED shutting

\* A loop of Partition: each server of a side leaves the other side and joins
\* its own.
Gather(w, mine, other) ==
    LET One(v, i) == ConnectSrv(DisconnectSrv(v, i, other), i, mine)
    IN  FoldLeft(One, w, SetToSeq(mine))

Partition(p1, p2) == Rewire(Gather(Gather(Wiring, p1, p2), p2, p1)) /\ UNCHANGED shutting

-----------------------------------------------------------------------------
(* Starting and shutting down.                                             *)

\* The content of srvs[i].saved.
Saved(i) == IF live[i] = 0 THEN saved[i] ELSE disk[live[i]]

\* Faulty: the new Persister is empty.
StartServerEmpty(i) ==
    /\ live[i] = 0
    /\ made < MaxServers
    /\ starts' = [starts EXCEPT ![i] = @ + 1]
    /\ live' = [live EXCEPT ![i] = made + 1]
    /\ disk' = [disk EXCEPT ![made + 1] = {}]
    /\ Net!AddServer(i)
    /\ UNCHANGED <<connected, saved, shutting, acked>>

\* New ends, a new Persister with a copy of the old one's content, a new
\* instance and its labrpc.Server.
StartServer(i) ==
    /\ live[i] = 0
    /\ made < MaxServers
    /\ starts' = [starts EXCEPT ![i] = @ + 1]
    /\ live' = [live EXCEPT ![i] = made + 1]
    /\ disk' = [disk EXCEPT ![made + 1] = Saved(i)]
    /\ Net!AddServer(i)
    /\ UNCHANGED <<connected, saved, shutting, acked>>

\* Faulty: forgets DeleteServer.
ShutdownServerNoDelete(i) ==
    /\ live[i] # 0
    /\ Rewire(DisconnectSrv(Wiring, i, Srv))
    /\ shutting' = [step |-> "copy", srv |-> i]

\* ShutdownServer: first the ends of the group.
ShutdownServer(i) ==
    /\ live[i] # 0
    /\ Rewire(DisconnectSrv(Wiring, i, Srv))
    /\ shutting' = [step |-> "delete", srv |-> i]

\* ... then the clients' connections ...
DeleteServer ==
    /\ shutting.step = "delete"
    /\ Net!DeleteServer(shutting.srv)
    /\ shutting' = [shutting EXCEPT !.step = "copy"]
    /\ UNCHANGED <<connected, starts, persisters, acked>>

\* ... then the Persister is replaced by a copy and the instance is killed.
SupersedePersister ==
    LET i == shutting.srv
    IN  /\ shutting.step = "copy"
        /\ saved' = [saved EXCEPT ![i] = Saved(i)]
        /\ live' = [live EXCEPT ![i] = 0]
        /\ shutting' = Idle
        /\ UNCHANGED <<connected, starts, disk, acked, netConfig, calls>>

-----------------------------------------------------------------------------
(* Requests.                                                               *)

Call(r, i, x) ==
    /\ Net!Call(r, ClntEnd(i), x)
    /\ UNCHANGED <<connected, starts, persisters, shutting, acked>>

\* The service's handler: Persister.Save with what the instance has saved
\* before, and x; then the reply.
Handle(r) ==
    LET n == calls[r].inst
    IN  /\ Net!Dispatch(r, "OK")
        /\ disk' = [disk EXCEPT ![n] = @ \cup {calls[r].args}]
        /\ UNCHANGED <<connected, starts, live, saved, shutting, acked>>

Transport(r) ==
    /\ Net!ProcessReq(r) \/ Net!GiveUp(r) \/ Net!Answer(r)
    /\ UNCHANGED <<connected, starts, persisters, shutting, acked>>

Return(r) ==
    /\ Net!Return(r)
    /\ acked' = IF Net!Ok(r) THEN acked \cup {<<calls[r].srv, calls[r].args>>} ELSE acked
    /\ UNCHANGED <<connected, starts, persisters, shutting>>

\* MakeGroupStart starts all servers before anything is connected.
GroupStep ==
    /\ shutting = Idle
    /\ \/ \E i \in Srv : StartServer(i) \/ ShutdownServer(i)
       \/ /\ \A i \in Srv : starts[i] # 0
          /\ \/ \E i \in Srv : ConnectOne(i) \/ DisconnectAll(i)
             \/ ConnectAll
             \/ \E p1 \in SUBSET Srv : Partition(p1, Srv \ p1)

RequestStepOf(r) ==
    \/ \E i \in Srv, x \in Item : Call(r, i, x)
    \/ Handle(r) \/ Transport(r) \/ Return(r)

RequestStep == \E r \in Req : RequestStepOf(r)

Next == GroupStep \/ DeleteServer \/ SupersedePersister \/ RequestStep

Spec == Init /\ [][Next]_vars

-----------------------------------------------------------------------------
(* Properties.                                                             *)

\* What a client was told is saved stays in the Persister that the server's
\* next instance is given, however many times the server is shut down and
\* started while handlers of old instances run on ("config.go is careful to
\* call DeleteServer() before superseding the Persister").
AckedIsDurable == \A a \in acked : a[2] \in Saved(a[1])

\* A request's handler has saved its item, and the server it came from is
\* registered only while its Persister is the one that is kept.
RequestIsSaved(r) ==
    /\ calls[r].stage = "sent" => calls[r].args \in Item
    /\ calls[r].stage = "waiting" => calls[r].handler # "none"
    /\ calls[r].handler # "none" =>
          calls[r].srv \in Srv /\ calls[r].inst \in 1..made /\ calls[r].args \in Item
    /\ calls[r].handler = "returned" => calls[r].args \in disk[calls[r].inst]
    /\ Net!Ok(r) => calls[r].handler = "returned" /\ calls[r].args \in Saved(calls[r].srv)

RegisteredIsLive ==
    \A i \in Srv : /\ live[i] <= made
                   /\ servers[i] # 0 => live[i] = servers[i]
                   /\ shutting.step = "copy" /\ shutting.srv = i => servers[i] = 0
                   /\ shutting.step # "idle" /\ shutting.srv = i => live[i] # 0

\* What makes AckedIsDurable inductive.
DurableInv ==
    /\ AckedIsDurable
    /\ RegisteredIsLive
    /\ \A r \in Req : RequestIsSaved(r)

\* The inductive invariant: the types, and that every handler that has
\* returned has left its item where a restart finds it.
IndInv == StoreTypeOK /\ WiringTypeOK /\ DurableInv

\* After Partition the current ends within a side are enabled and those
\* between the sides are not, whoever was connected to whom before and in
\* whatever order the two loops meet the servers.
PartitionSplits ==
    [][ \A p \in SUBSET Srv : Partition(p, Srv \ p) =>
          \A i, j \in Srv :
              enabled'[SrvEnd(i, j, starts[i])] = (i \in p <=> j \in p) ]_vars
=============================================================================
