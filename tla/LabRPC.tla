------------------------------- MODULE LabRPC -------------------------------
(***************************************************************************)
(* labrpc/labrpc.go: the simulated network.  A Call on a ClientEnd makes a *)
(* request; a goroutine per request (processReq) looks up the server,      *)
(* runs the handler in a goroutine of its own and hands the reply, or a    *)
(* failure, back to the caller.  Requests are lost, replies are lost or    *)
(* late, and a caller stops waiting for a server that was deleted or cut   *)
(* off, while the handler it started goes on running.                      *)
(*                                                                         *)
(* The module has no Next: Clnts drives it with the tester's clients and   *)
(* arbitrary handlers, KVSystem with the Clerk and the key/value server,   *)
(* ServerGrp with a group of servers.                                      *)
(***************************************************************************)
EXTENDS Naturals

CONSTANTS End,          \* names of ClientEnds
          Server,       \* names of servers
          Req,          \* slots for the requests in flight
          Args, Reply   \* what requests and replies carry

CONSTANTS NoEnd, NoServer, NoArgs, NoReplyMsg   \* what a free slot holds

ASSUME NoServerAssumption == NoServer \notin Server

VARIABLES enabled,      \* rn.enabled, FALSE for an end that does not exist
          connections,  \* rn.connections
          servers,      \* rn.servers: the registered *Server of a name, 0 for nil
          made,         \* how many *Server have been made
          reliable,     \* rn.reliable
          done,         \* rn.done is closed
          calls         \* calls[r]: a request, its goroutines and its caller

netConfig == <<enabled, connections, servers, made, reliable, done>>
netVars == <<netConfig, calls>>

(***************************************************************************)
(* stage   - idle, then sent (in endCh, not looked up yet), waiting (for   *)
(*           the handler), answered or failed (on replyCh)                 *)
(* handler - the goroutine around server.dispatch                          *)
(* live    - was the handler's *Server registered when the handler ran?    *)
(***************************************************************************)
CallRec ==
    [stage : {"idle", "sent", "waiting", "answered", "failed"},
     handler : {"none", "running", "returned"},
     end : End \cup {NoEnd}, args : Args \cup {NoArgs},
     srv : Server \cup {NoServer}, inst : Nat, reliable : BOOLEAN,
     reply : Reply \cup {NoReplyMsg}, live : BOOLEAN]

\* A slot no goroutine uses.
FreeCall ==
    [stage |-> "idle", handler |-> "none", end |-> NoEnd,
     args |-> NoArgs, srv |-> NoServer, inst |-> 0, reliable |-> TRUE,
     reply |-> NoReplyMsg, live |-> FALSE]

NetTypeOK ==
    /\ enabled \in [End -> BOOLEAN]
    /\ connections \in [End -> Server \cup {NoServer}]
    /\ servers \in [Server -> Nat]
    /\ made \in Nat
    /\ reliable \in BOOLEAN
    /\ done \in BOOLEAN
    /\ calls \in [Req -> CallRec]
    /\ \A r \in Req : calls[r].stage # "idle" => calls[r].end \in End

MakeNetwork ==
    /\ enabled = [e \in End |-> FALSE]
    /\ connections = [e \in End |-> NoServer]
    /\ servers = [s \in Server |-> 0]
    /\ made = 0
    /\ reliable = TRUE
    /\ done = FALSE
    /\ calls = [r \in Req |-> FreeCall]

-----------------------------------------------------------------------------
(* The tester's operations on the network.                                 *)

Reliable(yes) ==
    /\ reliable' = yes
    /\ UNCHANGED <<enabled, connections, servers, made, done, calls>>

Enable(e, yes) ==
    /\ enabled' = [enabled EXCEPT ![e] = yes]
    /\ UNCHANGED <<connections, servers, made, reliable, done, calls>>

\* Faulty: registers the *Server that was deleted again.
AddServerAgain(s) ==
    /\ made' = 1
    /\ servers' = [servers EXCEPT ![s] = 1]
    /\ UNCHANGED <<enabled, connections, reliable, done, calls>>

\* MakeServer and AddServer: every server added is a new *Server.
AddServer(s) ==
    /\ made' = made + 1
    /\ servers' = [servers EXCEPT ![s] = made + 1]
    /\ UNCHANGED <<enabled, connections, reliable, done, calls>>

DeleteServer(s) ==
    /\ servers' = [servers EXCEPT ![s] = 0]
    /\ UNCHANGED <<enabled, connections, made, reliable, done, calls>>

Cleanup ==
    /\ ~done
    /\ done' = TRUE
    /\ UNCHANGED <<enabled, connections, servers, made, reliable, calls>>

-----------------------------------------------------------------------------
(* A request.                                                              *)

IsFree(r) == calls[r] = FreeCall

\* A slot of which no goroutine is left is free again.
SetCall(r, call) ==
    calls' = [calls EXCEPT ![r] =
        IF call.stage = "idle" /\ call.handler # "running" THEN FreeCall ELSE call]

SetStage(r, stage) == SetCall(r, [calls[r] EXCEPT !.stage = stage])

\* ClientEnd.Call, up to the wait on replyCh.  Once the network is cleaned up
\* the select may take the done branch.
Call(r, e, args) ==
    /\ IsFree(r)
    /\ \E stage \in {"sent"} \cup (IF done THEN {"failed"} ELSE {}) :
         SetCall(r, [FreeCall EXCEPT !.stage = stage, !.end = e, !.args = args])
    /\ UNCHANGED netConfig

\* processReq: readEndnameInfo, the lost request, and the start of the handler.
ProcessReq(r) ==
    LET e == calls[r].end
        s == connections[e]
        reachable == enabled[e] /\ s # NoServer /\ servers[s] # 0
    IN  /\ calls[r].stage = "sent"
        /\ \/ /\ reachable
              /\ SetCall(r, [calls[r] EXCEPT
                     !.stage = "waiting", !.handler = "running", !.srv = s,
                     !.inst = servers[s], !.reliable = reliable])
           \/ /\ ~reachable \/ ~reliable
              /\ SetStage(r, "failed")
        /\ UNCHANGED netConfig

\* The handler of r runs and returns reply: dispatch does not look at whether
\* its *Server is still registered, or whether the caller still waits.
Dispatch(r, reply) ==
    /\ calls[r].handler = "running"
    /\ SetCall(r, [calls[r] EXCEPT
           !.handler = "returned", !.reply = reply,
           !.live = servers[calls[r].srv] = calls[r].inst])
    /\ UNCHANGED netConfig

IsServerDead(r) ==
    ~enabled[calls[r].end] \/ servers[calls[r].srv] # calls[r].inst

\* Faulty: waits for the handler even if the server is dead.
GiveUpAfterHandler(r) ==
    /\ calls[r].stage = "waiting"
    /\ calls[r].handler = "returned"
    /\ IsServerDead(r)
    /\ SetStage(r, "failed")
    /\ UNCHANGED netConfig

\* The 100 ms poll finds the server dead: the caller gets a failure, while the
\* handler, if it has not returned, runs on.
GiveUp(r) ==
    /\ calls[r].stage = "waiting"
    /\ IsServerDead(r)
    /\ SetStage(r, "failed")
    /\ UNCHANGED netConfig

\* Faulty: does not check the server again before it answers.
AnswerUnchecked(r) ==
    /\ calls[r].stage = "waiting"
    /\ calls[r].handler = "returned"
    /\ \/ SetStage(r, "answered")
       \/ ~calls[r].reliable /\ SetStage(r, "failed")
    /\ UNCHANGED netConfig

\* The handler's reply is there: the check before answering, the lost reply,
\* and the answer, which may still be delayed (longReordering) before Return.
Answer(r) ==
    /\ calls[r].stage = "waiting"
    /\ calls[r].handler = "returned"
    /\ \/ /\ ~IsServerDead(r)
          /\ SetStage(r, "answered")
       \/ /\ IsServerDead(r) \/ ~calls[r].reliable
          /\ SetStage(r, "failed")
    /\ UNCHANGED netConfig

Ok(r) == calls[r].stage = "answered"

\* ClientEnd.Call returns Ok(r), and the reply if so.
Return(r) ==
    /\ calls[r].stage \in {"answered", "failed"}
    /\ SetStage(r, "idle")
    /\ UNCHANGED netConfig

-----------------------------------------------------------------------------
(* Properties.                                                             *)

\* "Call() returns true to indicate that the server executed the request and
\* the reply is valid": and the server that did was not deleted before, so
\* what it persisted went to a Persister that was still in use.
OkMeansExecuted ==
    \A r \in Req : Ok(r) => calls[r].handler = "returned" /\ calls[r].live

\* The inductive invariant behind OkMeansExecuted: a *Server is registered at
\* most once, so one that is registered when its handler has returned was
\* registered when the handler ran.
ReqInv(r) ==
    /\ calls[r].stage = "waiting" => calls[r].handler # "none"
    /\ calls[r].handler # "none" => calls[r].srv \in Server /\ calls[r].inst \in 1..made
    /\ calls[r].handler = "returned" /\ servers[calls[r].srv] = calls[r].inst
         => calls[r].live
    /\ Ok(r) => calls[r].handler = "returned" /\ calls[r].live

NetInv ==
    /\ \A s \in Server : servers[s] <= made
    /\ \A r \in Req : ReqInv(r)

\* The handler has not returned and the caller has a reason to wait for it.
Hung(r) == calls[r].stage = "waiting" /\ calls[r].handler = "running" /\ ~IsServerDead(r)

\* "Call() is guaranteed to return except if the handler function on the
\* server side does not return": not even then, if the server dies.
CallReturns == \A r \in Req : []<>(calls[r].stage = "idle" \/ Hung(r))
=============================================================================
