---------------------------- MODULE ClntsProofs ----------------------------
(***************************************************************************)
(* Proofs about the network and the clients of a test, for any sets of     *)
(* clients, servers and requests.                                          *)
(***************************************************************************)
EXTENDS Clnts, TLAPS

\* A free slot is a request record.
LEMMA FreeCallType == FreeCall \in CallRec
BY DEF FreeCall, CallRec

\* SetCall changes one slot: to the given record, or to a free slot.
LEMMA SetCallType ==
    ASSUME NEW r \in Req, NEW call \in CallRec, SetCall(r, call), NetTypeOK
    PROVE  /\ calls' \in [Req -> CallRec]
           /\ calls'[r] = call \/ calls'[r] = FreeCall
           /\ \A q \in Req : q # r => calls'[q] = calls[q]
BY FreeCallType DEF SetCall, NetTypeOK

-----------------------------------------------------------------------------
(* Types.                                                                  *)

\* The part of TypeOK that is about the clients.
ClntsTypeOK ==
    /\ clnts \subseteq Clnt /\ clerks \subseteq clnts
    /\ ends \subseteq clnts \X Server
    /\ srvs \in [Clnt -> SUBSET Server]
    /\ phase \in {"running", "clnts", "net"}
    /\ deleted \subseteq ends /\ stale \subseteq ends /\ fatal \in BOOLEAN

\* An operation of a client keeps the types.
LEMMA ClntStepType ==
    ASSUME TypeOK, NEW c \in Clnt, ClntStep(c)
    PROVE  TypeOK' /\ UNCHANGED <<calls, servers, made>>
<1>1. ASSUME NEW to \in SUBSET Server, MakeClientTo(c, to)
      PROVE  TypeOK' /\ UNCHANGED <<calls, servers, made>>
  BY <1>1 DEF TypeOK, NetTypeOK, MakeClientTo, netVars, netConfig, history
<1>2. ASSUME NEW E \in SUBSET End, NEW yes \in BOOLEAN, EnableEnds(E, yes)
      PROVE  NetTypeOK' /\ UNCHANGED <<calls, servers, made>>
  BY <1>2 DEF TypeOK, NetTypeOK, EnableEnds
<1>3. ends \subseteq End /\ EndsOf(c) \subseteq End
  BY EndAssumption DEF TypeOK, EndsOf
<1>4. ASSUME NEW to \in SUBSET Server, ConnectTo(c, to)
      PROVE  TypeOK' /\ UNCHANGED <<calls, servers, made>>
  <2>1. NetTypeOK' /\ UNCHANGED <<calls, servers, made>>
    <3>1. {e \in EndsOf(c) : e[2] \in to} \in SUBSET End
      BY <1>3
    <3>2. QED
      BY <1>2, <1>4, <3>1 DEF ConnectTo
  <2>2. ClntsTypeOK'
    BY <1>4 DEF ConnectTo, TypeOK, ClntsTypeOK, EndsOf
  <2>3. QED
    BY <2>1, <2>2 DEF TypeOK, ClntsTypeOK
<1>5. ASSUME NEW s \in Server, MakeEnd(c, s)
      PROVE  TypeOK' /\ UNCHANGED <<calls, servers, made>>
  <2>1. NetTypeOK' /\ UNCHANGED <<calls, servers, made>>
    BY <1>5, EndAssumption DEF MakeEnd, TypeOK, NetTypeOK, AllowedL
  <2>2. ClntsTypeOK'
    BY <1>5 DEF MakeEnd, TypeOK, ClntsTypeOK, history
  <2>3. QED
    BY <2>1, <2>2 DEF TypeOK, ClntsTypeOK
<1>6. ASSUME NEW s \in Server, Disconnect(c, s)
      PROVE  TypeOK' /\ UNCHANGED <<calls, servers, made>>
  <2>1. NetTypeOK' /\ UNCHANGED <<calls, servers, made>>
    BY <1>2, <1>3, <1>6 DEF Disconnect
  <2>2. QED
    BY <1>6, <2>1 DEF Disconnect, TypeOK
<1>7. CASE ConnectAll(c)
  <2>1. NetTypeOK' /\ UNCHANGED <<calls, servers, made>>
    BY <1>2, <1>3, <1>7 DEF ConnectAll
  <2>2. QED
    BY <1>7, <2>1 DEF ConnectAll, TypeOK
<1>8. CASE DisconnectAll(c)
  <2>1. NetTypeOK' /\ UNCHANGED <<calls, servers, made>>
    BY <1>2, <1>3, <1>8 DEF DisconnectAll
  <2>2. QED
    BY <1>8, <2>1 DEF DisconnectAll, TypeOK
<1>9. CASE DeleteClient(c)
  <2>1. NetTypeOK' /\ UNCHANGED <<calls, servers, made>>
    BY <1>9 DEF DeleteClient, Remove, TypeOK, NetTypeOK
  <2>2. ClntsTypeOK'
    BY <1>9 DEF DeleteClient, Remove, TypeOK, ClntsTypeOK, EndsOf
  <2>3. QED
    BY <2>1, <2>2 DEF TypeOK, ClntsTypeOK
<1>10. QED
  BY <1>1, <1>4, <1>5, <1>6, <1>7, <1>8, <1>9 DEF ClntStep

\* So do the tester's other steps.
LEMMA TesterStepType ==
    ASSUME TypeOK, TesterStep
    PROVE  TypeOK' /\ UNCHANGED calls
<1>1. CASE NetStep
  <2>1. NetTypeOK' /\ UNCHANGED calls
    BY <1>1 DEF NetStep, Reliable, AddServer, DeleteServer, TypeOK, NetTypeOK
  <2>2. QED
    BY <1>1, <2>1 DEF NetStep, TypeOK, clntVars, history
<1>2. CASE CleanupClnts
  <2>1. NetTypeOK' /\ UNCHANGED calls
    BY <1>2 DEF CleanupClnts, Remove, TypeOK, NetTypeOK
  <2>2. ClntsTypeOK'
    BY <1>2 DEF CleanupClnts, Remove, TypeOK, ClntsTypeOK, EndsOf
  <2>3. QED
    BY <2>1, <2>2 DEF TypeOK, ClntsTypeOK
<1>3. CASE CleanupNet
  BY <1>3 DEF CleanupNet, Cleanup, TypeOK, NetTypeOK, history
<1>4. QED
  BY <1>1, <1>2, <1>3, ClntStepType DEF TesterStep

\* The goroutines of a request keep the network's types.
LEMMA RequestType ==
    ASSUME NetTypeOK, NEW r \in Req,
           \/ \E e \in End, args \in Args : Call(r, e, args)
           \/ \E reply \in Reply : Dispatch(r, reply)
           \/ ProcessReq(r) \/ GiveUp(r) \/ Answer(r) \/ Return(r)
    PROVE  NetTypeOK'
<1>1. ASSUME NEW call \in CallRec, SetCall(r, call), UNCHANGED netConfig,
             call.stage # "idle" => call.end \in End
      PROVE  NetTypeOK'
  BY <1>1, SetCallType DEF NetTypeOK, netConfig, FreeCall
<1>2. ASSUME NEW e \in End, NEW args \in Args, Call(r, e, args)
      PROVE  NetTypeOK'
  <2>1. PICK stage \in {"sent", "failed"} :
          SetCall(r, [FreeCall EXCEPT !.stage = stage, !.end = e, !.args = args])
    BY <1>2 DEF Call
  <2>2. [FreeCall EXCEPT !.stage = stage, !.end = e, !.args = args] \in CallRec
    BY DEF FreeCall, CallRec
  <2>3. QED
    BY <1>1, <1>2, <2>1, <2>2 DEF Call, FreeCall
<1>3. ASSUME NEW reply \in Reply, Dispatch(r, reply)
      PROVE  NetTypeOK'
  <2>1. [calls[r] EXCEPT !.handler = "returned", !.reply = reply,
           !.live = servers[calls[r].srv] = calls[r].inst] \in CallRec
    BY DEF CallRec, NetTypeOK
  <2>2. QED
    BY <1>1, <1>3, <2>1 DEF Dispatch, NetTypeOK, CallRec
<1>4. CASE ProcessReq(r) \/ GiveUp(r) \/ Answer(r) \/ Return(r)
  <2>1. \A stage \in {"idle", "waiting", "answered", "failed"} :
          [calls[r] EXCEPT !.stage = stage] \in CallRec
    BY DEF CallRec, NetTypeOK
  <2>2. CASE \E stage \in {"idle", "waiting", "answered", "failed"} : SetStage(r, stage)
    <3>1. calls[r] \in CallRec /\ (calls[r].stage # "idle" => calls[r].end \in End)
      BY DEF NetTypeOK
    <3>2. calls[r].stage # "idle" /\ UNCHANGED netConfig
      BY <1>4 DEF ProcessReq, GiveUp, Answer, Return
    <3>3. PICK stage \in {"idle", "waiting", "answered", "failed"} : SetStage(r, stage)
      BY <2>2
    <3>4. QED
      BY <1>1, <2>1, <3>1, <3>2, <3>3 DEF SetStage, CallRec
  <2>3. CASE ProcessReq(r)
    <3> DEFINE s == connections[calls[r].end]
               call == [calls[r] EXCEPT
                   !.stage = "waiting", !.handler = "running", !.srv = s,
                   !.inst = servers[s], !.reliable = reliable]
    <3>1. CASE s \in Server /\ SetCall(r, call)
      <4>1. call \in CallRec
        <5>1. s \in Server /\ servers[s] \in Nat /\ reliable \in BOOLEAN /\ calls[r] \in CallRec
          BY <3>1 DEF NetTypeOK
        <5>2. QED
          BY <5>1 DEF CallRec
      <4>2. call.end = calls[r].end /\ calls[r].end \in End
        BY <2>3 DEF NetTypeOK, CallRec, ProcessReq
      <4>3. QED
        BY <1>1, <2>3, <3>1, <4>1, <4>2 DEF ProcessReq
    <3>2. calls[r].end \in End /\ s \in Server \cup {NoServer}
      BY <2>3 DEF NetTypeOK, ProcessReq
    <3>3. QED
      BY <2>2, <2>3, <3>1, <3>2 DEF ProcessReq
  <2>4. QED
    BY <1>4, <2>2, <2>3 DEF GiveUp, Answer, Return
<1>5. QED
  BY <1>2, <1>3, <1>4

\* The network's maps and requests, and the clients' maps, keep their types.
THEOREM TypeCorrect == Spec => []TypeOK
<1>1. Init => TypeOK
  <2> SUFFICES ASSUME Init PROVE TypeOK
    OBVIOUS
  <2>1. enabled \in [End -> BOOLEAN] /\ reliable \in BOOLEAN /\ done \in BOOLEAN
    BY Zenon DEF Init, MakeNetwork
  <2>2. /\ connections \in [End -> Server \cup {NoServer}] /\ servers \in [Server -> Nat]
        /\ made \in Nat
    BY DEF Init, MakeNetwork
  <2>3. calls \in [Req -> CallRec] /\ \A r \in Req : calls[r].stage = "idle"
    BY FreeCallType DEF Init, MakeNetwork, FreeCall
  <2>4. ClntsTypeOK
    BY DEF Init, ClntsTypeOK
  <2>5. QED
    BY <2>1, <2>2, <2>3, <2>4 DEF TypeOK, NetTypeOK, ClntsTypeOK
<1>2. TypeOK /\ [Next]_vars => TypeOK'
  <2> SUFFICES ASSUME TypeOK, [Next]_vars
               PROVE  TypeOK'
    OBVIOUS
  <2>1. ASSUME NetTypeOK', UNCHANGED clntVars PROVE TypeOK'
    BY <2>1 DEF TypeOK, clntVars, history
  <2>2. ASSUME NEW r \in Req, NEW e \in ends, NEW args \in Args, CallServer(r, e, args)
        PROVE  TypeOK'
    <3>1. e \in End
      BY EndAssumption DEF TypeOK
    <3>2. QED
      BY <2>1, <2>2, <3>1, RequestType DEF CallServer, TypeOK
  <2>3. ASSUME NEW r \in Req, NEW reply \in Reply, Handle(r, reply) PROVE TypeOK'
    BY <2>1, <2>3, RequestType DEF Handle, TypeOK
  <2>4. ASSUME NEW r \in Req, RequestStep(r) PROVE TypeOK'
    BY <2>1, <2>4, RequestType DEF RequestStep, TypeOK
  <2>5. CASE UNCHANGED vars
    BY <2>5 DEF vars, clntVars, history, netVars, netConfig, NetTypeOK, TypeOK
  <2>6. QED
    BY <2>2, <2>3, <2>4, <2>5, TesterStepType DEF Next
<1>3. QED
  BY <1>1, <1>2, PTL DEF Spec

-----------------------------------------------------------------------------
(* The network's invariant.                                                *)

\* A slot that is replaced by one that satisfies the invariant keeps it.
LEMMA SetCallInv ==
    ASSUME NetTypeOK, NetInv, NEW r \in Req, NEW call, SetCall(r, call), UNCHANGED netConfig,
           call.stage = "waiting" => call.handler # "none",
           call.handler # "none" => call.srv \in Server /\ call.inst \in 1..made,
           call.handler = "returned" /\ servers[call.srv] = call.inst => call.live,
           call.stage = "answered" => call.handler = "returned" /\ call.live
    PROVE  NetInv'
<1>1. \A s \in Server : servers'[s] <= made'
  BY DEF NetInv, netConfig
<1>2. ASSUME NEW q \in Req, q # r PROVE ReqInv(q)'
  BY <1>2 DEF NetInv, ReqInv, SetCall, NetTypeOK, netConfig, Ok
<1>3. ReqInv(r)'
  BY DEF ReqInv, SetCall, NetTypeOK, netConfig, Ok, FreeCall
<1>4. QED
  BY <1>1, <1>2, <1>3 DEF NetInv

\* The goroutines of a request keep the network's invariant.
LEMMA RequestInv ==
    ASSUME NetTypeOK, NetInv, NEW r \in Req,
           \/ \E e \in End, args \in Args : Call(r, e, args)
           \/ \E reply \in Reply : Dispatch(r, reply)
           \/ ProcessReq(r) \/ GiveUp(r) \/ Answer(r) \/ Return(r)
    PROVE  NetInv'
<1>1. ASSUME NEW e \in End, NEW args \in Args, Call(r, e, args)
      PROVE  NetInv'
  <2>1. PICK stage \in {"sent", "failed"} :
          SetCall(r, [FreeCall EXCEPT !.stage = stage, !.end = e, !.args = args])
    BY <1>1 DEF Call
  <2>2. QED
    BY <1>1, <2>1, SetCallInv DEF Call, FreeCall
<1>2. ASSUME NEW reply \in Reply, Dispatch(r, reply)
      PROVE  NetInv'
  <2>1. calls[r] \in CallRec /\ ReqInv(r)
    BY DEF NetTypeOK, NetInv
  <2>2. QED
    BY <1>2, <2>1, SetCallInv DEF Dispatch, CallRec, ReqInv, Ok
<1>3. CASE ProcessReq(r)
  <2> DEFINE s == connections[calls[r].end]
             call == [calls[r] EXCEPT
                   !.stage = "waiting", !.handler = "running", !.srv = s,
                   !.inst = servers[s], !.reliable = reliable]
  <2>1. calls[r] \in CallRec /\ ReqInv(r) /\ UNCHANGED netConfig
    BY <1>3 DEF NetTypeOK, NetInv, ProcessReq
  <2>2. CASE SetStage(r, "failed")
    BY <2>1, <2>2, SetCallInv DEF SetStage, CallRec, ReqInv, Ok
  <2>3. CASE SetCall(r, call) /\ s # NoServer /\ servers[s] # 0
    <3>1. s \in Server
      BY <1>3, <2>3 DEF NetTypeOK, ProcessReq
    <3>2. servers[s] \in 1..made
      BY <2>3, <3>1 DEF NetTypeOK, NetInv
    <3>3. call.stage = "waiting" /\ call.handler = "running" /\ call.srv = s /\ call.inst = servers[s]
      BY <2>1 DEF CallRec
    <3>4. QED
      BY <2>1, <2>3, <3>1, <3>2, <3>3, SetCallInv
  <2>4. QED
    BY <1>3, <2>2, <2>3 DEF ProcessReq
<1>4. CASE GiveUp(r) \/ Answer(r) \/ Return(r)
  <2>1. calls[r] \in CallRec /\ ReqInv(r) /\ UNCHANGED netConfig
    BY <1>4 DEF NetTypeOK, NetInv, GiveUp, Answer, Return
  <2>2. ASSUME NEW stage \in {"idle", "failed"}, SetStage(r, stage) PROVE NetInv'
    BY <2>1, <2>2, SetCallInv DEF SetStage, CallRec, ReqInv, Ok
  <2>3. CASE Answer(r) /\ ~IsServerDead(r) /\ SetStage(r, "answered")
    BY <2>1, <2>3, SetCallInv DEF Answer, IsServerDead, SetStage, CallRec, ReqInv, Ok
  <2>4. QED
    BY <1>4, <2>2, <2>3 DEF GiveUp, Answer, Return
<1>5. QED
  BY <1>1, <1>2, <1>3, <1>4

\* The tester's steps keep it: a *Server is registered under a fresh number, so
\* no server is ever taken for one that was deleted.
LEMMA TesterInv ==
    ASSUME TypeOK, NetInv, TesterStep
    PROVE  NetInv'
<1>0. UNCHANGED calls /\ NetTypeOK
  BY TesterStepType DEF TypeOK
<1>1. CASE UNCHANGED <<servers, made>>
  BY <1>0, <1>1 DEF NetInv, ReqInv, Ok
<1>2. ASSUME NEW s \in Server, AddServer(s) PROVE NetInv'
  <2>1. /\ made \in Nat /\ made' = made + 1 /\ servers' = [servers EXCEPT ![s] = made + 1]
        /\ servers \in [Server -> Nat] /\ calls \in [Req -> CallRec]
    BY <1>0, <1>2 DEF AddServer, NetTypeOK
  <2>2. \A t \in Server : servers'[t] <= made'
    BY <2>1 DEF NetInv
  <2>3. ASSUME NEW r \in Req PROVE ReqInv(r)'
    BY <1>0, <2>1 DEF NetInv, ReqInv, Ok
  <2>4. QED
    BY <2>2, <2>3 DEF NetInv
<1>3. ASSUME NEW s \in Server, DeleteServer(s) PROVE NetInv'
  <2>1. /\ made \in Nat /\ made' = made /\ servers' = [servers EXCEPT ![s] = 0]
        /\ servers \in [Server -> Nat] /\ calls \in [Req -> CallRec]
    BY <1>0, <1>3 DEF DeleteServer, NetTypeOK
  <2>2. \A t \in Server : servers'[t] <= made'
    BY <2>1 DEF NetInv
  <2>3. ASSUME NEW r \in Req PROVE ReqInv(r)'
    BY <1>0, <2>1 DEF NetInv, ReqInv, Ok
  <2>4. QED
    BY <2>2, <2>3 DEF NetInv
<1>4. ASSUME NEW c \in Clnt, ClntStep(c) PROVE NetInv'
  BY <1>1, <1>4, ClntStepType
<1>5. CASE NetStep
  BY <1>1, <1>2, <1>3, <1>5 DEF NetStep, Reliable
<1>6. CASE CleanupClnts \/ CleanupNet
  BY <1>1, <1>6 DEF CleanupClnts, CleanupNet, Remove, Cleanup
<1>7. QED
  BY <1>4, <1>5, <1>6 DEF TesterStep

-----------------------------------------------------------------------------
(* The clients' invariant.                                                 *)

\* The part of IndInv that is about the clients' ends.
EndsInv ==
    /\ \A e \in End : EndInv(e)
    /\ phase # "running" => clerks = {}
    /\ ~fatal

\* An operation of a client keeps it.
LEMMA ClntStepEnds ==
    ASSUME TypeOK, EndsInv, NEW c \in Clnt, ClntStep(c)
    PROVE  EndsInv'
<1>1. /\ enabled \in [End -> BOOLEAN] /\ connections \in [End -> Server \cup {NoServer}]
      /\ srvs \in [Clnt -> SUBSET Server] /\ deleted \subseteq ends
      /\ ends \subseteq End /\ clerks \subseteq Clnt
  BY EndAssumption DEF TypeOK, NetTypeOK
<1>2. \A e \in End : e = <<e[1], e[2]>> /\ e[1] \in Clnt /\ e[2] \in Server
  BY EndAssumption
<1>3. ASSUME NEW to \in SUBSET Server, MakeClientTo(c, to) PROVE EndsInv'
  <2>1. c \notin clnts /\ ends \subseteq clnts \X Server /\ clerks' = clerks \cup {c}
    BY <1>3 DEF MakeClientTo, TypeOK
  <2>2. ASSUME NEW e \in End PROVE EndInv(e)'
    BY <1>1, <1>2, <1>3, <2>1 DEF EndsInv, EndInv, AllowedL, MakeClientTo, netVars, netConfig, history
  <2>3. QED
    BY <1>3, <2>2 DEF EndsInv, MakeClientTo, history
<1>4. ASSUME NEW to \in SUBSET Server, ConnectTo(c, to) PROVE EndsInv'
  <2>1. ASSUME NEW e \in End PROVE EndInv(e)'
    BY <1>1, <1>2, <1>4 DEF EndsInv, EndInv, AllowedL, ConnectTo, EnableEnds, EndsOf
  <2>2. QED
    BY <1>4, <2>1 DEF EndsInv, ConnectTo
<1>5. ASSUME NEW s \in Server, MakeEnd(c, s) PROVE EndsInv'
  <2>1. <<c, s>> \in End /\ <<c, s>> \notin deleted
    BY <1>1, <1>5, EndAssumption DEF MakeEnd
  <2>2. ASSUME NEW e \in End PROVE EndInv(e)'
    BY <1>1, <1>2, <1>5, <2>1 DEF EndsInv, EndInv, AllowedL, MakeEnd, history
  <2>3. QED
    BY <1>5, <2>2 DEF EndsInv, MakeEnd, history
<1>6. ASSUME NEW s \in Server, Disconnect(c, s) PROVE EndsInv'
  <2>1. ASSUME NEW e \in End PROVE EndInv(e)'
    BY <1>1, <1>2, <1>6 DEF EndsInv, EndInv, AllowedL, Disconnect, EnableEnds
  <2>2. QED
    BY <1>6, <2>1 DEF EndsInv, Disconnect
<1>7. CASE ConnectAll(c)
  <2>1. ASSUME NEW e \in End PROVE EndInv(e)'
    BY <1>1, <1>2, <1>7 DEF EndsInv, EndInv, AllowedL, ConnectAll, EnableEnds, EndsOf
  <2>2. QED
    BY <1>7, <2>1 DEF EndsInv, ConnectAll
<1>8. CASE DisconnectAll(c)
  <2>1. ASSUME NEW e \in End PROVE EndInv(e)'
    BY <1>1, <1>2, <1>8 DEF EndsInv, EndInv, AllowedL, DisconnectAll, EnableEnds, EndsOf
  <2>2. QED
    BY <1>8, <2>1 DEF EndsInv, DisconnectAll
<1>9. CASE DeleteClient(c)
  <2>1. \A e \in UNION {EndsOf(d) : d \in {c}} : e \in End /\ e[1] = c /\ e \notin deleted
    BY <1>1, <1>9 DEF EndsOf, EndsInv, EndInv, DeleteClient
  <2>2. ~fatal'
    BY <1>9, <2>1 DEF DeleteClient, Remove, EndsInv
  <2>3. ASSUME NEW e \in End PROVE EndInv(e)'
    BY <1>1, <1>2, <1>9 DEF EndsInv, EndInv, AllowedL, DeleteClient, Remove, EndsOf
  <2>4. QED
    BY <1>9, <2>2, <2>3 DEF EndsInv, DeleteClient
<1>10. QED
  BY <1>3, <1>4, <1>5, <1>6, <1>7, <1>8, <1>9 DEF ClntStep

\* So does every step.
LEMMA EndsStep ==
    ASSUME TypeOK, EndsInv, [Next]_vars
    PROVE  EndsInv'
<1>1. CASE UNCHANGED <<enabled, connections, clntVars>>
  BY <1>1 DEF EndsInv, EndInv, AllowedL, clntVars, history
<1>2. CASE CleanupClnts
  <2>1. \A e \in UNION {EndsOf(d) : d \in clerks} : e[1] \in clerks /\ e \notin deleted
    BY <1>2, EndAssumption DEF EndsOf, EndsInv, EndInv, TypeOK
  <2>2. ~fatal'
    BY <1>2, <2>1 DEF CleanupClnts, Remove, EndsInv
  <2>3. ASSUME NEW e \in End PROVE EndInv(e)'
    BY <1>2, EndAssumption DEF EndsInv, EndInv, AllowedL, CleanupClnts, Remove, EndsOf, TypeOK, NetTypeOK
  <2>4. QED
    BY <1>2, <2>2, <2>3 DEF EndsInv, CleanupClnts
<1>3. CASE CleanupNet
  BY <1>3 DEF CleanupNet, Cleanup, EndsInv, EndInv, AllowedL, history
<1>4. CASE NetStep
  BY <1>1, <1>4 DEF NetStep, Reliable, AddServer, DeleteServer
<1>5. ASSUME NEW r \in Req,
             \/ \E e \in ends, args \in Args : CallServer(r, e, args)
             \/ \E reply \in Reply : Handle(r, reply)
             \/ RequestStep(r)
      PROVE  UNCHANGED <<enabled, connections, clntVars>>
  BY <1>5 DEF CallServer, Call, Handle, Dispatch, RequestStep, ProcessReq, GiveUp, Answer,
              Return, netConfig
<1>6. CASE UNCHANGED vars
  BY <1>1, <1>6 DEF vars, netVars, netConfig
<1>7. QED
  BY <1>1, <1>2, <1>3, <1>4, <1>5, <1>6, ClntStepEnds DEF Next, TesterStep

\* The whole inductive invariant holds in every state.
THEOREM IndInvariant == Spec => []IndInv
<1> DEFINE Inv == NetInv /\ EndsInv
<1>1. Init => Inv
  <2>1. Init => NetInv
    BY DEF Init, MakeNetwork, NetInv, ReqInv, FreeCall, Ok
  <2>2. Init => EndsInv
    BY DEF Init, MakeNetwork, EndsInv, EndInv
  <2>3. QED
    BY <2>1, <2>2
<1>2. TypeOK /\ Inv /\ [Next]_vars => Inv'
  <2> SUFFICES ASSUME TypeOK, NetInv, EndsInv, [Next]_vars
               PROVE  NetInv'
    BY EndsStep
  <2>1. ASSUME NEW r \in Req, NEW e \in ends, NEW args \in Args, CallServer(r, e, args)
        PROVE  NetInv'
    <3>1. e \in End
      BY EndAssumption DEF TypeOK
    <3>2. QED
      BY <2>1, <3>1, RequestInv DEF CallServer, TypeOK
  <2>2. ASSUME NEW r \in Req, NEW reply \in Reply, Handle(r, reply) PROVE NetInv'
    BY <2>2, RequestInv DEF Handle, TypeOK
  <2>3. ASSUME NEW r \in Req, RequestStep(r) PROVE NetInv'
    BY <2>3, RequestInv DEF RequestStep, TypeOK
  <2>4. CASE UNCHANGED vars
    BY <2>4 DEF vars, netVars, netConfig, NetInv, ReqInv, Ok
  <2>5. QED
    BY <2>1, <2>2, <2>3, <2>4, TesterInv DEF Next
<1>3. TypeOK /\ Inv => IndInv
  BY DEF IndInv, EndsInv
<1>4. QED
  BY <1>1, <1>2, <1>3, TypeCorrect, PTL DEF Spec

\* A positive answer comes from a handler that ran while its server was up.
THEOREM OkIsExecuted == Spec => []OkMeansExecuted
<1>1. IndInv => OkMeansExecuted
  BY DEF IndInv, NetInv, ReqInv, OkMeansExecuted
<1>2. QED
  BY <1>1, IndInvariant, PTL

\* No end is deleted twice.
THEOREM DeletedOnce == Spec => []NeverDeletedTwice
<1>1. IndInv => NeverDeletedTwice
  BY DEF IndInv, NeverDeletedTwice
<1>2. QED
  BY <1>1, IndInvariant, PTL

\* A request that finds a server came through an end of the clients' maps that
\* is enabled and has a server.
LEMMA ReachesThroughEnd ==
    ASSUME TypeOK, [Next]_vars, NEW r \in Req, Reaches(r)
    PROVE  LET e == calls[r].end
           IN  e \in End /\ enabled[e] /\ connections[e] # NoServer
<1>1. calls[r].stage = "sent" /\ calls[r].end \in End /\ calls'[r] # calls[r]
  BY DEF Reaches, TypeOK, NetTypeOK
<1>2. ASSUME NEW q \in Req, NEW call, SetCall(q, call), q # r PROVE calls'[r] = calls[r]
  BY <1>2 DEF SetCall, TypeOK, NetTypeOK
<1>3. ASSUME NEW q \in Req, NEW e \in ends, NEW args \in Args, CallServer(q, e, args)
      PROVE  FALSE
  <2>1. calls[q].stage = "idle"
    BY <1>3 DEF CallServer, Call, IsFree, FreeCall
  <2>2. QED
    BY <1>1, <1>2, <1>3, <2>1 DEF CallServer, Call
<1>4. ASSUME NEW q \in Req, NEW call, SetCall(q, call), call.stage # "waiting" PROVE FALSE
  <2>1. q = r
    BY <1>1, <1>2, <1>4
  <2>2. calls'[r] = call \/ calls'[r] = FreeCall
    BY <1>4, <2>1 DEF SetCall, TypeOK, NetTypeOK
  <2>3. QED
    BY <1>4, <2>2 DEF Reaches, FreeCall
<1>5. ASSUME NEW q \in Req, NEW reply \in Reply, Handle(q, reply) PROVE FALSE
  <2>1. calls[q] \in CallRec
    BY DEF TypeOK, NetTypeOK
  <2>2. q = r
    BY <1>1, <1>2, <1>5 DEF Handle, Dispatch
  <2>3. QED
    BY <1>1, <1>4, <1>5, <2>1, <2>2 DEF Handle, Dispatch, CallRec
<1>6. ASSUME NEW q \in Req, RequestStep(q) PROVE ProcessReq(r)
  <2>1. calls[q] \in CallRec
    BY DEF TypeOK, NetTypeOK
  <2>2. CASE ProcessReq(q)
    BY <1>1, <1>2, <2>2 DEF ProcessReq, SetStage
  <2>3. CASE GiveUp(q) \/ Answer(q) \/ Return(q)
    BY <1>4, <2>1, <2>3 DEF GiveUp, Answer, Return, SetStage, CallRec
  <2>4. QED
    BY <1>6, <2>2, <2>3 DEF RequestStep
<1>7. ASSUME TesterStep PROVE FALSE
  BY <1>1, <1>7, TesterStepType
<1>8. ASSUME UNCHANGED vars PROVE FALSE
  BY <1>1, <1>8 DEF vars, netVars
<1>9. ProcessReq(r)
  BY <1>3, <1>5, <1>6, <1>7, <1>8 DEF Next
<1>10. calls[r] \in CallRec
  BY DEF TypeOK, NetTypeOK
<1>11. QED
  BY <1>1, <1>4, <1>9, <1>10 DEF ProcessReq, SetStage, CallRec

\* A request reaches a server its client is allowed to call, or one whose end
\* ConnectTo left enabled.
THEOREM OnlyAllowed == Spec => ReachesOnlyAllowed
<1>1. IndInv /\ [Next]_vars =>
        [\A r \in Req : Reaches(r) => \/ AllowedL(calls[r].end[1], calls[r].end[2])
                                      \/ calls[r].end \in stale]_vars
  BY ReachesThroughEnd DEF IndInv, EndInv
<1>2. QED
  BY <1>1, IndInvariant, PTL DEF Spec, ReachesOnlyAllowed

\* No request reaches a server through a deleted end.
THEOREM DeletedAreDead == Spec => DeletedEndsAreDead
<1>1. IndInv /\ [Next]_vars => [\A r \in Req : Reaches(r) => calls[r].end \notin deleted]_vars
  BY ReachesThroughEnd DEF IndInv, EndInv
<1>2. QED
  BY <1>1, IndInvariant, PTL DEF Spec, DeletedEndsAreDead
=============================================================================
