-------------------------- MODULE ServerGrpProofs --------------------------
(***************************************************************************)
(* For any servers, items and requests: what a client was told is saved    *)
(* survives any number of restarts, and Partition splits the group, in     *)
(* whatever order its loops meet the servers and whoever was connected     *)
(* before.                                                                 *)
(***************************************************************************)
EXTENDS ServerGrp, FoldLemmas, FiniteSetTheorems, FunctionTheorems

USE MaxServersAssumption

\* A free slot is a request record.
LEMMA FreeCallType == Net!FreeCall \in Net!CallRec
BY DEF Net!FreeCall, Net!CallRec

\* SetCall changes one slot: to the given record, or to a free slot.
LEMMA SetCallType ==
    ASSUME StoreTypeOK, NEW r \in Req, NEW call \in Net!CallRec, Net!SetCall(r, call)
    PROVE  /\ calls' \in [Req -> Net!CallRec]
           /\ calls'[r] = call \/ calls'[r] = Net!FreeCall
           /\ \A q \in Req : q # r => calls'[q] = calls[q]
BY FreeCallType DEF Net!SetCall, StoreTypeOK

\* Types, the wiring apart, are kept by every step.
LEMMA StoreTypeInit == Init => StoreTypeOK
<1> SUFFICES ASSUME Init PROVE StoreTypeOK
  OBVIOUS
<1>1. /\ starts \in [Srv -> Nat] /\ (\A i \in Srv : starts[i] <= made) /\ live \in [Srv -> 0..MaxServers]
      /\ saved \in [Srv -> SUBSET Item] /\ disk \in [1..MaxServers -> SUBSET Item]
      /\ servers \in [Srv -> 0..MaxServers] /\ made \in 0..MaxServers /\ reliable \in BOOLEAN
      /\ shutting = Idle /\ acked = {}
  BY DEF Init
<1>2. connections \in [End -> Srv]
  BY DEF Init, End, SrvEnd, ClntEnd
<1>3. calls \in [Req -> Net!CallRec] /\ \A r \in Req : calls[r].stage = "idle"
  BY FreeCallType DEF Init, Net!FreeCall
<1>4. QED
  BY <1>1, <1>2, <1>3 DEF StoreTypeOK

\* A step that changes one request, and perhaps a Persister, keeps the types.
LEMMA RequestType ==
    ASSUME StoreTypeOK, NEW r \in Req, NEW call \in Net!CallRec, Net!SetCall(r, call),
           UNCHANGED <<starts, live, saved, shutting, connections, servers, made, reliable>>,
           disk' \in [1..MaxServers -> SUBSET Item],
           acked' \subseteq Srv \X Item,
           call.stage # "idle" => call.end \in End
    PROVE  StoreTypeOK'
<1>1. /\ starts' \in [Srv -> Nat] /\ (\A i \in Srv : starts'[i] <= made') /\ live' \in [Srv -> 0..MaxServers]
      /\ saved' \in [Srv -> SUBSET Item]
      /\ shutting' \in [step : {"delete", "copy"}, srv : Srv] \cup {Idle}
  BY DEF StoreTypeOK
<1>2. /\ connections' \in [End -> Srv] /\ servers' \in [Srv -> 0..MaxServers]
      /\ made' \in 0..MaxServers /\ reliable' \in BOOLEAN
  BY DEF StoreTypeOK
<1>3. calls' \in [Req -> Net!CallRec]
  BY SetCallType
<1>4. ASSUME NEW q \in Req, calls'[q].stage # "idle" PROVE calls'[q].end \in End
  <2>1. CASE q = r
    BY <1>4, <2>1, SetCallType DEF Net!FreeCall
  <2>2. CASE q # r
    BY <1>4, <2>2, SetCallType DEF StoreTypeOK
  <2>3. QED
    BY <2>1, <2>2
<1>5. QED
  BY <1>1, <1>2, <1>3, <1>4 DEF StoreTypeOK

\* The steps of the network that only change a request.
Stages == {"idle", "waiting", "answered", "failed"}

\* SetStage, with the fields of the request kept.
LEMMA StageType ==
    ASSUME StoreTypeOK, NEW r \in Req, NEW stage \in Stages, calls[r].stage # "idle"
    PROVE  /\ [calls[r] EXCEPT !.stage = stage] \in Net!CallRec
           /\ [calls[r] EXCEPT !.stage = stage].end \in End
<1>1. calls[r] \in Net!CallRec /\ calls[r].end \in End
  BY DEF StoreTypeOK
<1>2. QED
  BY <1>1 DEF Net!CallRec, Stages

\* The fields that SetStage keeps.
LEMMA StageFields ==
    ASSUME StoreTypeOK, NEW r \in Req, NEW stage \in Stages, calls[r].stage # "idle"
    PROVE  /\ [calls[r] EXCEPT !.stage = stage] \in Net!CallRec
           /\ [calls[r] EXCEPT !.stage = stage].stage = stage
           /\ [calls[r] EXCEPT !.stage = stage].handler = calls[r].handler
           /\ [calls[r] EXCEPT !.stage = stage].args = calls[r].args
           /\ [calls[r] EXCEPT !.stage = stage].srv = calls[r].srv
           /\ [calls[r] EXCEPT !.stage = stage].inst = calls[r].inst
<1>1. calls[r] \in Net!CallRec
  BY DEF StoreTypeOK
<1>2. QED
  BY <1>1 DEF Net!CallRec, Stages

\* The record that ProcessReq leaves when it starts the handler.
Started(r) ==
    LET s == connections[calls[r].end]
    IN  [calls[r] EXCEPT !.stage = "waiting", !.handler = "running", !.srv = s,
                         !.inst = servers[s], !.reliable = reliable]

\* A request that reaches a server is well typed.
LEMMA StartedType ==
    ASSUME StoreTypeOK, NEW r \in Req, calls[r].stage = "sent"
    PROVE  /\ Started(r) \in Net!CallRec
           /\ Started(r).end \in End
           /\ Started(r).stage = "waiting" /\ Started(r).handler = "running"
           /\ Started(r).srv = connections[calls[r].end] /\ Started(r).srv \in Srv
           /\ Started(r).inst = servers[Started(r).srv] /\ Started(r).args = calls[r].args
<1> DEFINE s == connections[calls[r].end]
<1>1. calls[r] \in Net!CallRec /\ calls[r].end \in End
  BY DEF StoreTypeOK
<1>2. s \in Srv /\ servers[s] \in Nat /\ reliable \in BOOLEAN
  BY <1>1 DEF StoreTypeOK
<1> HIDE DEF s
<1>3. [calls[r] EXCEPT !.stage = "waiting", !.handler = "running", !.srv = s,
          !.inst = servers[s], !.reliable = reliable] \in Net!CallRec
  BY <1>1, <1>2 DEF Net!CallRec
<1>4. QED
  BY <1>1, <1>2, <1>3 DEF Started, s, Net!CallRec

\* The record that Dispatch leaves.
Handled(r) ==
    [calls[r] EXCEPT !.handler = "returned", !.reply = "OK",
                     !.live = servers[calls[r].srv] = calls[r].inst]

\* A handled request is well typed and otherwise the same.
LEMMA HandledType ==
    ASSUME StoreTypeOK, NEW r \in Req
    PROVE  /\ Handled(r) \in Net!CallRec
           /\ Handled(r).stage = calls[r].stage /\ Handled(r).handler = "returned"
           /\ Handled(r).end = calls[r].end /\ Handled(r).args = calls[r].args
           /\ Handled(r).srv = calls[r].srv /\ Handled(r).inst = calls[r].inst
<1>1. calls[r] \in Net!CallRec
  BY DEF StoreTypeOK
<1>2. QED
  BY <1>1 DEF Handled, Net!CallRec

\* The record that Call leaves.
Called(i, x, stage) ==
    [Net!FreeCall EXCEPT !.stage = stage, !.end = ClntEnd(i), !.args = x]

\* A new request is well typed.
LEMMA CalledType ==
    ASSUME NEW i \in Srv, NEW x \in Item, NEW stage \in {"sent", "failed"}
    PROVE  /\ Called(i, x, stage) \in Net!CallRec
           /\ Called(i, x, stage).end \in End
           /\ Called(i, x, stage).stage = stage /\ Called(i, x, stage).args = x
           /\ Called(i, x, stage).handler = "none"
<1>1. ClntEnd(i) \in End
  BY DEF End
<1>2. QED
  BY <1>1 DEF Called, Net!CallRec, Net!FreeCall


\* Connecting and partitioning only change the wiring.
LEMMA WiringStep ==
    ASSUME GroupStep
    PROVE  \/ \E i \in Srv : StartServer(i) \/ ShutdownServer(i)
           \/ \E w : Rewire(w) /\ UNCHANGED shutting
<1>1. ASSUME ConnectAll PROVE \E w : Rewire(w) /\ UNCHANGED shutting
  BY <1>1, Zenon DEF ConnectAll
<1>2. ASSUME NEW p1, NEW p2, Partition(p1, p2)
      PROVE  \E w : Rewire(w) /\ UNCHANGED shutting
  BY <1>2, Zenon DEF Partition
<1>3. ASSUME NEW i \in Srv, ConnectOne(i) \/ DisconnectAll(i)
      PROVE  \E w : Rewire(w) /\ UNCHANGED shutting
  BY <1>3, Zenon DEF ConnectOne, DisconnectAll
<1>4. QED
  BY <1>1, <1>2, <1>3, Zenon DEF GroupStep

\* Every step keeps the types, the wiring apart.
LEMMA StoreTypeStep == StoreTypeOK /\ DurableInv /\ [Next]_vars => StoreTypeOK'
<1> SUFFICES ASSUME StoreTypeOK, DurableInv, [Next]_vars PROVE StoreTypeOK'
  OBVIOUS
<1>1. ASSUME NEW w, Rewire(w),
             shutting' \in [step : {"delete", "copy"}, srv : Srv] \cup {Idle}
      PROVE  StoreTypeOK'
  BY <1>1 DEF Rewire, persisters, StoreTypeOK
<1>2. ASSUME NEW w, Rewire(w), UNCHANGED shutting PROVE StoreTypeOK'
  BY <1>1, <1>2 DEF StoreTypeOK
<1>3. ASSUME NEW i \in Srv, StartServer(i) PROVE StoreTypeOK'
  <2>1. Saved(i) \in SUBSET Item
    BY DEF Saved, StoreTypeOK
  <2>2. made' = made + 1 /\ made' \in 0..MaxServers /\ made + 1 \in 1..MaxServers
    BY <1>3 DEF StartServer, Net!AddServer, StoreTypeOK
  <2>3. starts' \in [Srv -> Nat] /\ \A j \in Srv : starts'[j] <= made'
    BY <1>3, <2>2 DEF StartServer, StoreTypeOK
  <2>4. live' \in [Srv -> 0..MaxServers] /\ disk' \in [1..MaxServers -> SUBSET Item]
        /\ servers' \in [Srv -> 0..MaxServers]
    BY <1>3, <2>1, <2>2 DEF StartServer, Net!AddServer, StoreTypeOK
  <2>5. UNCHANGED <<saved, shutting, acked, connections, reliable, calls>>
    BY <1>3 DEF StartServer, Net!AddServer
  <2>6. QED
    BY <2>2, <2>3, <2>4, <2>5 DEF StoreTypeOK
<1>4. ASSUME NEW i \in Srv, ShutdownServer(i) PROVE StoreTypeOK'
  BY <1>1, <1>4 DEF ShutdownServer
<1>5. CASE GroupStep
  BY <1>2, <1>3, <1>4, <1>5, WiringStep
<1>6. CASE DeleteServer
  <2>1. shutting \in [step : {"delete", "copy"}, srv : Srv]
    BY <1>6 DEF DeleteServer, Idle, StoreTypeOK
  <2>2. shutting' \in [step : {"delete", "copy"}, srv : Srv]
    BY <1>6, <2>1 DEF DeleteServer
  <2>3. servers' \in [Srv -> 0..MaxServers]
    BY <1>6, <2>1 DEF DeleteServer, Net!DeleteServer, StoreTypeOK
  <2>4. UNCHANGED <<starts, live, saved, disk, acked, connections, made, reliable, calls>>
    BY <1>6 DEF DeleteServer, Net!DeleteServer, persisters
  <2>5. QED
    BY <2>2, <2>3, <2>4 DEF StoreTypeOK
<1>7. CASE SupersedePersister
  <2>1. shutting \in [step : {"delete", "copy"}, srv : Srv]
    BY <1>7 DEF SupersedePersister, Idle, StoreTypeOK
  <2>2. Saved(shutting.srv) \in SUBSET Item
    BY <2>1 DEF Saved, StoreTypeOK
  <2>3. saved' \in [Srv -> SUBSET Item] /\ live' \in [Srv -> 0..MaxServers]
    BY <1>7, <2>1, <2>2 DEF SupersedePersister, StoreTypeOK
  <2>4. /\ UNCHANGED <<starts, disk, acked, connections, servers, made, reliable, calls>>
        /\ shutting' = Idle
    BY <1>7 DEF SupersedePersister, netConfig
  <2>5. QED
    BY <2>3, <2>4 DEF StoreTypeOK
<1>8. ASSUME NEW r \in Req, NEW i \in Srv, NEW x \in Item, Call(r, i, x)
      PROVE  StoreTypeOK'
  <2>1. PICK stage \in {"sent", "failed"} : Net!SetCall(r, Called(i, x, stage))
    BY <1>8 DEF Call, Net!Call, Called
  <2>2. UNCHANGED <<starts, live, saved, disk, shutting, acked, connections, servers,
                    made, reliable>>
    BY <1>8 DEF Call, Net!Call, Net!netConfig, persisters
  <2>3. QED
    BY <2>1, <2>2, CalledType, RequestType DEF StoreTypeOK
<1>9. ASSUME NEW r \in Req, Handle(r) PROVE StoreTypeOK'
  <2>1. Net!SetCall(r, Handled(r))
    BY <1>9 DEF Handle, Net!Dispatch, Handled
  <2>2. UNCHANGED <<starts, live, saved, shutting, acked, connections, servers, made, reliable>>
    BY <1>9 DEF Handle, Net!Dispatch, Net!netConfig
  <2>3. calls[r].args \in Item
    BY <1>9 DEF Handle, Net!Dispatch, DurableInv, RequestIsSaved
  <2>4. disk' \in [1..MaxServers -> SUBSET Item]
    BY <1>9, <2>3 DEF Handle, StoreTypeOK
  <2>5. calls[r].stage # "idle" => calls[r].end \in End
    BY DEF StoreTypeOK
  <2>6. QED
    BY <2>1, <2>2, <2>4, <2>5, HandledType, RequestType DEF StoreTypeOK
<1>10. ASSUME NEW r \in Req, Transport(r) PROVE StoreTypeOK'
  <2>1. UNCHANGED <<starts, live, saved, disk, shutting, acked, connections, servers,
                    made, reliable>>
    BY <1>10 DEF Transport, Net!ProcessReq, Net!GiveUp, Net!Answer, Net!netConfig, persisters
  <2>2. calls[r].stage \in {"sent", "waiting"}
    BY <1>10 DEF Transport, Net!ProcessReq, Net!GiveUp, Net!Answer
  <2>3. CASE Net!SetCall(r, Started(r)) /\ calls[r].stage = "sent"
    BY <2>1, <2>3, StartedType, RequestType DEF StoreTypeOK
  <2>4. ASSUME NEW stage \in Stages, Net!SetCall(r, [calls[r] EXCEPT !.stage = stage])
        PROVE  StoreTypeOK'
    BY <2>1, <2>2, <2>4, StageType, RequestType DEF StoreTypeOK
  <2>5. QED
    BY <1>10, <2>3, <2>4
       DEF Transport, Net!ProcessReq, Net!GiveUp, Net!Answer, Net!SetStage, Started, Stages
<1>11. ASSUME NEW r \in Req, Return(r) PROVE StoreTypeOK'
  <2>1. UNCHANGED <<starts, live, saved, disk, shutting, connections, servers, made, reliable>>
    BY <1>11 DEF Return, Net!Return, Net!netConfig, persisters
  <2>2. Net!SetCall(r, [calls[r] EXCEPT !.stage = "idle"]) /\ calls[r].stage # "idle"
    BY <1>11 DEF Return, Net!Return, Net!SetStage
  <2>3. acked' \subseteq Srv \X Item
    <3>1. acked \subseteq Srv \X Item
      BY DEF StoreTypeOK
    <3>2. Net!Ok(r) => calls[r].srv \in Srv /\ calls[r].args \in Item
      BY DEF DurableInv, RequestIsSaved
    <3>3. acked' = acked \/ (Net!Ok(r) /\ acked' = acked \cup {<<calls[r].srv, calls[r].args>>})
      BY <1>11 DEF Return
    <3>4. QED
      BY <3>1, <3>2, <3>3
  <2>4. QED
    BY <2>1, <2>2, <2>3, StageType, RequestType DEF Stages, StoreTypeOK
<1>12. CASE UNCHANGED vars
  BY <1>12 DEF vars, persisters, netConfig, StoreTypeOK
<1>13. QED
  BY <1>5, <1>6, <1>7, <1>8, <1>9, <1>10, <1>11, <1>12 DEF Next, RequestStep, RequestStepOf

\* The clients have been told nothing yet.
LEMMA DurableInit == Init => DurableInv
BY DEF Init, Idle, DurableInv, AckedIsDurable, RegisteredIsLive, RequestIsSaved,
       Net!FreeCall, Net!Ok

\* A step that loses nothing that was saved keeps what requests and clients
\* rely on.
LEMMA SavedGrows ==
    ASSUME StoreTypeOK, DurableInv, UNCHANGED <<acked, calls>>,
           made' \in Nat, made <= made',
           \A i \in Srv : Saved(i) \subseteq Saved(i)',
           \A n \in 1..made : disk[n] \subseteq disk'[n]
    PROVE  AckedIsDurable' /\ \A r \in Req : RequestIsSaved(r)'
<1>1. AckedIsDurable'
  <2> SUFFICES ASSUME NEW a \in acked PROVE a[2] \in Saved(a[1])'
    BY DEF AckedIsDurable
  <2>1. a[1] \in Srv /\ a[2] \in Saved(a[1])
    BY DEF DurableInv, AckedIsDurable, StoreTypeOK
  <2>2. QED
    BY <2>1
<1>2. ASSUME NEW r \in Req PROVE RequestIsSaved(r)'
  <2>1. RequestIsSaved(r) /\ made \in Nat
    BY DEF DurableInv, StoreTypeOK
  <2>2. calls[r].handler # "none" => calls[r].inst \in 1..made /\ calls[r].inst \in 1..made'
    BY <2>1 DEF RequestIsSaved
  <2>3. QED
    BY <2>1, <2>2 DEF RequestIsSaved, Net!Ok
<1>3. QED
  BY <1>1, <1>2

\* A step of request r that loses nothing leaves the others as they were.
LEMMA OthersSaved ==
    ASSUME StoreTypeOK, DurableInv, NEW r \in Req,
           \A q \in Req : q # r => calls'[q] = calls[q],
           UNCHANGED <<live, saved, made>>,
           \A n \in 1..MaxServers : disk[n] \subseteq disk'[n]
    PROVE  /\ \A i \in Srv : Saved(i) \subseteq Saved(i)'
           /\ \A q \in Req : q # r => RequestIsSaved(q)'
<1>1. \A i \in Srv : Saved(i) \subseteq Saved(i)'
  BY DEF Saved, StoreTypeOK
<1>2. ASSUME NEW q \in Req, q # r PROVE RequestIsSaved(q)'
  <2>1. RequestIsSaved(q) /\ 1..made \subseteq 1..MaxServers /\ calls'[q] = calls[q]
    BY <1>2 DEF DurableInv, StoreTypeOK
  <2>2. QED
    BY <1>1, <2>1 DEF RequestIsSaved, Net!Ok
<1>3. QED
  BY <1>1, <1>2

\* A step of request r that leaves the servers alone keeps the rest.
LEMMA RequestStepSaved ==
    ASSUME StoreTypeOK, DurableInv, NEW r \in Req,
           \A q \in Req : q # r => calls'[q] = calls[q],
           UNCHANGED <<live, saved, made, servers, shutting>>,
           \A n \in 1..MaxServers : disk[n] \subseteq disk'[n],
           \A a \in acked' : a \in acked \/ (a[1] \in Srv /\ a[2] \in Saved(a[1])),
           RequestIsSaved(r)'
    PROVE  DurableInv'
<1>1. \A i \in Srv : Saved(i) \subseteq Saved(i)'
  BY OthersSaved
<1>2. AckedIsDurable'
  <2> SUFFICES ASSUME NEW a \in acked' PROVE a[2] \in Saved(a[1])'
    BY DEF AckedIsDurable
  <2>1. a[1] \in Srv /\ a[2] \in Saved(a[1])
    BY DEF DurableInv, AckedIsDurable, StoreTypeOK
  <2>2. QED
    BY <1>1, <2>1
<1>3. RegisteredIsLive'
  BY DEF DurableInv, RegisteredIsLive
<1>4. QED
  BY <1>2, <1>3, OthersSaved DEF DurableInv

\* A request that only changes its stage keeps what it relies on; it may be
\* answered if its item is in the Persister that is kept.
LEMMA RestageSaved ==
    ASSUME StoreTypeOK, DurableInv, NEW r \in Req, NEW call \in Net!CallRec,
           Net!SetCall(r, call), UNCHANGED <<live, saved, disk, made>>,
           call.handler = calls[r].handler, call.args = calls[r].args,
           call.srv = calls[r].srv, call.inst = calls[r].inst,
           \/ call.stage \in {"idle", "failed"}
           \/ /\ call.stage = "answered" /\ call.handler = "returned"
              /\ calls[r].args \in Saved(calls[r].srv)
    PROVE  RequestIsSaved(r)'
<1>1. \A i : Saved(i)' = Saved(i)
  BY DEF Saved
<1>2. CASE calls'[r] = Net!FreeCall
  BY <1>2 DEF RequestIsSaved, Net!Ok, Net!FreeCall
<1>3. CASE calls'[r] = call
  <2>1. RequestIsSaved(r)
    BY DEF DurableInv
  <2>2. QED
    BY <1>1, <1>3, <2>1 DEF RequestIsSaved, Net!Ok, Saved
<1>4. QED
  BY <1>2, <1>3, SetCallType

\* The steps of a request keep DurableInv.
LEMMA RequestDurable ==
    ASSUME StoreTypeOK, DurableInv, NEW r \in Req, RequestStepOf(r)
    PROVE  DurableInv'
<1>1. ASSUME NEW i \in Srv, NEW x \in Item, Call(r, i, x) PROVE DurableInv'
  <2>1. PICK stage \in {"sent", "failed"} : Net!SetCall(r, Called(i, x, stage))
    BY <1>1 DEF Call, Net!Call, Called
  <2>2. UNCHANGED <<live, saved, disk, shutting, acked, servers, made>>
    BY <1>1 DEF Call, Net!Call, Net!netConfig, persisters
  <2>3. RequestIsSaved(r)'
    BY <2>1, SetCallType, CalledType DEF RequestIsSaved, Net!Ok, Net!FreeCall
  <2>4. QED
    BY <2>1, <2>2, <2>3, SetCallType, CalledType, RequestStepSaved
<1>2. ASSUME Handle(r) PROVE DurableInv'
  <2>1. Net!SetCall(r, Handled(r)) /\ calls[r].handler = "running"
    BY <1>2 DEF Handle, Net!Dispatch, Handled
  <2>2. /\ UNCHANGED <<live, saved, shutting, acked, servers, made>>
        /\ disk' = [disk EXCEPT ![calls[r].inst] = @ \cup {calls[r].args}]
    BY <1>2 DEF Handle, Net!Dispatch, Net!netConfig
  <2>3. /\ calls[r].srv \in Srv /\ calls[r].inst \in 1..made /\ calls[r].args \in Item
        /\ ~Net!Ok(r) /\ 1..made \subseteq 1..MaxServers
    BY <2>1 DEF DurableInv, RequestIsSaved, StoreTypeOK
  <2>4. /\ calls[r].args \in disk'[calls[r].inst]
        /\ \A n \in 1..MaxServers : disk[n] \subseteq disk'[n]
    BY <2>2, <2>3 DEF StoreTypeOK
  <2>5. RequestIsSaved(r)'
    BY <2>1, <2>2, <2>3, <2>4, SetCallType, HandledType
       DEF RequestIsSaved, Net!Ok, Net!FreeCall
  <2>6. QED
    BY <2>1, <2>2, <2>4, <2>5, SetCallType, HandledType, RequestStepSaved
<1>3. ASSUME Transport(r) PROVE DurableInv'
  <2>1. UNCHANGED <<live, saved, disk, shutting, acked, servers, made>>
    BY <1>3 DEF Transport, Net!ProcessReq, Net!GiveUp, Net!Answer, Net!netConfig, persisters
  <2>2. ASSUME NEW call \in Net!CallRec, Net!SetCall(r, call), RequestIsSaved(r)'
        PROVE  DurableInv'
    BY <2>1, <2>2, SetCallType, RequestStepSaved
  <2>3. CASE /\ Net!SetCall(r, Started(r)) /\ calls[r].stage = "sent"
             /\ servers[connections[calls[r].end]] # 0
    <3>1. servers[Started(r).srv] \in 1..made
      BY <2>3, StartedType DEF DurableInv, RegisteredIsLive, StoreTypeOK
    <3>2. calls[r].args \in Item
      BY <2>3 DEF DurableInv, RequestIsSaved
    <3>3. RequestIsSaved(r)'
      BY <2>1, <2>3, <3>1, <3>2, StartedType, SetCallType
         DEF RequestIsSaved, Net!Ok, Net!FreeCall
    <3>4. QED
      BY <2>2, <2>3, <3>3, StartedType
  <2>4. CASE /\ Net!SetCall(r, [calls[r] EXCEPT !.stage = "failed"])
             /\ calls[r].stage \in {"sent", "waiting"}
    <3>1. /\ [calls[r] EXCEPT !.stage = "failed"] \in Net!CallRec
          /\ [calls[r] EXCEPT !.stage = "failed"].stage = "failed"
          /\ [calls[r] EXCEPT !.stage = "failed"].handler = calls[r].handler
          /\ [calls[r] EXCEPT !.stage = "failed"].args = calls[r].args
          /\ [calls[r] EXCEPT !.stage = "failed"].srv = calls[r].srv
          /\ [calls[r] EXCEPT !.stage = "failed"].inst = calls[r].inst
      BY <2>4, StageFields DEF Stages
    <3>2. RequestIsSaved(r)'
      BY <2>1, <2>4, <3>1, RestageSaved
    <3>3. QED
      BY <2>2, <2>4, <3>1, <3>2
  <2>5. CASE /\ Net!SetCall(r, [calls[r] EXCEPT !.stage = "answered"])
             /\ calls[r].stage = "waiting" /\ calls[r].handler = "returned"
             /\ servers[calls[r].srv] = calls[r].inst
    <3>1. /\ [calls[r] EXCEPT !.stage = "answered"] \in Net!CallRec
          /\ [calls[r] EXCEPT !.stage = "answered"].stage = "answered"
          /\ [calls[r] EXCEPT !.stage = "answered"].handler = calls[r].handler
          /\ [calls[r] EXCEPT !.stage = "answered"].args = calls[r].args
          /\ [calls[r] EXCEPT !.stage = "answered"].srv = calls[r].srv
          /\ [calls[r] EXCEPT !.stage = "answered"].inst = calls[r].inst
      BY <2>5, StageFields DEF Stages
    <3>2. /\ calls[r].srv \in Srv /\ calls[r].inst \in 1..made /\ calls[r].args \in Item
          /\ calls[r].args \in disk[calls[r].inst]
      BY <2>5 DEF DurableInv, RequestIsSaved
    <3>3. live[calls[r].srv] = calls[r].inst /\ calls[r].inst # 0
      BY <2>5, <3>2 DEF DurableInv, RegisteredIsLive, StoreTypeOK
    <3>4. calls[r].args \in Saved(calls[r].srv)
      BY <3>2, <3>3 DEF Saved
    <3>5. RequestIsSaved(r)'
      BY <2>1, <2>5, <3>1, <3>4, RestageSaved
    <3>6. QED
      BY <2>2, <2>5, <3>1, <3>5
  <2>6. QED
    BY <1>3, <2>3, <2>4, <2>5
       DEF Transport, Net!ProcessReq, Net!GiveUp, Net!Answer, Net!IsServerDead, Net!SetStage,
           Started
<1>4. ASSUME Return(r) PROVE DurableInv'
  <2>1. UNCHANGED <<live, saved, disk, shutting, servers, made>>
    BY <1>4 DEF Return, Net!Return, Net!netConfig, persisters
  <2>2. Net!SetCall(r, [calls[r] EXCEPT !.stage = "idle"]) /\ calls[r].stage # "idle"
    BY <1>4 DEF Return, Net!Return, Net!SetStage
  <2>3. /\ [calls[r] EXCEPT !.stage = "idle"] \in Net!CallRec
        /\ [calls[r] EXCEPT !.stage = "idle"].stage = "idle"
        /\ [calls[r] EXCEPT !.stage = "idle"].handler = calls[r].handler
        /\ [calls[r] EXCEPT !.stage = "idle"].args = calls[r].args
        /\ [calls[r] EXCEPT !.stage = "idle"].srv = calls[r].srv
        /\ [calls[r] EXCEPT !.stage = "idle"].inst = calls[r].inst
    BY <2>2, StageFields DEF Stages
  <2>4. RequestIsSaved(r)'
    BY <2>1, <2>2, <2>3, RestageSaved
  <2>5. \A a \in acked' : a \in acked \/ (a[1] \in Srv /\ a[2] \in Saved(a[1]))
    BY <1>4 DEF Return, DurableInv, RequestIsSaved
  <2>6. QED
    BY <2>1, <2>2, <2>3, <2>4, <2>5, SetCallType, RequestStepSaved
<1>5. QED
  BY <1>1, <1>2, <1>3, <1>4 DEF RequestStepOf

\* Every step keeps DurableInv.  An answer is only given while the instance
\* that saved the item is registered, so its Persister is the one kept.
LEMMA DurableStep == StoreTypeOK /\ DurableInv /\ [Next]_vars => DurableInv'
<1> SUFFICES ASSUME StoreTypeOK, DurableInv, [Next]_vars PROVE DurableInv'
  OBVIOUS
<1>1. ASSUME NEW w, Rewire(w), UNCHANGED shutting PROVE DurableInv'
  <2>1. UNCHANGED <<acked, calls, made, live, saved, disk, servers, shutting>>
    BY <1>1 DEF Rewire, persisters
  <2>2. QED
    BY <2>1 DEF DurableInv, AckedIsDurable, RegisteredIsLive, RequestIsSaved, Saved, Net!Ok
<1>2. ASSUME NEW i \in Srv, ShutdownServer(i) PROVE DurableInv'
  <2>1. UNCHANGED <<acked, calls, made, live, saved, disk, servers>>
    BY <1>2 DEF ShutdownServer, Rewire, persisters
  <2>2. AckedIsDurable' /\ \A r \in Req : RequestIsSaved(r)'
    BY <2>1 DEF DurableInv, AckedIsDurable, RequestIsSaved, Saved, Net!Ok
  <2>3. live[i] # 0 /\ shutting' = [step |-> "delete", srv |-> i]
    BY <1>2 DEF ShutdownServer
  <2>4. RegisteredIsLive'
    BY <2>1, <2>3 DEF DurableInv, RegisteredIsLive
  <2>5. QED
    BY <2>2, <2>4 DEF DurableInv
<1>3. ASSUME NEW i \in Srv, StartServer(i) PROVE DurableInv'
  <2>1. /\ made \in Nat /\ made' = made + 1 /\ made + 1 \in 1..MaxServers
        /\ UNCHANGED <<acked, calls, saved, shutting>>
    BY <1>3 DEF StartServer, Net!AddServer, StoreTypeOK
  <2>2. /\ live[i] = 0
        /\ live' = [live EXCEPT ![i] = made + 1]
        /\ disk' = [disk EXCEPT ![made + 1] = Saved(i)]
        /\ servers' = [servers EXCEPT ![i] = made + 1]
    BY <1>3 DEF StartServer, Net!AddServer
  <2>3. \A j \in Srv : live[j] \in Nat /\ live[j] <= made
    BY DEF DurableInv, RegisteredIsLive, StoreTypeOK
  <2>4. \A n \in 1..made : disk'[n] = disk[n]
    BY <2>1, <2>2 DEF StoreTypeOK
  <2>5. ASSUME NEW j \in Srv PROVE Saved(j) \subseteq Saved(j)'
    <3>1. CASE j = i
      <4>1. live'[j] = made + 1 /\ made + 1 # 0 /\ disk'[made + 1] = Saved(j)
        BY <2>1, <2>2, <3>1 DEF StoreTypeOK
      <4>2. QED
        BY <4>1 DEF Saved
    <3>2. CASE j # i
      <4>1. live'[j] = live[j] /\ saved'[j] = saved[j]
        BY <2>1, <2>2, <3>2 DEF StoreTypeOK
      <4>2. live[j] # 0 => live[j] \in 1..made
        BY <2>1, <2>3
      <4>3. QED
        BY <2>4, <4>1, <4>2 DEF Saved
    <3>3. QED
      BY <3>1, <3>2
  <2>6. AckedIsDurable' /\ \A r \in Req : RequestIsSaved(r)'
    BY <2>1, <2>4, <2>5, SavedGrows
  <2>7. shutting.step # "idle" => shutting.srv # i
    BY <2>2 DEF DurableInv, RegisteredIsLive
  <2>8. RegisteredIsLive'
    BY <2>1, <2>2, <2>3, <2>7 DEF DurableInv, RegisteredIsLive, StoreTypeOK
  <2>9. QED
    BY <2>6, <2>8 DEF DurableInv
<1>4. CASE GroupStep
  BY <1>1, <1>2, <1>3, <1>4, WiringStep
<1>5. CASE DeleteServer
  <2>1. /\ shutting.step = "delete" /\ shutting.srv \in Srv
        /\ UNCHANGED <<acked, calls, made, live, saved, disk>>
        /\ servers' = [servers EXCEPT ![shutting.srv] = 0]
        /\ shutting'.step = "copy" /\ shutting'.srv = shutting.srv
    BY <1>5 DEF DeleteServer, Net!DeleteServer, persisters, Idle, StoreTypeOK
  <2>2. AckedIsDurable' /\ \A r \in Req : RequestIsSaved(r)'
    BY <2>1 DEF DurableInv, AckedIsDurable, RequestIsSaved, Saved, Net!Ok
  <2>3. RegisteredIsLive'
    BY <2>1 DEF DurableInv, RegisteredIsLive, StoreTypeOK
  <2>4. QED
    BY <2>2, <2>3 DEF DurableInv
<1>6. CASE SupersedePersister
  <2>1. /\ shutting.step = "copy" /\ shutting.srv \in Srv
        /\ UNCHANGED <<acked, calls, made, servers, disk>>
        /\ saved' = [saved EXCEPT ![shutting.srv] = Saved(shutting.srv)]
        /\ live' = [live EXCEPT ![shutting.srv] = 0]
        /\ shutting' = Idle
    BY <1>6 DEF SupersedePersister, netConfig, Idle, StoreTypeOK
  <2>2. ASSUME NEW j \in Srv PROVE Saved(j)' = Saved(j)
    BY <2>1 DEF Saved, StoreTypeOK
  <2>3. AckedIsDurable' /\ \A r \in Req : RequestIsSaved(r)'
    BY <2>1, <2>2, SavedGrows DEF StoreTypeOK
  <2>4. RegisteredIsLive'
    BY <2>1 DEF DurableInv, RegisteredIsLive, StoreTypeOK, Idle
  <2>5. QED
    BY <2>3, <2>4 DEF DurableInv
<1>7. ASSUME NEW r \in Req, RequestStepOf(r) PROVE DurableInv'
  BY <1>7, RequestDurable
<1>8. CASE UNCHANGED vars
  BY <1>8 DEF vars, persisters, netConfig, DurableInv, AckedIsDurable, RegisteredIsLive,
              RequestIsSaved, Saved, Net!Ok
<1>9. QED
  BY <1>4, <1>5, <1>6, <1>7, <1>8 DEF Next, RequestStep

-----------------------------------------------------------------------------
(* The wiring.                                                             *)

Wirings == [connected : [Srv -> BOOLEAN], enabled : [End -> BOOLEAN]]

\* The end that server a uses for server b now.
Current(a, b) == SrvEnd(a, b, starts[a])

AllStarted == \A i, j \in Srv : Current(i, j) \in End

\* connect and disconnect give a wiring.
LEMMA WireType ==
    ASSUME NEW w \in Wirings, NEW i \in Srv, NEW S
    PROVE  ConnectSrv(w, i, S) \in Wirings /\ DisconnectSrv(w, i, S) \in Wirings
<1>1. w.connected \in [Srv -> BOOLEAN] /\ w.enabled \in [End -> BOOLEAN]
  BY DEF Wirings
<1>2. /\ [w.connected EXCEPT ![i] = TRUE] \in [Srv -> BOOLEAN]
      /\ [w.connected EXCEPT ![i] = FALSE] \in [Srv -> BOOLEAN]
  BY <1>1
<1>3. ConnectSrv(w, i, S).enabled \in [End -> BOOLEAN]
  BY DEF ConnectSrv
<1>4. DisconnectSrv(w, i, S).enabled \in [End -> BOOLEAN]
  BY DEF DisconnectSrv
<1>5. ConnectSrv(w, i, S) \in Wirings
  BY <1>2, <1>3 DEF ConnectSrv, Wirings
<1>6. DisconnectSrv(w, i, S) \in Wirings
  BY <1>2, <1>4 DEF DisconnectSrv, Wirings
<1>7. QED
  BY <1>5, <1>6

\* SetToSeq of servers has them all.
LEMMA OrderOf ==
    ASSUME NEW S \in SUBSET Srv
    PROVE  /\ Cardinality(S) \in Nat
           /\ SetToSeq(S) \in [1..Cardinality(S) -> S]
           /\ \A i \in S : \E k \in 1..Cardinality(S) : SetToSeq(S)[k] = i
<1> DEFINE I == 1..Cardinality(S)
<1>1. IsFiniteSet(S)
  BY SrvAssumption, FS_Subset
<1>2. Cardinality(S) \in Nat /\ ExistsBijection(I, S)
  BY <1>1, FS_CardinalityType
<1>3. Cardinality(I) = Cardinality(S)
  <2>1. Cardinality(I) = IF 1 > Cardinality(S) THEN 0 ELSE Cardinality(S) - 1 + 1
    BY <1>2, FS_Interval
  <2>2. QED
    BY <1>2, <2>1
<1>4. \E f \in [I -> S] : IsInjective(f)
  <2>1. PICK f \in [I -> S] : f \in Injection(I, S)
    BY <1>2 DEF ExistsBijection, Bijection, Injection
  <2>2. IsInjective(f)
    BY <2>1 DEF Injection
  <2>3. QED
    BY <2>2
<1>5. SetToSeq(S) \in [I -> S] /\ IsInjective(SetToSeq(S))
  <2> HIDE DEF I
  <2>1. SetToSeq(S) = CHOOSE f \in [I -> S] : IsInjective(f)
    BY DEF SetToSeq, I
  <2>2. QED
    BY <1>4, <2>1
<1> HIDE DEF I
<1>6. SetToSeq(S) \in Injection(I, S)
  BY <1>5 DEF Injection
<1>7. SetToSeq(S) \in Surjection(I, S)
  BY <1>1, <1>3, <1>6, FS_Injection
<1>8. \A i \in S : \E k \in I : SetToSeq(S)[k] = i
  BY <1>7 DEF Surjection
<1>9. QED
  BY <1>2, <1>5, <1>8 DEF I

\* Which of the current ends connect and disconnect change.
LEMMA BetweenCurrent ==
    ASSUME NEW i, NEW S, NEW a, NEW b
    PROVE  Current(a, b) \in Between(i, S) <=> (a = i /\ b \in S) \/ (b = i /\ a \in S)
<1>1. ASSUME NEW j PROVE Current(a, b) = SrvEnd(i, j, starts[i]) => a = i /\ b = j
  BY DEF Current, SrvEnd
<1>2. ASSUME NEW j PROVE Current(a, b) = SrvEnd(j, i, starts[j]) => a = j /\ b = i
  BY DEF Current, SrvEnd
<1>3. Current(a, b) \in Between(i, S) => (a = i /\ b \in S) \/ (b = i /\ a \in S)
  BY <1>1, <1>2 DEF Between
<1>4. (a = i /\ b \in S) \/ (b = i /\ a \in S) => Current(a, b) \in Between(i, S)
  BY DEF Between, Current
<1>5. QED
  BY <1>3, <1>4

\* One turn of a loop of Partition.
Turn(w, i, mine, other) == ConnectSrv(DisconnectSrv(w, i, other), i, mine)

\* What a turn does to the current ends.
LEMMA TurnLemma ==
    ASSUME NEW w \in Wirings, NEW i \in Srv, NEW mine \in SUBSET Srv, NEW other \in SUBSET Srv,
           AllStarted
    PROVE  /\ Turn(w, i, mine, other) \in Wirings
           /\ Turn(w, i, mine, other).connected = [w.connected EXCEPT ![i] = TRUE]
           /\ \A a, b \in Srv :
                Turn(w, i, mine, other).enabled[Current(a, b)] <=>
                  \/ /\ w.enabled[Current(a, b)]
                     /\ ~((a = i /\ b \in other) \/ (b = i /\ a \in other))
                  \/ a = i /\ b \in mine /\ (b = i \/ w.connected[b])
                  \/ b = i /\ a \in mine /\ (a = i \/ w.connected[a])
<1> DEFINE v == DisconnectSrv(w, i, other)
           conn == [v.connected EXCEPT ![i] = TRUE]
           near == {j \in mine : conn[j]}
<1>1. w.connected \in [Srv -> BOOLEAN] /\ w.enabled \in [End -> BOOLEAN]
  BY DEF Wirings
<1>2. v \in Wirings
  BY WireType
<1>3. /\ v.connected = [w.connected EXCEPT ![i] = FALSE]
      /\ v.enabled = [e \in End |-> w.enabled[e] /\ e \notin Between(i, other)]
  BY DEF DisconnectSrv
<1>4. /\ Turn(w, i, mine, other).connected = conn
      /\ Turn(w, i, mine, other).enabled = [e \in End |-> v.enabled[e] \/ e \in Between(i, near)]
  BY DEF Turn, ConnectSrv
<1>5. Turn(w, i, mine, other) \in Wirings
  BY <1>2, WireType DEF Turn
<1> HIDE DEF v
<1>6. conn = [w.connected EXCEPT ![i] = TRUE]
  BY <1>1, <1>3
<1>7. \A j \in Srv : conn[j] <=> (j = i \/ w.connected[j])
  BY <1>1, <1>6
<1> HIDE DEF conn
<1>8. \A j \in Srv : j \in near <=> j \in mine /\ (j = i \/ w.connected[j])
  BY <1>7
<1> HIDE DEF near
<1>9. ASSUME NEW a \in Srv, NEW b \in Srv
      PROVE  Turn(w, i, mine, other).enabled[Current(a, b)] <=>
                  \/ /\ w.enabled[Current(a, b)]
                     /\ ~((a = i /\ b \in other) \/ (b = i /\ a \in other))
                  \/ a = i /\ b \in mine /\ (b = i \/ w.connected[b])
                  \/ b = i /\ a \in mine /\ (a = i \/ w.connected[a])
  <2>1. Current(a, b) \in End
    BY DEF AllStarted
  <2>2. Turn(w, i, mine, other).enabled[Current(a, b)] <=>
            (w.enabled[Current(a, b)] /\ Current(a, b) \notin Between(i, other))
            \/ Current(a, b) \in Between(i, near)
    BY <1>3, <1>4, <2>1
  <2>3. Current(a, b) \in Between(i, other) <=> (a = i /\ b \in other) \/ (b = i /\ a \in other)
    BY BetweenCurrent
  <2>4. Current(a, b) \in Between(i, near) <=> (a = i /\ b \in near) \/ (b = i /\ a \in near)
    BY BetweenCurrent
  <2>5. QED
    BY <1>8, <2>2, <2>3, <2>4
<1>10. QED
  BY <1>4, <1>5, <1>6, <1>9

\* The servers M have left the others and joined each other ...
Gathered(w, M, other) ==
    /\ \A i \in M : w.connected[i]
    /\ \A i, j \in M : w.enabled[Current(i, j)]
    /\ \A i \in M, j \in other : ~w.enabled[Current(i, j)] /\ ~w.enabled[Current(j, i)]

\* ... which are among themselves as they were.
Untouched(v, w, other) ==
    \A i, j \in other : w.enabled[Current(i, j)] <=> v.enabled[Current(i, j)]

\* A turn adds a server to those that are gathered.
LEMMA TurnGathers ==
    ASSUME NEW w \in Wirings, NEW mine \in SUBSET Srv, NEW other \in SUBSET Srv,
           mine \cap other = {}, AllStarted, NEW i \in mine, NEW M \in SUBSET mine,
           Gathered(w, M, other)
    PROVE  /\ Turn(w, i, mine, other) \in Wirings
           /\ Gathered(Turn(w, i, mine, other), M \cup {i}, other)
           /\ Untouched(w, Turn(w, i, mine, other), other)
<1> DEFINE t == Turn(w, i, mine, other)
           N == M \cup {i}
<1>1. /\ t \in Wirings
      /\ t.connected = [w.connected EXCEPT ![i] = TRUE]
      /\ \A a, b \in Srv :
           t.enabled[Current(a, b)] <=>
             \/ /\ w.enabled[Current(a, b)]
                /\ ~((a = i /\ b \in other) \/ (b = i /\ a \in other))
             \/ a = i /\ b \in mine /\ (b = i \/ w.connected[b])
             \/ b = i /\ a \in mine /\ (a = i \/ w.connected[a])
  BY TurnLemma
<1> HIDE DEF t
<1>2. w.connected \in [Srv -> BOOLEAN] /\ i \in Srv /\ i \notin other /\ N \subseteq mine
  BY DEF Wirings
<1>3. \A a \in N : t.connected[a]
  BY <1>1, <1>2 DEF Gathered
<1>4. ASSUME NEW a \in N, NEW b \in N PROVE t.enabled[Current(a, b)]
  <2>1. a \in Srv /\ b \in Srv /\ a \notin other /\ b \notin other /\ a \in mine /\ b \in mine
    BY <1>2
  <2>2. (a = i \/ w.connected[a]) /\ (b = i \/ w.connected[b])
    BY DEF Gathered
  <2>3. a # i /\ b # i => w.enabled[Current(a, b)]
    BY DEF Gathered
  <2>4. QED
    BY <1>1, <2>1, <2>2, <2>3
<1>5. ASSUME NEW a \in N, NEW b \in other
      PROVE  ~t.enabled[Current(a, b)] /\ ~t.enabled[Current(b, a)]
  <2>1. a \in Srv /\ b \in Srv /\ b # i /\ b \notin mine
    BY <1>2
  <2>2. a # i => ~w.enabled[Current(a, b)] /\ ~w.enabled[Current(b, a)]
    BY DEF Gathered
  <2>3. QED
    BY <1>1, <2>1, <2>2
<1>6. ASSUME NEW a \in other, NEW b \in other
      PROVE  t.enabled[Current(a, b)] <=> w.enabled[Current(a, b)]
  <2>1. a \in Srv /\ b \in Srv /\ a # i /\ b # i
    BY <1>2
  <2>2. QED
    BY <1>1, <2>1
<1>7. Gathered(t, N, other) /\ Untouched(w, t, other)
  BY <1>3, <1>4, <1>5, <1>6 DEF Gathered, Untouched
<1>8. QED
  BY <1>1, <1>7 DEF t

\* A loop of Partition takes the servers of its side one by one.
LEMMA GatherRuns ==
    ASSUME NEW w \in Wirings,
           NEW mine \in SUBSET Srv, NEW other \in SUBSET Srv
    PROVE  \E a \in [0..Cardinality(mine) -> Wirings] :
             /\ a[0] = w
             /\ \A k \in 1..Cardinality(mine) : a[k] = Turn(a[k - 1], SetToSeq(mine)[k], mine, other)
             /\ Gather(w, mine, other) = a[Cardinality(mine)]
<1> DEFINE n == Cardinality(mine)
           order == SetToSeq(mine)
           H == [x \in Wirings \X (1..n) |-> Turn(x[1], order[x[2]], mine, other)]
           Eq(f) == f = [s \in SUBSET (1..n) |->
                           IF s = {} THEN w ELSE Turn(f[s \ {Max(s)}], order[Max(s)], mine, other)]
           iter == CHOOSE f : Eq(f)
<1>1. n \in Nat /\ order \in [1..n -> mine]
  BY OrderOf
<1>2. Gather(w, mine, other) = iter[1..n]
  <2>1. DOMAIN order = 1..n
    BY <1>1
  <2>2. QED
    BY <2>1 DEF Gather, Turn, FoldLeft, MapThenFoldSet
<1> HIDE DEF n, order
<1>3. ASSUME NEW v \in Wirings, NEW i \in 1..n PROVE Turn(v, order[i], mine, other) \in Wirings
  BY <1>1, WireType DEF Turn
<1>4. H \in [Wirings \X (1..n) -> Wirings]
  BY <1>3
<1>5. \E f : Eq(f)
  <2> HIDE DEF H
  <2>1. PICK g : IsFold(g, Wirings, w, n, H)
    BY <1>1, <1>4, FoldExists
  <2>2. /\ g \in [SUBSET (1..n) -> Wirings]
        /\ \A s \in SUBSET (1..n) :
             g[s] = IF s = {} THEN w ELSE H[<<g[s \ {Max(s)}], Max(s)>>]
    BY <2>1 DEF IsFold
  <2>3. ASSUME NEW s \in SUBSET (1..n), s # {}
        PROVE  g[s] = Turn(g[s \ {Max(s)}], order[Max(s)], mine, other)
    <3>1. Max(s) \in 1..n /\ s \ {Max(s)} \in SUBSET (1..n)
      BY <1>1, <2>3, MaxLemma
    <3>2. g[s \ {Max(s)}] \in Wirings /\ g[s] = H[<<g[s \ {Max(s)}], Max(s)>>]
      BY <2>2, <2>3, <3>1
    <3>3. QED
      BY <3>1, <3>2 DEF H
  <2>4. Eq(g)
    BY <2>2, <2>3
  <2> HIDE DEF Eq
  <2>5. QED
    BY <2>4
<1>6. Eq(iter)
  <2> HIDE DEF Eq
  <2>1. QED
    BY <1>5
<1> HIDE DEF iter
<1>7. ASSUME NEW k \in 1..n, iter[1 .. k - 1] \in Wirings
      PROVE  iter[1..k] = H[<<iter[1 .. k - 1], k>>]
  <2>1. k - 1 \in Nat /\ (k - 1) + 1 = k
    BY <1>1
  <2>2. Max(1..k) = k /\ (1..k) \ {k} = 1 .. k - 1
    BY <2>1, MaxOfInterval
  <2>3. 1..k \in SUBSET (1..n) /\ k \in 1..k
    BY <1>1
  <2>4. iter[1..k] = Turn(iter[1 .. k - 1], order[k], mine, other)
    <3>1. 1..k # {}
      BY <2>3
    <3>2. QED
      BY <1>6, <2>2, <2>3, <3>1
  <2>5. QED
    BY <1>7, <2>4
<1>8. iter[{}] = w
  BY <1>6
<1> HIDE DEF H
<1>9. PICK a : IsRun(a, Wirings, w, n, H) /\ a[n] = iter[1..n]
  <2>1. Unfolds(iter, Wirings, w, n, H)
    BY <1>7, <1>8 DEF Unfolds
  <2>2. EndsRun(iter, Wirings, w, n, H)
    BY <1>1, <1>4, <2>1, FoldRuns
  <2>3. QED
    BY <2>2 DEF EndsRun
<1>10. a \in [0..n -> Wirings] /\ a[0] = w
  BY <1>9 DEF IsRun
<1>11. ASSUME NEW k \in 1..n PROVE a[k] = Turn(a[k - 1], order[k], mine, other)
  <2>1. k - 1 \in 0..n
    BY <1>1
  <2>2. a[k] = H[<<a[k - 1], k>>] /\ a[k - 1] \in Wirings
    BY <1>9, <1>10, <2>1 DEF IsRun
  <2>3. QED
    BY <2>2 DEF H
<1>12. QED
  BY <1>2, <1>9, <1>10, <1>11 DEF n, order

\* What ConnectAll makes of the wiring w.
JoinAll(w) ==
    LET One(v, i) == ConnectSrv(v, i, Srv)
    IN  FoldLeft(One, w, SetToSeq(Srv))

\* The loop of ConnectAll gives a wiring.
LEMMA JoinAllType ==
    ASSUME NEW w \in Wirings
    PROVE  JoinAll(w) \in Wirings
<1> DEFINE n == Cardinality(Srv)
           order == SetToSeq(Srv)
           H == [x \in Wirings \X (1..n) |-> ConnectSrv(x[1], order[x[2]], Srv)]
           Eq(f) == f = [s \in SUBSET (1..n) |->
                           IF s = {} THEN w ELSE ConnectSrv(f[s \ {Max(s)}], order[Max(s)], Srv)]
           iter == CHOOSE f : Eq(f)
<1>1. n \in Nat /\ order \in [1..n -> Srv]
  BY OrderOf
<1>2. JoinAll(w) = iter[1..n]
  <2>1. DOMAIN order = 1..n
    BY <1>1
  <2>2. QED
    BY <2>1 DEF JoinAll, FoldLeft, MapThenFoldSet
<1> HIDE DEF n, order
<1>3. ASSUME NEW v \in Wirings, NEW i \in 1..n PROVE ConnectSrv(v, order[i], Srv) \in Wirings
  BY <1>1, WireType
<1>4. H \in [Wirings \X (1..n) -> Wirings]
  BY <1>3
<1>5. \E f : Eq(f)
  <2> HIDE DEF H
  <2>1. PICK g : IsFold(g, Wirings, w, n, H)
    BY <1>1, <1>4, FoldExists
  <2>2. /\ g \in [SUBSET (1..n) -> Wirings]
        /\ \A s \in SUBSET (1..n) :
             g[s] = IF s = {} THEN w ELSE H[<<g[s \ {Max(s)}], Max(s)>>]
    BY <2>1 DEF IsFold
  <2>3. ASSUME NEW s \in SUBSET (1..n), s # {}
        PROVE  g[s] = ConnectSrv(g[s \ {Max(s)}], order[Max(s)], Srv)
    <3>1. Max(s) \in 1..n /\ s \ {Max(s)} \in SUBSET (1..n)
      BY <1>1, <2>3, MaxLemma
    <3>2. g[s \ {Max(s)}] \in Wirings /\ g[s] = H[<<g[s \ {Max(s)}], Max(s)>>]
      BY <2>2, <2>3, <3>1
    <3>3. QED
      BY <3>1, <3>2 DEF H
  <2>4. Eq(g)
    BY <2>2, <2>3
  <2> HIDE DEF Eq
  <2>5. QED
    BY <2>4
<1>6. Eq(iter)
  <2> HIDE DEF Eq
  <2>1. QED
    BY <1>5
<1> HIDE DEF iter
<1>7. ASSUME NEW k \in 1..n, iter[1 .. k - 1] \in Wirings
      PROVE  iter[1..k] = H[<<iter[1 .. k - 1], k>>]
  <2>1. k - 1 \in Nat /\ (k - 1) + 1 = k
    BY <1>1
  <2>2. Max(1..k) = k /\ (1..k) \ {k} = 1 .. k - 1
    BY <2>1, MaxOfInterval
  <2>3. 1..k \in SUBSET (1..n) /\ k \in 1..k
    BY <1>1
  <2>4. iter[1..k] = ConnectSrv(iter[1 .. k - 1], order[k], Srv)
    <3>1. 1..k # {}
      BY <2>3
    <3>2. QED
      BY <1>6, <2>2, <2>3, <3>1
  <2>5. QED
    BY <1>7, <2>4
<1>8. iter[{}] = w
  BY <1>6
<1> HIDE DEF H
<1>9. PICK a : IsRun(a, Wirings, w, n, H) /\ a[n] = iter[1..n]
  <2>1. Unfolds(iter, Wirings, w, n, H)
    BY <1>7, <1>8 DEF Unfolds
  <2>2. EndsRun(iter, Wirings, w, n, H)
    BY <1>1, <1>4, <2>1, FoldRuns
  <2>3. QED
    BY <2>2 DEF EndsRun
<1>10. a \in [0..n -> Wirings] /\ a[0] = w
  BY <1>9 DEF IsRun
<1>11. QED
  BY <1>1, <1>2, <1>9, <1>10

\* After the loop its side is gathered, and the other side is as it was.
LEMMA GatherLemma ==
    ASSUME NEW w \in Wirings, NEW mine \in SUBSET Srv, NEW other \in SUBSET Srv,
           mine \cap other = {}, AllStarted
    PROVE  /\ Gather(w, mine, other) \in Wirings
           /\ Gathered(Gather(w, mine, other), mine, other)
           /\ Untouched(w, Gather(w, mine, other), other)
<1> DEFINE n == Cardinality(mine)
           order == SetToSeq(mine)
<1>1. /\ n \in Nat /\ order \in [1..n -> mine]
      /\ \A i \in mine : \E k \in 1..n : order[k] = i
  BY OrderOf
<1>2. PICK a \in [0..n -> Wirings] :
             /\ a[0] = w
             /\ \A k \in 1..n : a[k] = Turn(a[k - 1], order[k], mine, other)
             /\ Gather(w, mine, other) = a[n]
  BY GatherRuns
<1> HIDE DEF n, order
<1> DEFINE M(k) == {order[m] : m \in 1..k}
           Good(k) == k <= n => Gathered(a[k], M(k), other) /\ Untouched(w, a[k], other)
           T == {k \in Nat : Good(k)}
<1>3. Good(0)
  <2>1. M(0) = {}
    OBVIOUS
  <2>2. QED
    BY <1>2, <2>1 DEF Gathered, Untouched
<1>4. ASSUME NEW k \in Nat, Good(k) PROVE Good(k + 1)
  <2> SUFFICES ASSUME k + 1 <= n
               PROVE  Gathered(a[k + 1], M(k + 1), other) /\ Untouched(w, a[k + 1], other)
    OBVIOUS
  <2>1. k \in 0..n /\ k + 1 \in 1..n /\ (k + 1) - 1 = k /\ a[k] \in Wirings
    BY <1>1, <1>2
  <2>2. a[k + 1] = Turn(a[k], order[k + 1], mine, other) /\ order[k + 1] \in mine
    BY <1>1, <1>2, <2>1
  <2>3. M(k) \in SUBSET mine
    <3>1. ASSUME NEW m \in 1..k PROVE order[m] \in mine
      BY <1>1, <2>1
    <3>2. QED
      BY <3>1
  <2>4. M(k + 1) = M(k) \cup {order[k + 1]}
    <3>1. 1 .. k + 1 = (1..k) \cup {k + 1}
      OBVIOUS
    <3>2. QED
      BY <3>1
  <2>5. Gathered(a[k], M(k), other) /\ Untouched(w, a[k], other)
    BY <1>4, <2>1
  <2> HIDE DEF M
  <2>6. /\ Gathered(a[k + 1], M(k) \cup {order[k + 1]}, other)
        /\ Untouched(a[k], a[k + 1], other)
    BY <2>1, <2>2, <2>3, <2>5, TurnGathers
  <2>7. Untouched(w, a[k + 1], other)
    BY <2>5, <2>6 DEF Untouched
  <2>8. QED
    BY <2>4, <2>6, <2>7
<1>5. Good(n)
  <2> HIDE DEF Good
  <2>1. 0 \in T /\ \A k \in Nat : k \in T => k + 1 \in T
    BY <1>3, <1>4
  <2>2. \A k \in Nat : k \in T
    <3> HIDE DEF T
    <3>1. QED
      BY <2>1, Induction
  <2>3. QED
    BY <1>1, <2>2
<1>6. M(n) = mine
  BY <1>1
<1> HIDE DEF M
<1>7. Gathered(a[n], mine, other) /\ Untouched(w, a[n], other) /\ a[n] \in Wirings
  BY <1>1, <1>2, <1>5, <1>6
<1>8. QED
  BY <1>2, <1>7

\* After both loops the sides are apart and each is complete.
LEMMA PartitionLemma ==
    ASSUME NEW w \in Wirings, NEW p \in SUBSET Srv, AllStarted
    PROVE  LET q == Srv \ p
               out == Gather(Gather(w, p, q), q, p)
           IN  \A i, j \in Srv : out.enabled[Current(i, j)] = (i \in p <=> j \in p)
<1> DEFINE q == Srv \ p
           half == Gather(w, p, q)
           out == Gather(half, q, p)
<1>1. q \in SUBSET Srv /\ p \cap q = {} /\ q \cap p = {}
  OBVIOUS
<1> HIDE DEF q
<1>2. half \in Wirings /\ Gathered(half, p, q)
  BY <1>1, GatherLemma
<1> HIDE DEF half
<1>3. out \in Wirings /\ Gathered(out, q, p) /\ Untouched(half, out, p)
  BY <1>1, <1>2, GatherLemma
<1> HIDE DEF out
<1>4. ASSUME NEW i \in Srv, NEW j \in Srv
      PROVE  out.enabled[Current(i, j)] = (i \in p <=> j \in p)
  <2>1. out.enabled[Current(i, j)] \in BOOLEAN
    BY <1>3 DEF AllStarted, Wirings
  <2>2. CASE i \in p /\ j \in p
    BY <1>2, <1>3, <2>1, <2>2 DEF Gathered, Untouched
  <2>3. CASE i \in q /\ j \in q
    BY <1>3, <2>1, <2>3 DEF Gathered, q
  <2>4. CASE (i \in p /\ j \in q) \/ (i \in q /\ j \in p)
    BY <1>3, <2>1, <2>4 DEF Gathered, q
  <2>5. QED
    BY <2>2, <2>3, <2>4 DEF q
<1>5. QED
  BY <1>4 DEF out, half, q

\* Requests do not change who is connected.
LEMMA RequestsKeepWiring == RequestStep => UNCHANGED <<connected, enabled>>
<1> SUFFICES ASSUME NEW r \in Req, RequestStepOf(r) PROVE UNCHANGED <<connected, enabled>>
  BY DEF RequestStep
<1>1. ASSUME NEW i \in Srv, NEW x \in Item, Call(r, i, x) PROVE UNCHANGED <<connected, enabled>>
  BY <1>1 DEF Call, Net!Call, Net!netConfig
<1>2. CASE Handle(r)
  BY <1>2 DEF Handle, Net!Dispatch, Net!netConfig
<1>3. CASE Transport(r)
  BY <1>3 DEF Transport, Net!ProcessReq, Net!GiveUp, Net!Answer, Net!netConfig
<1>4. CASE Return(r)
  BY <1>4 DEF Return, Net!Return, Net!netConfig
<1>5. QED
  BY <1>1, <1>2, <1>3, <1>4 DEF RequestStepOf

\* The wiring starts as one.
LEMMA WiringTypeInit == Init => WiringTypeOK
BY DEF Init, WiringTypeOK

\* Every step leaves a wiring, the loops of ConnectAll and Partition too.
LEMMA WiringTypeStep == WiringTypeOK /\ [Next]_vars => WiringTypeOK'
<1> SUFFICES ASSUME WiringTypeOK, [Next]_vars PROVE WiringTypeOK'
  OBVIOUS
<1>1. Wiring \in Wirings
  BY DEF WiringTypeOK, Wiring, Wirings
<1>2. ASSUME NEW w \in Wirings, Rewire(w) PROVE WiringTypeOK'
  BY <1>2 DEF Rewire, Wirings, WiringTypeOK
<1>3. ASSUME UNCHANGED <<connected, enabled>> PROVE WiringTypeOK'
  BY <1>3 DEF WiringTypeOK
<1>4. ASSUME NEW i \in Srv, ConnectOne(i) \/ DisconnectAll(i) \/ ShutdownServer(i)
      PROVE  WiringTypeOK'
  BY <1>1, <1>2, <1>4, WireType DEF ConnectOne, DisconnectAll, ShutdownServer
<1>5. ASSUME ConnectAll PROVE WiringTypeOK'
  <2>1. Rewire(JoinAll(Wiring))
    BY <1>5, Zenon DEF ConnectAll, JoinAll
  <2>2. JoinAll(Wiring) \in Wirings
    BY <1>1, JoinAllType
  <2>3. QED
    BY <1>2, <2>1, <2>2
<1>6. ASSUME NEW p \in SUBSET Srv, Partition(p, Srv \ p) PROVE WiringTypeOK'
  <2>1. \A w \in Wirings, mine, other \in SUBSET Srv : Gather(w, mine, other) \in Wirings
    <3> TAKE w \in Wirings, mine, other \in SUBSET Srv
    <3>1. PICK a \in [0..Cardinality(mine) -> Wirings] :
             /\ a[0] = w
             /\ \A k \in 1..Cardinality(mine) :
                  a[k] = Turn(a[k - 1], SetToSeq(mine)[k], mine, other)
             /\ Gather(w, mine, other) = a[Cardinality(mine)]
      BY GatherRuns
    <3>2. Cardinality(mine) \in Nat
      BY OrderOf
    <3>3. QED
      BY <3>1, <3>2
  <2>2. Gather(Gather(Wiring, p, Srv \ p), Srv \ p, p) \in Wirings
    BY <1>1, <2>1
  <2>3. QED
    BY <1>2, <1>6, <2>2 DEF Partition
<1>7. ASSUME NEW i \in Srv, StartServer(i) PROVE WiringTypeOK'
  BY <1>3, <1>7 DEF StartServer, Net!AddServer
<1>8. CASE GroupStep
  BY <1>4, <1>5, <1>6, <1>7, <1>8 DEF GroupStep
<1>9. CASE DeleteServer \/ SupersedePersister
  BY <1>3, <1>9 DEF DeleteServer, Net!DeleteServer, SupersedePersister, netConfig
<1>10. CASE RequestStep
  BY <1>3, <1>10, RequestsKeepWiring
<1>11. CASE UNCHANGED vars
  BY <1>3, <1>11 DEF vars, netConfig
<1>12. QED
  BY <1>8, <1>9, <1>10, <1>11 DEF Next

\* The inductive invariant holds in every state: a server that is registered
\* on the network is the one whose Persister the group keeps, and a request is
\* answered only while its handler's instance is registered.
THEOREM IndInvariant == Spec => []IndInv
<1>1. Init => IndInv
  BY StoreTypeInit, WiringTypeInit, DurableInit DEF IndInv
<1>2. IndInv /\ [Next]_vars => IndInv'
  BY StoreTypeStep, WiringTypeStep, DurableStep DEF IndInv
<1>3. QED
  BY <1>1, <1>2, PTL DEF Spec

\* What a client was told is saved is in the Persister that the server's next
\* instance is given, whatever was shut down, started and still running.
THEOREM Durable == Spec => []AckedIsDurable
<1>1. IndInv => AckedIsDurable
  BY DEF IndInv, DurableInv
<1>2. QED
  BY <1>1, IndInvariant, PTL

\* A step that is a partition and changes something is taken when all
\* servers have been started.
LEMMA PartitionOfStarted ==
    ASSUME StoreTypeOK, Next, ~UNCHANGED vars, NEW p1, NEW p2, Partition(p1, p2)
    PROVE  AllStarted
<1>1. UNCHANGED <<starts, live, saved, disk, acked, connections, servers, made, reliable, done,
                  calls, shutting>>
  BY DEF Partition, Rewire, persisters
<1>2. ~UNCHANGED <<connected, enabled>>
  BY <1>1 DEF vars, persisters, netConfig
<1>3. ~RequestStep
  BY <1>2, RequestsKeepWiring
<1>4. ~(DeleteServer \/ SupersedePersister)
  BY <1>2 DEF DeleteServer, Net!DeleteServer, SupersedePersister, netConfig
<1>5. ASSUME NEW i \in Srv, StartServer(i) PROVE FALSE
  BY <1>2, <1>5 DEF StartServer, Net!AddServer
<1>6. ASSUME NEW i \in Srv, shutting = Idle, ShutdownServer(i) PROVE FALSE
  <2>1. shutting' = shutting /\ shutting.step = "idle"
    BY <1>1, <1>6 DEF Idle
  <2>2. shutting'.step = "delete"
    BY <1>6 DEF ShutdownServer
  <2>3. QED
    BY <2>1, <2>2
<1>7. \A i \in Srv : starts[i] # 0
  BY <1>3, <1>4, <1>5, <1>6 DEF Next, GroupStep
<1>8. \A i \in Srv : starts[i] \in 1..MaxServers
  BY <1>7 DEF StoreTypeOK
<1>9. QED
  BY <1>8 DEF AllStarted, Current, End

\* Partition splits the group: whoever was connected before, whoever has been
\* shut down and started, and in whatever order the loops meet the servers.
THEOREM PartitionsSplit == Spec => PartitionSplits
<1>1. ASSUME IndInv, [Next]_vars
      PROVE  [ \A p \in SUBSET Srv : Partition(p, Srv \ p) =>
                 \A i, j \in Srv :
                     enabled'[SrvEnd(i, j, starts[i])] = (i \in p <=> j \in p) ]_vars
  <2> SUFFICES ASSUME ~UNCHANGED vars, NEW p \in SUBSET Srv, Partition(p, Srv \ p),
                      NEW i \in Srv, NEW j \in Srv
               PROVE  enabled'[SrvEnd(i, j, starts[i])] = (i \in p <=> j \in p)
    OBVIOUS
  <2>1. AllStarted
    BY <1>1, PartitionOfStarted DEF IndInv
  <2>2. Wiring \in Wirings
    BY <1>1 DEF IndInv, WiringTypeOK, Wiring, Wirings
  <2>3. enabled' = Gather(Gather(Wiring, p, Srv \ p), Srv \ p, p).enabled
    BY DEF Partition, Rewire
  <2>4. QED
    BY <2>1, <2>2, <2>3, PartitionLemma DEF Current
<1>2. QED
  BY <1>1, IndInvariant, PTL DEF Spec, PartitionSplits
=============================================================================
