--------------------------- MODULE KVSystemProofs ---------------------------
(***************************************************************************)
(* Proofs about KVSystem, for any clerks, keys, values, numbers of         *)
(* operations and of requests in flight.  The first part is about every    *)
(* network: what Put returned stays true, whatever was lost and whichever  *)
(* abandoned handlers are still running.  The second part is about ends    *)
(* that stay enabled: then the whole is the linearizable store of          *)
(* VersionedKV.                                                            *)
(***************************************************************************)
EXTENDS KVSystem, TLAPS

-----------------------------------------------------------------------------
(* The handlers of the server.                                             *)

\* KVServer.Put never takes a version back, and an accepted Put moves the
\* version of its key past the one it asked for.
LEMMA PutLemma ==
    ASSUME NEW st, IsStore(st), NEW key \in Key, NEW value \in Value, NEW version \in Version
    PROVE  LET e == PutErr(st, key, version)
               t == PutStore(st, key, value, version)
           IN  /\ e \in {"OK", "ErrNoKey", "ErrVersion"}
               /\ IsStore(t)
               /\ e # "OK" => t = st
               /\ e = "OK" <=> version = CurrentVersion(st, key)
               /\ e = "OK" => CurrentVersion(t, key) = version + 1
               /\ \A k \in Key : /\ CurrentVersion(st, k) \in Nat
                                 /\ CurrentVersion(t, k) \in Nat
                                 /\ CurrentVersion(st, k) <= CurrentVersion(t, k)
               /\ e = "ErrNoKey" <=> key \notin DOMAIN st /\ version # 0
               /\ DOMAIN st \subseteq DOMAIN t
<1> DEFINE t == PutStore(st, key, value, version)
<1>1. ASSUME NEW k \in Key PROVE CurrentVersion(st, k) \in Nat
  <2>1. k \in DOMAIN st => st[k] \in Entry
    BY DEF IsStore
  <2>2. QED
    BY <2>1 DEF CurrentVersion, Entry, Version
<1>2. CASE PutErr(st, key, version) # "OK"
  BY <1>1, <1>2 DEF PutErr, PutStore, CurrentVersion, Version
<1>3. CASE PutErr(st, key, version) = "OK" /\ key \in DOMAIN st
  <2>1. t = UpdateRecord(st, key, value)
    BY <1>3 DEF PutStore
  <2>2. st[key].version = version /\ version = CurrentVersion(st, key)
    BY <1>3 DEF PutErr, CurrentVersion
  <2>3. [value |-> value, version |-> st[key].version + 1] \in Entry
    BY <2>2 DEF Entry, Version
  <2>4. IsStore(t) /\ DOMAIN t = DOMAIN st /\ t[key].version = version + 1
    BY <1>3, <2>1, <2>2, <2>3 DEF UpdateRecord, IsStore
  <2>5. \A k \in DOMAIN st : k # key => t[k] = st[k]
    BY <2>1 DEF UpdateRecord, IsStore
  <2>6. CurrentVersion(t, key) = version + 1
    BY <1>3, <2>4 DEF CurrentVersion
  <2>7. \A k \in Key : k # key => CurrentVersion(t, k) = CurrentVersion(st, k)
    BY <2>4, <2>5 DEF CurrentVersion
  <2>8. ASSUME NEW k \in Key
        PROVE  CurrentVersion(t, k) \in Nat /\ CurrentVersion(st, k) <= CurrentVersion(t, k)
    <3>1. CASE k = key
      BY <2>2, <2>6, <3>1 DEF Version
    <3>2. CASE k # key
      BY <1>1, <2>7, <3>2
    <3>3. QED
      BY <3>1, <3>2
  <2>9. QED
    BY <1>1, <1>3, <2>2, <2>4, <2>6, <2>8 DEF t
<1>4. CASE PutErr(st, key, version) = "OK" /\ key \notin DOMAIN st
  <2>1. t = AddRecord(st, key, value, version)
    BY <1>4 DEF PutStore
  <2>2. version = 0 /\ version = CurrentVersion(st, key)
    BY <1>4 DEF PutErr, CurrentVersion
  <2>3. [value |-> value, version |-> version + 1] \in Entry
    BY <2>2 DEF Entry, Version
  <2>4. IsStore(t) /\ DOMAIN t = DOMAIN st \cup {key} /\ t[key].version = version + 1
    BY <1>4, <2>1, <2>2, <2>3 DEF AddRecord, IsStore
  <2>5. \A k \in DOMAIN st : t[k] = st[k]
    BY <1>4, <2>1 DEF AddRecord
  <2>6. CurrentVersion(t, key) = version + 1
    BY <2>4 DEF CurrentVersion
  <2>7. \A k \in Key : k # key => CurrentVersion(t, k) = CurrentVersion(st, k)
    BY <2>4, <2>5 DEF CurrentVersion
  <2>8. ASSUME NEW k \in Key
        PROVE  CurrentVersion(t, k) \in Nat /\ CurrentVersion(st, k) <= CurrentVersion(t, k)
    <3>1. CASE k = key
      BY <2>2, <2>6, <3>1 DEF Version
    <3>2. CASE k # key
      BY <1>1, <2>7, <3>2
    <3>3. QED
      BY <3>1, <3>2
  <2>9. QED
    BY <1>1, <1>4, <2>2, <2>4, <2>6, <2>8 DEF t
<1>5. QED
  BY <1>2, <1>3, <1>4

\* KVServer.Get answers OK or ErrNoKey.
LEMMA GetLemma ==
    ASSUME NEW st, IsStore(st), NEW key \in Key
    PROVE  Get(st, key) \in Reply /\ Get(st, key).err \in Err
<1>1. CASE key \in DOMAIN st
  <2>1. st[key] \in Entry
    BY <1>1 DEF IsStore
  <2>2. QED
    BY <1>1, <2>1 DEF Get, Reply, Err, Entry, Version
<1>2. CASE key \notin DOMAIN st
  BY <1>2, ValueAssumption DEF Get, Reply, Err, Version
<1>3. QED
  BY <1>1, <1>2

-----------------------------------------------------------------------------
(* Requests.                                                               *)

\* The slots are those of the clerks.
LEMMA ReqLemma ==
    /\ \A c \in Client : \A s \in Slot[c] : <<c, s>> \in Req
    /\ \A r \in Req : \E c \in Client : \E s \in Slot[c] : r = <<c, s>>
BY DEF Req

\* A free slot is a request record.
LEMMA FreeCallType == Net!FreeCall \in Net!CallRec
BY DEF Net!FreeCall, Net!CallRec

\* SetCall changes one slot: to the given record, or to a free slot if no
\* goroutine is left.
LEMMA SetCallLemma ==
    ASSUME TypeOK, NEW c \in Client, NEW s \in Slot[c],
           NEW call \in Net!CallRec, Net!SetCall(<<c, s>>, call)
    PROVE  /\ calls' \in [Req -> Net!CallRec]
           /\ calls'[<<c, s>>] = IF call.stage = "idle" /\ call.handler # "running"
                                 THEN Net!FreeCall ELSE call
           /\ \A d \in Client : \A t \in Slot[d] :
                 d # c \/ t # s => calls'[<<d, t>>] = calls[<<d, t>>]
<1>1. <<c, s>> \in Req /\ calls \in [Req -> Net!CallRec]
  BY ReqLemma DEF TypeOK, Net!NetTypeOK
<1>2. calls' = [calls EXCEPT ![<<c, s>>] =
                   IF call.stage = "idle" /\ call.handler # "running"
                   THEN Net!FreeCall ELSE call]
  BY DEF Net!SetCall
<1>3. \A d \in Client : \A t \in Slot[d] :
         d # c \/ t # s => <<d, t>> \in Req /\ <<d, t>> # <<c, s>>
  BY ReqLemma
<1>4. QED
  BY <1>1, <1>2, <1>3, FreeCallType

\* The record of a request in flight is well typed.
LEMMA CallType ==
    ASSUME TypeOK, NEW c \in Client, NEW s \in Slot[c]
    PROVE  calls[<<c, s>>] \in Net!CallRec
BY ReqLemma DEF TypeOK, Net!NetTypeOK

\* A step that changes one request keeps the types of the network.
LEMMA NetType ==
    ASSUME TypeOK, NEW c \in Client, NEW s \in Slot[c],
           NEW call \in Net!CallRec, Net!SetCall(<<c, s>>, call),
           call.stage # "idle" => call.end \in Client,
           UNCHANGED netConfig
    PROVE  Net!NetTypeOK'
<1>1. calls' \in [Req -> Net!CallRec]
  BY SetCallLemma
<1>2. ASSUME NEW r \in Req, calls'[r].stage # "idle" PROVE calls'[r].end \in Client
  <2>1. PICK d \in Client : \E t \in Slot[d] : r = <<d, t>>
    BY ReqLemma
  <2>2. PICK t \in Slot[d] : r = <<d, t>>
    BY <2>1
  <2>3. CASE d = c /\ t = s
    BY <1>2, <2>2, <2>3, SetCallLemma DEF Net!FreeCall
  <2>4. CASE d # c \/ t # s
    BY <1>2, <2>2, <2>4, SetCallLemma DEF TypeOK, Net!NetTypeOK
  <2>5. QED
    BY <2>3, <2>4
<1>3. QED
  BY <1>1, <1>2 DEF TypeOK, Net!NetTypeOK, netConfig

-----------------------------------------------------------------------------
(* The records that the steps of a request leave behind.                   *)

\* Call, ProcessReq, the return of the handler, and a change of stage.
Called(c, args, stage) ==
    [Net!FreeCall EXCEPT !.stage = stage, !.end = c, !.args = args]

Started(r) ==
    LET e == calls[r].end
        s == connections[e]
    IN  [calls[r] EXCEPT !.stage = "waiting", !.handler = "running", !.srv = s,
                         !.inst = servers[s], !.reliable = reliable]

Handled(r, reply) ==
    [calls[r] EXCEPT !.handler = "returned", !.reply = reply,
                     !.live = servers[calls[r].srv] = calls[r].inst]

Restaged(r, stage) == [calls[r] EXCEPT !.stage = stage]

\* The request that a clerk's operation sends.
ClerkArgs(c) ==
    [kind |-> clerk[c].kind, key |-> clerk[c].key, value |-> clerk[c].value,
     version |-> clerk[c].version, id |-> clerk[c].id]

\* The fields of a new request.
LEMMA CalledLemma ==
    ASSUME NEW c \in Client, NEW args \in Request, NEW stage \in {"sent", "failed"}
    PROVE  LET call == Called(c, args, stage)
           IN  /\ call \in Net!CallRec
               /\ call.stage = stage /\ call.handler = "none" /\ call.end = c
               /\ call.args = args
BY DEF Called, Net!CallRec, Net!FreeCall

\* The fields of a request that reaches the server.
LEMMA StartedLemma ==
    ASSUME TypeOK, NEW c \in Client, NEW s \in Slot[c],
           calls[<<c, s>>].stage = "sent",
           connections[calls[<<c, s>>].end] # "nil"
    PROVE  LET call == Started(<<c, s>>)
               end == calls[<<c, s>>].end
           IN  /\ call \in Net!CallRec
               /\ call.stage = "waiting" /\ call.handler = "running"
               /\ call.end = end /\ call.end \in Client
               /\ call.args = calls[<<c, s>>].args /\ call.reply = calls[<<c, s>>].reply
               /\ call.srv = ServerName /\ call.inst = servers[ServerName]
               /\ call.reliable = reliable
<1> DEFINE end == calls[<<c, s>>].end
           srv == connections[end]
<1>1. calls[<<c, s>>] \in Net!CallRec /\ end \in Client
  BY CallType, ReqLemma DEF TypeOK, Net!NetTypeOK
<1>2. srv = ServerName /\ servers[srv] \in Nat /\ reliable \in BOOLEAN
  BY <1>1 DEF TypeOK, Net!NetTypeOK
<1> HIDE DEF srv, end
<1>3. [calls[<<c, s>>] EXCEPT !.stage = "waiting", !.handler = "running", !.srv = srv,
          !.inst = servers[srv], !.reliable = reliable] \in Net!CallRec
  BY <1>1, <1>2 DEF Net!CallRec
<1>4. QED
  BY <1>1, <1>2, <1>3 DEF Started, srv, end, Net!CallRec

\* The fields of a request whose handler has returned.
LEMMA HandledLemma ==
    ASSUME TypeOK, NEW c \in Client, NEW s \in Slot[c], NEW reply \in Reply
    PROVE  LET call == Handled(<<c, s>>, reply)
           IN  /\ call \in Net!CallRec
               /\ call.stage = calls[<<c, s>>].stage /\ call.handler = "returned"
               /\ call.end = calls[<<c, s>>].end /\ call.args = calls[<<c, s>>].args
               /\ call.reply = reply /\ call.srv = calls[<<c, s>>].srv
               /\ call.inst = calls[<<c, s>>].inst /\ call.reliable = calls[<<c, s>>].reliable
<1>1. calls[<<c, s>>] \in Net!CallRec
  BY CallType
<1>2. QED
  BY <1>1 DEF Handled, Net!CallRec

\* A change of stage keeps the other fields.
LEMMA RestagedLemma ==
    ASSUME TypeOK, NEW c \in Client, NEW s \in Slot[c],
           NEW stage \in {"idle", "answered", "failed"}
    PROVE  LET call == Restaged(<<c, s>>, stage)
           IN  /\ call \in Net!CallRec
               /\ call.stage = stage /\ call.handler = calls[<<c, s>>].handler
               /\ call.end = calls[<<c, s>>].end /\ call.args = calls[<<c, s>>].args
               /\ call.reply = calls[<<c, s>>].reply /\ call.srv = calls[<<c, s>>].srv
               /\ call.inst = calls[<<c, s>>].inst /\ call.reliable = calls[<<c, s>>].reliable
<1>1. calls[<<c, s>>] \in Net!CallRec
  BY CallType
<1>2. QED
  BY <1>1 DEF Restaged, Net!CallRec

-----------------------------------------------------------------------------
(* The invariant, clerk by clerk.                                          *)

\* What IndInv says of one clerk; it speaks of no other.
ClerkSafe(c) ==
    /\ ClerkInv(c)
    /\ \A s \in Slot[c] : RequestInv(c, s)
    /\ \A s, t \in Slot[c] : calls[<<c, s>>].args.id = calls[<<c, t>>].args.id
                              => calls[<<c, s>>].args = calls[<<c, t>>].args
    /\ \A i \in OpId :
         /\ effects[c][i] <= 1
         /\ verdict[c][i] = "ErrVersion" => effects[c][i] = 0
         /\ verdict[c][i] = "OK" => effects[c][i] = 1
         /\ Final(c, i)

\* IndInv is that, for every clerk, and the types.
LEMMA SafeSplit ==
    /\ IndInv <=> TypeOK /\ \A c \in Client : ClerkSafe(c)
    /\ IndInv' <=> TypeOK' /\ \A c \in Client : ClerkSafe(c)'
BY DEF IndInv, ClerkSafe, SameRequests, AtMostOnce, VerdictHolds

\* Types of the parts that the steps look at.
LEMMA PartTypes ==
    ASSUME TypeOK, NEW c \in Client
    PROVE  /\ clerk[c] \in ClerkRec
           /\ clerk[c].key \in Key /\ clerk[c].value \in Value
           /\ clerk[c].version \in Nat /\ clerk[c].id \in Nat
           /\ clerk[c].phase \in {"loop", "waiting", "returned"}
           /\ clerk[c].requestCount \in 0..2
           /\ \A i \in OpId : effects[c][i] \in Nat
           /\ seen[c] \in Reply \cup {NoReply}
           /\ MaxOps \in Nat
           /\ \A s \in Slot[c] :
                /\ calls[<<c, s>>].args \in Request \cup {NoRequest}
                /\ calls[<<c, s>>].args.id \in Nat
                /\ calls[<<c, s>>].args.id \in OpId =>
                     /\ calls[<<c, s>>].args \in Request
                     /\ calls[<<c, s>>].args.key \in Key
                     /\ calls[<<c, s>>].args.version \in Nat
<1>1. clerk[c] \in ClerkRec
  BY DEF TypeOK
<1>2. ASSUME NEW s \in Slot[c]
      PROVE  /\ calls[<<c, s>>].args \in Request \cup {NoRequest}
             /\ calls[<<c, s>>].args.id \in Nat
             /\ calls[<<c, s>>].args.id \in OpId =>
                  /\ calls[<<c, s>>].args \in Request
                  /\ calls[<<c, s>>].args.key \in Key
                  /\ calls[<<c, s>>].args.version \in Nat
  <2>1. calls[<<c, s>>].args \in Request \cup {NoRequest}
    BY CallType DEF Net!CallRec
  <2>2. NoRequest.id = 0 /\ 0 \notin OpId
    BY DEF NoRequest, OpId
  <2>3. QED
    BY <2>1, <2>2 DEF Request, Version, OpId
<1>3. clerk[c].id \in Nat
  BY <1>1, BoundAssumption DEF ClerkRec
<1>4. QED
  BY <1>1, <1>2, <1>3, BoundAssumption DEF TypeOK, ClerkRec, Version

\* No version is taken back.
VersionsGrow ==
    \A k \in Key : /\ CurrentVersion(store, k) \in Nat /\ CurrentVersion(store', k) \in Nat
                  /\ CurrentVersion(store, k) <= CurrentVersion(store', k)

\* Versions grow, whatever a step does to the store.
LEMMA VersionsLemma ==
    ASSUME TypeOK
    PROVE  /\ UNCHANGED store => VersionsGrow
           /\ \A key \in Key, value \in Value, version \in Version :
                store' = PutStore(store, key, value, version) => VersionsGrow
<1>1. IsStore(store)
  BY DEF TypeOK
<1>2. ASSUME NEW k \in Key PROVE CurrentVersion(store, k) \in Nat
  BY <1>1, <1>2, PutLemma, ValueAssumption DEF Version
<1>3. ASSUME UNCHANGED store PROVE VersionsGrow
  BY <1>2, <1>3 DEF VersionsGrow, CurrentVersion
<1>4. ASSUME NEW key \in Key, NEW value \in Value, NEW version \in Version,
             store' = PutStore(store, key, value, version)
      PROVE  VersionsGrow
  BY <1>1, <1>4, PutLemma DEF VersionsGrow
<1>5. QED
  BY <1>3, <1>4

\* What is overtaken stays so.
LEMMA OvertakenStays ==
    ASSUME VersionsGrow, NEW c \in Client, NEW o,
           o.key \in Key, o.version \in Nat,
           effects'[c][o.id] = effects[c][o.id],
           Overtaken(c, o)
    PROVE  o.kind = "put" /\ effects'[c][o.id] >= 1 => o.version < CurrentVersion(store', o.key)
<1>1. /\ CurrentVersion(store, o.key) \in Nat /\ CurrentVersion(store', o.key) \in Nat
      /\ CurrentVersion(store, o.key) <= CurrentVersion(store', o.key)
  BY DEF VersionsGrow
<1>2. QED
  BY <1>1 DEF Overtaken

\* A step of one clerk leaves the others safe.
LEMMA OtherClerks ==
    ASSUME TypeOK, NEW d \in Client, ClerkSafe(d), VersionsGrow,
           clerk'[d] = clerk[d], effects'[d] = effects[d], verdict'[d] = verdict[d],
           \A s \in Slot[d] : calls'[<<d, s>>] = calls[<<d, s>>]
    PROVE  ClerkSafe(d)'
<1>1. ClerkInv(d)'
  <2>1. clerk[d].id \in OpId => Overtaken(d, clerk[d])'
    BY OvertakenStays, PartTypes DEF ClerkSafe, ClerkInv, Overtaken
  <2>2. FirstRequest(d)'
    BY DEF ClerkSafe, ClerkInv, FirstRequest
  <2>3. QED
    BY <2>1, <2>2 DEF ClerkSafe, ClerkInv
<1>2. ASSUME NEW s \in Slot[d] PROVE RequestInv(d, s)'
  <2>1. calls[<<d, s>>].args.id \in OpId => Overtaken(d, calls[<<d, s>>].args)'
    BY OvertakenStays, PartTypes DEF ClerkSafe, RequestInv, Overtaken
  <2>2. QED
    BY <2>1 DEF ClerkSafe, RequestInv, OfClerk
<1>3. QED
  BY <1>1, <1>2 DEF ClerkSafe, Final

-----------------------------------------------------------------------------
(* The steps.                                                              *)

\* The inductive invariant holds when the server has been made.
LEMMA IndInit == Init => IndInv
<1> SUFFICES ASSUME Init PROVE IndInv
  OBVIOUS
<1>1. TypeOK
  <2>1. IsStore(store)
    BY DEF Init, IsStore, MakeKVServer
  <2>2. NoKey \in Key /\ NoValue \in Value /\ 0 \in 0..MaxOps /\ MaxOps \in Nat
    BY KeyAssumption, ValueAssumption, BoundAssumption DEF NoKey
  <2>3. clerk \in [Client -> ClerkRec]
    BY <2>2 DEF Init, ClerkRec, Version
  <2>4. calls \in [Req -> Net!CallRec] /\ \A r \in Req : calls[r].stage = "idle"
    BY FreeCallType DEF Init, Net!FreeCall
  <2>5. Net!NetTypeOK
    BY <2>4, FlagAssumption DEF Init, Net!NetTypeOK
  <2>6. QED
    BY <2>1, <2>3, <2>5 DEF Init, TypeOK
<1>2. ASSUME NEW c \in Client PROVE ClerkSafe(c)
  <2>1. \A s \in Slot[c] : calls[<<c, s>>] = Net!FreeCall
    BY ReqLemma DEF Init
  <2>2. clerk[c].phase = "returned" /\ clerk[c].id = 0
    BY DEF Init
  <2>3. \A i \in OpId : effects[c][i] = 0 /\ verdict[c][i] = "None"
    BY DEF Init
  <2>4. \A s \in Slot[c] : RequestInv(c, s)
    BY <2>1, <2>2 DEF RequestInv, Net!FreeCall, NoRequest, OpId
  <2>5. ClerkInv(c)
    BY <2>2, <2>3 DEF ClerkInv, FirstRequest, OpId
  <2>6. QED
    BY <2>1, <2>3, <2>4, <2>5 DEF ClerkSafe, Final
<1>3. QED
  BY <1>1, <1>2, SafeSplit

\* A clerk that has returned has no request out.
LEMMA NoneOut ==
    ASSUME NEW c \in Client, ClerkSafe(c), NEW s \in Slot[c],
           clerk[c].phase # "waiting" \/ clerk[c].slot # s
    PROVE  calls[<<c, s>>].stage = "idle"
BY DEF ClerkSafe, RequestInv

\* Get or Put is called: nothing of the new operation exists yet.
LEMMA InvokeSafe ==
    ASSUME IndInv, NEW c \in Client, NEW kind \in {"get", "put"}, NEW key \in Key,
           NEW value \in Value, NEW version \in Version,
           Invoke(c, kind, key, value, version)
    PROVE  IndInv'
<1>1. TypeOK /\ \A d \in Client : ClerkSafe(d)
  BY SafeSplit
<1>2. UNCHANGED <<store, netConfig, calls, effects, verdict>>
  BY DEF Invoke
<1>3. /\ clerk[c] \in ClerkRec /\ clerk[c].phase = "returned"
      /\ clerk[c].id + 1 \in OpId /\ clerk[c].id \in Nat
  BY <1>1, PartTypes DEF Invoke, OpId
<1> DEFINE new == [kind |-> kind, key |-> key, value |-> value, version |-> version,
                   id |-> clerk[c].id + 1, phase |-> "loop", requestCount |-> 0,
                   slot |-> NoSlot, res |-> NoReply]
<1>4. clerk' = [clerk EXCEPT ![c] = new]
  BY DEF Invoke
<1>5. new \in ClerkRec /\ new.kind = kind /\ new.id = clerk[c].id + 1 /\ new.phase = "loop"
  BY <1>3, BoundAssumption DEF ClerkRec, OpId
<1> HIDE DEF new
<1>6. TypeOK'
  <2>1. clerk' \in [Client -> ClerkRec]
    BY <1>1, <1>4, <1>5 DEF TypeOK
  <2>2. seen' \in [Client -> Reply \cup {NoReply}]
    BY <1>1 DEF Invoke, TypeOK
  <2>3. QED
    BY <1>1, <1>2, <2>1, <2>2 DEF TypeOK, Net!NetTypeOK, netConfig
<1>7. /\ clerk'[c].kind = kind /\ clerk'[c].id = clerk[c].id + 1
      /\ clerk'[c].phase = "loop"
      /\ \A d \in Client : d # c => clerk'[d] = clerk[d]
  BY <1>1, <1>4, <1>5 DEF TypeOK
<1>8. \A s \in Slot[c] : calls[<<c, s>>].stage = "idle"
  BY <1>1, <1>3, NoneOut
<1>9. \A s \in Slot[c] : calls[<<c, s>>].args.id \in Nat /\ calls[<<c, s>>].args.id <= clerk[c].id
  BY <1>1, PartTypes DEF ClerkSafe, RequestInv
<1>10. ClerkSafe(c)'
  <2>1. \A i \in OpId : i > clerk[c].id => effects[c][i] = 0 /\ verdict[c][i] = "None"
    BY <1>1 DEF ClerkSafe, ClerkInv
  <2>2. effects'[c][clerk'[c].id] = 0 /\ verdict'[c][clerk'[c].id] = "None"
    BY <1>2, <1>3, <1>7, <2>1
  <2>3. FirstRequest(c)'
    BY <1>2, <1>3, <1>7, <1>9, <2>2 DEF FirstRequest
  <2>4. \A i \in OpId : i > clerk'[c].id => effects'[c][i] = 0 /\ verdict'[c][i] = "None"
    BY <1>2, <1>3, <1>7, <2>1 DEF OpId
  <2>5. ClerkInv(c)'
    BY <1>3, <1>7, <2>2, <2>3, <2>4 DEF ClerkInv, Overtaken
  <2>6. ASSUME NEW s \in Slot[c] PROVE RequestInv(c, s)'
    BY <1>1, <1>2, <1>3, <1>7, <1>8, <1>9 DEF ClerkSafe, RequestInv, Overtaken
  <2>7. QED
    BY <1>1, <1>2, <2>5, <2>6 DEF ClerkSafe, Final
<1>11. ASSUME NEW d \in Client, d # c PROVE ClerkSafe(d)'
  BY <1>1, <1>2, <1>7, <1>11, OtherClerks, VersionsLemma
<1>12. QED
  BY <1>6, <1>10, <1>11, SafeSplit

\* A request is sent: it is of the operation that runs, as all requests with
\* its id are.
LEMMA SendSafe ==
    ASSUME IndInv, NEW c \in Client, SendRequest(c)
    PROVE  IndInv'
<1>1. TypeOK /\ \A d \in Client : ClerkSafe(d)
  BY SafeSplit
<1>2. PICK s \in Slot[c] :
         /\ Net!Call(<<c, s>>, c, ClerkArgs(c))
         /\ clerk' = [clerk EXCEPT ![c].phase = "waiting", ![c].slot = s]
  BY DEF SendRequest, ClerkArgs
<1>3. PICK stage \in {"sent", "failed"} : Net!SetCall(<<c, s>>, Called(c, ClerkArgs(c), stage))
  BY <1>2 DEF Net!Call, Called
<1>4. UNCHANGED <<store, netConfig, effects, verdict, seen>> /\ clerk[c].phase = "loop"
  BY <1>2 DEF SendRequest, Net!Call, Net!netConfig, netConfig, history
<1>5. /\ clerk[c].kind \in {"get", "put"} /\ clerk[c].id \in OpId
      /\ verdict[c][clerk[c].id] = "None"
  BY <1>1, <1>4, PartTypes DEF ClerkSafe, ClerkInv, ClerkRec
<1>6. ClerkArgs(c) \in Request
  BY <1>1, <1>5, PartTypes DEF ClerkArgs, Request, Version
<1> DEFINE call == Called(c, ClerkArgs(c), stage)
<1>7. /\ call \in Net!CallRec /\ call.stage = stage /\ call.handler = "none"
      /\ call.end = c /\ call.args = ClerkArgs(c)
  BY <1>6, CalledLemma
<1> HIDE DEF call
<1>8. /\ calls'[<<c, s>>] = call
      /\ \A d \in Client : \A t \in Slot[d] :
           d # c \/ t # s => calls'[<<d, t>>] = calls[<<d, t>>]
  BY <1>1, <1>3, <1>7, SetCallLemma DEF call
<1>9. /\ clerk' \in [Client -> ClerkRec]
      /\ clerk'[c].kind = clerk[c].kind /\ clerk'[c].key = clerk[c].key
      /\ clerk'[c].value = clerk[c].value /\ clerk'[c].version = clerk[c].version
      /\ clerk'[c].id = clerk[c].id /\ clerk'[c].requestCount = clerk[c].requestCount
      /\ clerk'[c].phase = "waiting" /\ clerk'[c].slot = s
      /\ \A d \in Client : d # c => clerk'[d] = clerk[d]
  <2>1. s \in AnySlot
    BY DEF AnySlot
  <2> DEFINE new == [clerk[c] EXCEPT !.phase = "waiting", !.slot = s]
  <2>2. clerk \in [Client -> ClerkRec] /\ clerk[c] \in ClerkRec
    BY <1>1 DEF TypeOK
  <2>3. clerk' = [clerk EXCEPT ![c] = new]
    BY <1>2, <2>2 DEF ClerkRec
  <2>4. /\ new \in ClerkRec
        /\ new.kind = clerk[c].kind /\ new.key = clerk[c].key
        /\ new.value = clerk[c].value /\ new.version = clerk[c].version
        /\ new.id = clerk[c].id /\ new.requestCount = clerk[c].requestCount
        /\ new.phase = "waiting" /\ new.slot = s
    BY <2>1, <2>2 DEF ClerkRec
  <2> HIDE DEF new
  <2>5. QED
    BY <2>2, <2>3, <2>4
<1>10. TypeOK'
  <2>1. Net!NetTypeOK'
    BY <1>1, <1>3, <1>4, <1>7, NetType DEF call
  <2>2. QED
    BY <1>1, <1>4, <1>9, <2>1 DEF TypeOK
<1>11. \A t \in Slot[c] : calls[<<c, t>>].stage = "idle"
  BY <1>1, <1>4, NoneOut
<1>12. /\ ClerkArgs(c).id = clerk[c].id /\ ClerkArgs(c).kind = clerk[c].kind
       /\ ClerkArgs(c).key = clerk[c].key /\ ClerkArgs(c).value = clerk[c].value
       /\ ClerkArgs(c).version = clerk[c].version
  BY DEF ClerkArgs
<1>13. \A i : CurrentVersion(store, i)' = CurrentVersion(store, i)
  BY <1>4 DEF CurrentVersion
<1>14. ClerkInv(c)'
  <2>1. \A t \in Slot[c] : t # s /\ clerk[c].requestCount = 0 => calls[<<c, t>>].args.id # clerk[c].id
    BY <1>1, <1>4 DEF ClerkSafe, ClerkInv, FirstRequest
  <2>2. clerk[c].requestCount = 0 => ~(effects[c][clerk[c].id] >= 1)
    BY <1>1, <1>4 DEF ClerkSafe, ClerkInv, FirstRequest
  <2>3. FirstRequest(c)'
    BY <1>4, <1>8, <1>9, <2>1, <2>2 DEF FirstRequest
  <2>4. Overtaken(c, clerk[c])'
    BY <1>1, <1>4, <1>5, <1>9, <1>13 DEF ClerkSafe, ClerkInv, Overtaken
  <2>5. QED
    BY <1>1, <1>4, <1>5, <1>7, <1>8, <1>9, <2>3, <2>4 DEF ClerkSafe, ClerkInv
<1>15. RequestInv(c, s)'
  <2>1. Overtaken(c, calls[<<c, s>>].args)'
    <3>1. Overtaken(c, clerk[c])
      BY <1>1, <1>5 DEF ClerkSafe, ClerkInv
    <3>2. Overtaken(c, call.args)
      BY <1>7, <1>12, <3>1 DEF Overtaken
    <3>3. QED
      BY <1>4, <1>8, <1>13, <3>2 DEF Overtaken
  <2>2. OfClerk(c, calls[<<c, s>>].args)'
    BY <1>7, <1>8, <1>9, <1>12 DEF OfClerk
  <2>3. clerk[c].id \in Nat
    BY <1>1, PartTypes
  <2>4. QED
    BY <1>6, <1>7, <1>8, <1>9, <1>12, <2>1, <2>2, <2>3 DEF RequestInv
<1>16. ASSUME NEW t \in Slot[c], t # s PROVE RequestInv(c, t)'
  <2>1. calls'[<<c, t>>] = calls[<<c, t>>] /\ RequestInv(c, t)
    BY <1>1, <1>8, <1>16 DEF ClerkSafe
  <2>2. QED
    BY <1>4, <1>9, <1>11, <1>13, <2>1 DEF RequestInv, OfClerk, Overtaken
<1>17. ASSUME NEW t \in Slot[c], calls[<<c, t>>].args.id = clerk[c].id
       PROVE  calls[<<c, t>>].args = ClerkArgs(c)
  <2>1. calls[<<c, t>>].args \in Request /\ OfClerk(c, calls[<<c, t>>].args)
    BY <1>1, <1>5, <1>17, PartTypes DEF ClerkSafe, RequestInv
  <2>2. QED
    BY <1>6, <1>12, <1>17, <2>1 DEF Request, OfClerk
<1>18. ASSUME NEW t \in Slot[c], NEW u \in Slot[c],
              calls'[<<c, t>>].args.id = calls'[<<c, u>>].args.id
       PROVE  calls'[<<c, t>>].args = calls'[<<c, u>>].args
  BY <1>1, <1>7, <1>8, <1>12, <1>17, <1>18 DEF ClerkSafe
<1>19. ASSUME NEW i \in OpId PROVE Final(c, i)'
  BY <1>1, <1>4, <1>5, <1>7, <1>8, <1>12 DEF ClerkSafe, Final
<1>20. ClerkSafe(c)'
  BY <1>1, <1>4, <1>14, <1>15, <1>16, <1>18, <1>19 DEF ClerkSafe
<1>21. ASSUME NEW d \in Client, d # c PROVE ClerkSafe(d)'
  BY <1>1, <1>4, <1>8, <1>9, <1>21, OtherClerks, VersionsLemma
<1>22. QED
  BY <1>10, <1>20, <1>21, SafeSplit

\* The slot of a request that has returned is free, or left to a handler that
\* still runs.
LEMMA ReturnedSlot ==
    ASSUME TypeOK, NEW c \in Client, NEW s \in Slot[c], Net!Return(<<c, s>>)
    PROVE  /\ Net!NetTypeOK' /\ UNCHANGED netConfig
           /\ calls'[<<c, s>>].stage = "idle"
           /\ calls[<<c, s>>].stage \in {"answered", "failed"}
           /\ IF calls[<<c, s>>].handler = "running"
              THEN /\ calls'[<<c, s>>].handler = "running"
                   /\ calls'[<<c, s>>].args = calls[<<c, s>>].args
              ELSE calls'[<<c, s>>] = Net!FreeCall
           /\ \A d \in Client : \A t \in Slot[d] :
                 d # c \/ t # s => calls'[<<d, t>>] = calls[<<d, t>>]
<1>1. /\ Net!SetCall(<<c, s>>, Restaged(<<c, s>>, "idle"))
      /\ calls[<<c, s>>].stage \in {"answered", "failed"}
      /\ UNCHANGED netConfig
  BY DEF Net!Return, Net!SetStage, Restaged, Net!netConfig, netConfig
<1>2. /\ Restaged(<<c, s>>, "idle") \in Net!CallRec
      /\ Restaged(<<c, s>>, "idle").stage = "idle"
      /\ Restaged(<<c, s>>, "idle").handler = calls[<<c, s>>].handler
      /\ Restaged(<<c, s>>, "idle").args = calls[<<c, s>>].args
  BY RestagedLemma
<1>3. Net!NetTypeOK'
  BY <1>1, <1>2, NetType
<1>4. /\ calls'[<<c, s>>] = IF calls[<<c, s>>].handler # "running"
                            THEN Net!FreeCall ELSE Restaged(<<c, s>>, "idle")
      /\ \A d \in Client : \A t \in Slot[d] :
           d # c \/ t # s => calls'[<<d, t>>] = calls[<<d, t>>]
  BY <1>1, <1>2, SetCallLemma
<1>5. Net!FreeCall.stage = "idle"
  BY DEF Net!FreeCall
<1>6. QED
  BY <1>1, <1>2, <1>3, <1>4, <1>5

\* What Call's return does to the clerk.
LEMMA ClerkReturns ==
    ASSUME IndInv, NEW c \in Client, CallReturned(c)
    PROVE  LET s == clerk[c].slot
               err == ClerkErr(c, calls[<<c, s>>].reply)
           IN  /\ s \in Slot[c] /\ clerk[c].phase = "waiting" /\ Net!Return(<<c, s>>)
               /\ UNCHANGED <<store, effects, seen>>
               /\ clerk' \in [Client -> ClerkRec]
               /\ \A d \in Client : d # c => clerk'[d] = clerk[d]
               /\ clerk'[c].kind = clerk[c].kind /\ clerk'[c].key = clerk[c].key
               /\ clerk'[c].value = clerk[c].value /\ clerk'[c].version = clerk[c].version
               /\ clerk'[c].id = clerk[c].id /\ clerk'[c].requestCount \in 1..2
               /\ \/ /\ Net!Ok(<<c, s>>) /\ clerk'[c].phase = "returned"
                     /\ clerk'[c].res = [calls[<<c, s>>].reply EXCEPT !.err = err]
                     /\ err \in Err /\ calls[<<c, s>>].reply \in Reply
                     /\ verdict' = IF clerk[c].kind = "put"
                                   THEN [verdict EXCEPT ![c][clerk[c].id] = err] ELSE verdict
                  \/ /\ ~Net!Ok(<<c, s>>) /\ clerk'[c].phase = "loop"
                     /\ UNCHANGED verdict
<1> DEFINE s == clerk[c].slot
           err == ClerkErr(c, calls[<<c, s>>].reply)
           count == IF clerk[c].requestCount < 2 THEN clerk[c].requestCount + 1 ELSE 2
<1>1. TypeOK /\ ClerkSafe(c)
  BY SafeSplit
<1>2. /\ clerk[c].phase = "waiting" /\ Net!Return(<<c, s>>)
      /\ UNCHANGED <<store, effects, seen>>
  BY DEF CallReturned
<1>3. s \in Slot[c] /\ count \in 1..2 /\ count \in 0..2
  BY <1>1, <1>2, PartTypes DEF ClerkSafe, ClerkInv
<1>4. \/ /\ Net!Ok(<<c, s>>)
         /\ clerk' = [clerk EXCEPT ![c].phase = "returned", ![c].slot = NoSlot,
                                   ![c].requestCount = count,
                                   ![c].res = [calls[<<c, s>>].reply EXCEPT !.err = err]]
         /\ verdict' = IF clerk[c].kind = "put"
                       THEN [verdict EXCEPT ![c][clerk[c].id] = err] ELSE verdict
      \/ /\ ~Net!Ok(<<c, s>>)
         /\ clerk' = [clerk EXCEPT ![c].phase = "loop", ![c].slot = NoSlot,
                                   ![c].requestCount = count]
         /\ UNCHANGED verdict
  BY DEF CallReturned
<1>5. clerk \in [Client -> ClerkRec] /\ clerk[c] \in ClerkRec
  BY <1>1 DEF TypeOK
<1> HIDE DEF count
<1>6. CASE Net!Ok(<<c, s>>)
  <2>1. /\ calls[<<c, s>>].reply \in Reply \cup {NoReply}
        /\ calls[<<c, s>>].reply.err \in Err
    BY <1>1, <1>3, <1>6, CallType DEF ClerkSafe, RequestInv, Net!Ok, Net!CallRec
  <2>2. calls[<<c, s>>].reply \in Reply /\ err \in Err
    BY <2>1 DEF NoReply, Err, ClerkErr
  <2> DEFINE res == [calls[<<c, s>>].reply EXCEPT !.err = err]
             new == [clerk[c] EXCEPT !.phase = "returned", !.slot = NoSlot,
                                     !.requestCount = count, !.res = res]
  <2> HIDE DEF err
  <2>3. res \in Reply
    BY <2>2 DEF Reply
  <2> HIDE DEF res
  <2>4. clerk' = [clerk EXCEPT ![c] = new]
    BY <1>4, <1>5, <1>6 DEF ClerkRec, res
  <2>5. /\ new \in ClerkRec
        /\ new.kind = clerk[c].kind /\ new.key = clerk[c].key
        /\ new.value = clerk[c].value /\ new.version = clerk[c].version
        /\ new.id = clerk[c].id /\ new.requestCount = count
        /\ new.phase = "returned" /\ new.res = res
    BY <1>3, <1>5, <2>3 DEF ClerkRec
  <2> HIDE DEF new
  <2>6. QED
    BY <1>2, <1>3, <1>4, <1>5, <1>6, <2>2, <2>4, <2>5 DEF res, err
<1>7. CASE ~Net!Ok(<<c, s>>)
  <2> DEFINE new == [clerk[c] EXCEPT !.phase = "loop", !.slot = NoSlot, !.requestCount = count]
  <2>1. clerk' = [clerk EXCEPT ![c] = new]
    BY <1>4, <1>5, <1>7 DEF ClerkRec
  <2>2. /\ new \in ClerkRec
        /\ new.kind = clerk[c].kind /\ new.key = clerk[c].key
        /\ new.value = clerk[c].value /\ new.version = clerk[c].version
        /\ new.id = clerk[c].id /\ new.requestCount = count
        /\ new.phase = "loop"
    BY <1>3, <1>5 DEF ClerkRec
  <2> HIDE DEF new
  <2>3. QED
    BY <1>2, <1>3, <1>4, <1>5, <1>7, <2>1, <2>2
<1>8. QED
  BY <1>6, <1>7

\* Call returns.  ErrVersion on the first request is final: no other request
\* was sent, and this one was not performed.
LEMMA ReturnSafe ==
    ASSUME IndInv, NEW c \in Client, CallReturned(c)
    PROVE  IndInv'
<1> DEFINE s == clerk[c].slot
           err == ClerkErr(c, calls[<<c, s>>].reply)
<1>1. TypeOK /\ \A d \in Client : ClerkSafe(d)
  BY SafeSplit
<1>2. /\ s \in Slot[c] /\ clerk[c].phase = "waiting" /\ Net!Return(<<c, s>>)
      /\ UNCHANGED <<store, effects, seen>>
      /\ clerk' \in [Client -> ClerkRec]
      /\ \A d \in Client : d # c => clerk'[d] = clerk[d]
      /\ clerk'[c].kind = clerk[c].kind /\ clerk'[c].key = clerk[c].key
      /\ clerk'[c].value = clerk[c].value /\ clerk'[c].version = clerk[c].version
      /\ clerk'[c].id = clerk[c].id /\ clerk'[c].requestCount \in 1..2
  BY ClerkReturns
<1>3. \/ /\ Net!Ok(<<c, s>>) /\ clerk'[c].phase = "returned" /\ err \in Err
         /\ verdict' = IF clerk[c].kind = "put"
                       THEN [verdict EXCEPT ![c][clerk[c].id] = err] ELSE verdict
      \/ ~Net!Ok(<<c, s>>) /\ clerk'[c].phase = "loop" /\ UNCHANGED verdict
  BY ClerkReturns
<1> HIDE DEF s, err
<1>4. /\ Net!NetTypeOK' /\ UNCHANGED netConfig
      /\ calls'[<<c, s>>].stage = "idle"
      /\ calls[<<c, s>>].stage \in {"answered", "failed"}
      /\ IF calls[<<c, s>>].handler = "running"
         THEN /\ calls'[<<c, s>>].handler = "running"
              /\ calls'[<<c, s>>].args = calls[<<c, s>>].args
         ELSE calls'[<<c, s>>] = Net!FreeCall
      /\ \A d \in Client : \A t \in Slot[d] :
           d # c \/ t # s => calls'[<<d, t>>] = calls[<<d, t>>]
  BY <1>1, <1>2, ReturnedSlot
<1>5. /\ clerk[c].id \in OpId /\ clerk[c].id \in Nat
      /\ calls[<<c, s>>].args.id = clerk[c].id /\ calls[<<c, s>>].args \in Request
      /\ OfClerk(c, calls[<<c, s>>].args)
      /\ Net!Ok(<<c, s>>) => calls[<<c, s>>].handler = "returned"
  BY <1>1, <1>2, <1>4, PartTypes DEF ClerkSafe, ClerkInv, RequestInv, Net!Ok
<1>6. \A d \in Client : d # c => verdict'[d] = verdict[d]
  BY <1>1, <1>3 DEF TypeOK
<1>7. \A i \in OpId : i # clerk[c].id => verdict'[c][i] = verdict[c][i]
  BY <1>1, <1>3 DEF TypeOK
<1>8. /\ verdict' \in [Client -> [OpId -> Err \cup {"None"}]]
      /\ Net!Ok(<<c, s>>) /\ clerk[c].kind = "put" => verdict'[c][clerk[c].id] = err
      /\ ~(Net!Ok(<<c, s>>) /\ clerk[c].kind = "put")
           => verdict'[c][clerk[c].id] = verdict[c][clerk[c].id]
  <2>1. verdict \in [Client -> [OpId -> Err \cup {"None"}]]
    BY <1>1 DEF TypeOK
  <2>2. CASE Net!Ok(<<c, s>>) /\ clerk[c].kind = "put"
    <3>1. err \in Err /\ verdict' = [verdict EXCEPT ![c][clerk[c].id] = err]
      BY <1>3, <2>2
    <3>2. QED
      BY <1>5, <2>1, <2>2, <3>1
  <2>3. CASE ~(Net!Ok(<<c, s>>) /\ clerk[c].kind = "put")
    BY <1>3, <2>1, <2>3
  <2>4. QED
    BY <2>2, <2>3
<1>9. TypeOK'
  BY <1>1, <1>2, <1>4, <1>8 DEF TypeOK
<1>10. \A k : CurrentVersion(store, k)' = CurrentVersion(store, k)
  BY <1>2 DEF CurrentVersion
<1>11. /\ NoRequest.id = 0 /\ Net!FreeCall.args = NoRequest /\ 0 \notin OpId
       /\ Net!FreeCall.stage = "idle" /\ Net!FreeCall.handler = "none"
  BY DEF NoRequest, Net!FreeCall, OpId
<1>12. \A t \in Slot[c] : t # s => calls[<<c, t>>].stage = "idle"
  BY <1>1, NoneOut DEF s
<1>13. ASSUME NEW t \in Slot[c]
       PROVE  \/ calls'[<<c, t>>].args = calls[<<c, t>>].args
              \/ calls'[<<c, t>>].args.id = 0 /\ calls'[<<c, t>>].args = NoRequest
  BY <1>4, <1>11
<1>14. ClerkInv(c)'
  <2>1. FirstRequest(c)'
    BY <1>2, <1>3 DEF FirstRequest
  <2>2. Overtaken(c, clerk[c])'
    <3>1. Overtaken(c, clerk[c])
      BY <1>1, <1>5 DEF ClerkSafe, ClerkInv
    <3>2. QED
      BY <1>2, <1>10, <3>1 DEF Overtaken
  <2>3. \A i \in OpId : i > clerk'[c].id => effects'[c][i] = 0 /\ verdict'[c][i] = "None"
    <3>1. \A i \in OpId : i > clerk[c].id => effects[c][i] = 0 /\ verdict[c][i] = "None"
      BY <1>1 DEF ClerkSafe, ClerkInv
    <3>2. \A i \in OpId : i > clerk[c].id => i # clerk[c].id
      BY <1>5 DEF OpId
    <3>3. QED
      BY <1>2, <1>7, <3>1, <3>2
  <2>4. clerk'[c].phase # "returned" =>
          clerk'[c].kind # "none" /\ clerk'[c].id \in OpId /\ verdict'[c][clerk'[c].id] = "None"
    BY <1>1, <1>2, <1>3, <1>5, <1>8 DEF ClerkSafe, ClerkInv
  <2>5. clerk'[c].phase # "waiting"
    BY <1>3
  <2>6. QED
    BY <2>1, <2>2, <2>3, <2>4, <2>5 DEF ClerkInv
<1>15. ASSUME NEW t \in Slot[c] PROVE RequestInv(c, t)'
  <2>1. RequestInv(c, t)
    BY <1>1 DEF ClerkSafe
  <2>2. CASE calls'[<<c, t>>] = Net!FreeCall
    BY <1>2, <1>5, <1>11, <2>2 DEF RequestInv
  <2>3. CASE t = s /\ calls[<<c, s>>].handler = "running"
    <3>1. calls'[<<c, t>>].args = calls[<<c, t>>].args
      BY <1>4, <2>3
    <3>2. Overtaken(c, calls[<<c, t>>].args)
      BY <1>5, <2>1, <2>3 DEF RequestInv
    <3>3. Overtaken(c, calls[<<c, t>>].args)'
      BY <1>2, <1>10, <3>1, <3>2 DEF Overtaken
    <3>4. OfClerk(c, calls[<<c, t>>].args)'
      BY <1>2, <1>5, <2>3, <3>1 DEF OfClerk
    <3>5. QED
      BY <1>2, <1>4, <1>5, <2>3, <3>1, <3>3, <3>4 DEF RequestInv
  <2>4. CASE t # s
    <3>1. calls'[<<c, t>>] = calls[<<c, t>>] /\ calls[<<c, t>>].stage = "idle"
      BY <1>4, <1>12, <2>4
    <3>2. QED
      BY <1>2, <1>10, <2>1, <3>1 DEF RequestInv, OfClerk, Overtaken
  <2>5. QED
    BY <1>4, <2>2, <2>3, <2>4
<1>16. ASSUME NEW t \in Slot[c], NEW u \in Slot[c],
              calls'[<<c, t>>].args.id = calls'[<<c, u>>].args.id
       PROVE  calls'[<<c, t>>].args = calls'[<<c, u>>].args
  <2>1. ASSUME NEW w \in Slot[c], calls[<<c, w>>].args.id = 0
        PROVE  calls[<<c, w>>].args = NoRequest
    BY <1>1, <1>11, <2>1, PartTypes DEF Request
  <2>2. QED
    BY <1>1, <1>11, <1>13, <1>16, <2>1 DEF ClerkSafe
<1>17. ASSUME Net!Ok(<<c, s>>), clerk[c].kind = "put", err = "ErrVersion"
       PROVE  /\ effects[c][clerk[c].id] = 0
              /\ \A t \in Slot[c] : calls'[<<c, t>>].args.id # clerk[c].id
  <2>1. /\ clerk[c].requestCount = 0 /\ calls[<<c, s>>].reply.err = "ErrVersion"
    BY <1>1, <1>17, PartTypes DEF err, ClerkErr
  <2>2. FirstRequest(c) /\ effects[c][clerk[c].id] \in Nat
    BY <1>1, <1>5, PartTypes DEF ClerkSafe, ClerkInv
  <2>3. /\ effects[c][clerk[c].id] = 0
        /\ \A t \in Slot[c] : calls[<<c, t>>].args.id = clerk[c].id => t = s
    BY <1>2, <2>1, <2>2 DEF FirstRequest, s
  <2>4. QED
    BY <1>4, <1>5, <1>11, <1>17, <2>3
<1>18. ASSUME Net!Ok(<<c, s>>), clerk[c].kind = "put", err = "OK"
       PROVE  effects[c][clerk[c].id] = 1
  <2>1. calls[<<c, s>>].reply.err = "OK"
    BY <1>18 DEF err, ClerkErr
  <2>2. RequestInv(c, s) /\ effects[c][clerk[c].id] \in Nat /\ effects[c][clerk[c].id] <= 1
    BY <1>1, <1>2, <1>5, PartTypes DEF ClerkSafe
  <2>3. QED
    BY <1>5, <1>18, <2>1, <2>2 DEF RequestInv, OfClerk
<1>19. ASSUME NEW i \in OpId
       PROVE  /\ effects'[c][i] <= 1
              /\ verdict'[c][i] = "ErrVersion" => effects'[c][i] = 0
              /\ verdict'[c][i] = "OK" => effects'[c][i] = 1
              /\ Final(c, i)'
  <2>1. /\ effects[c][i] <= 1 /\ Final(c, i)
        /\ verdict[c][i] = "ErrVersion" => effects[c][i] = 0
        /\ verdict[c][i] = "OK" => effects[c][i] = 1
    BY <1>1 DEF ClerkSafe
  <2>2. verdict[c][clerk[c].id] = "None"
    BY <1>1, <1>2 DEF ClerkSafe, ClerkInv
  <2>3. CASE i = clerk[c].id
    BY <1>2, <1>8, <1>17, <1>18, <2>1, <2>2, <2>3 DEF Final
  <2>4. CASE i # clerk[c].id
    BY <1>2, <1>7, <1>11, <1>13, <2>1, <2>4 DEF Final
  <2>5. QED
    BY <2>3, <2>4
<1>20. ClerkSafe(c)'
  BY <1>14, <1>15, <1>16, <1>19 DEF ClerkSafe
<1>21. ASSUME NEW d \in Client, d # c PROVE ClerkSafe(d)'
  BY <1>1, <1>2, <1>4, <1>6, <1>21, OtherClerks, VersionsLemma
<1>22. QED
  BY <1>9, <1>20, <1>21, SafeSplit

\* A step of one request, the clerks standing still, keeps the invariant if
\* that request, and the counts of effects, come out right.
LEMMA SlotSafe ==
    ASSUME IndInv, TypeOK', NEW c \in Client, NEW s \in Slot[c],
           UNCHANGED <<clerk, verdict>>, VersionsGrow,
           \A d \in Client : \A t \in Slot[d] :
               d # c \/ t # s => calls'[<<d, t>>] = calls[<<d, t>>],
           calls'[<<c, s>>].args \in {calls[<<c, s>>].args, NoRequest},
           calls'[<<c, s>>].stage = "idle" => calls[<<c, s>>].stage = "idle",
           \A d \in Client : d # c => effects'[d] = effects[d],
           \A i \in OpId :
               /\ effects[c][i] <= effects'[c][i] /\ effects'[c][i] <= 1
               /\ effects'[c][i] # effects[c][i] =>
                    /\ verdict[c][i] \notin {"OK", "ErrVersion"}
                    /\ i <= clerk[c].id,
           clerk[c].id \in OpId => Overtaken(c, clerk[c])',
           \A t \in Slot[c] : t # s /\ calls[<<c, t>>].args.id \in OpId
                                => Overtaken(c, calls[<<c, t>>].args)',
           RequestInv(c, s)', FirstRequest(c)'
    PROVE  IndInv'
<1>1. TypeOK /\ \A d \in Client : ClerkSafe(d)
  BY SafeSplit
<1>2. /\ ClerkInv(c) /\ clerk[c].id \in Nat
      /\ \A i \in OpId : effects[c][i] \in Nat /\ effects'[c][i] \in Nat
  BY <1>1, PartTypes DEF ClerkSafe, TypeOK
<1>3. ClerkInv(c)'
  <2>1. clerk[c].phase = "waiting" => calls'[<<c, clerk[c].slot>>].stage # "idle"
    BY <1>2 DEF ClerkInv
  <2>2. \A i \in OpId : i > clerk[c].id => effects'[c][i] = 0 /\ verdict'[c][i] = "None"
    BY <1>2 DEF ClerkInv, OpId
  <2>3. QED
    BY <1>2, <2>1, <2>2 DEF ClerkInv
<1>4. ASSUME NEW t \in Slot[c], t # s PROVE RequestInv(c, t)'
  <2>1. RequestInv(c, t) /\ calls'[<<c, t>>] = calls[<<c, t>>]
    BY <1>1, <1>4 DEF ClerkSafe
  <2>2. ASSUME calls[<<c, t>>].handler = "returned", calls[<<c, t>>].args.kind = "put",
               calls[<<c, t>>].reply.err = "OK"
        PROVE  effects'[c][calls[<<c, t>>].args.id] >= 1
    <3>1. /\ effects[c][calls[<<c, t>>].args.id] >= 1
          /\ calls[<<c, t>>].args \in Request
      BY <2>1, <2>2 DEF RequestInv
    <3>2. calls[<<c, t>>].args.id \in OpId
      BY <3>1 DEF Request
    <3>3. \A i \in OpId : effects[c][i] >= 1 => effects'[c][i] >= 1
      BY <1>2
    <3>4. QED
      BY <3>1, <3>2, <3>3
  <2>3. calls[<<c, t>>].args.id \in OpId => Overtaken(c, calls[<<c, t>>].args)'
    BY <1>4
  <2>4. QED
    BY <2>1, <2>2, <2>3 DEF RequestInv, OfClerk
<1>5. ASSUME NEW t \in Slot[c], NEW u \in Slot[c],
             calls'[<<c, t>>].args.id = calls'[<<c, u>>].args.id
      PROVE  calls'[<<c, t>>].args = calls'[<<c, u>>].args
  <2>1. NoRequest.id = 0
    BY DEF NoRequest
  <2>2. ASSUME NEW w \in Slot[c], calls[<<c, w>>].args.id = 0
        PROVE  calls[<<c, w>>].args = NoRequest
    BY <1>1, <2>2, PartTypes DEF Request, OpId
  <2>3. \A w \in Slot[c] : calls'[<<c, w>>].args \in {calls[<<c, w>>].args, NoRequest}
    OBVIOUS
  <2>4. QED
    BY <1>1, <1>5, <2>1, <2>2, <2>3 DEF ClerkSafe
<1>6. ASSUME NEW i \in OpId
      PROVE  /\ effects'[c][i] <= 1
             /\ verdict'[c][i] = "ErrVersion" => effects'[c][i] = 0
             /\ verdict'[c][i] = "OK" => effects'[c][i] = 1
             /\ Final(c, i)'
  <2>1. /\ verdict[c][i] = "ErrVersion" => effects[c][i] = 0
        /\ verdict[c][i] = "OK" => effects[c][i] = 1
        /\ Final(c, i)
    BY <1>1 DEF ClerkSafe
  <2>2. NoRequest.id # i
    BY DEF NoRequest, OpId
  <2>3. Final(c, i)'
    BY <2>1, <2>2 DEF Final
  <2>4. QED
    BY <2>1, <2>3
<1>7. ClerkSafe(c)'
  BY <1>3, <1>4, <1>5, <1>6 DEF ClerkSafe
<1>8. ASSUME NEW d \in Client, d # c PROVE ClerkSafe(d)'
  BY <1>1, <1>8, OtherClerks
<1>9. QED
  BY <1>7, <1>8, SafeSplit

\* The same for a step that leaves the store alone.
LEMMA QuietSlotSafe ==
    ASSUME IndInv, TypeOK', NEW c \in Client, NEW s \in Slot[c],
           UNCHANGED <<clerk, verdict, store, effects>>,
           \A d \in Client : \A t \in Slot[d] :
               d # c \/ t # s => calls'[<<d, t>>] = calls[<<d, t>>],
           calls'[<<c, s>>].args \in {calls[<<c, s>>].args, NoRequest},
           calls'[<<c, s>>].stage = "idle" => calls[<<c, s>>].stage = "idle",
           RequestInv(c, s)', FirstRequest(c)'
    PROVE  IndInv'
<1>1. TypeOK /\ ClerkSafe(c)
  BY SafeSplit
<1>2. VersionsGrow
  BY <1>1, VersionsLemma
<1>3. \A k : CurrentVersion(store, k)' = CurrentVersion(store, k)
  BY DEF CurrentVersion
<1>4. \A i \in OpId : effects[c][i] \in Nat /\ effects[c][i] <= 1
  BY <1>1, PartTypes DEF ClerkSafe
<1>5. clerk[c].id \in OpId => Overtaken(c, clerk[c])'
  BY <1>1, <1>3 DEF ClerkSafe, ClerkInv, Overtaken
<1>6. ASSUME NEW t \in Slot[c], t # s, calls[<<c, t>>].args.id \in OpId
      PROVE  Overtaken(c, calls[<<c, t>>].args)'
  <2>1. Overtaken(c, calls[<<c, t>>].args) /\ calls'[<<c, t>>] = calls[<<c, t>>]
    BY <1>1, <1>6 DEF ClerkSafe, RequestInv
  <2>2. QED
    BY <1>3, <2>1 DEF Overtaken
<1>7. QED
  BY <1>2, <1>4, <1>5, <1>6, SlotSafe

\* The handler returns: its reply goes to the caller, or nowhere if the caller
\* has given up.
LEMMA HandledSlot ==
    ASSUME TypeOK, NEW c \in Client, NEW s \in Slot[c], NEW reply \in Reply,
           Net!Dispatch(<<c, s>>, reply)
    PROVE  /\ Net!NetTypeOK' /\ UNCHANGED netConfig
           /\ calls[<<c, s>>].handler = "running"
           /\ IF calls[<<c, s>>].stage = "idle" THEN calls'[<<c, s>>] = Net!FreeCall
              ELSE /\ calls'[<<c, s>>].stage = calls[<<c, s>>].stage
                   /\ calls'[<<c, s>>].args = calls[<<c, s>>].args
                   /\ calls'[<<c, s>>].handler = "returned" /\ calls'[<<c, s>>].reply = reply
                   /\ calls'[<<c, s>>].srv = calls[<<c, s>>].srv
                   /\ calls'[<<c, s>>].inst = calls[<<c, s>>].inst
                   /\ calls'[<<c, s>>].reliable = calls[<<c, s>>].reliable
           /\ \A d \in Client : \A t \in Slot[d] :
                 d # c \/ t # s => calls'[<<d, t>>] = calls[<<d, t>>]
<1> DEFINE call == Handled(<<c, s>>, reply)
<1>1. /\ Net!SetCall(<<c, s>>, call) /\ calls[<<c, s>>].handler = "running"
      /\ UNCHANGED netConfig
  BY DEF Net!Dispatch, Handled, Net!netConfig, netConfig
<1>2. /\ call \in Net!CallRec
      /\ call.stage = calls[<<c, s>>].stage /\ call.handler = "returned"
      /\ call.end = calls[<<c, s>>].end /\ call.args = calls[<<c, s>>].args
      /\ call.reply = reply /\ call.srv = calls[<<c, s>>].srv
      /\ call.inst = calls[<<c, s>>].inst /\ call.reliable = calls[<<c, s>>].reliable
  BY HandledLemma
<1> HIDE DEF call
<1>3. calls[<<c, s>>].stage # "idle" => calls[<<c, s>>].end \in Client
  BY ReqLemma DEF TypeOK, Net!NetTypeOK
<1>4. Net!NetTypeOK'
  BY <1>1, <1>2, <1>3, NetType
<1>5. /\ calls'[<<c, s>>] = IF calls[<<c, s>>].stage = "idle" THEN Net!FreeCall ELSE call
      /\ \A d \in Client : \A t \in Slot[d] :
           d # c \/ t # s => calls'[<<d, t>>] = calls[<<d, t>>]
  BY <1>1, <1>2, SetCallLemma
<1>6. QED
  BY <1>1, <1>2, <1>4, <1>5

\* What a free slot holds.
LEMMA FreeCallFields ==
    /\ Net!FreeCall.stage = "idle" /\ Net!FreeCall.handler = "none"
    /\ Net!FreeCall.args = NoRequest /\ NoRequest.id = 0 /\ 0 \notin OpId
BY DEF Net!FreeCall, NoRequest, OpId

\* A slot that was freed is as the invariant wants it.
LEMMA FreeSlotSafe ==
    ASSUME TypeOK, NEW c \in Client, NEW s \in Slot[c], calls'[<<c, s>>] = Net!FreeCall,
           UNCHANGED clerk
    PROVE  RequestInv(c, s)'
<1>1. clerk[c].id \in Nat
  BY PartTypes
<1>2. QED
  BY <1>1, FreeCallFields DEF RequestInv

\* A Get changes nothing.
LEMMA GetSafe ==
    ASSUME IndInv, NEW r \in Req, HandleGet(r)
    PROVE  IndInv'
<1>1. PICK c \in Client : \E s \in Slot[c] : r = <<c, s>>
  BY ReqLemma
<1>2. PICK s \in Slot[c] : r = <<c, s>>
  BY <1>1
<1>3. TypeOK /\ ClerkSafe(c) /\ RequestInv(c, s)
  BY SafeSplit DEF ClerkSafe
<1> DEFINE o == calls[<<c, s>>].args
           reply == Get(store, o.key)
<1>4. /\ calls[<<c, s>>].handler = "running" /\ o.kind = "get"
      /\ Net!Dispatch(<<c, s>>, reply)
      /\ seen' = [seen EXCEPT ![c] = SeenAfter(c, o, reply)]
      /\ UNCHANGED <<store, clerk, effects, verdict>>
  BY <1>2 DEF HandleGet
<1>5. o \in Request
  BY <1>3, <1>4 DEF RequestInv
<1>6. reply \in Reply
  BY <1>3, <1>5, GetLemma DEF TypeOK, Request
<1> HIDE DEF o, reply
<1>7. /\ Net!NetTypeOK'
      /\ IF calls[<<c, s>>].stage = "idle" THEN calls'[<<c, s>>] = Net!FreeCall
         ELSE /\ calls'[<<c, s>>].stage = calls[<<c, s>>].stage
              /\ calls'[<<c, s>>].args = calls[<<c, s>>].args
              /\ calls'[<<c, s>>].handler = "returned" /\ calls'[<<c, s>>].reply = reply
      /\ \A d \in Client : \A t \in Slot[d] :
           d # c \/ t # s => calls'[<<d, t>>] = calls[<<d, t>>]
  BY <1>3, <1>4, <1>6, HandledSlot
<1>8. TypeOK'
  <2>1. SeenAfter(c, o, reply) \in Reply \cup {NoReply}
    BY <1>3, <1>6, PartTypes DEF SeenAfter
  <2>2. QED
    BY <1>3, <1>4, <1>7, <2>1 DEF TypeOK
<1>9. reply.err \in Err
  BY <1>6 DEF Reply
<1>10. RequestInv(c, s)'
  <2>1. CASE calls[<<c, s>>].stage = "idle"
    BY <1>3, <1>4, <1>7, <2>1, FreeSlotSafe
  <2>2. CASE calls[<<c, s>>].stage # "idle"
    <3>1. calls'[<<c, s>>].args.kind = "get"
      BY <1>4, <1>7, <2>2 DEF o
    <3>2. QED
      BY <1>3, <1>4, <1>7, <1>9, <2>2, <3>1 DEF RequestInv, OfClerk, Overtaken
  <2>3. QED
    BY <2>1, <2>2
<1>11. FirstRequest(c)'
  <2>1. FirstRequest(c)
    BY <1>3 DEF ClerkSafe, ClerkInv
  <2>2. \A t \in Slot[c] : calls'[<<c, t>>].args.id \in OpId
                             => calls'[<<c, t>>].args = calls[<<c, t>>].args
    BY <1>7, FreeCallFields
  <2>3. clerk[c].phase # "returned" => clerk[c].id \in OpId
    BY <1>3 DEF ClerkSafe, ClerkInv
  <2>4. \A t \in Slot[c] : calls[<<c, t>>].handler = "returned"
                             => calls'[<<c, t>>] = calls[<<c, t>>]
    BY <1>4, <1>7
  <2>5. clerk[c].phase = "waiting" => clerk[c].slot \in Slot[c]
    BY <1>3 DEF ClerkSafe, ClerkInv
  <2>6. QED
    BY <1>4, <2>1, <2>2, <2>3, <2>4, <2>5 DEF FirstRequest
<1>12. /\ calls'[<<c, s>>].args \in {calls[<<c, s>>].args, NoRequest}
       /\ calls'[<<c, s>>].stage = "idle" => calls[<<c, s>>].stage = "idle"
  BY <1>7, FreeCallFields
<1>13. QED
  BY <1>4, <1>7, <1>8, <1>10, <1>11, <1>12, QuietSlotSafe

\* A Put is performed only at the version it asks for, which no performed
\* request of the same operation has left behind.
LEMMA PutSafe ==
    ASSUME IndInv, NEW r \in Req, HandlePut(r)
    PROVE  IndInv'
<1>1. PICK c \in Client : \E s \in Slot[c] : r = <<c, s>>
  BY ReqLemma
<1>2. PICK s \in Slot[c] : r = <<c, s>>
  BY <1>1
<1>3. TypeOK /\ ClerkSafe(c) /\ RequestInv(c, s)
  BY SafeSplit DEF ClerkSafe
<1> DEFINE o == calls[<<c, s>>].args
           err == PutErr(store, o.key, o.version)
           reply == [NoReply EXCEPT !.err = err]
<1>4. /\ calls[<<c, s>>].handler = "running" /\ o.kind = "put"
      /\ Net!Dispatch(<<c, s>>, reply)
      /\ seen' = [seen EXCEPT ![c] = SeenAfter(c, o, reply)]
      /\ store' = PutStore(store, o.key, o.value, o.version)
      /\ effects' = IF reply.err = "OK"
                    THEN [effects EXCEPT ![c][o.id] = @ + 1] ELSE effects
      /\ UNCHANGED <<clerk, verdict>>
  BY <1>2 DEF HandlePut
<1>5. /\ o \in Request /\ o.id \in OpId /\ o.key \in Key /\ o.value \in Value
      /\ o.version \in Version
  BY <1>3, <1>4 DEF RequestInv, Request
<1>6. IsStore(store)
  BY <1>3 DEF TypeOK
<1>7. /\ err \in {"OK", "ErrNoKey", "ErrVersion"}
      /\ IsStore(store')
      /\ err # "OK" => store' = store
      /\ err = "OK" => /\ o.version = CurrentVersion(store, o.key)
                       /\ CurrentVersion(store', o.key) = o.version + 1
  BY <1>4, <1>5, <1>6, PutLemma
<1>8. reply \in Reply /\ reply.err = err
  BY <1>7, ValueAssumption DEF Reply, NoReply, Err, Version
<1> HIDE DEF o, err, reply
<1>9. /\ Net!NetTypeOK'
      /\ IF calls[<<c, s>>].stage = "idle" THEN calls'[<<c, s>>] = Net!FreeCall
         ELSE /\ calls'[<<c, s>>].stage = calls[<<c, s>>].stage
              /\ calls'[<<c, s>>].args = calls[<<c, s>>].args
              /\ calls'[<<c, s>>].handler = "returned" /\ calls'[<<c, s>>].reply = reply
      /\ \A d \in Client : \A t \in Slot[d] :
           d # c \/ t # s => calls'[<<d, t>>] = calls[<<d, t>>]
  BY <1>3, <1>4, <1>8, HandledSlot
<1>10. effects \in [Client -> [OpId -> Nat]] /\ effects[c][o.id] \in Nat
  BY <1>3, <1>5 DEF TypeOK
<1>11. effects' \in [Client -> [OpId -> Nat]]
  BY <1>4, <1>5, <1>10
<1>12. TypeOK'
  <2>1. SeenAfter(c, o, reply) \in Reply \cup {NoReply}
    BY <1>3, <1>8, PartTypes DEF SeenAfter
  <2>2. QED
    BY <1>3, <1>4, <1>7, <1>9, <1>11, <2>1 DEF TypeOK
<1>13. /\ calls'[<<c, s>>].args \in {calls[<<c, s>>].args, NoRequest}
       /\ calls'[<<c, s>>].stage = "idle" => calls[<<c, s>>].stage = "idle"
  BY <1>9, FreeCallFields
<1>14. FirstRequest(c) /\ ClerkInv(c)
  BY <1>3 DEF ClerkSafe, ClerkInv
<1>15. /\ \A t \in Slot[c] : calls'[<<c, t>>].args.id \in OpId
                                => calls'[<<c, t>>].args = calls[<<c, t>>].args
       /\ \A t \in Slot[c] : calls[<<c, t>>].handler = "returned"
                                => calls'[<<c, t>>] = calls[<<c, t>>]
       /\ clerk[c].phase # "returned" => clerk[c].id \in OpId
       /\ clerk[c].phase = "waiting" => clerk[c].slot \in Slot[c]
  BY <1>4, <1>9, <1>14, FreeCallFields DEF ClerkInv
<1>16. CASE err # "OK"
  <2>1. UNCHANGED <<store, effects>>
    BY <1>4, <1>7, <1>8, <1>16
  <2>2. RequestInv(c, s)'
    <3>1. CASE calls[<<c, s>>].stage = "idle"
      BY <1>3, <1>4, <1>9, <3>1, FreeSlotSafe
    <3>2. CASE calls[<<c, s>>].stage # "idle"
      <4>1. calls'[<<c, s>>].reply.err # "OK" /\ calls'[<<c, s>>].reply.err \in Err
        BY <1>7, <1>8, <1>9, <1>16, <3>2 DEF Err
      <4>2. QED
        BY <1>3, <1>4, <1>9, <2>1, <3>2, <4>1 DEF RequestInv, OfClerk, Overtaken
    <3>3. QED
      BY <3>1, <3>2
  <2>3. FirstRequest(c)'
    BY <1>4, <1>14, <1>15, <2>1 DEF FirstRequest
  <2>4. QED
    BY <1>4, <1>9, <1>12, <1>13, <2>1, <2>2, <2>3, QuietSlotSafe
<1>17. CASE err = "OK"
  <2>1. VersionsGrow
    BY <1>3, <1>4, <1>5, VersionsLemma
  <2>2. effects[c][o.id] = 0
    <3>1. Overtaken(c, o)
      BY <1>3, <1>5 DEF RequestInv, o
    <3>2. ~(o.version < CurrentVersion(store, o.key))
      BY <1>5, <1>7, <1>17 DEF Version
    <3>3. QED
      BY <1>4, <1>10, <3>1, <3>2 DEF Overtaken
  <2>3. /\ effects'[c][o.id] = 1
        /\ \A i \in OpId : i # o.id => effects'[c][i] = effects[c][i]
        /\ \A d \in Client : d # c => effects'[d] = effects[d]
    BY <1>4, <1>5, <1>8, <1>10, <1>17, <2>2
  <2>4. verdict[c][o.id] \notin {"OK", "ErrVersion"} /\ o.id <= clerk[c].id
    <3>1. o.id <= clerk[c].id
      BY <1>3 DEF RequestInv, o
    <3>2. verdict[c][o.id] = "OK" => effects[c][o.id] = 1
      BY <1>3, <1>5 DEF ClerkSafe
    <3>3. Final(c, o.id)
      BY <1>3, <1>5 DEF ClerkSafe
    <3>4. QED
      BY <2>2, <3>1, <3>2, <3>3 DEF Final, o
  <2>5. ASSUME NEW i \in OpId
        PROVE  /\ effects[c][i] <= effects'[c][i] /\ effects'[c][i] <= 1
               /\ effects'[c][i] # effects[c][i] =>
                    /\ verdict[c][i] \notin {"OK", "ErrVersion"}
                    /\ i <= clerk[c].id
    <3>1. effects[c][i] <= 1 /\ effects[c][i] \in Nat
      BY <1>3, PartTypes DEF ClerkSafe
    <3>2. CASE i = o.id
      BY <2>2, <2>3, <2>4, <3>2
    <3>3. CASE i # o.id
      BY <2>3, <3>1, <3>3
    <3>4. QED
      BY <3>2, <3>3
  <2>6. ASSUME NEW x, x.key \in Key, x.version \in Nat, x.id \in OpId, Overtaken(c, x),
               x.id = o.id => x.key = o.key /\ x.version = o.version
        PROVE  x.kind = "put" /\ effects'[c][x.id] >= 1 => x.version < CurrentVersion(store', x.key)
    <3>1. CASE x.id = o.id
      BY <1>5, <1>7, <1>17, <2>6, <3>1 DEF Version
    <3>2. CASE x.id # o.id
      BY <2>1, <2>3, <2>6, <3>2, OvertakenStays
    <3>3. QED
      BY <3>1, <3>2
  <2>7. clerk[c].id \in OpId => Overtaken(c, clerk[c])'
    <3>1. clerk[c].id \in OpId => Overtaken(c, clerk[c])
      BY <1>14 DEF ClerkInv
    <3>2. clerk[c].id = o.id => clerk[c].key = o.key /\ clerk[c].version = o.version
      BY <1>3, <1>5 DEF RequestInv, OfClerk, o
    <3>3. clerk[c].key \in Key /\ clerk[c].version \in Nat
      BY <1>3, PartTypes
    <3>4. clerk[c].id \in OpId =>
            (clerk[c].kind = "put" /\ effects'[c][clerk[c].id] >= 1
               => clerk[c].version < CurrentVersion(store', clerk[c].key))
      BY <2>6, <3>1, <3>2, <3>3
    <3>5. QED
      BY <1>4, <3>4 DEF Overtaken
  <2>8. ASSUME NEW t \in Slot[c], calls'[<<c, t>>].args.id \in OpId
        PROVE  Overtaken(c, calls[<<c, t>>].args)'
    <3>1. calls'[<<c, t>>].args = calls[<<c, t>>].args
      BY <1>15, <2>8
    <3>2. Overtaken(c, calls[<<c, t>>].args)
      BY <1>3, <2>8, <3>1 DEF ClerkSafe, RequestInv
    <3>3. calls[<<c, t>>].args.key \in Key /\ calls[<<c, t>>].args.version \in Nat
      BY <1>3, <2>8, <3>1, PartTypes
    <3>4. calls[<<c, t>>].args.id = o.id => calls[<<c, t>>].args = o
      BY <1>3 DEF ClerkSafe, o
    <3>5. calls[<<c, t>>].args.kind = "put" /\ effects'[c][calls[<<c, t>>].args.id] >= 1
            => calls[<<c, t>>].args.version < CurrentVersion(store', calls[<<c, t>>].args.key)
      BY <2>6, <2>8, <3>1, <3>2, <3>3, <3>4
    <3>6. QED
      BY <3>1, <3>5 DEF Overtaken
  <2>9. RequestInv(c, s)'
    <3>1. CASE calls[<<c, s>>].stage = "idle"
      BY <1>3, <1>4, <1>9, <3>1, FreeSlotSafe
    <3>2. CASE calls[<<c, s>>].stage # "idle"
      <4>1. calls'[<<c, s>>].reply.err \in Err /\ calls'[<<c, s>>].args = o
        BY <1>7, <1>8, <1>9, <3>2 DEF Err, o
      <4>2. effects'[c][calls'[<<c, s>>].args.id] >= 1
        BY <2>3, <4>1
      <4>3. Overtaken(c, calls[<<c, s>>].args)'
        BY <1>5, <2>8, <4>1
      <4>4. QED
        BY <1>3, <1>4, <1>9, <3>2, <4>1, <4>2, <4>3 DEF RequestInv, OfClerk
    <3>3. QED
      BY <3>1, <3>2
  <2>10. FirstRequest(c)'
    <3>1. CASE clerk[c].phase # "returned" /\ clerk[c].requestCount = 0 /\ clerk[c].id = o.id
      <4>1. clerk[c].phase = "waiting" /\ clerk[c].slot = s
        BY <1>14, <3>1 DEF FirstRequest, o
      <4>2. calls[<<c, s>>].stage # "idle"
        BY <1>14, <4>1 DEF ClerkInv
      <4>3. calls'[<<c, s>>].handler = "returned" /\ calls'[<<c, s>>].reply.err = "OK"
        BY <1>8, <1>9, <1>17, <4>2
      <4>4. QED
        BY <1>4, <1>14, <1>15, <3>1, <4>1, <4>3 DEF FirstRequest
    <3>2. CASE clerk[c].phase # "returned" /\ clerk[c].requestCount = 0 /\ clerk[c].id # o.id
      <4>1. effects'[c][clerk[c].id] = effects[c][clerk[c].id]
        BY <1>15, <2>3, <3>2
      <4>2. QED
        BY <1>4, <1>14, <1>15, <3>2, <4>1 DEF FirstRequest
    <3>3. CASE clerk[c].phase = "returned" \/ clerk[c].requestCount # 0
      BY <1>4, <3>3 DEF FirstRequest
    <3>4. QED
      BY <3>1, <3>2, <3>3
  <2>11. \A t \in Slot[c] : t # s /\ calls[<<c, t>>].args.id \in OpId
                               => Overtaken(c, calls[<<c, t>>].args)'
    BY <1>9, <2>8
  <2>12. QED
    BY <1>4, <1>9, <1>12, <1>13, <2>1, <2>3, <2>5, <2>7, <2>9, <2>10, <2>11, SlotSafe
<1>18. QED
  BY <1>16, <1>17

\* A step of the network on a request: it reaches the server, is answered, or
\* fails.
LEMMA TransportSlot ==
    ASSUME TypeOK, NEW c \in Client, NEW s \in Slot[c], Transport(<<c, s>>)
    PROVE  /\ Net!NetTypeOK' /\ UNCHANGED <<netConfig, store, clerk, history>>
           /\ calls'[<<c, s>>].args = calls[<<c, s>>].args
           /\ calls'[<<c, s>>].reply = calls[<<c, s>>].reply
           /\ \/ /\ calls[<<c, s>>].stage = "sent" /\ calls'[<<c, s>>].stage = "waiting"
                 /\ calls'[<<c, s>>].handler = "running"
                 /\ calls'[<<c, s>>].srv = ServerName
                 /\ calls'[<<c, s>>].inst = servers[ServerName]
                 /\ calls'[<<c, s>>].reliable = reliable
              \/ /\ \/ /\ calls[<<c, s>>].stage = "sent" /\ calls'[<<c, s>>].stage = "failed"
                       /\ \/ ~enabled[calls[<<c, s>>].end]
                          \/ connections[calls[<<c, s>>].end] = "nil"
                          \/ servers[connections[calls[<<c, s>>].end]] = 0
                          \/ ~reliable
                    \/ /\ calls[<<c, s>>].stage = "waiting"
                       /\ \/ /\ calls'[<<c, s>>].stage = "answered"
                             /\ calls[<<c, s>>].handler = "returned"
                          \/ /\ calls'[<<c, s>>].stage = "failed"
                             /\ \/ Net!IsServerDead(<<c, s>>)
                                \/ /\ calls[<<c, s>>].handler = "returned"
                                   /\ ~calls[<<c, s>>].reliable
                 /\ calls'[<<c, s>>].handler = calls[<<c, s>>].handler
                 /\ calls'[<<c, s>>].srv = calls[<<c, s>>].srv
                 /\ calls'[<<c, s>>].inst = calls[<<c, s>>].inst
                 /\ calls'[<<c, s>>].reliable = calls[<<c, s>>].reliable
           /\ \A d \in Client : \A t \in Slot[d] :
                 d # c \/ t # s => calls'[<<d, t>>] = calls[<<d, t>>]
<1>1. UNCHANGED <<netConfig, store, clerk, history>>
  BY DEF Transport, Net!ProcessReq, Net!GiveUp, Net!Answer, Net!netConfig, netConfig
<1>2. calls[<<c, s>>].stage # "idle" => calls[<<c, s>>].end \in Client
  BY ReqLemma DEF TypeOK, Net!NetTypeOK
<1>3. CASE /\ Net!SetCall(<<c, s>>, Started(<<c, s>>)) /\ calls[<<c, s>>].stage = "sent"
           /\ connections[calls[<<c, s>>].end] # "nil"
  <2> DEFINE call == Started(<<c, s>>)
  <2>1. /\ call \in Net!CallRec
        /\ call.stage = "waiting" /\ call.handler = "running" /\ call.end \in Client
        /\ call.args = calls[<<c, s>>].args /\ call.reply = calls[<<c, s>>].reply
        /\ call.srv = ServerName /\ call.inst = servers[ServerName]
        /\ call.reliable = reliable
    BY <1>3, StartedLemma
  <2>2. Net!SetCall(<<c, s>>, call)
    BY <1>3
  <2> HIDE DEF call
  <2>3. Net!NetTypeOK'
    BY <1>1, <2>1, <2>2, NetType
  <2>4. /\ calls'[<<c, s>>] = call
        /\ \A d \in Client : \A t \in Slot[d] :
             d # c \/ t # s => calls'[<<d, t>>] = calls[<<d, t>>]
    BY <2>1, <2>2, SetCallLemma
  <2>5. QED
    BY <1>1, <1>3, <2>1, <2>3, <2>4
<1>4. ASSUME NEW stage \in {"answered", "failed"},
             Net!SetCall(<<c, s>>, Restaged(<<c, s>>, stage)), calls[<<c, s>>].stage # "idle"
      PROVE  /\ Net!NetTypeOK'
             /\ calls'[<<c, s>>].args = calls[<<c, s>>].args
             /\ calls'[<<c, s>>].reply = calls[<<c, s>>].reply
             /\ calls'[<<c, s>>].stage = stage
             /\ calls'[<<c, s>>].handler = calls[<<c, s>>].handler
             /\ calls'[<<c, s>>].srv = calls[<<c, s>>].srv
             /\ calls'[<<c, s>>].inst = calls[<<c, s>>].inst
             /\ calls'[<<c, s>>].reliable = calls[<<c, s>>].reliable
             /\ \A d \in Client : \A t \in Slot[d] :
                  d # c \/ t # s => calls'[<<d, t>>] = calls[<<d, t>>]
  <2> DEFINE call == Restaged(<<c, s>>, stage)
  <2>1. /\ call \in Net!CallRec
        /\ call.stage = stage /\ call.handler = calls[<<c, s>>].handler
        /\ call.end = calls[<<c, s>>].end /\ call.args = calls[<<c, s>>].args
        /\ call.reply = calls[<<c, s>>].reply /\ call.srv = calls[<<c, s>>].srv
        /\ call.inst = calls[<<c, s>>].inst /\ call.reliable = calls[<<c, s>>].reliable
    BY RestagedLemma
  <2>2. Net!SetCall(<<c, s>>, call)
    BY <1>4
  <2> HIDE DEF call
  <2>3. Net!NetTypeOK'
    BY <1>1, <1>2, <1>4, <2>1, <2>2, NetType
  <2>4. /\ calls'[<<c, s>>] = call
        /\ \A d \in Client : \A t \in Slot[d] :
             d # c \/ t # s => calls'[<<d, t>>] = calls[<<d, t>>]
    BY <2>1, <2>2, SetCallLemma
  <2>5. QED
    BY <2>1, <2>3, <2>4
<1>5. CASE Net!ProcessReq(<<c, s>>)
  <2>1. CASE /\ Net!SetCall(<<c, s>>, Started(<<c, s>>)) /\ calls[<<c, s>>].stage = "sent"
             /\ connections[calls[<<c, s>>].end] # "nil"
    BY <1>3, <2>1
  <2>2. CASE /\ Net!SetCall(<<c, s>>, Restaged(<<c, s>>, "failed"))
             /\ calls[<<c, s>>].stage = "sent"
             /\ \/ ~enabled[calls[<<c, s>>].end]
                \/ connections[calls[<<c, s>>].end] = "nil"
                \/ servers[connections[calls[<<c, s>>].end]] = 0
                \/ ~reliable
    BY <1>1, <1>4, <2>2
  <2>3. QED
    BY <1>5, <2>1, <2>2 DEF Net!ProcessReq, Net!SetStage, Started, Restaged
<1>6. CASE Net!GiveUp(<<c, s>>)
  <2>1. /\ Net!SetCall(<<c, s>>, Restaged(<<c, s>>, "failed"))
        /\ calls[<<c, s>>].stage = "waiting" /\ Net!IsServerDead(<<c, s>>)
    BY <1>6 DEF Net!GiveUp, Net!SetStage, Restaged
  <2>2. QED
    BY <1>1, <1>4, <2>1
<1>7. CASE Net!Answer(<<c, s>>)
  <2>1. calls[<<c, s>>].stage = "waiting" /\ calls[<<c, s>>].handler = "returned"
    BY <1>7 DEF Net!Answer
  <2>2. CASE Net!SetCall(<<c, s>>, Restaged(<<c, s>>, "answered"))
    BY <1>1, <1>4, <2>1, <2>2
  <2>3. CASE /\ Net!SetCall(<<c, s>>, Restaged(<<c, s>>, "failed"))
             /\ Net!IsServerDead(<<c, s>>) \/ ~calls[<<c, s>>].reliable
    BY <1>1, <1>4, <2>1, <2>3
  <2>4. QED
    BY <1>7, <2>2, <2>3 DEF Net!Answer, Net!SetStage, Restaged
<1>8. QED
  BY <1>5, <1>6, <1>7 DEF Transport

\* The network moves requests; it neither makes up nor changes one.
LEMMA TransportSafe ==
    ASSUME IndInv, NEW r \in Req, Transport(r)
    PROVE  IndInv'
<1>1. PICK c \in Client : \E s \in Slot[c] : r = <<c, s>>
  BY ReqLemma
<1>2. PICK s \in Slot[c] : r = <<c, s>>
  BY <1>1
<1>3. TypeOK /\ ClerkSafe(c) /\ RequestInv(c, s) /\ ClerkInv(c) /\ FirstRequest(c)
  BY SafeSplit DEF ClerkSafe, ClerkInv
<1>4. /\ Net!NetTypeOK' /\ UNCHANGED <<netConfig, store, clerk, history>>
      /\ calls'[<<c, s>>].args = calls[<<c, s>>].args
      /\ calls'[<<c, s>>].reply = calls[<<c, s>>].reply
      /\ \A d \in Client : \A t \in Slot[d] :
           d # c \/ t # s => calls'[<<d, t>>] = calls[<<d, t>>]
  BY <1>2, <1>3, TransportSlot
<1>5. /\ calls[<<c, s>>].stage # "idle"
      /\ \/ /\ calls[<<c, s>>].stage = "sent" /\ calls'[<<c, s>>].stage = "waiting"
            /\ calls'[<<c, s>>].handler = "running"
         \/ /\ \/ calls'[<<c, s>>].stage = "failed"
               \/ calls'[<<c, s>>].stage = "answered" /\ calls[<<c, s>>].handler = "returned"
            /\ calls'[<<c, s>>].handler = calls[<<c, s>>].handler
  BY <1>2, <1>3, TransportSlot
<1>6. TypeOK'
  BY <1>3, <1>4 DEF TypeOK, history
<1>7. UNCHANGED <<clerk, verdict, store, effects>>
  BY <1>4 DEF history
<1>8. RequestInv(c, s)'
  BY <1>3, <1>4, <1>5, <1>7 DEF RequestInv, OfClerk, Overtaken
<1>9. FirstRequest(c)'
  <2>1. calls[<<c, s>>].handler = "returned" => calls'[<<c, s>>].handler = "returned"
    BY <1>3, <1>5 DEF RequestInv
  <2>2. ASSUME NEW t \in Slot[c]
        PROVE  /\ calls'[<<c, t>>].args = calls[<<c, t>>].args
               /\ calls'[<<c, t>>].reply = calls[<<c, t>>].reply
               /\ calls[<<c, t>>].handler = "returned" => calls'[<<c, t>>].handler = "returned"
    BY <1>4, <2>1
  <2>3. clerk[c].phase = "waiting" => clerk[c].slot \in Slot[c]
    BY <1>3 DEF ClerkInv
  <2>4. QED
    BY <1>3, <1>7, <2>2, <2>3 DEF FirstRequest
<1>10. QED
  BY <1>4, <1>5, <1>6, <1>7, <1>8, <1>9, QuietSlotSafe

\* The tester plugs a cable in or out.
LEMMA ConnectSafe ==
    ASSUME IndInv, NEW c \in Client, NEW yes \in BOOLEAN, Connect(c, yes)
    PROVE  IndInv'
<1>1. /\ enabled' = [enabled EXCEPT ![c] = yes]
      /\ UNCHANGED <<connections, servers, made, reliable, done, calls, store, clerk, history>>
  BY DEF Connect, Net!Enable
<1>2. TypeOK /\ \A d \in Client : ClerkSafe(d)
  BY SafeSplit
<1>3. TypeOK'
  BY <1>1, <1>2 DEF TypeOK, Net!NetTypeOK, history
<1>4. ASSUME NEW d \in Client PROVE ClerkSafe(d)'
  BY <1>1, <1>2, OtherClerks, VersionsLemma DEF history
<1>5. QED
  BY <1>3, <1>4, SafeSplit

\* Every step keeps the invariant.
LEMMA IndStep == IndInv /\ [Next]_vars => IndInv'
<1> SUFFICES ASSUME IndInv, [Next]_vars PROVE IndInv'
  OBVIOUS
<1>1. ASSUME NEW c \in Client, NEW k \in Key, Invoke(c, "get", k, NoValue, 0) PROVE IndInv'
  BY <1>1, InvokeSafe, ValueAssumption DEF Version
<1>2. ASSUME NEW c \in Client, NEW k \in Key, NEW v \in Value, NEW n \in PutVersions,
             Invoke(c, "put", k, v, n)
      PROVE  IndInv'
  BY <1>2, InvokeSafe, BoundAssumption
<1>3. CASE UNCHANGED vars
  <2>1. UNCHANGED <<store, clerk, netConfig, calls, effects, verdict, seen>>
    BY <1>3 DEF vars, history
  <2>2. TypeOK /\ \A d \in Client : ClerkSafe(d)
    BY SafeSplit
  <2>3. TypeOK'
    BY <2>1, <2>2 DEF TypeOK, Net!NetTypeOK, netConfig
  <2>4. ASSUME NEW d \in Client PROVE ClerkSafe(d)'
    BY <2>1, <2>2, OtherClerks, VersionsLemma
  <2>5. QED
    BY <2>3, <2>4, SafeSplit
<1>4. QED
  BY <1>1, <1>2, <1>3, SendSafe, ReturnSafe, ConnectSafe, GetSafe, PutSafe, TransportSafe
     DEF Next, Handle

\* The inductive invariant holds in every state: a Put that took effect has
\* overtaken its own requests, those that wait and those that were given up.
THEOREM IndInvariant == Spec => []IndInv
BY IndInit, IndStep, PTL DEF Spec

\* A Put is performed at most once, however often it is resent, on a network
\* that loses requests and replies and with handlers that outlive their calls.
THEOREM PutAtMostOnce == Spec => []AtMostOnce
<1>1. IndInv => AtMostOnce
  BY DEF IndInv
<1>2. QED
  BY <1>1, IndInvariant, PTL

\* OK and ErrVersion stay true of the Put that returned them.
THEOREM VerdictIsFinal == Spec => []VerdictHolds
<1>1. IndInv => VerdictHolds
  BY DEF IndInv
<1>2. QED
  BY <1>1, IndInvariant, PTL

-----------------------------------------------------------------------------
(* Ends that stay enabled.                                                 *)

\* What LinInv says of one clerk.
ClerkLin(c) ==
    /\ SeenInv(c)
    /\ \A s \in Slot[c] : Attended(c, s)
    /\ \A i \in OpId : verdict[c][i] = "ErrNoKey" => effects[c][i] = 0

\* LinInv is that, for every clerk, and a network where every end is enabled.
LEMMA LinSplit ==
    /\ LinInv <=> Connected /\ \A c \in Client : ClerkLin(c)
    /\ LinInv' <=> Connected' /\ \A c \in Client : ClerkLin(c)'
BY DEF LinInv, ClerkLin, NoKeyHolds

\* A step of one clerk is not seen by the others.
LEMMA OtherClerksLin ==
    ASSUME NEW d \in Client, ClerkLin(d),
           clerk'[d] = clerk[d], seen'[d] = seen[d],
           effects'[d] = effects[d], verdict'[d] = verdict[d],
           clerk[d].phase = "waiting" => clerk[d].slot \in Slot[d],
           \A s \in Slot[d] : calls'[<<d, s>>] = calls[<<d, s>>]
    PROVE  ClerkLin(d)'
<1>1. SeenInv(d)'
  BY DEF ClerkLin, SeenInv
<1>2. ASSUME NEW s \in Slot[d] PROVE Attended(d, s)'
  BY DEF ClerkLin, Attended
<1>3. QED
  BY <1>1, <1>2 DEF ClerkLin

\* Every end is enabled from the start.
LEMMA LinInit == Init => LinInv
<1> SUFFICES ASSUME Init PROVE LinInv
  OBVIOUS
<1>1. Connected
  BY FlagAssumption DEF Init, Connected
<1>2. ASSUME NEW c \in Client PROVE ClerkLin(c)
  <2>1. \A s \in Slot[c] : calls[<<c, s>>] = Net!FreeCall
    BY ReqLemma DEF Init
  <2>2. \A s \in Slot[c] : Attended(c, s)
    BY <2>1, FreeCallFields DEF Attended
  <2>3. clerk[c].phase = "returned"
    BY DEF Init
  <2>4. SeenInv(c)
    BY <2>3 DEF SeenInv
  <2>5. \A i \in OpId : verdict[c][i] # "ErrNoKey"
    BY DEF Init
  <2>6. QED
    BY <2>2, <2>4, <2>5 DEF ClerkLin
<1>3. QED
  BY <1>1, <1>2, LinSplit

\* The fields of the empty reply.
LEMMA NoReplyFields ==
    /\ NoReply.value = NoValue /\ NoReply.version = 0 /\ NoReply.err = "None"
    /\ \A e : LET x == [NoReply EXCEPT !.err = e]
              IN  x = [value |-> NoValue, version |-> 0, err |-> e]
BY DEF NoReply

\* A new operation has seen nothing.
LEMMA InvokeLin ==
    ASSUME IndInv, LinInv, NEW c \in Client, NEW kind \in {"get", "put"}, NEW key \in Key,
           NEW value \in Value, NEW version \in Version,
           Invoke(c, kind, key, value, version)
    PROVE  LinInv'
<1>1. TypeOK /\ \A d \in Client : ClerkSafe(d)
  BY SafeSplit
<1>2. Connected /\ \A d \in Client : ClerkLin(d)
  BY LinSplit
<1>3. UNCHANGED <<store, netConfig, calls, effects, verdict>>
  BY DEF Invoke
<1>4. /\ clerk'[c].kind = kind /\ clerk'[c].id = clerk[c].id + 1
      /\ clerk'[c].phase = "loop" /\ clerk'[c].requestCount = 0
      /\ seen'[c] = NoReply
      /\ \A d \in Client : d # c => clerk'[d] = clerk[d] /\ seen'[d] = seen[d]
  BY <1>1 DEF Invoke, TypeOK
<1>5. effects'[c][clerk'[c].id] = 0
  <2>1. clerk[c].id \in Nat /\ clerk[c].id + 1 \in OpId
    BY <1>1, PartTypes DEF Invoke, OpId
  <2>2. \A i \in OpId : i > clerk[c].id => effects[c][i] = 0
    BY <1>1 DEF ClerkSafe, ClerkInv
  <2>3. QED
    BY <1>3, <1>4, <2>1, <2>2
<1>6. SeenInv(c)'
  BY <1>4, <1>5, NoReplyFields DEF SeenInv
<1>7. ASSUME NEW s \in Slot[c] PROVE Attended(c, s)'
  BY <1>2, <1>3 DEF ClerkLin, Attended
<1>8. ClerkLin(c)'
  BY <1>2, <1>3, <1>6, <1>7 DEF ClerkLin
<1>9. ASSUME NEW d \in Client, d # c PROVE ClerkLin(d)'
  BY <1>1, <1>2, <1>3, <1>4, <1>9, OtherClerksLin DEF ClerkSafe, ClerkInv
<1>10. Connected'
  BY <1>2, <1>3 DEF Connected, netConfig
<1>11. QED
  BY <1>8, <1>9, <1>10, LinSplit

\* A request that is sent has not run.
LEMMA SendLin ==
    ASSUME IndInv, LinInv, NEW c \in Client, SendRequest(c)
    PROVE  LinInv'
<1>1. TypeOK /\ \A d \in Client : ClerkSafe(d)
  BY SafeSplit
<1>2. Connected /\ \A d \in Client : ClerkLin(d)
  BY LinSplit
<1>3. PICK s \in Slot[c] :
         /\ Net!Call(<<c, s>>, c, ClerkArgs(c))
         /\ clerk' = [clerk EXCEPT ![c].phase = "waiting", ![c].slot = s]
  BY DEF SendRequest, ClerkArgs
<1>4. Net!SetCall(<<c, s>>, Called(c, ClerkArgs(c), "sent"))
  BY <1>2, <1>3 DEF Net!Call, Called, Connected
<1>5. UNCHANGED <<store, netConfig, effects, verdict, seen>> /\ clerk[c].phase = "loop"
  BY <1>3 DEF SendRequest, Net!Call, Net!netConfig, netConfig, history
<1>6. clerk[c].kind \in {"get", "put"} /\ clerk[c].id \in OpId
  BY <1>1, <1>5, PartTypes DEF ClerkSafe, ClerkInv, ClerkRec
<1>7. ClerkArgs(c) \in Request
  BY <1>1, <1>6, PartTypes DEF ClerkArgs, Request, Version
<1> DEFINE call == Called(c, ClerkArgs(c), "sent")
<1>8. call \in Net!CallRec /\ call.stage = "sent" /\ call.handler = "none"
  BY <1>7, CalledLemma
<1>9. /\ calls'[<<c, s>>].stage = "sent" /\ calls'[<<c, s>>].handler = "none"
      /\ \A d \in Client : \A t \in Slot[d] :
           d # c \/ t # s => calls'[<<d, t>>] = calls[<<d, t>>]
  BY <1>1, <1>4, <1>8, SetCallLemma
<1> HIDE DEF call
<1>10. /\ clerk'[c].kind = clerk[c].kind /\ clerk'[c].id = clerk[c].id
       /\ clerk'[c].requestCount = clerk[c].requestCount
       /\ clerk'[c].phase = "waiting" /\ clerk'[c].slot = s
       /\ \A d \in Client : d # c => clerk'[d] = clerk[d]
  BY <1>1, <1>3 DEF TypeOK, ClerkRec
<1>11. SeenInv(c)'
  BY <1>2, <1>5, <1>9, <1>10 DEF ClerkLin, SeenInv
<1>12. ASSUME NEW t \in Slot[c] PROVE Attended(c, t)'
  BY <1>2, <1>9 DEF ClerkLin, Attended
<1>13. ClerkLin(c)'
  BY <1>2, <1>5, <1>11, <1>12 DEF ClerkLin
<1>14. ASSUME NEW d \in Client, d # c PROVE ClerkLin(d)'
  BY <1>1, <1>2, <1>5, <1>9, <1>10, <1>14, OtherClerksLin DEF ClerkSafe, ClerkInv
<1>15. Connected'
  BY <1>2, <1>5 DEF Connected, netConfig
<1>16. QED
  BY <1>13, <1>14, <1>15, LinSplit

\* Where c waits, its request is.
LEMMA WaitsFor ==
    ASSUME IndInv, LinInv, NEW c \in Client, NEW s \in Slot[c],
           calls[<<c, s>>].handler = "running"
    PROVE  LET o == calls[<<c, s>>].args
           IN  /\ calls[<<c, s>>].stage = "waiting"
               /\ clerk[c].phase = "waiting" /\ clerk[c].slot = s
               /\ o \in Request /\ o.id = clerk[c].id /\ o.id \in OpId /\ OfClerk(c, o)
               /\ verdict[c][o.id] = "None"
<1>1. ClerkSafe(c) /\ Attended(c, s) /\ TypeOK
  BY SafeSplit, LinSplit DEF ClerkLin
<1>2. RequestInv(c, s) /\ ClerkInv(c) /\ calls[<<c, s>>] \in Net!CallRec
  BY <1>1, CallType DEF ClerkSafe
<1>3. calls[<<c, s>>].stage = "waiting"
  BY <1>1, <1>2 DEF Attended, RequestInv, Net!CallRec
<1>4. QED
  BY <1>2, <1>3 DEF RequestInv, ClerkInv

\* A call fails only because the network lost the request or the reply; the
\* slot of one that has returned is free.
LEMMA ReturnLin ==
    ASSUME IndInv, LinInv, NEW c \in Client, CallReturned(c)
    PROVE  LinInv'
<1> DEFINE s == clerk[c].slot
           err == ClerkErr(c, calls[<<c, s>>].reply)
<1>1. TypeOK /\ \A d \in Client : ClerkSafe(d)
  BY SafeSplit
<1>2. Connected /\ \A d \in Client : ClerkLin(d)
  BY LinSplit
<1>3. /\ s \in Slot[c] /\ clerk[c].phase = "waiting" /\ Net!Return(<<c, s>>)
      /\ UNCHANGED <<store, effects, seen>>
      /\ \A d \in Client : d # c => clerk'[d] = clerk[d]
      /\ clerk'[c].kind = clerk[c].kind /\ clerk'[c].id = clerk[c].id
  BY ClerkReturns
<1>4. \/ /\ Net!Ok(<<c, s>>) /\ clerk'[c].phase = "returned"
         /\ verdict' = IF clerk[c].kind = "put"
                       THEN [verdict EXCEPT ![c][clerk[c].id] = err] ELSE verdict
      \/ ~Net!Ok(<<c, s>>) /\ clerk'[c].phase = "loop" /\ UNCHANGED verdict
  BY ClerkReturns
<1> HIDE DEF s, err
<1>5. /\ UNCHANGED netConfig
      /\ calls[<<c, s>>].stage \in {"answered", "failed"}
      /\ calls[<<c, s>>].handler # "running" => calls'[<<c, s>>] = Net!FreeCall
      /\ \A d \in Client : \A t \in Slot[d] :
           d # c \/ t # s => calls'[<<d, t>>] = calls[<<d, t>>]
  BY <1>1, <1>3, ReturnedSlot
<1>6. RequestInv(c, s) /\ ClerkInv(c) /\ Attended(c, s) /\ SeenInv(c)
  BY <1>1, <1>2, <1>3 DEF ClerkSafe, ClerkLin
<1>7. calls[<<c, s>>].handler # "running" /\ calls'[<<c, s>>] = Net!FreeCall
  BY <1>5, <1>6 DEF RequestInv, Attended
<1>8. ASSUME NEW t \in Slot[c] PROVE Attended(c, t)'
  <2>1. CASE t = s
    BY <1>7, <2>1, FreeCallFields DEF Attended
  <2>2. CASE t # s
    BY <1>2, <1>5, <2>2 DEF ClerkLin, Attended
  <2>3. QED
    BY <2>1, <2>2
<1>9. SeenInv(c)'
  <2>1. CASE clerk'[c].phase = "returned"
    BY <2>1 DEF SeenInv
  <2>2. CASE ~Net!Ok(<<c, s>>) /\ clerk'[c].phase = "loop"
    <3>1. Unreliable
      BY <1>5, <1>6, <2>2 DEF Attended, Net!Ok
    <3>2. QED
      BY <1>3, <1>6, <2>2, <3>1 DEF SeenInv
  <2>3. QED
    BY <1>4, <2>1, <2>2
<1>10. ASSUME Net!Ok(<<c, s>>), clerk[c].kind = "put", err = "ErrNoKey"
       PROVE  effects[c][clerk[c].id] = 0
  <2>1. calls[<<c, s>>].reply.err = "ErrNoKey"
    BY <1>10 DEF err, ClerkErr
  <2>2. calls[<<c, s>>].handler = "returned"
    BY <1>6, <1>10 DEF RequestInv, Net!Ok
  <2>3. seen[c].err = "ErrNoKey"
    BY <1>3, <1>6, <2>1, <2>2, NoReplyFields DEF SeenInv, s
  <2>4. clerk[c].id \in OpId /\ effects[c][clerk[c].id] \in Nat
    BY <1>1, <1>3, <1>6, PartTypes DEF ClerkInv
  <2>5. QED
    BY <1>3, <1>6, <1>10, <2>3, <2>4 DEF SeenInv
<1>11. ASSUME NEW i \in OpId, verdict'[c][i] = "ErrNoKey" PROVE effects'[c][i] = 0
  <2>1. verdict[c][i] = "ErrNoKey" => effects[c][i] = 0
    BY <1>2 DEF ClerkLin
  <2>2. \/ verdict'[c][i] = verdict[c][i]
        \/ /\ Net!Ok(<<c, s>>) /\ clerk[c].kind = "put" /\ i = clerk[c].id
           /\ verdict'[c][i] = err
    BY <1>1, <1>4 DEF TypeOK
  <2>3. QED
    BY <1>3, <1>10, <1>11, <2>1, <2>2
<1>12. ClerkLin(c)'
  BY <1>8, <1>9, <1>11 DEF ClerkLin
<1>13. \A d \in Client : d # c => verdict'[d] = verdict[d]
  BY <1>1, <1>4 DEF TypeOK
<1>14. ASSUME NEW d \in Client, d # c PROVE ClerkLin(d)'
  BY <1>1, <1>2, <1>3, <1>5, <1>13, <1>14, OtherClerksLin DEF ClerkSafe, ClerkInv
<1>15. Connected'
  BY <1>2, <1>5 DEF Connected, netConfig
<1>16. QED
  BY <1>12, <1>14, <1>15, LinSplit

\* The handler of a request has returned: what it does to the rest.
LEMMA HandledLin ==
    ASSUME IndInv, LinInv, NEW c \in Client, NEW s \in Slot[c], NEW reply \in Reply,
           Net!Dispatch(<<c, s>>, reply),
           UNCHANGED <<clerk, verdict>>,
           seen' = [seen EXCEPT ![c] = SeenAfter(c, calls[<<c, s>>].args, reply)],
           \A d \in Client : d # c => effects'[d] = effects[d],
           \A i \in OpId : i # calls[<<c, s>>].args.id => effects'[c][i] = effects[c][i],
           SeenInv(c)'
    PROVE  LinInv'
<1>1. TypeOK /\ \A d \in Client : ClerkSafe(d)
  BY SafeSplit
<1>2. Connected /\ \A d \in Client : ClerkLin(d)
  BY LinSplit
<1>3. /\ UNCHANGED netConfig
      /\ calls[<<c, s>>].handler = "running"
      /\ IF calls[<<c, s>>].stage = "idle" THEN calls'[<<c, s>>] = Net!FreeCall
         ELSE /\ calls'[<<c, s>>].stage = calls[<<c, s>>].stage
              /\ calls'[<<c, s>>].handler = "returned"
              /\ calls'[<<c, s>>].srv = calls[<<c, s>>].srv
              /\ calls'[<<c, s>>].inst = calls[<<c, s>>].inst
              /\ calls'[<<c, s>>].reliable = calls[<<c, s>>].reliable
      /\ \A d \in Client : \A t \in Slot[d] :
           d # c \/ t # s => calls'[<<d, t>>] = calls[<<d, t>>]
  BY <1>1, HandledSlot
<1>4. calls[<<c, s>>].stage = "waiting" /\ verdict[c][calls[<<c, s>>].args.id] = "None"
  BY <1>3, WaitsFor
<1>5. ASSUME NEW t \in Slot[c] PROVE Attended(c, t)'
  <2>1. Attended(c, t)
    BY <1>2 DEF ClerkLin
  <2>2. CASE t = s
    BY <1>3, <1>4, <2>1, <2>2 DEF Attended
  <2>3. CASE t # s
    BY <1>3, <2>1, <2>3 DEF Attended
  <2>4. QED
    BY <2>2, <2>3
<1>6. \A i \in OpId : verdict'[c][i] = "ErrNoKey" => effects'[c][i] = 0
  BY <1>2, <1>4 DEF ClerkLin
<1>7. ClerkLin(c)'
  BY <1>5, <1>6 DEF ClerkLin
<1>8. \A d \in Client : d # c => seen'[d] = seen[d]
  BY <1>1 DEF TypeOK
<1>9. ASSUME NEW d \in Client, d # c PROVE ClerkLin(d)'
  <2>1. clerk[d].phase = "waiting" => clerk[d].slot \in Slot[d]
    BY <1>1 DEF ClerkSafe, ClerkInv
  <2>2. \A t \in Slot[d] : calls'[<<d, t>>] = calls[<<d, t>>]
    BY <1>3, <1>9
  <2>3. QED
    BY <1>2, <1>8, <1>9, <2>1, <2>2, OtherClerksLin
<1>10. Connected'
  BY <1>2, <1>3 DEF Connected, netConfig
<1>11. QED
  BY <1>7, <1>9, <1>10, LinSplit

\* A Get that is run is of the operation that waits for it.
LEMMA GetLin ==
    ASSUME IndInv, LinInv, NEW r \in Req, HandleGet(r)
    PROVE  LinInv'
<1>1. PICK c \in Client : \E s \in Slot[c] : r = <<c, s>>
  BY ReqLemma
<1>2. PICK s \in Slot[c] : r = <<c, s>>
  BY <1>1
<1> DEFINE o == calls[<<c, s>>].args
           reply == Get(store, o.key)
<1>3. /\ calls[<<c, s>>].handler = "running" /\ o.kind = "get"
      /\ Net!Dispatch(<<c, s>>, reply)
      /\ seen' = [seen EXCEPT ![c] = SeenAfter(c, o, reply)]
      /\ UNCHANGED <<store, clerk, effects, verdict>>
  BY <1>2 DEF HandleGet
<1>4. /\ TypeOK /\ SeenInv(c)
  BY SafeSplit, LinSplit DEF ClerkLin
<1>5. /\ calls[<<c, s>>].stage = "waiting"
      /\ clerk[c].phase = "waiting" /\ clerk[c].slot = s
      /\ o \in Request /\ o.id = clerk[c].id /\ clerk[c].kind = "get"
  BY <1>3, WaitsFor DEF OfClerk
<1>6. reply \in Reply /\ reply.err \in Err
  BY <1>4, <1>5, GetLemma DEF TypeOK, Request
<1> HIDE DEF o, reply
<1>7. seen'[c] = reply
  BY <1>3, <1>4, <1>5 DEF SeenAfter, TypeOK
<1>8. calls'[<<c, s>>].reply = reply
  BY <1>3, <1>4, <1>5, <1>6, HandledSlot
<1>9. SeenInv(c)'
  BY <1>3, <1>4, <1>5, <1>6, <1>7, <1>8 DEF SeenInv
<1>10. QED
  BY <1>3, <1>6, <1>9, HandledLin DEF o

\* What a Put that is run answers: ErrVersion if an earlier request of the
\* same operation has performed it, else what the operation then has seen.
LEMMA PutAnswers ==
    ASSUME IndInv, LinInv, NEW c \in Client, NEW s \in Slot[c],
           calls[<<c, s>>].handler = "running", calls[<<c, s>>].args.kind = "put"
    PROVE  LET o == calls[<<c, s>>].args
               err == PutErr(store, o.key, o.version)
           IN  /\ err \in {"OK", "ErrNoKey", "ErrVersion"}
               /\ seen[c].err = "OK" => /\ err = "ErrVersion" /\ clerk[c].requestCount > 0
                                        /\ effects[c][o.id] >= 1
               /\ seen[c].err # "OK" => effects[c][o.id] = 0
<1> DEFINE o == calls[<<c, s>>].args
           err == PutErr(store, o.key, o.version)
<1>1. /\ TypeOK /\ SeenInv(c) /\ ClerkSafe(c)
  BY SafeSplit, LinSplit DEF ClerkLin
<1>2. /\ clerk[c].phase = "waiting" /\ clerk[c].slot = s
      /\ o \in Request /\ o.id = clerk[c].id /\ o.id \in OpId /\ OfClerk(c, o)
  BY WaitsFor
<1>3. clerk[c].kind = "put" /\ o.key \in Key /\ o.version \in Version /\ o.value \in Value
  BY <1>2 DEF OfClerk, Request
<1>4. IsStore(store)
  BY <1>1 DEF TypeOK
<1>5. /\ err \in {"OK", "ErrNoKey", "ErrVersion"}
      /\ err = "OK" <=> o.version = CurrentVersion(store, o.key)
      /\ err = "ErrNoKey" <=> o.key \notin DOMAIN store /\ o.version # 0
      /\ CurrentVersion(store, o.key) \in Nat
  BY <1>3, <1>4, PutLemma
<1> HIDE DEF err
<1>6. seen[c].err = "OK" <=> effects[c][o.id] >= 1
  BY <1>1, <1>2, <1>3 DEF SeenInv
<1>7. effects[c][o.id] \in Nat
  BY <1>1, <1>2, PartTypes
<1>8. ASSUME effects[c][o.id] >= 1 PROVE err = "ErrVersion" /\ clerk[c].requestCount > 0
  <2>1. o.version < CurrentVersion(store, o.key)
    BY <1>1, <1>2, <1>8 DEF ClerkSafe, RequestInv, Overtaken
  <2>2. o.key \in DOMAIN store
    BY <1>3, <2>1 DEF CurrentVersion, Version
  <2>3. clerk[c].requestCount # 0
    BY <1>1, <1>2, <1>8 DEF ClerkSafe, ClerkInv, FirstRequest
  <2>4. QED
    BY <1>1, <1>3, <1>5, <2>1, <2>2, <2>3, PartTypes DEF Version
<1>9. QED
  BY <1>5, <1>6, <1>7, <1>8 DEF err

\* A Put that is run is of the operation that waits for it.
LEMMA PutLin ==
    ASSUME IndInv, LinInv, NEW r \in Req, HandlePut(r)
    PROVE  LinInv'
<1>1. PICK c \in Client : \E s \in Slot[c] : r = <<c, s>>
  BY ReqLemma
<1>2. PICK s \in Slot[c] : r = <<c, s>>
  BY <1>1
<1> DEFINE o == calls[<<c, s>>].args
           err == PutErr(store, o.key, o.version)
           reply == [NoReply EXCEPT !.err = err]
<1>3. /\ calls[<<c, s>>].handler = "running" /\ o.kind = "put"
      /\ Net!Dispatch(<<c, s>>, reply)
      /\ seen' = [seen EXCEPT ![c] = SeenAfter(c, o, reply)]
      /\ effects' = IF reply.err = "OK"
                    THEN [effects EXCEPT ![c][o.id] = @ + 1] ELSE effects
      /\ UNCHANGED <<clerk, verdict>>
  BY <1>2 DEF HandlePut
<1>4. /\ TypeOK /\ SeenInv(c)
  BY SafeSplit, LinSplit DEF ClerkLin
<1>5. /\ calls[<<c, s>>].stage = "waiting"
      /\ clerk[c].phase = "waiting" /\ clerk[c].slot = s
      /\ o \in Request /\ o.id = clerk[c].id /\ clerk[c].kind = "put" /\ o.id \in OpId
  BY <1>3, WaitsFor DEF OfClerk
<1>6. /\ err \in {"OK", "ErrNoKey", "ErrVersion"}
      /\ seen[c].err = "OK" => /\ err = "ErrVersion" /\ clerk[c].requestCount > 0
                               /\ effects[c][o.id] >= 1
      /\ seen[c].err # "OK" => effects[c][o.id] = 0
  BY <1>3, PutAnswers
<1>7. /\ reply.err = err /\ reply.value = NoValue /\ reply.version = 0
      /\ reply \in Reply /\ reply.err \in Err /\ reply = [NoReply EXCEPT !.err = err]
  BY <1>6, ValueAssumption DEF Reply, NoReply, Err, Version
<1> HIDE DEF o, reply, err
<1>8. /\ effects'[c][o.id] = IF err = "OK" THEN effects[c][o.id] + 1 ELSE effects[c][o.id]
      /\ \A i \in OpId : i # o.id => effects'[c][i] = effects[c][i]
      /\ \A d \in Client : d # c => effects'[d] = effects[d]
  BY <1>3, <1>4, <1>5, <1>7 DEF TypeOK
<1>9. calls'[<<c, s>>].reply = reply /\ calls'[<<c, s>>].handler = "returned"
  BY <1>3, <1>4, <1>5, <1>7, HandledSlot
<1>10. seen'[c] = IF seen[c].err = "OK" THEN seen[c] ELSE reply
  BY <1>3, <1>4, <1>5 DEF SeenAfter, TypeOK
<1>11. SeenInv(c)'
  <2>1. CASE seen[c].err = "OK"
    BY <1>3, <1>4, <1>5, <1>6, <1>7, <1>8, <1>9, <1>10, <2>1 DEF SeenInv
  <2>2. CASE seen[c].err # "OK"
    <3>1. seen'[c] = reply
      BY <1>10, <2>2
    <3>2. effects'[c][clerk'[c].id] >= 1 <=> err = "OK"
      BY <1>3, <1>5, <1>6, <1>8, <2>2
    <3>3. QED
      BY <1>3, <1>4, <1>5, <1>7, <1>9, <3>1, <3>2 DEF SeenInv
  <2>3. QED
    BY <2>1, <2>2
<1>12. QED
  BY <1>3, <1>7, <1>8, <1>11, HandledLin DEF o

\* On a network where every end is enabled a request fails only by being lost.
LEMMA TransportLin ==
    ASSUME IndInv, LinInv, NEW r \in Req, Transport(r)
    PROVE  LinInv'
<1>1. PICK c \in Client : \E s \in Slot[c] : r = <<c, s>>
  BY ReqLemma
<1>2. PICK s \in Slot[c] : r = <<c, s>>
  BY <1>1
<1>3. TypeOK /\ \A d \in Client : ClerkSafe(d)
  BY SafeSplit
<1>4. Connected /\ \A d \in Client : ClerkLin(d)
  BY LinSplit
<1>5. /\ UNCHANGED <<netConfig, store, clerk, effects, verdict, seen>>
      /\ calls'[<<c, s>>].reply = calls[<<c, s>>].reply
      /\ \A d \in Client : \A t \in Slot[d] :
           d # c \/ t # s => calls'[<<d, t>>] = calls[<<d, t>>]
  BY <1>2, <1>3, TransportSlot DEF history
<1>6. RequestInv(c, s) /\ Attended(c, s) /\ SeenInv(c) /\ ClerkInv(c)
  BY <1>3, <1>4 DEF ClerkSafe, ClerkLin
<1>7. calls[<<c, s>>].stage # "idle" => calls[<<c, s>>].end \in Client
  BY <1>3, ReqLemma DEF TypeOK, Net!NetTypeOK
<1>8. \/ /\ calls[<<c, s>>].stage = "sent" /\ calls'[<<c, s>>].stage = "waiting"
         /\ calls'[<<c, s>>].handler = "running"
         /\ calls'[<<c, s>>].srv = ServerName /\ calls'[<<c, s>>].inst = 1
         /\ calls'[<<c, s>>].reliable = reliable
      \/ /\ \/ calls'[<<c, s>>].stage = "answered"
            \/ /\ calls'[<<c, s>>].stage = "failed" /\ Unreliable
               /\ calls[<<c, s>>].handler # "running"
         /\ calls'[<<c, s>>].handler = calls[<<c, s>>].handler
         /\ calls'[<<c, s>>].srv = calls[<<c, s>>].srv
         /\ calls'[<<c, s>>].inst = calls[<<c, s>>].inst
         /\ calls'[<<c, s>>].reliable = calls[<<c, s>>].reliable
  <2>1. CASE calls[<<c, s>>].stage = "sent"
    <3>1. calls[<<c, s>>].end \in Client /\ calls[<<c, s>>].handler = "none"
      BY <1>6, <1>7, <2>1 DEF RequestInv
    <3>2. /\ enabled[calls[<<c, s>>].end] /\ connections[calls[<<c, s>>].end] = ServerName
          /\ servers[ServerName] = 1 /\ (Unreliable \/ reliable)
      BY <1>4, <3>1 DEF Connected
    <3>3. ServerName # "nil"
      BY DEF ServerName
    <3>4. \/ /\ calls'[<<c, s>>].stage = "waiting" /\ calls'[<<c, s>>].handler = "running"
             /\ calls'[<<c, s>>].srv = ServerName
             /\ calls'[<<c, s>>].inst = servers[ServerName]
             /\ calls'[<<c, s>>].reliable = reliable
          \/ /\ calls'[<<c, s>>].stage = "failed" /\ ~reliable
             /\ calls'[<<c, s>>].handler = calls[<<c, s>>].handler
             /\ calls'[<<c, s>>].srv = calls[<<c, s>>].srv
             /\ calls'[<<c, s>>].inst = calls[<<c, s>>].inst
             /\ calls'[<<c, s>>].reliable = calls[<<c, s>>].reliable
      <4>1. Transport(<<c, s>>)
        BY <1>2
      <4>2. \/ /\ calls'[<<c, s>>].stage = "waiting" /\ calls'[<<c, s>>].handler = "running"
               /\ calls'[<<c, s>>].srv = ServerName
               /\ calls'[<<c, s>>].inst = servers[ServerName]
               /\ calls'[<<c, s>>].reliable = reliable
            \/ /\ calls'[<<c, s>>].stage = "failed"
               /\ \/ ~enabled[calls[<<c, s>>].end]
                  \/ connections[calls[<<c, s>>].end] = "nil"
                  \/ servers[connections[calls[<<c, s>>].end]] = 0
                  \/ ~reliable
               /\ calls'[<<c, s>>].handler = calls[<<c, s>>].handler
               /\ calls'[<<c, s>>].srv = calls[<<c, s>>].srv
               /\ calls'[<<c, s>>].inst = calls[<<c, s>>].inst
               /\ calls'[<<c, s>>].reliable = calls[<<c, s>>].reliable
        BY <1>3, <2>1, <4>1, TransportSlot
      <4>3. QED
        BY <3>2, <3>3, <4>2
    <3>5. QED
      BY <2>1, <3>1, <3>2, <3>4
  <2>2. CASE calls[<<c, s>>].stage = "waiting"
    <3>1. calls[<<c, s>>].handler # "none" /\ calls[<<c, s>>].end \in Client
      BY <1>6, <1>7, <2>2 DEF RequestInv
    <3>2. /\ enabled[calls[<<c, s>>].end] /\ servers[ServerName] = 1
          /\ calls[<<c, s>>].srv = ServerName /\ calls[<<c, s>>].inst = 1
          /\ (Unreliable \/ calls[<<c, s>>].reliable)
      BY <1>4, <1>6, <3>1 DEF Connected, Attended
    <3>3. ~Net!IsServerDead(<<c, s>>)
      BY <3>2 DEF Net!IsServerDead
    <3>4. QED
      BY <1>2, <1>3, <2>2, <3>2, <3>3, TransportSlot
  <2>3. calls[<<c, s>>].stage \in {"sent", "waiting"}
    BY <1>2, <1>3, TransportSlot
  <2>4. QED
    BY <2>1, <2>2, <2>3
<1>9. ASSUME NEW t \in Slot[c] PROVE Attended(c, t)'
  <2>1. CASE t = s
    BY <1>4, <1>6, <1>8, <2>1 DEF Attended, Connected
  <2>2. CASE t # s
    BY <1>4, <1>5, <2>2 DEF ClerkLin, Attended
  <2>3. QED
    BY <2>1, <2>2
<1>10. SeenInv(c)'
  <2>1. ASSUME NEW t \in Slot[c]
        PROVE  /\ calls'[<<c, t>>].reply = calls[<<c, t>>].reply
               /\ calls'[<<c, t>>].handler = "returned" => calls[<<c, t>>].handler = "returned"
    BY <1>5, <1>8
  <2>2. clerk[c].phase = "waiting" => clerk[c].slot \in Slot[c]
    BY <1>6 DEF ClerkInv
  <2>3. QED
    BY <1>5, <1>6, <2>1, <2>2 DEF SeenInv
<1>11. ClerkLin(c)'
  BY <1>4, <1>5, <1>9, <1>10 DEF ClerkLin
<1>12. ASSUME NEW d \in Client, d # c PROVE ClerkLin(d)'
  <2>1. clerk[d].phase = "waiting" => clerk[d].slot \in Slot[d]
    BY <1>3 DEF ClerkSafe, ClerkInv
  <2>2. \A t \in Slot[d] : calls'[<<d, t>>] = calls[<<d, t>>]
    BY <1>5, <1>12
  <2>3. QED
    BY <1>4, <1>5, <2>1, <2>2, OtherClerksLin
<1>13. Connected'
  BY <1>4, <1>5 DEF Connected, netConfig
<1>14. QED
  BY <1>11, <1>12, <1>13, LinSplit

\* Every step keeps LinInv if no end can be disabled.
LEMMA LinStep ==
    ASSUME Disconnectable = {}, IndInv, LinInv, [Next]_vars
    PROVE  LinInv'
<1>1. ASSUME NEW c \in Client, NEW k \in Key, Invoke(c, "get", k, NoValue, 0) PROVE LinInv'
  BY <1>1, InvokeLin, ValueAssumption DEF Version
<1>2. ASSUME NEW c \in Client, NEW k \in Key, NEW v \in Value, NEW n \in PutVersions,
             Invoke(c, "put", k, v, n)
      PROVE  LinInv'
  BY <1>2, InvokeLin, BoundAssumption
<1>3. \A c \in Client, yes \in BOOLEAN : ~Connect(c, yes)
  BY DEF Connect
<1>4. CASE UNCHANGED vars
  <2>1. UNCHANGED <<store, clerk, netConfig, calls, effects, verdict, seen>>
    BY <1>4 DEF vars, history
  <2>2. /\ Connected /\ \A d \in Client : ClerkLin(d)
        /\ \A d \in Client : clerk[d].phase = "waiting" => clerk[d].slot \in Slot[d]
    BY LinSplit, SafeSplit DEF ClerkSafe, ClerkInv
  <2>3. \A d \in Client : ClerkLin(d)'
    BY <2>1, <2>2, OtherClerksLin
  <2>4. Connected'
    BY <2>1, <2>2 DEF Connected, netConfig
  <2>5. QED
    BY <2>3, <2>4, LinSplit
<1>5. QED
  BY <1>1, <1>2, <1>3, <1>4, SendLin, ReturnLin, GetLin, PutLin, TransportLin DEF Next, Handle

\* As long as no end is disabled, the running operation and its requests agree
\* on what was seen, and no handler outlives its call.
THEOREM LinInvariant == ASSUME Disconnectable = {} PROVE Spec => []LinInv
<1>1. LinInv /\ IndInv /\ [Next]_vars => LinInv'
  BY LinStep
<1>2. QED
  BY <1>1, LinInit, IndInvariant, PTL DEF Spec

\* ErrNoKey is final too, also on a resent request, if no end is disabled.
THEOREM NoKeyIsFinal == ASSUME Disconnectable = {} PROVE Spec => []NoKeyHolds
<1>1. LinInv => NoKeyHolds
  BY DEF LinInv
<1>2. QED
  BY <1>1, LinInvariant, PTL

-----------------------------------------------------------------------------
(* The refinement.                                                         *)

\* The operations as the users of the clerks see them.
AbstractOps == [c \in Client |-> AbstractOp(c)]

\* The abstract store is served by the same handlers.
LEMMA SameServer ==
    /\ Abstract!Version = Version /\ Abstract!MakeKVServer = MakeKVServer
    /\ Abstract!NoReply = NoReply /\ Abstract!NoKey = NoKey
    /\ \A st, key : Abstract!Get(st, key) = Get(st, key)
    /\ \A st, key, version : Abstract!PutErr(st, key, version) = PutErr(st, key, version)
    /\ \A st, key, value, version :
         Abstract!PutStore(st, key, value, version) = PutStore(st, key, value, version)
<1>1. /\ Abstract!Version = Version /\ Abstract!MakeKVServer = MakeKVServer
      /\ Abstract!NoReply = NoReply /\ Abstract!NoKey = NoKey
  BY DEF Abstract!Version, Version, Abstract!MakeKVServer, MakeKVServer,
         Abstract!NoReply, NoReply, Abstract!NoKey, NoKey
<1>2. \A st, key : Abstract!Get(st, key) = Get(st, key)
  BY DEF Abstract!Get, Get
<1>3. \A st, key, version : Abstract!PutErr(st, key, version) = PutErr(st, key, version)
  BY DEF Abstract!PutErr, PutErr, Abstract!CurrentVersion, CurrentVersion
<1>4. \A st, key, value, version :
         Abstract!PutStore(st, key, value, version) = PutStore(st, key, value, version)
  BY <1>3 DEF Abstract!PutStore, PutStore, Abstract!UpdateRecord, UpdateRecord,
              Abstract!AddRecord, AddRecord
<1>5. QED
  BY <1>1, <1>2, <1>3, <1>4

\* A step of c changes c's operation only.
LEMMA AbstractStep ==
    ASSUME NEW c \in Client, \A d \in Client : d # c => AbstractOp(d)' = AbstractOp(d)
    PROVE  /\ AbstractOps' = [AbstractOps EXCEPT ![c] = AbstractOp(c)']
           /\ AbstractOps[c] = AbstractOp(c)
           /\ AbstractOp(c)' = AbstractOp(c) => AbstractOps' = AbstractOps
BY DEF AbstractOps

\* The fields of an operation.
LEMMA AbstractFields ==
    ASSUME NEW c \in Client
    PROVE  /\ AbstractOp(c).kind = clerk[c].kind /\ AbstractOp(c).key = clerk[c].key
           /\ AbstractOp(c).value = clerk[c].value /\ AbstractOp(c).version = clerk[c].version
           /\ clerk[c].phase = "returned" =>
                AbstractOp(c).phase = "returned" /\ AbstractOp(c).res = clerk[c].res
           /\ clerk[c].phase # "returned" => AbstractOp(c).res = seen[c]
           /\ clerk[c].phase # "returned" /\ seen[c] = NoReply => AbstractOp(c).phase = "pending"
           /\ clerk[c].phase # "returned" /\ seen[c] # NoReply => AbstractOp(c).phase = "executed"
BY DEF AbstractOp

\* What is left of c's operation stays if clerk and seen do.
LEMMA AbstractStays ==
    ASSUME NEW d \in Client, clerk'[d] = clerk[d], seen'[d] = seen[d]
    PROVE  AbstractOp(d)' = AbstractOp(d)
BY DEF AbstractOp

\* A step that leaves the arguments alone changes phase and result at most.
LEMMA AbstractMoves ==
    ASSUME NEW c \in Client,
           clerk'[c].kind = clerk[c].kind, clerk'[c].key = clerk[c].key,
           clerk'[c].value = clerk[c].value, clerk'[c].version = clerk[c].version
    PROVE  /\ clerk'[c].phase = "returned" =>
                AbstractOp(c)' = [AbstractOp(c) EXCEPT !.phase = "returned", !.res = clerk'[c].res]
           /\ clerk'[c].phase # "returned" /\ seen'[c] # NoReply =>
                AbstractOp(c)' = [AbstractOp(c) EXCEPT !.phase = "executed", !.res = seen'[c]]
<1> DEFINE Op(phase, res) ==
             [kind |-> clerk[c].kind, key |-> clerk[c].key, value |-> clerk[c].value,
              version |-> clerk[c].version, phase |-> phase, res |-> res]
<1>1. \A phase, res :
        [AbstractOp(c) EXCEPT !.phase = phase, !.res = res] = Op(phase, res)
  <2>1. \E phase, res : AbstractOp(c) = Op(phase, res)
    BY Zenon DEF AbstractOp
  <2>2. ASSUME NEW phase, NEW res
        PROVE  [AbstractOp(c) EXCEPT !.phase = phase, !.res = res] = Op(phase, res)
    <3>1. PICK old, oldRes : AbstractOp(c) = Op(old, oldRes)
      BY <2>1
    <3>2. [Op(old, oldRes) EXCEPT !.phase = phase] = Op(phase, oldRes)
      OBVIOUS
    <3>3. [Op(phase, oldRes) EXCEPT !.res = res] = Op(phase, res)
      OBVIOUS
    <3> HIDE DEF Op
    <3>4. [AbstractOp(c) EXCEPT !.phase = phase, !.res = res]
            = [[AbstractOp(c) EXCEPT !.phase = phase] EXCEPT !.res = res]
      OBVIOUS
    <3>5. QED
      BY <3>1, <3>2, <3>3, <3>4
  <2>3. QED
    BY <2>2
<1>2. clerk'[c].phase = "returned" => AbstractOp(c)' = Op("returned", clerk'[c].res)
  BY DEF AbstractOp
<1>3. clerk'[c].phase # "returned" /\ seen'[c] # NoReply =>
        AbstractOp(c)' = Op("executed", seen'[c])
  BY DEF AbstractOp
<1> HIDE DEF Op
<1>4. QED
  BY <1>1, <1>2, <1>3

\* Nothing is invoked, and the store is empty.
LEMMA RefineInit == Init => Abstract!KVInit
<1> SUFFICES ASSUME Init PROVE Abstract!KVInit
  OBVIOUS
<1>1. ASSUME NEW c \in Client
      PROVE  AbstractOp(c) = [kind |-> "none", key |-> NoKey, value |-> NoValue, version |-> 0,
                              phase |-> "returned", res |-> NoReply]
  BY DEF Init, AbstractOp
<1>2. [Abstract!NewOp("none", Abstract!NoKey, NoValue, 0) EXCEPT !.phase = "returned"]
        = [kind |-> "none", key |-> NoKey, value |-> NoValue, version |-> 0,
           phase |-> "returned", res |-> NoReply]
  BY SameServer DEF Abstract!NewOp
<1>3. store = Abstract!MakeKVServer
  BY SameServer DEF Init
<1>4. QED
  BY <1>1, <1>2, <1>3 DEF Abstract!KVInit

\* A call of Get or Put is an invocation.
LEMMA RefineInvoke ==
    ASSUME IndInv, NEW c \in Client, NEW kind \in {"get", "put"}, NEW key \in Key,
           NEW value \in Value, NEW version \in Version,
           kind = "get" => value = NoValue /\ version = 0,
           Invoke(c, kind, key, value, version)
    PROVE  Abstract!Invoke(c)
<1>1. TypeOK
  BY SafeSplit
<1>2. /\ clerk'[c] = [kind |-> kind, key |-> key, value |-> value, version |-> version,
                      id |-> clerk[c].id + 1, phase |-> "loop", requestCount |-> 0,
                      slot |-> NoSlot, res |-> NoReply]
      /\ seen'[c] = NoReply
      /\ \A d \in Client : d # c => clerk'[d] = clerk[d] /\ seen'[d] = seen[d]
      /\ UNCHANGED store /\ clerk[c].phase = "returned"
  BY <1>1 DEF Invoke, TypeOK
<1>3. AbstractOp(c)' = Abstract!NewOp(kind, key, value, version)
  BY <1>2, SameServer DEF AbstractOp, Abstract!NewOp
<1>4. AbstractOps' = [AbstractOps EXCEPT ![c] = Abstract!NewOp(kind, key, value, version)]
  BY <1>2, <1>3, AbstractStays, AbstractStep
<1>5. AbstractOps[c].phase = "returned" /\ AbstractOps'[c] = Abstract!NewOp(kind, key, value, version)
  BY <1>2, <1>4, AbstractFields DEF AbstractOps
<1>6. LET o == AbstractOps'[c]
      IN  o.kind = kind /\ o.key = key /\ o.value = value /\ o.version = version
  BY <1>5 DEF Abstract!NewOp
<1>7. CASE kind = "get"
  <2>1. AbstractOps' = [AbstractOps EXCEPT ![c] = Abstract!NewOp("get", key, NoValue, 0)]
    BY <1>4, <1>7
  <2>2. Abstract!InvokeGet(c, AbstractOps'[c].key)
    BY <1>2, <1>5, <1>6, <2>1 DEF Abstract!InvokeGet, AbstractOps
  <2>3. QED
    BY <1>6, <2>2, SameServer DEF Abstract!Invoke, AbstractOps
<1>8. CASE kind = "put"
  <2>1. AbstractOps' = [AbstractOps EXCEPT ![c] = Abstract!NewOp("put", key, value, version)]
    BY <1>4, <1>8
  <2>2. Abstract!InvokePut(c, AbstractOps'[c].key, AbstractOps'[c].value, AbstractOps'[c].version)
    BY <1>2, <1>5, <1>6, <2>1 DEF Abstract!InvokePut, AbstractOps
  <2>3. QED
    BY <1>6, <2>2, SameServer DEF Abstract!Invoke, AbstractOps
<1>9. QED
  BY <1>7, <1>8

\* A Get that runs at the server is an execution.
LEMMA RefineGet ==
    ASSUME IndInv, LinInv, NEW r \in Req, HandleGet(r)
    PROVE  \E c \in Client : Abstract!Execute(c)
<1>1. PICK c \in Client : \E s \in Slot[c] : r = <<c, s>>
  BY ReqLemma
<1>2. PICK s \in Slot[c] : r = <<c, s>>
  BY <1>1
<1> DEFINE o == calls[<<c, s>>].args
           reply == Get(store, o.key)
<1>3. /\ calls[<<c, s>>].handler = "running" /\ o.kind = "get"
      /\ seen' = [seen EXCEPT ![c] = SeenAfter(c, o, reply)]
      /\ UNCHANGED <<store, clerk>>
  BY <1>2 DEF HandleGet
<1>4. TypeOK
  BY SafeSplit
<1>5. /\ clerk[c].phase = "waiting" /\ o \in Request /\ o.id = clerk[c].id
      /\ clerk[c].kind = "get" /\ o.key = clerk[c].key
  BY <1>3, WaitsFor DEF OfClerk
<1>6. reply \in Reply /\ reply.err \in Err /\ reply # NoReply
  <2>1. reply \in Reply /\ reply.err \in Err
    BY <1>4, <1>5, GetLemma DEF TypeOK, Request
  <2>2. QED
    BY <2>1 DEF NoReply, Err
<1>7. reply = Abstract!Get(store, AbstractOp(c).key)
  BY <1>5, SameServer, AbstractFields
<1> HIDE DEF o, reply
<1>8. seen'[c] = reply /\ \A d \in Client : d # c => seen'[d] = seen[d]
  BY <1>3, <1>4, <1>5 DEF SeenAfter, TypeOK
<1>9. AbstractOp(c)' = [AbstractOp(c) EXCEPT !.phase = "executed", !.res = reply]
  BY <1>3, <1>5, <1>6, <1>8, AbstractMoves
<1>10. AbstractOps' = [AbstractOps EXCEPT ![c] = [AbstractOp(c) EXCEPT !.phase = "executed", !.res = reply]]
  BY <1>3, <1>8, <1>9, AbstractStays, AbstractStep
<1>11. /\ AbstractOps[c].phase # "returned" /\ AbstractOps[c].kind = "get"
       /\ AbstractOps[c] = AbstractOp(c)
  BY <1>5, AbstractFields DEF AbstractOps
<1>12. AbstractOps' = [AbstractOps EXCEPT ![c].phase = "executed",
                                          ![c].res = Abstract!Get(store, AbstractOps[c].key)]
  BY <1>7, <1>10, <1>11 DEF AbstractOps
<1>13. Abstract!Execute(c)
  BY <1>3, <1>11, <1>12 DEF Abstract!Execute, Abstract!Performed, AbstractOps
<1>14. QED
  BY <1>13

\* A Put that runs at the server is an execution, unless an earlier request
\* has performed it: then it changes nothing.
LEMMA RefinePut ==
    ASSUME IndInv, LinInv, NEW r \in Req, HandlePut(r)
    PROVE  \/ \E c \in Client : Abstract!Execute(c)
           \/ UNCHANGED <<store, AbstractOps>>
<1>1. PICK c \in Client : \E s \in Slot[c] : r = <<c, s>>
  BY ReqLemma
<1>2. PICK s \in Slot[c] : r = <<c, s>>
  BY <1>1
<1> DEFINE o == calls[<<c, s>>].args
           err == PutErr(store, o.key, o.version)
           reply == [NoReply EXCEPT !.err = err]
<1>3. /\ calls[<<c, s>>].handler = "running" /\ o.kind = "put"
      /\ seen' = [seen EXCEPT ![c] = SeenAfter(c, o, reply)]
      /\ store' = PutStore(store, o.key, o.value, o.version)
      /\ UNCHANGED clerk
  BY <1>2 DEF HandlePut
<1>4. TypeOK /\ SeenInv(c)
  BY SafeSplit, LinSplit DEF ClerkLin
<1>5. /\ clerk[c].phase = "waiting" /\ o \in Request /\ o.id = clerk[c].id
      /\ clerk[c].kind = "put" /\ o.key = clerk[c].key /\ o.value = clerk[c].value
      /\ o.version = clerk[c].version
  BY <1>3, WaitsFor DEF OfClerk
<1>6. /\ err \in {"OK", "ErrNoKey", "ErrVersion"}
      /\ seen[c].err = "OK" => err = "ErrVersion"
  BY <1>3, PutAnswers
<1>7. /\ err = Abstract!PutErr(store, AbstractOp(c).key, AbstractOp(c).version)
      /\ store' = Abstract!PutStore(store, AbstractOp(c).key, AbstractOp(c).value,
                                    AbstractOp(c).version)
  BY <1>3, <1>5, SameServer, AbstractFields
<1>8. /\ reply = [value |-> NoValue, version |-> 0, err |-> err]
      /\ reply # NoReply
  BY <1>6 DEF NoReply
<1>9. err # "OK" => store' = store
  BY <1>3 DEF PutStore
<1> HIDE DEF o, reply, err
<1>10. /\ seen'[c] = IF seen[c].err = "OK" THEN seen[c] ELSE reply
       /\ \A d \in Client : d # c => seen'[d] = seen[d]
  BY <1>3, <1>4, <1>5 DEF SeenAfter, TypeOK
<1>11. CASE seen[c].err = "OK"
  <2>1. \A d \in Client : AbstractOp(d)' = AbstractOp(d)
    BY <1>3, <1>10, <1>11, AbstractStays
  <2>2. AbstractOps' = AbstractOps
    BY <2>1, AbstractStep
  <2>3. QED
    BY <1>6, <1>9, <1>11, <2>2
<1>12. CASE seen[c].err # "OK"
  <2>1. /\ AbstractOps[c] = AbstractOp(c) /\ AbstractOp(c).phase # "returned"
        /\ AbstractOp(c).kind = "put" /\ AbstractOp(c).res = seen[c]
    BY <1>5, AbstractFields DEF AbstractOps
  <2>2. reply = [seen[c] EXCEPT !.err = err]
    <3>1. seen[c] \in Reply \cup {NoReply} /\ seen[c].value = NoValue /\ seen[c].version = 0
      BY <1>4, <1>5, PartTypes DEF SeenInv
    <3>2. QED
      BY <1>8, <3>1 DEF Reply, NoReply
  <2>3. AbstractOp(c)' = [AbstractOp(c) EXCEPT !.phase = "executed", !.res = reply]
    <3>1. clerk'[c] = clerk[c] /\ clerk'[c].phase # "returned" /\ seen'[c] = reply
      BY <1>3, <1>5, <1>10, <1>12
    <3>2. QED
      BY <1>8, <3>1, AbstractMoves
  <2>4. AbstractOps' = [AbstractOps EXCEPT ![c] =
                          [AbstractOp(c) EXCEPT !.phase = "executed", !.res = reply]]
    BY <1>3, <1>10, <2>3, AbstractStays, AbstractStep
  <2>5. AbstractOps' = [AbstractOps EXCEPT ![c].phase = "executed", ![c].res.err = err]
    BY <2>1, <2>2, <2>4 DEF AbstractOps, AbstractOp
  <2>6. Abstract!Execute(c)
    BY <1>7, <1>12, <2>1, <2>5 DEF Abstract!Execute, Abstract!Performed, AbstractOps
  <2>7. QED
    BY <2>6
<1>13. QED
  BY <1>11, <1>12

\* Call's return is the operation's return if it was answered: with what was
\* seen, or with ErrMaybe for a Put that was resent.
LEMMA RefineReturn ==
    ASSUME IndInv, LinInv, NEW c \in Client, CallReturned(c)
    PROVE  Abstract!Return(c) \/ UNCHANGED <<store, AbstractOps>>
<1> DEFINE s == clerk[c].slot
           reply == calls[<<c, s>>].reply
           err == ClerkErr(c, reply)
<1>1. /\ s \in Slot[c] /\ clerk[c].phase = "waiting"
      /\ UNCHANGED <<store, seen>>
      /\ \A d \in Client : d # c => clerk'[d] = clerk[d]
      /\ clerk'[c].kind = clerk[c].kind /\ clerk'[c].key = clerk[c].key
      /\ clerk'[c].value = clerk[c].value /\ clerk'[c].version = clerk[c].version
  BY ClerkReturns
<1>2. \/ /\ Net!Ok(<<c, s>>) /\ clerk'[c].phase = "returned"
         /\ clerk'[c].res = [reply EXCEPT !.err = err] /\ err \in Err /\ reply \in Reply
      \/ ~Net!Ok(<<c, s>>) /\ clerk'[c].phase = "loop"
  BY ClerkReturns
<1>3. /\ TypeOK /\ SeenInv(c) /\ ClerkSafe(c)
  BY SafeSplit, LinSplit DEF ClerkLin
<1>4. \A d \in Client : d # c => AbstractOp(d)' = AbstractOp(d)
  BY <1>1, AbstractStays
<1>5. CASE ~Net!Ok(<<c, s>>) /\ clerk'[c].phase = "loop"
  <2>1. AbstractOp(c)' = AbstractOp(c)
    BY <1>1, <1>5 DEF AbstractOp
  <2>2. QED
    BY <1>1, <1>4, <2>1, AbstractStep
<1>6. CASE /\ Net!Ok(<<c, s>>) /\ clerk'[c].phase = "returned"
           /\ clerk'[c].res = [reply EXCEPT !.err = err] /\ err \in Err /\ reply \in Reply
  <2>1. calls[<<c, s>>].handler = "returned"
    BY <1>1, <1>3, <1>6 DEF ClerkSafe, RequestInv, Net!Ok
  <2>2. /\ clerk[c].requestCount > 0 => Unreliable
        /\ \/ seen[c] = reply
           \/ /\ clerk[c].kind = "put" /\ clerk[c].requestCount > 0
              /\ seen[c].err = "OK" /\ reply = [NoReply EXCEPT !.err = "ErrVersion"]
              /\ seen[c].value = NoValue /\ seen[c].version = 0
    BY <1>1, <1>3, <2>1 DEF SeenInv
  <2>3. clerk[c].requestCount \in 0..2 /\ seen[c] \in Reply \cup {NoReply}
    BY <1>3, PartTypes
  <2>4. seen[c] # NoReply /\ seen[c] \in Reply
    BY <1>6, <2>2, <2>3, NoReplyFields DEF Reply, Err
  <2>5. /\ AbstractOps[c] = AbstractOp(c) /\ AbstractOp(c).phase = "executed"
        /\ AbstractOp(c).kind = clerk[c].kind /\ AbstractOp(c).res = seen[c]
    BY <1>1, <2>4, AbstractFields DEF AbstractOps
  <2>6. err \in Abstract!Reported(c)
    <3>1. CASE seen[c] = reply
      BY <2>2, <2>3, <2>5, <3>1 DEF ClerkErr, Abstract!Reported, AbstractOps
    <3>2. CASE /\ clerk[c].kind = "put" /\ clerk[c].requestCount > 0
               /\ seen[c].err = "OK" /\ reply = [NoReply EXCEPT !.err = "ErrVersion"]
      <4>1. reply.err = "ErrVersion"
        BY <3>2 DEF NoReply
      <4>2. err = "ErrMaybe"
        BY <2>3, <3>2, <4>1 DEF ClerkErr
      <4>3. QED
        BY <2>2, <2>5, <3>2, <4>2 DEF Abstract!Reported, AbstractOps
    <3>3. QED
      BY <2>2, <3>1, <3>2
  <2> HIDE DEF err, reply
  <2>7. [reply EXCEPT !.err = err] = [seen[c] EXCEPT !.err = err]
    BY <1>6, <2>2, <2>4 DEF NoReply, Reply
  <2>8. AbstractOp(c)' = [AbstractOp(c) EXCEPT !.phase = "returned",
                                               !.res = [seen[c] EXCEPT !.err = err]]
    BY <1>1, <1>6, <2>7, AbstractMoves
  <2>9. AbstractOps' = [AbstractOps EXCEPT ![c] =
            [AbstractOp(c) EXCEPT !.phase = "returned", !.res = [seen[c] EXCEPT !.err = err]]]
    BY <1>4, <2>8, AbstractStep
  <2>10. AbstractOps' = [AbstractOps EXCEPT ![c].phase = "returned", ![c].res.err = err]
    BY <2>5, <2>9 DEF AbstractOps, AbstractOp
  <2>11. Abstract!Return(c)
    BY <1>1, <2>5, <2>6, <2>10 DEF Abstract!Return, AbstractOps
  <2>12. QED
    BY <2>11
<1>7. QED
  BY <1>2, <1>5, <1>6

\* Without disconnection every step is one of VersionedKV's, or changes
\* nothing that its users see.
LEMMA RefineStep ==
    ASSUME Disconnectable = {}, IndInv, LinInv, [Next]_vars
    PROVE  \/ \E c \in Client : Abstract!Invoke(c) \/ Abstract!Execute(c) \/ Abstract!Return(c)
           \/ UNCHANGED <<store, AbstractOps>>
<1>1. ASSUME UNCHANGED <<clerk, seen>> PROVE AbstractOps' = AbstractOps
  BY <1>1 DEF AbstractOps, AbstractOp
<1>2. CASE UNCHANGED vars
  BY <1>1, <1>2 DEF vars, history
<1>3. ASSUME NEW c \in Client, NEW k \in Key, Invoke(c, "get", k, NoValue, 0)
      PROVE  Abstract!Invoke(c)
  BY <1>3, ValueAssumption, RefineInvoke DEF Version
<1>4. ASSUME NEW c \in Client, NEW k \in Key, NEW v \in Value, NEW n \in PutVersions,
             Invoke(c, "put", k, v, n)
      PROVE  Abstract!Invoke(c)
  <2>1. n \in Version
    BY BoundAssumption
  <2>2. QED
    BY <1>4, <2>1, RefineInvoke
<1>5. ASSUME NEW c \in Client, SendRequest(c) PROVE UNCHANGED <<store, AbstractOps>>
  <2>1. \A d \in Client :
          /\ clerk'[d].kind = clerk[d].kind /\ clerk'[d].key = clerk[d].key
          /\ clerk'[d].value = clerk[d].value /\ clerk'[d].version = clerk[d].version
          /\ clerk'[d].res = clerk[d].res
          /\ clerk'[d].phase = "returned" <=> clerk[d].phase = "returned"
    <3>1. clerk \in [Client -> ClerkRec]
      BY SafeSplit DEF TypeOK
    <3>2. QED
      BY <1>5, <3>1 DEF SendRequest, ClerkRec
  <2>2. UNCHANGED <<store, seen>>
    BY <1>5 DEF SendRequest, history
  <2>3. \A d \in Client : AbstractOp(d)' = AbstractOp(d)
    <3> SUFFICES ASSUME NEW d \in Client PROVE AbstractOp(d)' = AbstractOp(d)
      OBVIOUS
    <3>1. CASE clerk[d].phase = "returned"
      BY <2>1, <3>1 DEF AbstractOp
    <3>2. CASE clerk[d].phase # "returned"
      BY <2>1, <2>2, <3>2 DEF AbstractOp
    <3>3. QED
      BY <3>1, <3>2
  <2>4. QED
    BY <2>2, <2>3 DEF AbstractOps
<1>6. ASSUME NEW c \in Client, CallReturned(c)
      PROVE  Abstract!Return(c) \/ UNCHANGED <<store, AbstractOps>>
  BY <1>6, RefineReturn
<1>7. ASSUME NEW r \in Req, Handle(r)
      PROVE  (\E c \in Client : Abstract!Execute(c)) \/ UNCHANGED <<store, AbstractOps>>
  BY <1>7, RefineGet, RefinePut DEF Handle
<1>8. ASSUME NEW r \in Req, Transport(r) PROVE UNCHANGED <<store, AbstractOps>>
  BY <1>1, <1>8 DEF Transport, history
<1>9. \A c \in Client, yes \in BOOLEAN : ~Connect(c, yes)
  BY DEF Connect
<1>10. CASE Next
  BY <1>3, <1>4, <1>5, <1>6, <1>7, <1>8, <1>9, <1>10 DEF Next
<1>11. QED
  BY <1>2, <1>10

\* Clerks, network and server implement the linearizable versioned store, as
\* long as the tester disables no end: resent requests, lost replies and
\* handlers of lost requests included.
THEOREM Refinement == ASSUME Disconnectable = {} PROVE Spec => Linearizable
<1>1. IndInv /\ LinInv /\ [Next]_vars => [Abstract!KVNext]_(Abstract!kvVars)
  <2> SUFFICES ASSUME IndInv, LinInv, [Next]_vars
               PROVE  [Abstract!KVNext]_(Abstract!kvVars)
    OBVIOUS
  <2>1. QED
    BY RefineStep DEF Abstract!KVNext, Abstract!kvVars, AbstractOps
<1>2. QED
  BY <1>1, RefineInit, IndInvariant, LinInvariant, PTL
  DEF Spec, Linearizable, Abstract!KVSpec
=============================================================================
