------------------------------ MODULE KVSystem ------------------------------
(***************************************************************************)
(* kvsrv1 as a whole: Clerks (kvsrv1/client.go) that resend their requests *)
(* over the network of LabRPC until one is answered, and the server's      *)
(* handlers (KVServer).  Each clerk has one ClientEnd, as Clnt.makeEnd     *)
(* makes it; the end carries the clerk's name.                             *)
(*                                                                         *)
(* A clerk has one operation at a time, but a handler of an earlier        *)
(* request may still be running, of this operation or of one that has      *)
(* returned, once its caller has given it up: see GiveUp in LabRPC.        *)
(***************************************************************************)
EXTENDS KVServer

CONSTANTS Client,         \* the clerks
          Unreliable,     \* the network may lose requests and replies
          Disconnectable, \* the clerks whose ends the tester disables and enables
          Slot,           \* bound: requests of one clerk that are in flight
          MaxOps,         \* bound: operations each clerk makes
          PutVersions     \* bound: versions a Put may ask for

ASSUME FlagAssumption == Unreliable \in BOOLEAN /\ Disconnectable \subseteq Client
ASSUME BoundAssumption == (\A c \in Client : Slot[c] # {}) /\ MaxOps \in Nat /\ PutVersions \subseteq Version

VARIABLES store, clerk,
          enabled, connections, servers, made, reliable, done, calls

\* History, which no action reads: for each operation of each clerk, how often
\* a Put took effect and what the Put returned; and for the operation that
\* is running, what its latest execution saw.
VARIABLES effects, verdict, seen

netConfig == <<enabled, connections, servers, made, reliable, done>>
history == <<effects, verdict, seen>>
vars == <<store, clerk, netConfig, calls, history>>

ServerName == "kvserver"
NoSlot == "nil"
NoReply == [value |-> NoValue, version |-> 0, err |-> "None"]
OpId == 1..MaxOps

\* A request: rpc.GetArgs or rpc.PutArgs, and (history) the operation it is of.
Request == [kind : {"get", "put"}, key : Key, value : Value, version : Version, id : OpId]

NoKey == CHOOSE k \in Key : TRUE
NoRequest == [kind |-> "none", key |-> NoKey, value |-> NoValue, version |-> 0, id |-> 0]

\* A clerk has one request out, and handlers of requests it has given up.
Req == UNION {{c} \X Slot[c] : c \in Client}
AnySlot == UNION {Slot[c] : c \in Client}

Net == INSTANCE LabRPC WITH
         End <- Client, Server <- {ServerName}, Req <- Req,
         Args <- Request, Reply <- Reply,
         NoEnd <- "nil", NoServer <- "nil", NoArgs <- NoRequest, NoReplyMsg <- NoReply

(***************************************************************************)
(* kind..version - the arguments of the operation                          *)
(* phase  - loop (about to Call), waiting (in Call) or returned            *)
(* requestCount - counts to 2, which is all that Put asks of it            *)
(* slot   - the slot of the request it waits for                           *)
(* res    - what the operation returned                                    *)
(***************************************************************************)
ClerkRec == [kind : {"none", "get", "put"}, key : Key, value : Value, version : Version,
             id : 0..MaxOps, phase : {"loop", "waiting", "returned"},
             requestCount : 0..2, slot : AnySlot \cup {NoSlot}, res : Reply \cup {NoReply}]

TypeOK ==
    /\ IsStore(store)
    /\ clerk \in [Client -> ClerkRec]
    /\ Net!NetTypeOK
    /\ effects \in [Client -> [OpId -> Nat]]
    /\ verdict \in [Client -> [OpId -> Err \cup {"None"}]]
    /\ seen \in [Client -> Reply \cup {NoReply}]

Init ==
    /\ store = MakeKVServer
    /\ clerk = [c \in Client |->
         [kind |-> "none", key |-> NoKey, value |-> NoValue, version |-> 0, id |-> 0,
          phase |-> "returned", requestCount |-> 0, slot |-> NoSlot,
          res |-> NoReply]]
    /\ enabled = [c \in Client |-> TRUE]
    /\ connections = [c \in Client |-> ServerName]
    /\ servers = [s \in {ServerName} |-> 1]
    /\ made = 1
    /\ reliable = ~Unreliable
    /\ done = FALSE
    /\ calls = [r \in Req |-> Net!FreeCall]
    /\ effects = [c \in Client |-> [i \in OpId |-> 0]]
    /\ verdict = [c \in Client |-> [i \in OpId |-> "None"]]
    /\ seen = [c \in Client |-> NoReply]

-----------------------------------------------------------------------------
(* The Clerk.                                                              *)

\* Get or Put is called.
Invoke(c, kind, key, value, version) ==
    /\ clerk[c].phase = "returned"
    /\ clerk[c].id < MaxOps
    /\ clerk' = [clerk EXCEPT ![c] =
         [kind |-> kind, key |-> key, value |-> value, version |-> version,
          id |-> @.id + 1, phase |-> "loop", requestCount |-> 0, slot |-> NoSlot,
          res |-> NoReply]]
    /\ seen' = [seen EXCEPT ![c] = NoReply]
    /\ UNCHANGED <<store, netConfig, calls, effects, verdict>>

\* The loop sends the request, again if need be.
SendRequest(c) ==
    /\ clerk[c].phase = "loop"
    /\ \E s \in Slot[c] :
         /\ Net!Call(<<c, s>>, c,
              [kind |-> clerk[c].kind, key |-> clerk[c].key, value |-> clerk[c].value,
               version |-> clerk[c].version, id |-> clerk[c].id])
         /\ clerk' = [clerk EXCEPT ![c].phase = "waiting", ![c].slot = s]
    /\ UNCHANGED <<store, history>>

\* Faulty: forgets that the request was resent.
ClerkErrPlain(c, reply) == reply.err

\* What Put makes of the server's error.
ClerkErr(c, reply) ==
    IF clerk[c].kind = "put" /\ reply.err = "ErrVersion" /\ clerk[c].requestCount >= 1
    THEN "ErrMaybe" ELSE reply.err

\* Faulty: waits for an answer that was lost.
CallReturnedNoRetry(c) ==
    LET r == <<c, clerk[c].slot>>
        err == ClerkErr(c, calls[r].reply)
    IN  /\ clerk[c].phase = "waiting"
        /\ Net!Ok(r)
        /\ Net!Return(r)
        /\ clerk' = [clerk EXCEPT ![c].phase = "returned", ![c].slot = NoSlot,
                                  ![c].res = [calls[r].reply EXCEPT !.err = err]]
        /\ UNCHANGED <<store, history>>

\* Call returned: the operation returns if it was answered, else it loops.
CallReturned(c) ==
    LET r == <<c, clerk[c].slot>>
        err == ClerkErr(c, calls[r].reply)
        count == IF clerk[c].requestCount < 2 THEN clerk[c].requestCount + 1 ELSE 2
    IN  /\ clerk[c].phase = "waiting"
        /\ Net!Return(r)
        /\ \/ /\ Net!Ok(r)
              /\ clerk' = [clerk EXCEPT ![c].phase = "returned", ![c].slot = NoSlot,
                                        ![c].requestCount = count,
                                        ![c].res = [calls[r].reply EXCEPT !.err = err]]
              /\ verdict' = IF clerk[c].kind = "put"
                            THEN [verdict EXCEPT ![c][clerk[c].id] = err] ELSE verdict
           \/ /\ ~Net!Ok(r)
              /\ clerk' = [clerk EXCEPT ![c].phase = "loop", ![c].slot = NoSlot,
                                        ![c].requestCount = count]
              /\ UNCHANGED verdict
        /\ UNCHANGED <<store, effects, seen>>

-----------------------------------------------------------------------------
(* The server.                                                             *)

\* What c's running operation has seen, once one of its requests is executed
\* with the given reply: the Put that took effect counts, else the latest.
SeenAfter(c, args, reply) ==
    IF \/ clerk[c].phase = "returned" \/ clerk[c].id # args.id
       \/ args.kind = "put" /\ seen[c].err = "OK"
    THEN seen[c] ELSE reply

HandleGet(r) ==
    LET args == calls[r].args
        reply == Get(store, args.key)
    IN  /\ calls[r].handler = "running" /\ args.kind = "get"
        /\ Net!Dispatch(r, reply)
        /\ seen' = [seen EXCEPT ![r[1]] = SeenAfter(r[1], args, reply)]
        /\ UNCHANGED <<store, clerk, effects, verdict>>

HandlePut(r) ==
    LET args == calls[r].args
        reply == [NoReply EXCEPT !.err = PutErr(store, args.key, args.version)]
    IN  /\ calls[r].handler = "running" /\ args.kind = "put"
        /\ Net!Dispatch(r, reply)
        /\ store' = PutStore(store, args.key, args.value, args.version)
        /\ effects' = IF reply.err = "OK"
                      THEN [effects EXCEPT ![r[1]][args.id] = @ + 1] ELSE effects
        /\ seen' = [seen EXCEPT ![r[1]] = SeenAfter(r[1], args, reply)]
        /\ UNCHANGED <<clerk, verdict>>

-----------------------------------------------------------------------------
(* The network and the tester.                                             *)

Transport(r) ==
    /\ Net!ProcessReq(r) \/ Net!GiveUp(r) \/ Net!Answer(r)
    /\ UNCHANGED <<store, clerk, history>>

Connect(c, yes) ==
    /\ c \in Disconnectable
    /\ enabled[c] # yes
    /\ Net!Enable(c, yes)
    /\ UNCHANGED <<store, clerk, history>>

Handle(r) == HandleGet(r) \/ HandlePut(r)

Next ==
    \/ \E c \in Client :
         \/ \E k \in Key : Invoke(c, "get", k, NoValue, 0)
         \/ \E k \in Key, v \in Value, n \in PutVersions : Invoke(c, "put", k, v, n)
         \/ SendRequest(c)
         \/ CallReturned(c)
         \/ \E yes \in BOOLEAN : Connect(c, yes)
    \/ \E r \in Req : Handle(r) \/ Transport(r)

Spec == Init /\ [][Next]_vars

\* Goroutines run and handlers return; a request that is sent again and again
\* is delivered some time, and so is a reply: each is lost one time in ten.
Arrives(r) == Transport(r) /\ calls'[r].stage = "waiting"
Answered(r) == Transport(r) /\ calls'[r].stage = "answered"

Fairness ==
    /\ \A c \in Client : WF_vars(SendRequest(c)) /\ WF_vars(CallReturned(c))
    /\ \A r \in Req :
         /\ WF_vars(Handle(r)) /\ WF_vars(Transport(r))
         /\ SF_vars(Arrives(r)) /\ SF_vars(Answered(r))

FairSpec == Spec /\ Fairness

-----------------------------------------------------------------------------
(* Properties.                                                             *)

\* A Put is performed at most once, however often its request is resent and
\* however late an abandoned handler runs.
AtMostOnce == \A c \in Client, i \in OpId : effects[c][i] <= 1

\* What Put returned stays true for ever: OK means that it took effect, and
\* ErrVersion that it did not and never will ("the Put was definitely not
\* performed at the server").  Abandoned handlers do not change that.
VerdictHolds ==
    \A c \in Client, i \in OpId :
        /\ verdict[c][i] = "ErrVersion" => effects[c][i] = 0
        /\ verdict[c][i] = "OK" => effects[c][i] = 1

\* As long as no end is disabled, ErrNoKey is as final as ErrVersion, also on
\* a resent request, for which Put does not turn it into ErrMaybe.
NoKeyHolds ==
    \A c \in Client, i \in OpId : verdict[c][i] = "ErrNoKey" => effects[c][i] = 0

-----------------------------------------------------------------------------
(* What the proofs need: the inductive invariant behind AtMostOnce and     *)
(* VerdictHolds, and what holds as well if no end is ever disabled.        *)

\* Put took effect, so the key has moved past the version it asked for.
Overtaken(c, o) ==
    o.kind = "put" /\ effects[c][o.id] >= 1 => o.version < CurrentVersion(store, o.key)

\* o is (a request of) the operation that c has called last.
OfClerk(c, o) ==
    /\ o.kind = clerk[c].kind /\ o.key = clerk[c].key
    /\ o.value = clerk[c].value /\ o.version = clerk[c].version

\* A free slot has a request whose id is 0, which is in no OpId.
RequestInv(c, s) ==
    LET call == calls[<<c, s>>]
        o == call.args
    IN  /\ call.stage # "idle" => /\ clerk[c].phase = "waiting" /\ clerk[c].slot = s
                                  /\ o.id = clerk[c].id
        /\ call.stage # "idle" \/ call.handler # "none" => o \in Request
        /\ call.stage = "idle" => call.handler # "returned"
        /\ call.stage = "sent" => call.handler = "none"
        /\ call.stage = "waiting" => call.handler # "none"
        /\ call.stage = "answered" => call.handler = "returned"
        /\ o.id <= clerk[c].id
        /\ o.id \in OpId /\ o.id = clerk[c].id => OfClerk(c, o)
        /\ o.id \in OpId => Overtaken(c, o)
        /\ call.handler = "returned" => call.reply.err \in Err
        /\ call.handler = "returned" /\ o.kind = "put" /\ call.reply.err = "OK"
             => effects[c][o.id] >= 1

\* All requests of an operation are the same.
SameRequests ==
    \A c \in Client : \A s, t \in Slot[c] :
        calls[<<c, s>>].args.id = calls[<<c, t>>].args.id
            => calls[<<c, s>>].args = calls[<<c, t>>].args

\* Before the first request has returned there is no other one, and the Put
\* has taken effect only if that request says so.
FirstRequest(c) ==
    clerk[c].phase # "returned" /\ clerk[c].requestCount = 0 =>
        /\ \A s \in Slot[c] : calls[<<c, s>>].args.id = clerk[c].id
              => clerk[c].phase = "waiting" /\ clerk[c].slot = s
        /\ effects[c][clerk[c].id] >= 1 =>
             /\ clerk[c].phase = "waiting"
             /\ calls[<<c, clerk[c].slot>>].handler = "returned"
             /\ calls[<<c, clerk[c].slot>>].reply.err = "OK"

ClerkInv(c) ==
    /\ clerk[c].phase = "waiting" =>
         clerk[c].slot \in Slot[c] /\ calls[<<c, clerk[c].slot>>].stage # "idle"
    /\ clerk[c].phase # "returned" =>
         clerk[c].kind # "none" /\ clerk[c].id \in OpId /\ verdict[c][clerk[c].id] = "None"
    /\ clerk[c].id \in OpId => Overtaken(c, clerk[c])
    /\ \A i \in OpId : i > clerk[c].id => effects[c][i] = 0 /\ verdict[c][i] = "None"
    /\ FirstRequest(c)

\* After ErrVersion nothing is left that could perform the Put.
Final(c, i) ==
    verdict[c][i] = "ErrVersion" => \A s \in Slot[c] : calls[<<c, s>>].args.id # i

\* The inductive invariant.
IndInv ==
    /\ TypeOK
    /\ \A c \in Client : ClerkInv(c) /\ \A s \in Slot[c] : RequestInv(c, s)
    /\ SameRequests
    /\ AtMostOnce /\ VerdictHolds
    /\ \A c \in Client, i \in OpId : Final(c, i)

\* No end is disabled, so no caller gives up: a request fails only because the
\* network lost it or its reply.
Connected ==
    /\ ~done /\ (Unreliable \/ reliable)
    /\ servers[ServerName] = 1
    /\ \A c \in Client : enabled[c] /\ connections[c] = ServerName

\* ... and no handler outlives its call.
Attended(c, s) ==
    LET call == calls[<<c, s>>]
    IN  /\ call.stage = "idle" => call.args.id = 0 /\ call.handler = "none"
        /\ call.stage = "failed" => call.handler # "running" /\ Unreliable
        /\ call.handler # "none" => /\ call.srv = ServerName /\ call.inst = 1
                                    /\ Unreliable \/ call.reliable

\* What the operation has seen so far is what its latest request returned,
\* unless an earlier one has performed it.
SeenInv(c) ==
    /\ clerk[c].phase # "returned" =>
         /\ clerk[c].requestCount > 0 => Unreliable
         /\ seen[c] # NoReply => seen[c].err \in Err
         /\ clerk[c].kind = "put" =>
              /\ seen[c].value = NoValue /\ seen[c].version = 0
              /\ seen[c].err = "OK" <=> effects[c][clerk[c].id] >= 1
    /\ clerk[c].phase = "waiting" /\ calls[<<c, clerk[c].slot>>].handler = "returned" =>
         LET reply == calls[<<c, clerk[c].slot>>].reply
         IN  \/ seen[c] = reply
             \/ /\ clerk[c].kind = "put" /\ clerk[c].requestCount > 0
                /\ seen[c].err = "OK" /\ reply = [NoReply EXCEPT !.err = "ErrVersion"]

\* The inductive invariant, together with IndInv, if Disconnectable is empty.
LinInv ==
    /\ Connected
    /\ NoKeyHolds
    /\ \A c \in Client : SeenInv(c) /\ \A s \in Slot[c] : Attended(c, s)

-----------------------------------------------------------------------------

\* The Clerks' loops return: Get "keeps trying forever in the face of all
\* other errors".  Whatever was lost, and however often the clerk was cut off
\* before, an operation returns once its end stays enabled.
OpReturns == \A c \in Client : <>[]enabled[c] => []<>(clerk[c].phase = "returned")

\* The operation of c as the users of the clerk see it.
AbstractOp(c) ==
    [kind |-> clerk[c].kind, key |-> clerk[c].key, value |-> clerk[c].value,
     version |-> clerk[c].version,
     phase |-> IF clerk[c].phase = "returned" THEN "returned"
               ELSE IF seen[c] = NoReply THEN "pending" ELSE "executed",
     res |-> IF clerk[c].phase = "returned" THEN clerk[c].res ELSE seen[c]]

Abstract == INSTANCE VersionedKV WITH op <- [c \in Client |-> AbstractOp(c)]

\* As long as no end is disabled, clerks, network and server together are the
\* linearizable store of VersionedKV: a retried operation looks like one that
\* was executed once, between its call and its return.
Linearizable == Abstract!KVSpec
=============================================================================
