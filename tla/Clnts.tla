------------------------------- MODULE Clnts -------------------------------
(***************************************************************************)
(* tester1/clnts.go: the clients of a test, over the network of LabRPC.    *)
(* Each clerk has a Clnt, which makes an end to a server when it first     *)
(* calls that server, and which the tester connects, disconnects and       *)
(* deletes while calls are in flight.  Config.Cleanup (tester1/config.go)  *)
(* takes the clients down, then the network.  Handlers return anything, or *)
(* hang.                                                                   *)
(*                                                                         *)
(* An end's name is the client and the server it was made for: Randstring  *)
(* makes names that do not collide, and a Clnt makes one end per server.   *)
(* The loops over a client's ends are one step: they hold its mutex, and a *)
(* request looks at one end only.                                          *)
(***************************************************************************)
EXTENDS LabRPC

CONSTANTS Clnt,           \* the clients a test may make
          MaxServers      \* bound: how many *Server are made

ASSUME EndAssumption == End = Clnt \X Server

VARIABLES clnts,          \* the clients made so far
          clerks,         \* Clnts.clerks, {} for nil
          ends,           \* clnt.ends of all clients; entries are never taken out
          srvs,           \* clnt.srvs; nil allows every server, so it is Server
          phase           \* how far Config.Cleanup is

\* History, which no action reads: the ends that were deleted, those ConnectTo
\* left enabled although their servers are not in srvs any more, and whether
\* DeleteEnd met a name the network does not know.
VARIABLES deleted, stale, fatal

history == <<deleted, stale, fatal>>
clntVars == <<clnts, clerks, ends, srvs, phase, history>>
vars == <<netVars, clntVars>>

EndsOf(c) == {e \in ends : e[1] = c}

TypeOK ==
    /\ NetTypeOK
    /\ clnts \subseteq Clnt /\ clerks \subseteq clnts
    /\ ends \subseteq clnts \X Server
    /\ srvs \in [Clnt -> SUBSET Server]
    /\ phase \in {"running", "clnts", "net"}
    /\ deleted \subseteq ends /\ stale \subseteq ends /\ fatal \in BOOLEAN

\* MakeConfig, before any server is started.
Init ==
    /\ MakeNetwork
    /\ clnts = {} /\ clerks = {} /\ ends = {}
    /\ srvs = [c \in Clnt |-> {}]
    /\ phase = "running"
    /\ deleted = {} /\ stale = {} /\ fatal = FALSE

-----------------------------------------------------------------------------

\* After cleanup clerks is nil, and a write to it panics.
MakeClientTo(c, to) ==
    /\ phase = "running"
    /\ c \notin clnts
    /\ clnts' = clnts \cup {c}
    /\ clerks' = clerks \cup {c}
    /\ srvs' = [srvs EXCEPT ![c] = to]
    /\ UNCHANGED <<netVars, ends, phase, history>>

AllowedL(c, s) == s \in srvs[c]

\* Faulty: enables every end.
MakeEndEnabled(c, s) ==
    /\ c \in clnts /\ <<c, s>> \notin ends
    /\ ends' = ends \cup {<<c, s>>}
    /\ connections' = [connections EXCEPT ![<<c, s>>] = s]
    /\ enabled' = [enabled EXCEPT ![<<c, s>>] = TRUE]
    /\ UNCHANGED <<servers, made, reliable, done, calls, clnts, clerks, srvs, phase, history>>

\* The first call to s makes the end; nobody knows its name before that.
MakeEnd(c, s) ==
    /\ c \in clnts /\ <<c, s>> \notin ends
    /\ ends' = ends \cup {<<c, s>>}
    /\ connections' = [connections EXCEPT ![<<c, s>>] = s]
    /\ enabled' = [enabled EXCEPT ![<<c, s>>] = AllowedL(c, s)]
    /\ UNCHANGED <<servers, made, reliable, done, calls, clnts, clerks, srvs, phase, history>>

CallServer(r, e, args) ==
    /\ e \in ends
    /\ Call(r, e, args)
    /\ UNCHANGED clntVars

\* Enable of a deleted end's name puts it back into rn.enabled.
EnableEnds(E, yes) ==
    /\ enabled' = [e \in End |-> IF e \in E THEN yes ELSE enabled[e]]
    /\ UNCHANGED <<connections, servers, made, reliable, done, calls>>

ConnectAll(c) ==
    /\ c \in clnts
    /\ EnableEnds(EndsOf(c), TRUE)
    /\ srvs' = [srvs EXCEPT ![c] = Server]
    /\ stale' = stale \ EndsOf(c)
    /\ UNCHANGED <<clnts, clerks, ends, phase, deleted, fatal>>

\* Enables ends to the given servers, and leaves the others as they are.
ConnectTo(c, to) ==
    /\ c \in clnts
    /\ EnableEnds({e \in EndsOf(c) : e[2] \in to}, TRUE)
    /\ srvs' = [srvs EXCEPT ![c] = to]
    /\ stale' = (stale \ EndsOf(c)) \cup {e \in EndsOf(c) : e[2] \notin to /\ enabled[e]}
    /\ UNCHANGED <<clnts, clerks, ends, phase, deleted, fatal>>

\* srvs is left alone: an end to s that is made later is enabled.
Disconnect(c, s) ==
    /\ c \in clnts
    /\ EnableEnds({<<c, s>>} \cap ends, FALSE)
    /\ stale' = stale \ {<<c, s>>}
    /\ UNCHANGED <<clnts, clerks, ends, srvs, phase, deleted, fatal>>

DisconnectAll(c) ==
    /\ c \in clnts
    /\ EnableEnds(EndsOf(c), FALSE)
    /\ srvs' = [srvs EXCEPT ![c] = {}]
    /\ stale' = stale \ EndsOf(c)
    /\ UNCHANGED <<clnts, clerks, ends, phase, deleted, fatal>>

\* Faulty: disables the ends, and leaves the network's other maps alone.
RemoveDisables(C) ==
    LET E == UNION {EndsOf(c) : c \in C}
    IN  /\ EnableEnds(E, FALSE)
        /\ deleted' = deleted \cup E
        /\ fatal' = (fatal \/ E \cap deleted # {})

\* remove of each client of C.  DeleteEnd exits when the network does not
\* know the name.
Remove(C) ==
    LET E == UNION {EndsOf(c) : c \in C}
    IN  /\ enabled' = [e \in End |-> enabled[e] /\ e \notin E]
        /\ connections' = [e \in End |-> IF e \in E THEN NoServer ELSE connections[e]]
        /\ deleted' = deleted \cup E
        /\ fatal' = (fatal \/ E \cap deleted # {})
        /\ UNCHANGED <<servers, made, reliable, done, calls>>

\* Faulty: does not ask whether c is still there.
DeleteClientUnchecked(c) ==
    /\ c \in clnts
    /\ Remove({c})
    /\ clerks' = clerks \ {c}
    /\ UNCHANGED <<clnts, ends, srvs, phase, stale>>

DeleteClient(c) ==
    /\ c \in clerks
    /\ Remove({c})
    /\ clerks' = clerks \ {c}
    /\ UNCHANGED <<clnts, ends, srvs, phase, stale>>

-----------------------------------------------------------------------------
(* Config.Cleanup: Clnts.cleanup, Groups.cleanup, which kills the services *)
(* but leaves their servers registered, and the network's Cleanup.         *)

CleanupClnts ==
    /\ phase = "running"
    /\ Remove(clerks)
    /\ clerks' = {}
    /\ phase' = "clnts"
    /\ UNCHANGED <<clnts, ends, srvs, stale>>

CleanupNet ==
    /\ phase = "clnts"
    /\ Cleanup
    /\ phase' = "net"
    /\ UNCHANGED <<clnts, clerks, ends, srvs, history>>

-----------------------------------------------------------------------------

ClntStep(c) ==
    \/ \E to \in SUBSET Server : MakeClientTo(c, to) \/ ConnectTo(c, to)
    \/ \E s \in Server : MakeEnd(c, s) \/ Disconnect(c, s)
    \/ ConnectAll(c)
    \/ DisconnectAll(c)
    \/ DeleteClient(c)

\* A test restarts servers and changes the network as long as it runs.
NetStep ==
    /\ phase = "running"
    /\ \/ \E yes \in BOOLEAN : Reliable(yes)
       \/ \E s \in Server : made < MaxServers /\ AddServer(s)
       \/ \E s \in Server : DeleteServer(s)
    /\ UNCHANGED clntVars

TesterStep ==
    \/ \E c \in Clnt : ClntStep(c)
    \/ NetStep
    \/ CleanupClnts
    \/ CleanupNet

RequestStep(r) ==
    /\ ProcessReq(r) \/ GiveUp(r) \/ Answer(r) \/ Return(r)
    /\ UNCHANGED clntVars

Handle(r, reply) == Dispatch(r, reply) /\ UNCHANGED clntVars

Next ==
    \/ TesterStep
    \/ \E r \in Req :
         \/ \E e \in ends, args \in Args : CallServer(r, e, args)
         \/ \E reply \in Reply : Handle(r, reply)
         \/ RequestStep(r)

\* processReq's goroutine runs; nothing says that a handler returns.
Fairness == \A r \in Req : WF_vars(RequestStep(r))

Spec == Init /\ [][Next]_vars /\ Fairness

-----------------------------------------------------------------------------
(* Properties.                                                             *)

\* processReq finds a server for r and starts the handler.
Reaches(r) == calls[r].stage = "sent" /\ calls'[r].stage = "waiting"

\* A client "can connect" to the servers in srvs only: whatever the order of
\* connects, disconnects and first calls, a request reaches a server that its
\* client is allowed to call when it arrives, or whose end ConnectTo should
\* have disabled.
ReachesOnlyAllowed ==
    [][\A r \in Req : Reaches(r) => \/ AllowedL(calls[r].end[1], calls[r].end[2])
                                    \/ calls[r].end \in stale]_vars

\* No request reaches a server through an end that remove has deleted, also if
\* it was sent before, and also if ConnectAll then enables the name again.
DeletedEndsAreDead == [][\A r \in Req : Reaches(r) => calls[r].end \notin deleted]_vars

\* DeleteClient by a client that is done and Clnts.cleanup never delete an end
\* twice, whichever comes first: DeleteEnd would end the process.
NeverDeletedTwice == ~fatal

\* What the network knows of an end follows from what the clients know of it.
EndInv(e) ==
    /\ enabled[e] => e \in ends /\ (AllowedL(e[1], e[2]) \/ e \in stale)
    /\ connections[e] = IF e \in ends \ deleted THEN e[2] ELSE NoServer
    /\ e \in deleted => e[1] \notin clerks

\* The inductive invariant behind the three properties above, with that of the
\* network.
IndInv ==
    /\ TypeOK
    /\ NetInv
    /\ \A e \in End : EndInv(e)
    /\ phase # "running" => clerks = {}
    /\ ~fatal
=============================================================================
