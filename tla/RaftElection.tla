---------------------------- MODULE RaftElection ----------------------------
(***************************************************************************)
(* Leader election of raft1/raft.go (lab 3A; replication, persistence and  *)
(* snapshots are stubs there).  Each peer runs a ticker goroutine, one     *)
(* goroutine per RPC it sends, and the handlers of the RPCs it receives.   *)
(* Handlers and reply processing hold mu; the ticker does not, except in   *)
(* preElection, so between two of its reads the other goroutines may run.  *)
(*                                                                         *)
(* The log holds only the dummy entry, so LastestLogTerm and               *)
(* LastestLogIndex are 0 everywhere and RequestVote's two log checks pass. *)
(* A torn read of role, a Go string, never equals "leader" unless role is  *)
(* being set from or to it, so it reads as the old or as the new value.    *)
(* Messages are delivered late, in any order, or never.                    *)
(***************************************************************************)
EXTENDS Naturals, FiniteSets

CONSTANTS Peer,     \* indices into peers[]
          NoPeer,   \* votedFor = -1
          MaxTerm,  \* bound: the last term a peer starts an election for
          MaxElections  \* bound: how many elections are started

ASSUME PeerAssumption == IsFiniteSet(Peer) /\ NoPeer \notin Peer
ASSUME ElectionBoundAssumption == MaxTerm \in Nat /\ MaxElections \in Nat

VARIABLES currTerm, role, votedFor, votesReceived,
          expired,  \* time.Since(lastHeartBeat) > electionTimeout
          pc,       \* where the ticker is
          msgs      \* requests and replies in flight

\* History: the votes cast, own votes included.
VARIABLE votes

state == <<currTerm, role, votedFor, votesReceived, expired>>
electionVars == <<state, pc, msgs, votes>>

Term == Nat

(***************************************************************************)
(* RequestVote and its reply, and AppendEntries, whose reply nobody reads. *)
(* rterm is reply.Term; granted is reply.VoteGranted.                      *)
(***************************************************************************)
Msg == [kind : {"RequestVote", "AppendEntries"}, from : Peer, to : Peer, term : Term]
       \cup [kind : {"VoteReply"}, from : Peer, to : Peer, term : Term,
             rterm : Term, granted : BOOLEAN]

Vote == [voter : Peer, term : Term, candidate : Peer]

ElectionTypeOK ==
    /\ currTerm \in [Peer -> Term]
    /\ role \in [Peer -> {"follower", "candidate", "leader"}]
    /\ votedFor \in [Peer -> Peer \cup {NoPeer}]
    /\ votesReceived \in [Peer -> Nat]
    /\ expired \in [Peer -> BOOLEAN]
    /\ pc \in [Peer -> {"loop", "heartbeat", "timeout", "request"}]
    /\ msgs \subseteq Msg
    /\ votes \subseteq Vote

\* Make
ElectionInit ==
    /\ currTerm = [i \in Peer |-> 0]
    /\ role = [i \in Peer |-> "follower"]
    /\ votedFor = [i \in Peer |-> NoPeer]
    /\ votesReceived = [i \in Peer |-> 0]
    /\ expired = [i \in Peer |-> FALSE]
    /\ pc = [i \in Peer |-> "loop"]
    /\ msgs = {}
    /\ votes = {}

-----------------------------------------------------------------------------
\* Faulty: stores the term where the vote belongs.
NewTermSwapped(i, term, v) ==
    /\ role' = [role EXCEPT ![i] = "follower"]
    /\ currTerm' = [currTerm EXCEPT ![i] = term]
    /\ votedFor' = [votedFor EXCEPT ![i] = term]

\* Faulty: does not reset votedFor.
NewTermKeepsVote(i, term, v) ==
    /\ role' = [role EXCEPT ![i] = "follower"]
    /\ currTerm' = [currTerm EXCEPT ![i] = term]
    /\ votedFor' = IF v = NoPeer THEN votedFor ELSE [votedFor EXCEPT ![i] = v]

\* Faulty: does not step down.
NewTermKeepsRole(i, term, v) ==
    /\ currTerm' = [currTerm EXCEPT ![i] = term]
    /\ votedFor' = [votedFor EXCEPT ![i] = v]
    /\ UNCHANGED role

\* checkTerm, for a term above currTerm[i]; voter i ends up with votedFor v.
NewTerm(i, term, v) ==
    /\ role' = [role EXCEPT ![i] = "follower"]
    /\ currTerm' = [currTerm EXCEPT ![i] = term]
    /\ votedFor' = [votedFor EXCEPT ![i] = v]

ResetTimeout(i) == expired' = [expired EXCEPT ![i] = FALSE]

Broadcast(i, kind, term) ==
    {[kind |-> kind, from |-> i, to |-> j, term |-> term] : j \in Peer \ {i}}

CastVote(i, term, c) == votes' = votes \cup {[voter |-> i, term |-> term, candidate |-> c]}

-----------------------------------------------------------------------------
(* The ticker.                                                             *)

\* Time passes.
Expire(i) ==
    /\ ~expired[i]
    /\ expired' = [expired EXCEPT ![i] = TRUE]
    /\ UNCHANGED <<currTerm, role, votedFor, votesReceived, pc, msgs, votes>>

\* Reads role, and lastHeartBeat, without the lock.
Check(i) ==
    /\ pc[i] = "loop"
    /\ \/ role[i] = "leader" /\ pc' = [pc EXCEPT ![i] = "heartbeat"]
       \/ role[i] # "leader" /\ expired[i] /\ pc' = [pc EXCEPT ![i] = "timeout"]
    /\ UNCHANGED <<state, msgs, votes>>

\* Reads currTerm without the lock and sends heartbeats.
Heartbeat(i) ==
    /\ pc[i] = "heartbeat"
    /\ msgs' = msgs \cup Broadcast(i, "AppendEntries", currTerm[i])
    /\ pc' = [pc EXCEPT ![i] = "loop"]
    /\ UNCHANGED <<state, votes>>

PreElection(i) ==
    /\ pc[i] = "timeout"
    /\ currTerm[i] < MaxTerm
    /\ Cardinality({v \in votes : v.voter = v.candidate}) < MaxElections
    /\ currTerm' = [currTerm EXCEPT ![i] = @ + 1]
    /\ role' = [role EXCEPT ![i] = "candidate"]
    /\ votedFor' = [votedFor EXCEPT ![i] = i]
    /\ ResetTimeout(i)
    /\ CastVote(i, currTerm[i] + 1, i)
    /\ pc' = [pc EXCEPT ![i] = "request"]
    /\ UNCHANGED <<votesReceived, msgs>>

\* Reads currTerm again, without the lock, and asks for votes.
BroadCastVote(i) ==
    /\ pc[i] = "request"
    /\ msgs' = msgs \cup Broadcast(i, "RequestVote", currTerm[i])
    /\ pc' = [pc EXCEPT ![i] = "loop"]
    /\ UNCHANGED <<state, votes>>

-----------------------------------------------------------------------------
(* The handlers, and sendRequestVote once its reply is there.              *)

VoteReply(m, term, granted) ==
    [kind |-> "VoteReply", from |-> m.to, to |-> m.from, term |-> m.term,
     rterm |-> term, granted |-> granted]

\* Faulty: grants requests of the current term without looking at votedFor.
RequestVoteTwice(m) ==
    LET i == m.to
    IN  /\ m \in msgs /\ m.kind = "RequestVote"
        /\ m.term >= currTerm[i]
        /\ NewTerm(i, m.term, m.from)
        /\ ResetTimeout(i)
        /\ CastVote(i, m.term, m.from)
        /\ msgs' = (msgs \ {m}) \cup {VoteReply(m, m.term, TRUE)}
        /\ UNCHANGED <<votesReceived, pc>>

\* Only a request that raises the term gets past checkTerm, and then votedFor
\* has just been reset, so the vote is granted.
RequestVote(m) ==
    LET i == m.to
    IN  /\ m \in msgs /\ m.kind = "RequestVote"
        /\ \/ /\ m.term <= currTerm[i]
              /\ msgs' = (msgs \ {m}) \cup {VoteReply(m, currTerm[i], FALSE)}
              /\ UNCHANGED <<state, votes>>
           \/ /\ m.term > currTerm[i]
              /\ NewTerm(i, m.term, m.from)
              /\ ResetTimeout(i)
              /\ CastVote(i, m.term, m.from)
              /\ msgs' = (msgs \ {m}) \cup {VoteReply(m, m.term, TRUE)}
              /\ UNCHANGED votesReceived
        /\ UNCHANGED pc

\* A heartbeat; one that does not raise the term is answered with failure.
AppendEntries(m) ==
    LET i == m.to
    IN  /\ m \in msgs /\ m.kind = "AppendEntries"
        /\ \/ /\ m.term <= currTerm[i]
              /\ UNCHANGED state
           \/ /\ m.term > currTerm[i]
              /\ NewTerm(i, m.term, NoPeer)
              /\ ResetTimeout(i)
              /\ UNCHANGED votesReceived
        /\ msgs' = msgs \ {m}
        /\ UNCHANGED <<pc, votes>>

\* The rest of sendRequestVote.  VoteGranted is not looked at.
VoteReturned(m) ==
    LET i == m.to
    IN  /\ m \in msgs /\ m.kind = "VoteReply"
        /\ \/ /\ m.rterm < currTerm[i]
              /\ UNCHANGED state
           \/ /\ m.rterm > currTerm[i]
              /\ NewTerm(i, m.rterm, NoPeer)
              /\ UNCHANGED <<votesReceived, expired>>
           \/ /\ m.rterm = currTerm[i]
              /\ votesReceived' = [votesReceived EXCEPT ![i] = @ + 1]
              /\ IF votesReceived[i] + 1 > Cardinality(Peer) \div 2
                 THEN role' = [role EXCEPT ![i] = "leader"]
                 ELSE UNCHANGED role
              /\ UNCHANGED <<currTerm, votedFor, expired>>
        /\ msgs' = msgs \ {m}
        /\ UNCHANGED <<pc, votes>>

ElectionNext ==
    \/ \E i \in Peer : Expire(i) \/ Check(i) \/ Heartbeat(i) \/ PreElection(i) \/ BroadCastVote(i)
    \/ \E m \in msgs : RequestVote(m) \/ AppendEntries(m) \/ VoteReturned(m)

ElectionSpec == ElectionInit /\ [][ElectionNext]_electionVars

-----------------------------------------------------------------------------
(* Properties that hold.                                                   *)

\* A peer votes once in a term, whatever the order in which requests, replies
\* and heartbeats raise its term.
OneVotePerTerm ==
    \A v, w \in votes : v.voter = w.voter /\ v.term = w.term => v = w

\* The peers that voted for c in a term.
Voters(c, term) == {i \in Peer : [voter |-> i, term |-> term, candidate |-> c] \in votes}

IsMajority(S) == Cardinality(S) > Cardinality(Peer) \div 2

\* At most one candidate gets the votes of a majority in a term: what
\* RequestVote grants would be enough for one leader per term.
OneWinnerPerTerm ==
    \A c, d \in Peer, v \in votes :
        IsMajority(Voters(c, v.term)) /\ IsMajority(Voters(d, v.term)) => c = d

\* A peer is never asked to vote in a term that the candidate has not
\* reached, and a reply never tells of a term its sender has not reached.
NoTermFromTheFuture ==
    /\ \A m \in msgs : /\ m.kind # "VoteReply" => m.term <= currTerm[m.from]
                       /\ m.kind = "VoteReply" => m.rterm <= currTerm[m.from]
    /\ \A v \in votes : v.term <= currTerm[v.voter] /\ v.term <= currTerm[v.candidate]

\* votedFor is the vote of the current term, for as long as the term lasts.
VotedForIsVote ==
    \A i \in Peer : votedFor[i] # NoPeer =>
        [voter |-> i, term |-> currTerm[i], candidate |-> votedFor[i]] \in votes

\* The inductive invariant: a vote of a term is cast when the term begins, so
\* that all earlier votes of the voter are of lower terms.
VoteInv == OneVotePerTerm /\ NoTermFromTheFuture /\ VotedForIsVote

\* The whole inductive invariant: the types and VoteInv, which ties votes and
\* terms of the peers to the messages in flight.
ElectionInv == ElectionTypeOK /\ VoteInv

\* A peer's term never decreases, and leadership is never carried into a later
\* term: a leader that learns of one, or times out, steps down.
TermsAndLeaders ==
    [][ \A i \in Peer :
          /\ currTerm'[i] >= currTerm[i]
          /\ role[i] = "leader" /\ currTerm'[i] # currTerm[i] => role'[i] # "leader" ]_electionVars

-----------------------------------------------------------------------------
(* What the repository says of elections and the code does not do.         *)

\* raft1/test.go, checkOneLeader: a term has at most one leader.
OneLeaderPerTerm ==
    \A i, j \in Peer :
        role[i] = "leader" /\ role[j] = "leader" /\ currTerm[i] = currTerm[j] => i = j
=============================================================================
