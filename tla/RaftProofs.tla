----------------------------- MODULE RaftProofs -----------------------------
(***************************************************************************)
(* Proofs about raft1.  RaftElection, for any number of peers, terms and   *)
(* elections: a peer votes once a term, and one candidate at most has a    *)
(* majority.  RaftHarness, for any number of servers, restarts, commands   *)
(* and snapshots: the checks of raft1 stop a test whose servers have       *)
(* applied different commands, a correct Raft fails none while every       *)
(* applier runs for the server that is in ts.srvs, the annotations show    *)
(* the faults that there are, and the failure that ends a test is in its   *)
(* visualization.                                                          *)
(*                                                                         *)
(* The two specifications share neither constants nor variables.           *)
(***************************************************************************)
EXTENDS RaftElection, RaftHarness, FiniteSetTheorems, TLAPS

-----------------------------------------------------------------------------
(* RaftElection.                                                           *)

\* What a peer sends to all others are well-formed requests of its term.
LEMMA BroadcastType ==
    ASSUME NEW i \in Peer, NEW k \in {"RequestVote", "AppendEntries"}, NEW t \in Term
    PROVE  \A m \in Broadcast(i, k, t) :
             m \in Msg /\ m.kind = k /\ m.from = i /\ m.term = t
BY DEF Broadcast, Msg

\* Requests and replies in flight have their fields.
LEMMA MsgFields ==
    ASSUME NEW m \in Msg
    PROVE  /\ m.from \in Peer /\ m.to \in Peer /\ m.term \in Term
           /\ m.kind \in {"RequestVote", "AppendEntries", "VoteReply"}
           /\ m.kind = "VoteReply" => m.rterm \in Term
BY DEF Msg

\* The reply to a request is well formed and comes from the one who was asked.
LEMMA ReplyType ==
    ASSUME NEW m \in Msg, NEW t \in Term, NEW g \in BOOLEAN
    PROVE  /\ VoteReply(m, t, g) \in Msg
           /\ VoteReply(m, t, g).kind = "VoteReply"
           /\ VoteReply(m, t, g).from = m.to
           /\ VoteReply(m, t, g).rterm = t
BY MsgFields DEF VoteReply, Msg

\* The peers' variables and the messages keep their types.
THEOREM ElectionTypes == ElectionSpec => []ElectionTypeOK
<1>1. ElectionInit => ElectionTypeOK
  <2> SUFFICES ASSUME ElectionInit PROVE ElectionTypeOK
    OBVIOUS
  <2>1. expired \in [Peer -> BOOLEAN]
    BY Zenon DEF ElectionInit
  <2>2. QED
    BY <2>1 DEF ElectionInit, ElectionTypeOK, Term
<1>2. ElectionTypeOK /\ [ElectionNext]_electionVars => ElectionTypeOK'
  <2> SUFFICES ASSUME ElectionTypeOK, [ElectionNext]_electionVars
               PROVE  ElectionTypeOK'
    OBVIOUS
  <2> USE DEF ElectionTypeOK
  <2>1. ASSUME NEW i \in Peer, Expire(i) \/ Check(i) PROVE ElectionTypeOK'
    BY <2>1 DEF Expire, Check, state
  <2>2. ASSUME NEW i \in Peer, Heartbeat(i) \/ BroadCastVote(i) PROVE ElectionTypeOK'
    <3>1. msgs' \subseteq Msg
      BY <2>2, BroadcastType DEF Heartbeat, BroadCastVote
    <3>2. QED
      BY <2>2, <3>1 DEF Heartbeat, BroadCastVote, state
  <2>3. ASSUME NEW i \in Peer, PreElection(i) PROVE ElectionTypeOK'
    <3>1. [voter |-> i, term |-> currTerm[i] + 1, candidate |-> i] \in Vote
      BY DEF Vote, Term
    <3>2. QED
      BY <2>3, <3>1 DEF PreElection, ResetTimeout, CastVote, Term
  <2>4. ASSUME NEW m \in msgs, RequestVote(m) PROVE ElectionTypeOK'
    <3>1. m \in Msg /\ m.to \in Peer /\ m.from \in Peer /\ m.term \in Term
      BY MsgFields
    <3>2. VoteReply(m, currTerm[m.to], FALSE) \in Msg /\ VoteReply(m, m.term, TRUE) \in Msg
      BY <3>1, ReplyType
    <3>3. [voter |-> m.to, term |-> m.term, candidate |-> m.from] \in Vote
      BY <3>1 DEF Vote
    <3>4. QED
      BY <2>4, <3>1, <3>2, <3>3 DEF RequestVote, NewTerm, ResetTimeout, CastVote, state
  <2>5. ASSUME NEW m \in msgs, AppendEntries(m) PROVE ElectionTypeOK'
    <3>1. m.to \in Peer /\ m.term \in Term
      BY MsgFields
    <3>2. QED
      BY <2>5, <3>1 DEF AppendEntries, NewTerm, ResetTimeout, state
  <2>6. ASSUME NEW m \in msgs, VoteReturned(m) PROVE ElectionTypeOK'
    <3>1. m.to \in Peer /\ m.rterm \in Term
      BY <2>6, MsgFields DEF VoteReturned
    <3>2. role' \in [Peer -> {"follower", "candidate", "leader"}]
      BY <2>6, <3>1 DEF VoteReturned, NewTerm, state
    <3>3. QED
      BY <2>6, <3>1, <3>2 DEF VoteReturned, NewTerm, state
  <2>7. CASE UNCHANGED electionVars
    BY <2>7 DEF electionVars, state
  <2>8. QED
    BY <2>1, <2>2, <2>3, <2>4, <2>5, <2>6, <2>7 DEF ElectionNext
<1>3. QED
  BY <1>1, <1>2, PTL DEF ElectionSpec

-----------------------------------------------------------------------------
(* Votes.                                                                  *)

\* A peer whose term goes up by casting a vote, or without one, keeps the
\* vote invariants: all its earlier votes are of lower terms.
LEMMA VoteCast ==
    ASSUME ElectionTypeOK, VoteInv, NEW i \in Peer, NEW c \in Peer, NEW t \in Term,
           t > currTerm[i], currTerm' = [currTerm EXCEPT ![i] = t],
           votedFor' = [votedFor EXCEPT ![i] = c], CastVote(i, t, c),
           c = i \/ t <= currTerm[c],
           \A m \in msgs' : \/ m \in msgs
                            \/ /\ m \in Msg /\ m.kind = "VoteReply"
                               /\ m.from = i /\ m.rterm <= t
    PROVE  VoteInv'
<1> DEFINE vote == [voter |-> i, term |-> t, candidate |-> c]
<1>1. \A j \in Peer : currTerm[j] \in Nat /\ currTerm'[j] \in Nat /\ currTerm'[j] >= currTerm[j]
  BY DEF ElectionTypeOK, Term
<1>2. votes' = votes \cup {vote} /\ votes \subseteq Vote
  BY DEF CastVote, ElectionTypeOK
<1>3. OneVotePerTerm'
  <2>1. \A v \in votes : v.voter = i => v.term # t
    BY <1>1, <1>2 DEF VoteInv, NoTermFromTheFuture, Vote, Term
  <2>2. QED
    BY <1>2, <2>1 DEF VoteInv, OneVotePerTerm
<1>4. NoTermFromTheFuture'
  <2>1. \A v \in votes' : v.term <= currTerm'[v.voter] /\ v.term <= currTerm'[v.candidate]
    <3>1. ASSUME NEW v \in votes PROVE v.term <= currTerm'[v.voter] /\ v.term <= currTerm'[v.candidate]
      <4>1. v.term \in Nat /\ v.voter \in Peer /\ v.candidate \in Peer
        BY <1>2 DEF Vote, Term
      <4>2. QED
        BY <1>1, <4>1 DEF VoteInv, NoTermFromTheFuture
    <3>2. t <= currTerm'[i] /\ t <= currTerm'[c]
      BY <1>1 DEF ElectionTypeOK, Term
    <3>3. QED
      BY <1>2, <3>1, <3>2
  <2>2. ASSUME NEW m \in msgs PROVE /\ m.kind # "VoteReply" => m.term <= currTerm'[m.from]
                                    /\ m.kind = "VoteReply" => m.rterm <= currTerm'[m.from]
    <3>1. m.from \in Peer /\ m.term \in Nat /\ (m.kind = "VoteReply" => m.rterm \in Nat)
      BY MsgFields DEF ElectionTypeOK, Term
    <3>2. QED
      BY <1>1, <3>1 DEF VoteInv, NoTermFromTheFuture
  <2>3. currTerm'[i] = t
    BY DEF ElectionTypeOK
  <2>4. QED
    BY <2>1, <2>2, <2>3 DEF NoTermFromTheFuture
<1>5. VotedForIsVote'
  BY <1>2 DEF VoteInv, VotedForIsVote, ElectionTypeOK
<1>6. QED
  BY <1>3, <1>4, <1>5 DEF VoteInv

\* A step that casts no vote, lowers no term and resets the votedFor of a peer
\* whose term goes up keeps the vote invariants.
LEMMA NoVoteCast ==
    ASSUME ElectionTypeOK, VoteInv, ElectionTypeOK', UNCHANGED votes,
           \A j \in Peer : /\ currTerm'[j] >= currTerm[j]
                           /\ \/ votedFor'[j] = NoPeer
                              \/ votedFor'[j] = votedFor[j] /\ currTerm'[j] = currTerm[j],
           \A m \in msgs' : \/ m \in msgs
                            \/ /\ m.kind # "VoteReply" => m.term <= currTerm'[m.from]
                               /\ m.kind = "VoteReply" => m.rterm <= currTerm'[m.from]
    PROVE  VoteInv'
<1>1. OneVotePerTerm'
  BY DEF VoteInv, OneVotePerTerm
<1>2. NoTermFromTheFuture'
  <2>1. \A j \in Peer : currTerm[j] \in Nat /\ currTerm'[j] \in Nat
    BY DEF ElectionTypeOK, Term
  <2>2. ASSUME NEW v \in votes PROVE v.term <= currTerm'[v.voter] /\ v.term <= currTerm'[v.candidate]
    <3>1. v.term \in Nat /\ v.voter \in Peer /\ v.candidate \in Peer
      BY DEF ElectionTypeOK, Vote, Term
    <3>2. QED
      BY <2>1, <3>1 DEF VoteInv, NoTermFromTheFuture
  <2>3. ASSUME NEW m \in msgs PROVE /\ m.kind # "VoteReply" => m.term <= currTerm'[m.from]
                                    /\ m.kind = "VoteReply" => m.rterm <= currTerm'[m.from]
    <3>1. m.from \in Peer /\ m.term \in Nat /\ (m.kind = "VoteReply" => m.rterm \in Nat)
      BY MsgFields DEF ElectionTypeOK, Term
    <3>2. QED
      BY <2>1, <3>1 DEF VoteInv, NoTermFromTheFuture
  <2>4. QED
    BY <2>2, <2>3 DEF NoTermFromTheFuture
<1>3. VotedForIsVote'
  BY DEF VoteInv, VotedForIsVote
<1>4. QED
  BY <1>1, <1>2, <1>3 DEF VoteInv

\* Votes are cast once per term, votedFor remembers the current one, and no
\* message is ahead of its sender.
THEOREM VoteInvariant == ElectionSpec => []VoteInv
<1>1. ElectionInit => VoteInv
  BY DEF ElectionInit, VoteInv, OneVotePerTerm, NoTermFromTheFuture, VotedForIsVote
<1>2. ElectionTypeOK /\ ElectionTypeOK' /\ VoteInv /\ [ElectionNext]_electionVars => VoteInv'
  <2> SUFFICES ASSUME ElectionTypeOK, ElectionTypeOK', VoteInv, [ElectionNext]_electionVars
               PROVE  VoteInv'
    OBVIOUS
  <2>1. \A j \in Peer : currTerm[j] \in Nat
    BY DEF ElectionTypeOK, Term
  <2>2. ASSUME NEW i \in Peer, Expire(i) \/ Check(i) PROVE VoteInv'
    BY <2>1, <2>2, NoVoteCast DEF Expire, Check, state
  <2>3. ASSUME NEW i \in Peer, Heartbeat(i) \/ BroadCastVote(i) PROVE VoteInv'
    <3>1. currTerm' = currTerm /\ votedFor' = votedFor /\ votes' = votes
      BY <2>3 DEF Heartbeat, BroadCastVote, state
    <3>2. \A m \in msgs' : m \in msgs \/ (m.kind # "VoteReply" /\ m.term <= currTerm'[m.from])
      BY <2>1, <2>3, <3>1, BroadcastType DEF Heartbeat, BroadCastVote, Term
    <3>3. QED
      BY <2>1, <3>1, <3>2, NoVoteCast
  <2>4. ASSUME NEW i \in Peer, PreElection(i) PROVE VoteInv'
    <3>1. currTerm[i] + 1 \in Term /\ currTerm[i] + 1 > currTerm[i]
      BY <2>1 DEF Term
    <3>2. /\ currTerm' = [currTerm EXCEPT ![i] = currTerm[i] + 1]
          /\ votedFor' = [votedFor EXCEPT ![i] = i]
          /\ CastVote(i, currTerm[i] + 1, i) /\ msgs' = msgs
      BY <2>4 DEF PreElection
    <3>3. QED
      BY <3>1, <3>2, VoteCast
  <2>5. ASSUME NEW m \in msgs, RequestVote(m) PROVE VoteInv'
    <3>1. m \in Msg
      BY DEF ElectionTypeOK
    <3>2. m.to \in Peer /\ m.from \in Peer /\ m.term \in Nat /\ currTerm[m.to] \in Nat
      BY <2>1, <3>1, MsgFields DEF Term
    <3>3. CASE m.term <= currTerm[m.to]
      <4> DEFINE reply == VoteReply(m, currTerm[m.to], FALSE)
      <4>1. ~(m.term > currTerm[m.to])
        BY <3>2, <3>3
      <4>2. /\ currTerm' = currTerm /\ votedFor' = votedFor /\ votes' = votes
            /\ msgs' = (msgs \ {m}) \cup {reply}
        BY <2>5, <4>1 DEF RequestVote, state
      <4>3. reply.kind = "VoteReply" /\ reply.from = m.to /\ reply.rterm = currTerm[m.to]
        BY <3>1, <3>2, ReplyType DEF Term
      <4>4. \A n \in msgs' : n \in msgs \/ (n.kind = "VoteReply" /\ n.rterm <= currTerm'[n.from])
        <5> HIDE DEF reply
        <5>1. QED
          BY <3>2, <4>2, <4>3
      <4>5. \A j \in Peer : currTerm'[j] >= currTerm[j]
        BY <2>1, <4>2
      <4>6. QED
        <5> HIDE DEF reply
        <5>1. QED
          BY <4>2, <4>4, <4>5, NoVoteCast
    <3>4. CASE m.term > currTerm[m.to]
      <4> DEFINE reply == VoteReply(m, m.term, TRUE)
      <4>1. ~(m.term <= currTerm[m.to])
        BY <3>2, <3>4
      <4>2. /\ currTerm' = [currTerm EXCEPT ![m.to] = m.term]
            /\ votedFor' = [votedFor EXCEPT ![m.to] = m.from]
            /\ CastVote(m.to, m.term, m.from)
            /\ msgs' = (msgs \ {m}) \cup {reply}
        BY <2>5, <4>1 DEF RequestVote, NewTerm
      <4>3. m.term <= currTerm[m.from]
        BY <2>5 DEF VoteInv, NoTermFromTheFuture, RequestVote
      <4>4. /\ reply \in Msg /\ reply.kind = "VoteReply" /\ reply.from = m.to
            /\ reply.rterm = m.term
        BY <3>1, <3>2, ReplyType DEF Term
      <4>5. \A n \in msgs' : \/ n \in msgs
                             \/ /\ n \in Msg /\ n.kind = "VoteReply"
                                /\ n.from = m.to /\ n.rterm <= m.term
        <5> HIDE DEF reply
        <5>1. QED
          BY <3>2, <4>2, <4>4
      <4>6. QED
        BY <3>2, <3>4, <4>2, <4>3, <4>5, VoteCast DEF Term
    <3>5. QED
      BY <3>2, <3>3, <3>4
  <2>6. ASSUME NEW m \in msgs, AppendEntries(m) PROVE VoteInv'
    <3>1. m.to \in Peer /\ m.term \in Nat
      BY MsgFields DEF ElectionTypeOK, Term
    <3>2. QED
      BY <2>1, <2>6, <3>1, NoVoteCast DEF AppendEntries, NewTerm, state, ElectionTypeOK
  <2>7. ASSUME NEW m \in msgs, VoteReturned(m) PROVE VoteInv'
    <3>1. m.to \in Peer /\ m.rterm \in Nat
      BY <2>7, MsgFields DEF ElectionTypeOK, Term, VoteReturned
    <3>2. QED
      BY <2>1, <2>7, <3>1, NoVoteCast DEF VoteReturned, NewTerm, state, ElectionTypeOK
  <2>8. CASE UNCHANGED electionVars
    BY <2>1, <2>8, NoVoteCast DEF electionVars, state
  <2>9. QED
    BY <2>2, <2>3, <2>4, <2>5, <2>6, <2>7, <2>8 DEF ElectionNext
<1>3. QED
  BY <1>1, <1>2, ElectionTypes, PTL DEF ElectionSpec

\* What RequestVote grants elects at most one candidate per term.
THEOREM OneWinner == ElectionSpec => []OneWinnerPerTerm
<1>1. VoteInv => OneWinnerPerTerm
  <2> SUFFICES ASSUME VoteInv, NEW c \in Peer, NEW d \in Peer, NEW v \in votes,
                      IsMajority(Voters(c, v.term)), IsMajority(Voters(d, v.term))
               PROVE  c = d
    BY DEF OneWinnerPerTerm
  <2> DEFINE C == Voters(c, v.term)
             D == Voters(d, v.term)
  <2>1. C \subseteq Peer /\ D \subseteq Peer
    BY DEF Voters
  <2>2. Cardinality(C) \in Nat /\ Cardinality(D) \in Nat /\ Cardinality(Peer) \in Nat
    BY <2>1, PeerAssumption, FS_Subset, FS_CardinalityType
  <2>3. Cardinality(C) + Cardinality(D) > Cardinality(Peer)
    <3> DEFINE n == Cardinality(Peer)
    <3>1. n < 2 * (n \div 2) + 2
      BY <2>2
    <3>2. QED
      BY <2>2, <3>1 DEF IsMajority
  <2>4. PICK i \in Peer : i \in C /\ i \in D
    BY <2>1, <2>3, PeerAssumption, FS_MajoritiesIntersect
  <2>5. QED
    BY <2>4 DEF Voters, VoteInv, OneVotePerTerm
<1>2. QED
  BY <1>1, VoteInvariant, PTL

\* Terms only grow, and a leader of one term is never the leader of the next
\* without another step that makes it one.
THEOREM TermsGrow == ElectionSpec => TermsAndLeaders
<1> DEFINE Act == \A i \in Peer :
          /\ currTerm'[i] >= currTerm[i]
          /\ role[i] = "leader" /\ currTerm'[i] # currTerm[i] => role'[i] # "leader"
<1>1. ElectionTypeOK /\ [ElectionNext]_electionVars => Act
  <2> SUFFICES ASSUME ElectionTypeOK, [ElectionNext]_electionVars, NEW i \in Peer
               PROVE  /\ currTerm'[i] >= currTerm[i]
                      /\ role[i] = "leader" /\ currTerm'[i] # currTerm[i] => role'[i] # "leader"
    OBVIOUS
  <2>1. currTerm[i] \in Nat
    BY DEF ElectionTypeOK, Term
  <2>2. \A m \in msgs : m.to \in Peer /\ m.term \in Nat /\ (m.kind = "VoteReply" => m.rterm \in Nat)
    BY MsgFields DEF ElectionTypeOK, Term
  <2>3. ASSUME NEW j \in Peer, NEW t \in Nat, NEW v, t > currTerm[j], NewTerm(j, t, v)
        PROVE  Act
    BY <2>3 DEF NewTerm, ElectionTypeOK, Term
  <2>4. CASE UNCHANGED currTerm
    BY <2>1, <2>4
  <2>5. ASSUME NEW j \in Peer, PreElection(j) PROVE Act
    BY <2>5 DEF PreElection, ElectionTypeOK, Term
  <2>6. QED
    BY <2>2, <2>3, <2>4, <2>5 DEF ElectionNext, Expire, Check, Heartbeat, BroadCastVote, RequestVote,
       AppendEntries, VoteReturned, state, electionVars
<1>2. QED
  BY <1>1, ElectionTypes, PTL DEF ElectionSpec, TermsAndLeaders

\* The types and VoteInv hold together, for any set of peers.
THEOREM ElectionInvariant == ElectionSpec => []ElectionInv
BY ElectionTypes, VoteInvariant, PTL DEF ElectionInv

-----------------------------------------------------------------------------
(* Instances, logs and snapshots.                                          *)

\* The test's goroutine and captureSignal's are no appliers.
LEMMA Cleaners ==
    /\ Inst \subseteq Cleaner /\ Tester \in Cleaner /\ Signal \in Cleaner
    /\ Tester \notin Inst /\ Signal \notin Inst /\ Tester # Signal
    /\ \A p \in Cleaner : p \in Inst \/ p = Tester \/ p = Signal
BY CleanerAssumption, SrvAssumption DEF Inst, Tester, Signal

\* An instance is a server and a number.
LEMMA Instances ==
    /\ \A p \in Inst : p[1] \in Srv /\ p[2] \in 1..MaxInst /\ p = <<p[1], p[2]>>
    /\ \A i \in Srv, n \in 1..MaxInst : <<i, n>> \in Inst /\ <<i, n>>[1] = i /\ <<i, n>>[2] = n
BY DEF Inst

\* The instance in ts.srvs is an instance of its server.
LEMMA CurrentType ==
    ASSUME TypeOK, NEW i \in Srv
    PROVE  /\ Current(i) \in Inst /\ Current(i)[1] = i /\ Current(i)[2] = srvs[i]
           /\ srvs[i] \in 1..MaxInst /\ newest[i] \in 1..MaxInst
BY DEF TypeOK, Current, Inst

\* A new instance has nothing in its log and nothing saved.
LEMMA EmptyLog == <<>> \in Log /\ <<>> \in Snap /\ DOMAIN <<>> = {}
<1>1. DOMAIN <<>> = {} /\ <<>> \in [{} -> Cmd \cup {Nil}]
  OBVIOUS
<1>2. QED
  BY <1>1 DEF Log, Snap

\* A log is a map from indices to commands.
LEMMA LogType ==
    ASSUME NEW log \in Log
    PROVE  /\ DOMAIN log \subseteq 0..MaxIndex
           /\ \A n \in DOMAIN log : log[n] \in Cmd \cup {Nil}
BY DEF Log

\* Such a map is a log.
LEMMA IsLog ==
    ASSUME NEW D \in SUBSET (0..MaxIndex), NEW log \in [D -> Cmd \cup {Nil}]
    PROVE  log \in Log
BY DEF Log

\* checkLogs adds a command to a log.
LEMMA PutType ==
    ASSUME NEW log \in Log, NEW index \in Index, NEW cmd \in Cmd
    PROVE  /\ Put(log, index, cmd) \in Log
           /\ DOMAIN Put(log, index, cmd) = DOMAIN log \cup {index}
           /\ \A n \in DOMAIN log \cup {index} :
                 Put(log, index, cmd)[n] = IF n = index THEN cmd ELSE log[n]
<1>1. index \in 0..MaxIndex
  BY BoundAssumption DEF Index
<1>2. Put(log, index, cmd) \in [DOMAIN log \cup {index} -> Cmd \cup {Nil}]
  BY LogType DEF Put
<1>3. Put(log, index, cmd) \in Log
  BY <1>1, <1>2, LogType, IsLog
<1>4. QED
  BY <1>3 DEF Put

\* The index of a snapshot is the last one that it has.
LEMMA SnapType ==
    ASSUME NEW s \in Snap
    PROVE  \/ s = <<>> /\ SnapIndex(s) = -1
           \/ /\ SnapIndex(s) \in Index
              /\ DOMAIN s = 0..SnapIndex(s)
              /\ s \in Log
<1>1. CASE s = <<>>
  <2>1. Cardinality(DOMAIN s) = 0
    BY <1>1, FS_EmptySet
  <2>2. QED
    BY <1>1, <2>1 DEF SnapIndex
<1>2. ASSUME NEW n \in Index, s \in [0..n -> Cmd \cup {Nil}]
      PROVE  SnapIndex(s) = n /\ DOMAIN s = 0..n /\ s \in Log
  <2>1. n \in Nat /\ DOMAIN s = 0..n /\ 0..n \subseteq 0..MaxIndex
    BY <1>2, BoundAssumption DEF Index
  <2>2. Cardinality(DOMAIN s) = n + 1
    BY <2>1, FS_Interval
  <2>3. s \in Log
    BY <1>2, <2>1, IsLog
  <2>4. QED
    BY <2>1, <2>2, <2>3 DEF SnapIndex
<1>3. s = <<>> \/ \E n \in Index : s \in [0..n -> Cmd \cup {Nil}]
  BY DEF Snap
<1>4. QED
  BY <1>1, <1>2, <1>3

\* A snapshot at an index has the commands of the log up to it.
LEMMA SnapshotOfType ==
    ASSUME NEW log \in Log, NEW index \in Index
    PROVE  /\ SnapshotOf(log, index) \in Snap
           /\ DOMAIN SnapshotOf(log, index) = 0..index
           /\ \A n \in 0..index : n \in DOMAIN log => SnapshotOf(log, index)[n] = log[n]
<1>1. SnapshotOf(log, index) \in [0..index -> Cmd \cup {Nil}]
  BY LogType DEF SnapshotOf
<1>2. SnapshotOf(log, index) \in Snap
  BY <1>1 DEF Snap
<1>3. QED
  BY <1>2 DEF SnapshotOf

-----------------------------------------------------------------------------
(* The annotations.                                                        *)

\* An annotation that is made is of one of the kinds, and not the operations;
\* those made before stay.
Marked ==
    /\ annotations \subseteq annotations'
    /\ annotations' \subseteq annotations \cup (Kind \ {"ops"})
    /\ continuous' \in Shown

\* No fault is shown by a text that names nobody.
LEMMA NoneType == None \in Shown /\ None.two = {}
BY DEF None, Shown

\* A point or interval annotation only adds marks.
LEMMA AnnotateMarks ==
    ASSUME AnTypeOK, NEW kinds, kinds \subseteq Kind \ {"ops"}, Annotate(kinds)
    PROVE  Marked
BY DEF AnTypeOK, Annotate, Marked

\* Beginning or ending a continuous annotation only adds marks.
LEMMA ContinuousMarks ==
    ASSUME AnTypeOK, NEW text \in Shown,
           AnnotateContinuous(text) \/ AnnotateContinuousEnd
    PROVE  Marked
BY NoneType DEF AnTypeOK, AnnotateContinuous, AnnotateContinuousEnd, Marked, Kind

\* The checker leaves a point or an interval.
LEMMA CheckerKindType == CheckerKind \in {"point", "interval"}
BY DEF CheckerKind

\* The set of the types of finfo.
Finfo == [connected : [Srv -> BOOLEAN], crashed : SUBSET Srv, ckbegin : BOOLEAN]

\* The text of a fault names servers.
LEMMA FaultTextType ==
    ASSUME NEW conn, NEW crashed \in SUBSET Srv
    PROVE  FaultText(conn, crashed) \in Shown
BY NoneType DEF FaultText, Shown

\* What annotateFault leaves behind.
Told(conn, crashed) ==
    /\ Marked
    /\ finfo' \in Finfo /\ finfo'.connected = conn /\ finfo'.crashed = crashed
    /\ continuous' = IF NoFault(conn, crashed) THEN None ELSE FaultText(conn, crashed)

\* An annotation of a fault records it and only adds marks.
LEMMA FaultMarks ==
    ASSUME AnTypeOK, NEW conn \in [Srv -> BOOLEAN], NEW crashed \in SUBSET Srv,
           AnnotateFault(conn, crashed)
    PROVE  Told(conn, crashed)
<1>1. finfo' \in Finfo /\ finfo'.connected = conn /\ finfo'.crashed = crashed
  BY DEF AnnotateFault, AnTypeOK, Finfo
<1>2. CASE NoFault(conn, crashed)
  BY <1>1, <1>2, NoneType, ContinuousMarks DEF AnnotateFault, AnnotateContinuousEnd, Told
<1>3. CASE ~NoFault(conn, crashed)
  <2>1. AnnotateContinuous(FaultText(conn, crashed))
    BY <1>3 DEF AnnotateFault
  <2>2. Marked
    BY <2>1, FaultTextType, ContinuousMarks
  <2>3. QED
    BY <1>1, <1>3, <2>1, <2>2 DEF Told, AnnotateContinuous
<1>4. QED
  BY <1>2, <1>3
-----------------------------------------------------------------------------
(* Steps of the test that only annotate: all but the ones that finalize,   *)
(* clean up or check the history.                                          *)

Quiet ==
    /\ Marked
    /\ finfo' \in Finfo
    /\ UNCHANGED <<finalized, visEnable, file, cleaning, content>>

\* The operations of the test's goroutine that only annotate.
TestOperation ==
    \/ \E i \in Srv, yes \in BOOLEAN : Connect(i, yes)
    \/ \E S \in SUBSET Srv \ {{}} : Shutdown(S) \/ Restarted(S) \/ Partition(S)
    \/ \E i \in Srv : Restart(i)
    \/ ClearFailure \/ One \/ OneReturns \/ EndTest \/ Cleaned

\* The steps by cases.
LEMMA NextCases ==
    ASSUME Next
    PROVE  /\ exited = "no"
           /\ \/ TestOperation
              \/ SetFinalized
              \/ \E illegal \in BOOLEAN : CheckHistory(illegal)
              \/ \E p \in Inst : Deliver(p)
              \/ \E p, q \in Inst : DeliverSnapshot(p, q)
              \/ \E p \in Inst : Exit(p)
              \/ \E p \in Cleaner : CleanupStep(p)
              \/ Interrupted
BY DEF Next, Main, TestOperation

\* Steps that annotate nothing are quiet.
LEMMA AnUnchanged ==
    ASSUME AnTypeOK, UNCHANGED anVars
    PROVE  Quiet
BY DEF AnTypeOK, anVars, marks, Quiet, Marked, Finfo

\* Annotating a fault of the group is quiet.
LEMMA ToldQuiet ==
    ASSUME NEW conn, NEW crashed, Told(conn, crashed), AnnotateOnly
    PROVE  Quiet
BY DEF Told, AnnotateOnly, Quiet

\* What the test does to servers and connections is quiet: only cleanup writes
\* the file.
LEMMA TestOperationQuiet ==
    ASSUME TypeOK, TestOperation
    PROVE  Quiet
<1>0. AnTypeOK /\ finfo \in Finfo /\ finfo.connected \in [Srv -> BOOLEAN]
      /\ finfo.crashed \in SUBSET Srv
  BY DEF TypeOK, AnTypeOK, Finfo
<1>u. ASSUME UNCHANGED <<finfo, marks>>, AnnotateOnly
      PROVE  Quiet
  BY <1>0, <1>u, AnUnchanged DEF AnnotateOnly, anVars, marks
<1>1. ASSUME NEW i \in Srv, NEW yes \in BOOLEAN, Connect(i, yes)
      PROVE  Quiet
  <2>1. connected' \in [Srv -> BOOLEAN] /\ AnnotateOnly /\ AnnotateConnection(connected')
    BY <1>1 DEF Connect, TypeOK
  <2>2. CASE AnnotateFault(connected', finfo.crashed)
    BY <1>0, <2>1, <2>2, FaultMarks, ToldQuiet
  <2>3. CASE UNCHANGED <<finfo, marks>>
    BY <1>u, <2>1, <2>3
  <2>4. QED
    BY <2>1, <2>2, <2>3 DEF AnnotateConnection
<1>2. ASSUME NEW S \in SUBSET Srv \ {{}}, Shutdown(S)
      PROVE  Quiet
  <2>1. AnnotateOnly /\ AnnotateShutdown(S)
    BY <1>2 DEF Shutdown
  <2>2. CASE AnnotateFault(finfo.connected, finfo.crashed \cup S)
    BY <1>0, <2>1, <2>2, FaultMarks, ToldQuiet
  <2>3. CASE UNCHANGED <<finfo, marks>>
    BY <1>u, <2>1, <2>3
  <2>4. QED
    BY <2>1, <2>2, <2>3 DEF AnnotateShutdown
<1>3. ASSUME NEW S \in SUBSET Srv \ {{}}, Restarted(S)
      PROVE  Quiet
  <2>1. AnnotateOnly /\ AnnotateRestart(S)
    BY <1>3 DEF Restarted
  <2>2. CASE AnnotateFault(finfo.connected, finfo.crashed \ S)
    BY <1>0, <2>1, <2>2, FaultMarks, ToldQuiet
  <2>3. CASE UNCHANGED <<finfo, marks>>
    BY <1>u, <2>1, <2>3
  <2>4. QED
    BY <2>1, <2>2, <2>3 DEF AnnotateRestart
<1>4. ASSUME NEW S \in SUBSET Srv \ {{}}, Partition(S)
      PROVE  Quiet
  <2>1. [None EXCEPT !.two = {S, Srv \ S}] \in Shown
    BY NoneType DEF Shown
  <2>2. AnnotateOnly /\ finfo' = finfo
        /\ AnnotateContinuous([None EXCEPT !.two = {S, Srv \ S}])
    BY <1>4 DEF Partition, AnnotateTwoPartitions
  <2>3. Marked
    BY <1>0, <2>1, <2>2, ContinuousMarks
  <2>4. QED
    BY <1>0, <2>2, <2>3 DEF Quiet, AnnotateOnly
<1>5. CASE ClearFailure
  <2>1. AnnotateOnly /\ AnnotateContinuousEnd
        /\ finfo' = [finfo EXCEPT !.connected = AllConnected, !.crashed = {}]
    BY <1>5 DEF ClearFailure, AnnotateClearFailure
  <2>2. finfo' \in Finfo
    BY <1>0, <2>1 DEF Finfo, AllConnected
  <2>3. Marked
    BY <1>0, <2>1, NoneType, ContinuousMarks
  <2>4. QED
    BY <2>1, <2>2, <2>3 DEF Quiet, AnnotateOnly
<1>6. CASE One
  <2>1. finfo' \in Finfo
    BY <1>0, <1>6 DEF One, AnnotateCheckerBegin, Finfo
  <2>2. Marked
    BY <1>0, <1>6 DEF One, marks, Marked, AnTypeOK
  <2>3. QED
    BY <1>6, <2>1, <2>2 DEF One, Quiet, AnnotateOnly
<1>7. CASE OneReturns
  <2>1. Annotate({CheckerKind}) /\ AnnotateOnly /\ finfo' = finfo
    BY <1>7 DEF OneReturns, AnnotateCheckerEnd
  <2>2. {CheckerKind} \subseteq Kind \ {"ops"}
    BY CheckerKindType DEF Kind
  <2>3. Marked
    BY <1>0, <2>1, <2>2, AnnotateMarks
  <2>4. QED
    BY <1>0, <2>1, <2>3 DEF Quiet, AnnotateOnly
<1>8. ASSUME NEW i \in Srv, Restart(i)
      PROVE  Quiet
  BY <1>0, <1>8, AnUnchanged DEF Restart
<1>9. CASE EndTest \/ Cleaned
  BY <1>0, <1>9, AnUnchanged DEF EndTest, Cleaned
<1>10. QED
  BY <1>1, <1>2, <1>3, <1>4, <1>5, <1>6, <1>7, <1>8, <1>9 DEF TestOperation
-----------------------------------------------------------------------------
(* An applier with a command.                                              *)

InOrder(p, index) == snapshot => index = lastApplied[p] + 1

\* The checks of checkLogs and applierSnap.
Accepts(p, index, cmd) ==
    /\ InOrder(p, index)
    /\ Agrees(p[1], index, cmd)
    /\ index > 1 => index - 1 \in DOMAIN logs[Current(p[1])]

\* What becomes of the log and of the snapshots.
LEMMA ApplyLogs ==
    ASSUME TypeOK, NEW p \in Inst, NEW index \in Index, NEW cmd \in Cmd,
           ApplyCommand(p, index, cmd)
    PROVE  /\ logs' \in [Inst -> Log] /\ lastApplied' \in [Inst -> 0..MaxIndex]
           /\ saved' \in [Inst -> Snap]
           /\ \A q \in Inst : q # Current(p[1]) => logs'[q] = logs[q]
           /\ ~InOrder(p, index) => logs' = logs
           /\ InOrder(p, index) => logs'[Current(p[1])] = Put(logs[Current(p[1])], index, cmd)
           /\ lastApplied' = IF correct THEN [lastApplied EXCEPT ![p] = index] ELSE lastApplied
           /\ \/ saved' = saved
              \/ TakesSnapshot(index) /\ saved' = [saved EXCEPT ![p] = SnapshotOf(logs'[p], index)]
<1>0. p[1] \in Srv /\ Current(p[1]) \in Inst /\ index \in 0..MaxIndex
  BY Instances, CurrentType, BoundAssumption DEF Index
<1>1. logs' = IF InOrder(p, index)
              THEN [logs EXCEPT ![Current(p[1])] = Put(@, index, cmd)] ELSE logs
  BY DEF ApplyCommand, InOrder
<1>2. logs[Current(p[1])] \in Log
  BY <1>0 DEF TypeOK
<1>3. logs' \in [Inst -> Log]
  BY <1>0, <1>1, <1>2, PutType DEF TypeOK
<1>4. lastApplied' = IF correct THEN [lastApplied EXCEPT ![p] = index] ELSE lastApplied
  BY DEF ApplyCommand
<1>5. lastApplied' \in [Inst -> 0..MaxIndex]
  BY <1>0, <1>4 DEF TypeOK
<1>6. \/ saved' = saved
      \/ TakesSnapshot(index) /\ saved' = [saved EXCEPT ![p] = SnapshotOf(logs'[p], index)]
  BY DEF ApplyCommand
<1>7. logs'[p] \in Log
  BY <1>3
<1>8. saved' \in [Inst -> Snap]
  BY <1>6, <1>7, SnapshotOfType DEF TypeOK
<1>9. /\ \A q \in Inst : q # Current(p[1]) => logs'[q] = logs[q]
      /\ ~InOrder(p, index) => logs' = logs
      /\ InOrder(p, index) => logs'[Current(p[1])] = Put(logs[Current(p[1])], index, cmd)
  BY <1>0, <1>1 DEF TypeOK
<1>10. QED
  BY <1>3, <1>4, <1>5, <1>6, <1>8, <1>9

\* The outcome: the applier goes on, meets an error, or calls a nil Raft.
LEMMA ApplyOutcome ==
    ASSUME TypeOK, NEW p \in Inst, NEW index \in Index, NEW cmd \in Cmd,
           ApplyCommand(p, index, cmd)
    PROVE  /\ Quiet /\ finfo' = finfo /\ continuous' = continuous
           /\ UNCHANGED <<fixed, srvs, newest, raft, connected, main, wroteOps>>
           /\ stale' = (stale \/ Current(p[1]) # p \/ p \notin raft)
           /\ \/ failing' = failing /\ exited' = exited /\ Accepts(p, index, cmd)
              \/ /\ failing' = failing \cup {p} /\ exited' = exited
                 /\ CheckerKind \in annotations' /\ ~Accepts(p, index, cmd)
              \/ failing' = failing /\ exited' = "panic" /\ snapshot /\ p \notin raft
<1> DEFINE snapped == IF TakesSnapshot(index) THEN {"info"} ELSE {}
           panics == TakesSnapshot(index) /\ p \notin raft
<1>0. AnTypeOK
  BY DEF TypeOK
<1>1. /\ UNCHANGED <<fixed, srvs, newest, raft, connected, main, wroteOps>>
      /\ stale' = (stale \/ Current(p[1]) # p \/ p \notin raft)
  BY DEF ApplyCommand
<1>2. CASE panics
  <2>1. UNCHANGED anVars /\ failing' = failing /\ exited' = "panic"
    BY <1>2 DEF ApplyCommand
  <2>2. Quiet /\ finfo' = finfo /\ continuous' = continuous
    BY <1>0, <2>1, AnUnchanged DEF anVars, marks
  <2>3. QED
    BY <1>1, <1>2, <2>1, <2>2 DEF TakesSnapshot
<1>3. CASE ~panics /\ Accepts(p, index, cmd)
  <2>1. Applied /\ Annotate(snapped)
    BY <1>3 DEF ApplyCommand, Accepts, InOrder
  <2>2. Marked
    BY <1>0, <2>1, AnnotateMarks DEF Kind
  <2>3. finfo' \in Finfo
    BY <1>0, <2>1 DEF Applied, AnTypeOK, Finfo
  <2>4. QED
    BY <1>1, <1>3, <2>1, <2>2, <2>3 DEF Applied, Annotate, Quiet
<1>4. CASE ~panics /\ ~Accepts(p, index, cmd)
  <2>1. ApplyError(p, snapped)
    BY <1>4 DEF ApplyCommand, Accepts, InOrder
  <2>2. Annotate(snapped \cup {CheckerKind})
    BY <2>1 DEF ApplyError
  <2>3. Marked
    BY <1>0, <2>2, CheckerKindType, AnnotateMarks DEF Kind
  <2>4. finfo' \in Finfo
    BY <1>0, <2>1 DEF ApplyError, AnTypeOK, Finfo
  <2>5. CheckerKind \in annotations' /\ continuous' = continuous
    BY <2>2 DEF Annotate
  <2>6. QED
    BY <1>1, <1>4, <2>1, <2>3, <2>4, <2>5 DEF ApplyError, Quiet
<1>5. QED
  BY <1>2, <1>3, <1>4
-----------------------------------------------------------------------------
(* The types.                                                              *)

\* Quiet steps keep the types of the annotations.
LEMMA QuietType ==
    ASSUME AnTypeOK, Quiet
    PROVE  AnTypeOK'
BY DEF AnTypeOK, Quiet, Marked, Finfo, Kind

\* What the steps of cleanup do, once it has asked isFinalized.
Asked(p) ==
    /\ cleaning[p] = "no"
    /\ cleaning'[p] = "clear" \/ (cleaning'[p] = "finalize" /\ ~finalized)
    /\ UNCHANGED <<annotations, finalized, file, content>>

Cleared(p) ==
    /\ cleaning[p] = "clear" /\ cleaning'[p] = "done"
    /\ annotations' = {}
    /\ UNCHANGED <<file, content>>
    /\ ~finalized'

Took(p) ==
    /\ cleaning[p] = "finalize"
    /\ cleaning'[p] = IF Finalized = {} THEN "done" ELSE "open"
    /\ content'[p] = Finalized
    /\ \A q \in Cleaner : q # p => content'[q] = content[q]
    /\ UNCHANGED <<annotations, file>>

Opened(p) ==
    /\ cleaning[p] = "open" /\ cleaning'[p] = "write"
    /\ file' = {}
    /\ UNCHANGED <<annotations, content>>

Wrote(p) ==
    /\ cleaning[p] = "write" /\ cleaning'[p] = "done"
    /\ file' = content[p] \cup {"end"}
    /\ content'[p] = {}
    /\ \A q \in Cleaner : q # p => content'[q] = content[q]
    /\ UNCHANGED annotations

\* The goroutine whose step it is goes on in cleanup, and nobody else.
Moves(p) ==
    /\ AnTypeOK'
    /\ finfo' = finfo /\ visEnable' = visEnable
    /\ \A q \in Cleaner : q # p => cleaning'[q] = cleaning[q]
    /\ cleaning[p] # "done" /\ cleaning'[p] # "no"

\* The first step of cleanup: an applier, which has failed, clears only if
\* nothing is to be shown or somebody has finalized.
LEMMA AskedStep ==
    ASSUME AnTypeOK, NEW p \in Cleaner, NEW failed \in BOOLEAN, Cleanup(p, failed)
    PROVE  /\ Moves(p) /\ Asked(p)
           /\ failed /\ cleaning'[p] = "clear" => visEnable = "never" \/ finalized
<1>1. /\ cleaning[p] = "no" /\ UNCHANGED <<marks, finalized, finfo, visEnable, file, content>>
      /\ cleaning' = [cleaning EXCEPT ![p] =
            IF visEnable = "never" \/ (~failed /\ visEnable # "always") \/ finalized
            THEN "clear" ELSE "finalize"]
  BY DEF Cleanup, Stage
<1>2. QED
  BY <1>1 DEF AnTypeOK, marks, Moves, Asked

\* The steps after it.
LEMMA LaterStep ==
    ASSUME AnTypeOK, NEW p \in Cleaner,
           Clear(p) \/ Finalize(p) \/ OpenFile(p) \/ WriteFile(p)
    PROVE  /\ Moves(p) /\ cleaning[p] # "no"
           /\ Cleared(p) \/ Took(p) \/ Opened(p) \/ Wrote(p)
<1>1. CASE Clear(p)
  BY <1>1, NoneType DEF Clear, Stage, AnTypeOK, Moves, Cleared
<1>2. CASE Finalize(p)
  <2>1. Finalized \subseteq Kind
    BY DEF Finalized, AnTypeOK, Kind
  <2>2. QED
    BY <1>2, <2>1 DEF Finalize, Stage, AnTypeOK, Moves, Took, marks
<1>3. CASE OpenFile(p)
  BY <1>3 DEF OpenFile, Stage, AnTypeOK, Moves, Opened, marks
<1>4. CASE WriteFile(p)
  <2>1. content[p] \cup {"end"} \subseteq Kind
    BY DEF AnTypeOK, Kind
  <2>2. QED
    BY <1>4, <2>1 DEF WriteFile, Stage, AnTypeOK, Moves, Wrote, marks
<1>5. QED
  BY <1>1, <1>2, <1>3, <1>4

\* A step of cleanup is one of these.
LEMMA CleanupStepType ==
    ASSUME TypeOK, NEW p \in Cleaner, CleanupStep(p)
    PROVE  /\ Moves(p)
           /\ Asked(p) \/ Cleared(p) \/ Took(p) \/ Opened(p) \/ Wrote(p)
<1>1. \/ \E failed \in BOOLEAN : Cleanup(p, failed)
      \/ Clear(p) \/ Finalize(p) \/ OpenFile(p) \/ WriteFile(p)
  BY DEF CleanupStep
<1>2. AnTypeOK
  BY DEF TypeOK
<1>3. QED
  BY <1>1, <1>2, AskedStep, LaterStep

\* The rest of TypeOK, which does not look at the annotations.
LEMMA TestOperationType ==
    ASSUME TypeOK, TestOperation
    PROVE  TypeOK'
<1>0. AnTypeOK'
  BY TestOperationQuiet, QuietType DEF TypeOK
<1>1. AllConnected \in [Srv -> BOOLEAN]
  BY DEF AllConnected
<1>2. ASSUME NEW i \in Srv, NEW yes \in BOOLEAN, Connect(i, yes)
      PROVE  TypeOK'
  BY <1>0, <1>2 DEF Connect, TestStep, TypeOK, srvVars, fixed, history
<1>3. ASSUME NEW S \in SUBSET Srv \ {{}}, Shutdown(S)
      PROVE  TypeOK'
  BY <1>0, <1>3 DEF Shutdown, TestStep, TypeOK, fixed, history
<1>4. ASSUME NEW S \in SUBSET Srv \ {{}}, Restarted(S)
      PROVE  TypeOK'
  <2>1. logs' \in [Inst -> Log]
    BY <1>4, EmptyLog DEF Restarted, TypeOK
  <2>2. QED
    BY <1>0, <1>1, <1>4, <2>1 DEF Restarted, TypeOK, fixed, history
<1>5. ASSUME NEW S \in SUBSET Srv \ {{}}, Partition(S)
      PROVE  TypeOK'
  BY <1>0, <1>1, <1>5 DEF Partition, TestStep, TypeOK, srvVars, fixed, history
<1>6. ASSUME NEW i \in Srv, Restart(i)
      PROVE  TypeOK'
  <2> DEFINE p == <<i, newest[i] + 1>>
             snap == saved[<<i, newest[i]>>]
  <2>0. newest[i] \in 1..MaxInst /\ newest[i] < MaxInst
    BY <1>6 DEF Restart, TypeOK
  <2>1. p \in Inst /\ <<i, newest[i]>> \in Inst /\ newest[i] + 1 \in 1..MaxInst
    BY <2>0, BoundAssumption DEF Inst
  <2>2. snap \in Snap
    BY <2>1 DEF TypeOK
  <2>3. /\ newest' = [newest EXCEPT ![i] = newest[i] + 1] /\ raft' = raft \cup {p}
        /\ saved' = [saved EXCEPT ![p] = snap]
        /\ IF snap = <<>> THEN UNCHANGED <<logs, lastApplied>>
           ELSE /\ logs' = [logs EXCEPT ![p] = snap]
                /\ lastApplied' = [lastApplied EXCEPT ![p] = SnapIndex(snap)]
        /\ UNCHANGED <<fixed, srvs, connected, failing, exited, history>> /\ main' = "restart"
    BY <1>6 DEF Restart, TestStep
  <2> HIDE DEF p, snap
  <2>4. snap # <<>> => snap \in Log /\ SnapIndex(snap) \in 0..MaxIndex
    BY <2>2, SnapType, BoundAssumption DEF Index
  <2>5. logs' \in [Inst -> Log] /\ lastApplied' \in [Inst -> 0..MaxIndex]
    BY <2>1, <2>3, <2>4 DEF TypeOK
  <2>6. QED
    BY <1>0, <2>1, <2>2, <2>3, <2>5 DEF TypeOK, fixed, history
<1>7. CASE ClearFailure \/ One \/ OneReturns \/ EndTest \/ Cleaned
  BY <1>0, <1>1, <1>7 DEF ClearFailure, One, OneReturns, EndTest, Cleaned, TestStep, TypeOK,
                          srvVars, fixed, history
<1>8. QED
  BY <1>2, <1>3, <1>4, <1>5, <1>6, <1>7 DEF TestOperation

\* Every step of a Raft test keeps the types.
LEMMA TypeStep == TypeOK /\ [Next]_vars => TypeOK'
<1> SUFFICES ASSUME TypeOK, [Next]_vars PROVE TypeOK'
  OBVIOUS
<1>0. AnTypeOK
  BY DEF TypeOK
<1>u. UNCHANGED anVars => AnTypeOK'
  BY <1>0, AnUnchanged, QuietType
<1>1. CASE TestOperation
  BY <1>1, TestOperationType
<1>2. CASE SetFinalized
  BY <1>2 DEF SetFinalized, SetAnnotationFinalized, TestStep, TypeOK, AnTypeOK, marks,
              srvVars, fixed, history
<1>3. ASSUME NEW illegal \in BOOLEAN, CheckHistory(illegal)
      PROVE  TypeOK'
  <2>1. AnTypeOK'
    BY <1>0, <1>3 DEF CheckHistory, CheckPorcupine, Finalized, AnTypeOK, marks, Kind
  <2>2. QED
    BY <1>3, <2>1 DEF CheckHistory, TypeOK, srvVars, fixed
<1>4. ASSUME NEW p \in Inst, Deliver(p)
      PROVE  TypeOK'
  <2>1. PICK index \in Index, cmd \in Cmd : ApplyCommand(p, index, cmd)
    BY <1>4 DEF Deliver
  <2>2. AnTypeOK'
    BY <1>0, <2>1, ApplyOutcome, QuietType
  <2>3. exited' \in {exited, "panic"} /\ failing' \subseteq Inst
    BY <2>1, ApplyOutcome DEF TypeOK
  <2>4. logs' \in [Inst -> Log] /\ lastApplied' \in [Inst -> 0..MaxIndex] /\ saved' \in [Inst -> Snap]
    BY <2>1, ApplyLogs
  <2>5. UNCHANGED <<fixed, srvs, newest, raft, connected, main, wroteOps>> /\ stale' \in BOOLEAN
    BY <2>1, ApplyOutcome DEF TypeOK
  <2>6. QED
    BY <2>2, <2>3, <2>4, <2>5 DEF TypeOK, fixed
<1>5. ASSUME NEW p \in Inst, NEW q \in Inst, DeliverSnapshot(p, q)
      PROVE  TypeOK'
  <2>0. lastApplied[p] \in 0..MaxIndex /\ saved[q] \in Snap
    BY DEF TypeOK
  <2>1. lastApplied[p] \in Nat /\ saved[q] \in Snap
    BY <2>0, BoundAssumption
  <2>2. saved[q] \in Log /\ SnapIndex(saved[q]) \in 0..MaxIndex
    BY <1>5, <2>1, SnapType, BoundAssumption DEF DeliverSnapshot, Index
  <2>3. logs' \in [Inst -> Log] /\ lastApplied' \in [Inst -> 0..MaxIndex]
    BY <1>5, <2>2 DEF DeliverSnapshot, TypeOK
  <2>4. QED
    BY <1>u, <1>5, <2>3 DEF DeliverSnapshot, TypeOK, fixed, history
<1>6. ASSUME NEW p \in Inst, Exit(p)
      PROVE  TypeOK'
  BY <1>u, <1>6 DEF Exit, TypeOK, fixed, srvVars, history
<1>7. ASSUME NEW p \in Cleaner, CleanupStep(p)
      PROVE  TypeOK'
  <2>1. AnTypeOK'
    BY <1>7, CleanupStepType DEF Moves
  <2>2. QED
    BY <1>7, <2>1 DEF CleanupStep, TypeOK, fixed, srvVars, history
<1>8. CASE Interrupted
  BY <1>u, <1>8 DEF Interrupted, TypeOK, fixed, srvVars, history
<1>9. CASE UNCHANGED vars
  BY <1>u, <1>9 DEF vars, TypeOK, fixed, srvVars, history
<1>10. QED
  BY <1>1, <1>2, <1>3, <1>4, <1>5, <1>6, <1>7, <1>8, <1>9, NextCases
-----------------------------------------------------------------------------
(* The instances: only mksrv changes which are there, and its two steps    *)
(* are Restart and Restarted.                                              *)

\* What the first half of mksrv changes.
LEMMA RestartStep ==
    ASSUME TypeOK, NEW i \in Srv, Restart(i), NEW p, p = <<i, newest[i] + 1>>
    PROVE  /\ main = "test" /\ main' = "restart"
           /\ newest[i] + 1 \in 1..MaxInst
           /\ p \in Inst /\ <<i, newest[i]>> \in Inst
           /\ newest' = [newest EXCEPT ![i] = newest[i] + 1]
           /\ raft' = raft \cup {p}
           /\ saved' = [saved EXCEPT ![p] = saved[<<i, newest[i]>>]]
           /\ \/ UNCHANGED <<logs, lastApplied>>
              \/ /\ saved[<<i, newest[i]>>] # <<>>
                 /\ logs' = [logs EXCEPT ![p] = saved[<<i, newest[i]>>]]
                 /\ lastApplied' = [lastApplied EXCEPT ![p] = SnapIndex(saved[<<i, newest[i]>>])]
           /\ UNCHANGED <<anVars, fixed, srvs, connected, failing, exited, history>>
<1>1. newest[i] \in 1..MaxInst /\ newest[i] < MaxInst
  BY DEF Restart, TypeOK
<1>2. newest[i] + 1 \in 1..MaxInst /\ p \in Inst /\ <<i, newest[i]>> \in Inst
  BY <1>1, BoundAssumption DEF Inst
<1>3. QED
  BY <1>2 DEF Restart, TestStep

\* The steps that leave logs, snapshots and instances alone.
Calm ==
    /\ UNCHANGED <<srvs, newest, logs, lastApplied, saved, fixed, failing, stale>>
    /\ main' = "restart" <=> main = "restart"

\* Only restarts and deliveries change logs, snapshots and instances.
LEMMA CalmSteps ==
    ASSUME [Next]_vars
    PROVE  \/ Calm
           \/ \E i \in Srv : Restart(i)
           \/ \E S \in SUBSET Srv \ {{}} : Restarted(S)
           \/ \E p \in Inst : Deliver(p)
           \/ \E p, q \in Inst : DeliverSnapshot(p, q)
<1>1. ASSUME NEW i \in Srv, NEW yes \in BOOLEAN, Connect(i, yes) PROVE Calm
  BY <1>1 DEF Connect, TestStep, Calm, srvVars, history
<1>2. ASSUME NEW S \in SUBSET Srv \ {{}}, Shutdown(S) \/ Partition(S) PROVE Calm
  BY <1>2 DEF Shutdown, Partition, TestStep, Calm, srvVars, history
<1>3. CASE ClearFailure \/ One \/ OneReturns \/ EndTest \/ Cleaned
  BY <1>3 DEF ClearFailure, One, OneReturns, EndTest, Cleaned, TestStep, Calm, srvVars, history
<1>4. CASE SetFinalized \/ Interrupted \/ UNCHANGED vars
  BY <1>4 DEF SetFinalized, Interrupted, TestStep, Calm, vars, srvVars, history
<1>5. ASSUME NEW illegal \in BOOLEAN, CheckHistory(illegal) PROVE Calm
  BY <1>5 DEF CheckHistory, Calm, srvVars
<1>6. ASSUME NEW p \in Inst, Exit(p) PROVE Calm
  BY <1>6 DEF Exit, Calm, srvVars, history
<1>7. ASSUME NEW p \in Cleaner, CleanupStep(p) PROVE Calm
  BY <1>7 DEF CleanupStep, Calm, srvVars, history
<1>8. QED
  BY <1>1, <1>2, <1>3, <1>4, <1>5, <1>6, <1>7, NextCases DEF TestOperation

\* ts.srvs lags behind only while mksrv runs.
LEMMA InstalledStep == TypeOK /\ Installed /\ [Next]_vars => Installed'
<1> SUFFICES ASSUME TypeOK, Installed, [Next]_vars PROVE Installed'
  OBVIOUS
<1>0. \A i \in Srv : newest[i] \in Nat /\ srvs[i] \in Nat
  BY CurrentType, BoundAssumption
<1>1. ASSUME UNCHANGED <<srvs, newest>>, main' = "restart" <=> main = "restart"
      PROVE  Installed'
  BY <1>1 DEF Installed
<1>2. ASSUME NEW i \in Srv, Restart(i)
      PROVE  Installed'
  <2>1. newest' = [newest EXCEPT ![i] = newest[i] + 1] /\ main' = "restart" /\ srvs' = srvs
    BY <1>2, RestartStep
  <2>2. \A j \in Srv : newest'[j] = newest[j] \/ newest'[j] = newest[j] + 1
    BY <2>1 DEF TypeOK
  <2>3. QED
    BY <1>0, <2>1, <2>2 DEF Installed
<1>3. ASSUME NEW S \in SUBSET Srv \ {{}}, Restarted(S)
      PROVE  Installed'
  BY <1>0, <1>3 DEF Restarted, Installed
<1>4. ASSUME NEW p \in Inst, Deliver(p)
      PROVE  Installed'
  <2>1. PICK index \in Index, cmd \in Cmd : ApplyCommand(p, index, cmd)
    BY <1>4 DEF Deliver
  <2>2. QED
    BY <1>1, <2>1, ApplyOutcome
<1>5. ASSUME NEW p \in Inst, NEW q \in Inst, DeliverSnapshot(p, q)
      PROVE  Installed'
  BY <1>1, <1>5 DEF DeliverSnapshot
<1>6. QED
  BY <1>1, <1>2, <1>3, <1>4, <1>5, CalmSteps DEF Calm

-----------------------------------------------------------------------------
(* The logs of a test without snapshots.                                   *)

\* Without snapshots an instance that is not in ts.srvs yet has an empty log.
LEMMA PlainStep == TypeOK /\ Installed /\ PlainInv /\ [Next]_vars => PlainInv'
<1> SUFFICES ASSUME TypeOK, Installed, PlainInv, [Next]_vars, ~snapshot',
                    NEW r \in Inst
             PROVE  saved'[r] = <<>> /\ (r[2] > srvs'[r[1]] => logs'[r] = <<>>)
  BY DEF PlainInv
<1>0. r[1] \in Srv /\ r[2] \in Nat /\ srvs[r[1]] \in Nat /\ newest[r[1]] \in Nat
  BY Instances, CurrentType, BoundAssumption
<1>1. CASE Calm
  BY <1>1 DEF Calm, fixed, PlainInv
<1>2. ASSUME NEW i \in Srv, Restart(i)
      PROVE  saved'[r] = <<>> /\ (r[2] > srvs'[r[1]] => logs'[r] = <<>>)
  <2> DEFINE p == <<i, newest[i] + 1>>
  <2>1. /\ saved' = [saved EXCEPT ![p] = saved[<<i, newest[i]>>]]
        /\ snapshot' = snapshot /\ srvs' = srvs
        /\ saved[<<i, newest[i]>>] = <<>> => logs' = logs
        /\ <<i, newest[i]>> \in Inst
    BY <1>2, RestartStep DEF fixed
  <2>2. QED
    BY <2>1 DEF PlainInv, TypeOK
<1>3. ASSUME NEW S \in SUBSET Srv \ {{}}, Restarted(S)
      PROVE  saved'[r] = <<>> /\ (r[2] > srvs'[r[1]] => logs'[r] = <<>>)
  <2>1. /\ snapshot' = snapshot /\ saved' = saved /\ srvs' = newest
        /\ logs'[r] = <<>> \/ logs'[r] = logs[r]
    BY <1>3 DEF Restarted, fixed
  <2>2. QED
    BY <1>0, <2>1 DEF PlainInv, Installed
<1>4. ASSUME NEW p \in Inst, Deliver(p)
      PROVE  saved'[r] = <<>> /\ (r[2] > srvs'[r[1]] => logs'[r] = <<>>)
  <2>1. PICK index \in Index, cmd \in Cmd : ApplyCommand(p, index, cmd)
    BY <1>4 DEF Deliver
  <2>2. snapshot' = snapshot /\ srvs' = srvs
    BY <2>1, ApplyOutcome DEF fixed
  <2>3. saved' = saved
    BY <2>1, <2>2, ApplyLogs DEF TakesSnapshot
  <2>4. ASSUME r[2] > srvs[r[1]] PROVE r # Current(p[1])
    BY <1>0, <2>4, Instances, CurrentType
  <2>5. QED
    BY <2>1, <2>2, <2>3, <2>4, ApplyLogs DEF PlainInv
<1>5. ASSUME NEW p \in Inst, NEW q \in Inst, DeliverSnapshot(p, q)
      PROVE  saved'[r] = <<>> /\ (r[2] > srvs'[r[1]] => logs'[r] = <<>>)
  BY <1>5 DEF DeliverSnapshot, fixed
<1>6. QED
  BY <1>1, <1>2, <1>3, <1>4, <1>5, CalmSteps

\* The part of LogInv about the logs.
LogsAgree ==
    failing = {} /\ ~snapshot =>
         \A i \in Srv :
            LET log == logs[Current(i)]
            IN  /\ \A n \in DOMAIN log : n > 1 => n - 1 \in DOMAIN log
                /\ \A j \in Srv, n \in DOMAIN log :
                      n \in DOMAIN logs[Current(j)] => logs[Current(j)][n] = log[n]

\* A log without gaps, and two that agree.
NoGap(log) == \A n \in DOMAIN log : n > 1 => n - 1 \in DOMAIN log
Same(one, other) == \A n \in DOMAIN one : n \in DOMAIN other => other[n] = one[n]

\* LogsAgree, with its two parts named.
LEMMA LogsAgreeDef ==
    LogsAgree <=> (failing = {} /\ ~snapshot =>
                    /\ \A i \in Srv : NoGap(logs[Current(i)])
                    /\ \A i, j \in Srv : Same(logs[Current(i)], logs[Current(j)]))
BY DEF LogsAgree, NoGap, Same

\* Writing a command that the other log does not contradict keeps two logs the
\* same where both have an index.
LEMMA PutAgrees ==
    ASSUME NEW log \in Log, NEW other \in Log, NEW index \in Index, NEW cmd \in Cmd,
           index \in DOMAIN other => other[index] = cmd,
           Same(log, other)
    PROVE  Same(Put(log, index, cmd), other) /\ Same(other, Put(log, index, cmd))
<1> DEFINE new == Put(log, index, cmd)
<1>1. DOMAIN new = DOMAIN log \cup {index}
  BY PutType
<1>2. \A n \in DOMAIN new : new[n] = IF n = index THEN cmd ELSE log[n]
  BY DEF Put
<1> HIDE DEF new
<1>3. Same(new, other) /\ Same(other, new)
  BY <1>1, <1>2 DEF Same
<1>4. QED
  BY <1>3 DEF new

\* Writing the command after the last one leaves no gap.
LEMMA PutNoGap ==
    ASSUME NEW log \in Log, NEW index \in Index, NEW cmd \in Cmd,
           NoGap(log), index > 1 => index - 1 \in DOMAIN log
    PROVE  NoGap(Put(log, index, cmd)) /\ Same(Put(log, index, cmd), Put(log, index, cmd))
<1> DEFINE new == Put(log, index, cmd)
<1>1. DOMAIN new = DOMAIN log \cup {index}
  BY PutType
<1>2. \A n \in DOMAIN new : new[n] = IF n = index THEN cmd ELSE log[n]
  BY DEF Put
<1> HIDE DEF new
<1>3. NoGap(new) /\ Same(new, new)
  BY <1>1 DEF NoGap, Same
<1>4. QED
  BY <1>3 DEF new

\* checkLogs and the order check keep the logs the same.
LEMMA LogsStep ==
    TypeOK /\ Installed /\ PlainInv /\ LogsAgree /\ [Next]_vars => LogsAgree'
<1> SUFFICES ASSUME TypeOK, Installed, PlainInv, LogsAgree, [Next]_vars,
                    failing' = {}, ~snapshot'
             PROVE  /\ \A i \in Srv : NoGap(logs'[<<i, srvs'[i]>>])
                    /\ \A i, j \in Srv : Same(logs'[<<i, srvs'[i]>>], logs'[<<j, srvs'[j]>>])
  BY DEF LogsAgree, Current, NoGap, Same
<1> DEFINE Goal == /\ \A i \in Srv : NoGap(logs'[<<i, srvs'[i]>>])
                   /\ \A i, j \in Srv : Same(logs'[<<i, srvs'[i]>>], logs'[<<j, srvs'[j]>>])
<1>0. ASSUME failing = {}, ~snapshot
      PROVE  /\ \A i \in Srv : NoGap(logs[<<i, srvs[i]>>])
             /\ \A i, j \in Srv : Same(logs[<<i, srvs[i]>>], logs[<<j, srvs[j]>>])
  BY <1>0, LogsAgreeDef DEF Current
<1>1. CASE UNCHANGED <<srvs, logs, fixed, failing>>
  BY <1>0, <1>1 DEF fixed
<1>2. ASSUME NEW i \in Srv, Restart(i)
      PROVE  Goal
  <2>1. UNCHANGED <<srvs, fixed, failing>> /\ <<i, newest[i]>> \in Inst
        /\ (saved[<<i, newest[i]>>] = <<>> => logs' = logs)
    BY <1>2, RestartStep
  <2>2. logs' = logs
    BY <2>1 DEF PlainInv, fixed
  <2>3. QED
    BY <1>1, <2>1, <2>2
<1>3. ASSUME NEW S \in SUBSET Srv \ {{}}, Restarted(S)
      PROVE  Goal
  <2>1. UNCHANGED <<fixed, failing>> /\ srvs' = newest
        /\ logs' = [p \in Inst |-> IF p[2] < newest[p[1]] THEN <<>> ELSE logs[p]]
    BY <1>3 DEF Restarted
  <2>2. failing = {} /\ ~snapshot
    BY <2>1 DEF fixed
  <2>3. ASSUME NEW i \in Srv
        PROVE  logs'[<<i, srvs'[i]>>] = <<>> \/ logs'[<<i, srvs'[i]>>] = logs[<<i, srvs[i]>>]
    <3>1. newest[i] \in 1..MaxInst /\ srvs[i] \in 1..MaxInst /\ srvs[i] <= newest[i]
      BY CurrentType DEF Installed
    <3>2. <<i, newest[i]>> \in Inst /\ ~(newest[i] < newest[i])
      BY <3>1, Instances
    <3>3. logs'[<<i, newest[i]>>] = logs[<<i, newest[i]>>]
      BY <2>1, <3>2
    <3>4. CASE newest[i] = srvs[i]
      BY <2>1, <3>3, <3>4
    <3>5. CASE newest[i] > srvs[i]
      BY <2>1, <2>2, <3>2, <3>3, <3>5 DEF PlainInv
    <3>6. QED
      BY <3>1, <3>4, <3>5
  <2>4. NoGap(<<>>) /\ \A log : Same(<<>>, log) /\ Same(log, <<>>)
    BY EmptyLog DEF NoGap, Same
  <2>5. QED
    BY <1>0, <2>2, <2>3, <2>4
<1>4. ASSUME NEW p \in Inst, Deliver(p)
      PROVE  Goal
  <2>1. PICK index \in Index, cmd \in Cmd : ApplyCommand(p, index, cmd)
    BY <1>4 DEF Deliver
  <2>2. UNCHANGED <<fixed, srvs>> /\ failing = {} /\ Accepts(p, index, cmd)
    <3>1. ~snapshot /\ UNCHANGED <<fixed, srvs>>
      BY <2>1, ApplyOutcome DEF fixed
    <3>2. failing' # failing \cup {p}
      OBVIOUS
    <3>3. QED
      BY <2>1, <3>1, <3>2, ApplyOutcome
  <2> DEFINE i == p[1]
             old == logs[<<i, srvs[i]>>]
             new == Put(old, index, cmd)
  <2>3. i \in Srv /\ Current(i) = <<i, srvs[i]>> /\ <<i, srvs[i]>> \in Inst
    BY Instances, CurrentType DEF Current
  <2>4. \A j \in Srv : <<j, srvs[j]>> \in Inst /\ logs[<<j, srvs[j]>>] \in Log
    BY CurrentType DEF Current, TypeOK
  <2>5. logs'[<<i, srvs[i]>>] = new
        /\ \A j \in Srv : j # i => logs'[<<j, srvs[j]>>] = logs[<<j, srvs[j]>>]
    <3>1. logs'[<<i, srvs[i]>>] = new
      BY <2>1, <2>2, <2>3, ApplyLogs DEF Accepts
    <3>2. QED
      BY <2>1, <2>3, <2>4, <3>1, ApplyLogs
  <2>6. /\ \A j \in Srv : index \in DOMAIN logs[<<j, srvs[j]>>] => logs[<<j, srvs[j]>>][index] = cmd
        /\ index > 1 => index - 1 \in DOMAIN old
    BY <2>2, <2>3 DEF Accepts, Agrees, Current
  <2>7. /\ \A j \in Srv : NoGap(logs[<<j, srvs[j]>>])
        /\ \A j, k \in Srv : Same(logs[<<j, srvs[j]>>], logs[<<k, srvs[k]>>])
    BY <1>0, <2>2 DEF fixed
  <2>8. NoGap(new) /\ Same(new, new)
    BY <2>3, <2>4, <2>6, <2>7, PutNoGap
  <2>9. ASSUME NEW j \in Srv
        PROVE  Same(new, logs[<<j, srvs[j]>>]) /\ Same(logs[<<j, srvs[j]>>], new)
    BY <2>3, <2>4, <2>6, <2>7, PutAgrees
  <2> HIDE DEF i, old, new
  <2>10. \A j \in Srv : \/ j = i /\ logs'[<<j, srvs'[j]>>] = new
                        \/ j # i /\ logs'[<<j, srvs'[j]>>] = logs[<<j, srvs[j]>>]
    BY <2>2, <2>5
  <2>11. QED
    BY <2>7, <2>8, <2>9, <2>10
<1>5. ASSUME NEW p \in Inst, NEW q \in Inst, DeliverSnapshot(p, q)
      PROVE  Goal
  BY <1>5 DEF DeliverSnapshot, fixed
<1>6. QED
  BY <1>1, <1>2, <1>3, <1>4, <1>5, CalmSteps DEF Calm
-----------------------------------------------------------------------------
(* A correct Raft.                                                         *)

\* A snapshot with what was committed, and a log with just that.
GoodSnap(s) == \A n \in DOMAIN s \ {0} : s[n] = Committed[n]
GoodLog(log, last) == \A n \in Index :
    /\ n \in DOMAIN log <=> n <= last
    /\ n \in DOMAIN log => log[n] = Committed[n]

\* RaftInv, with its two parts named.
LEMMA RaftInvDef ==
    RaftInv <=> (correct /\ ~stale => \A p \in Inst :
                   /\ GoodSnap(saved[p])
                   /\ p[2] >= srvs[p[1]] => GoodLog(logs[p], lastApplied[p]))
BY DEF RaftInv, GoodSnap, GoodLog

\* The same of the next state.
LEMMA RaftInvPrime ==
    ASSUME correct' /\ ~stale' => \A p \in Inst :
             /\ GoodSnap(saved'[p])
             /\ p[2] >= srvs'[p[1]] => GoodLog(logs'[p], lastApplied'[p])
    PROVE  RaftInv'
BY DEF RaftInv, GoodSnap, GoodLog

\* The next command is accepted, and then also in the log.
LEMMA NextCommandIsGood ==
    ASSUME TypeOK, RaftInv, correct, ~stale,
           NEW p \in Inst, p = Current(p[1]),
           NEW index \in Index, index = lastApplied[p] + 1
    PROVE  /\ Accepts(p, index, Committed[index])
           /\ GoodLog(Put(logs[p], index, Committed[index]), index)
           /\ GoodSnap(SnapshotOf(Put(logs[p], index, Committed[index]), index))
<1> DEFINE cmd == Committed[index]
           new == Put(logs[p], index, cmd)
<1>0. p[1] \in Srv /\ cmd \in Cmd /\ index \in Nat /\ index <= MaxIndex /\ lastApplied[p] \in Nat
      /\ logs[p] \in Log /\ MaxIndex \in Nat
  <2>1. lastApplied[p] \in 0..MaxIndex /\ logs[p] \in Log
    BY DEF TypeOK
  <2>2. QED
    BY <2>1, Instances, CommittedAssumption, BoundAssumption DEF Index
<1>1. ASSUME NEW j \in Srv
      PROVE  Current(j) \in Inst /\ GoodLog(logs[Current(j)], lastApplied[Current(j)])
  <2>1. Current(j) \in Inst /\ Current(j)[2] >= srvs[Current(j)[1]]
    BY CurrentType, BoundAssumption
  <2>2. QED
    BY <2>1, RaftInvDef
<1>2. Agrees(p[1], index, cmd)
  BY <1>1 DEF Agrees, GoodLog
<1>3. GoodLog(logs[p], lastApplied[p])
  BY <1>0, <1>1
<1>4. index > 1 => index - 1 \in DOMAIN logs[p]
  <2>1. index > 1 => lastApplied[p] \in Index
    BY <1>0 DEF Index
  <2>2. QED
    BY <1>0, <1>3, <2>1 DEF GoodLog
<1>5. Accepts(p, index, cmd)
  BY <1>2, <1>4 DEF Accepts, InOrder
<1>6. DOMAIN new = DOMAIN logs[p] \cup {index} /\ new \in Log
  <2> HIDE DEF cmd
  <2>1. new \in Log
    BY <1>0, PutType
  <2>2. DOMAIN new = DOMAIN logs[p] \cup {index}
    BY DEF Put
  <2>3. QED
    BY <2>1, <2>2
<1>7. \A n \in DOMAIN new : new[n] = IF n = index THEN cmd ELSE logs[p][n]
  BY DEF Put
<1>8. \A n \in Index : n \in Nat
  BY DEF Index
<1> HIDE DEF new
<1>9. GoodLog(new, index)
  <2> SUFFICES ASSUME NEW n \in Index
               PROVE  /\ n \in DOMAIN new <=> n <= index
                      /\ n \in DOMAIN new => new[n] = Committed[n]
    BY DEF GoodLog
  <2>1. n \in DOMAIN logs[p] <=> n <= lastApplied[p]
    BY <1>3 DEF GoodLog
  <2>2. n \in DOMAIN new <=> n <= index
    BY <1>0, <1>6, <1>8, <2>1
  <2>3. n \in DOMAIN new => new[n] = Committed[n]
    BY <1>3, <1>6, <1>7 DEF GoodLog
  <2>4. QED
    BY <2>2, <2>3
<1> DEFINE s == SnapshotOf(new, index)
<1>10. DOMAIN s = 0..index /\ \A n \in 0..index : n \in DOMAIN new => s[n] = new[n]
  BY <1>6, SnapshotOfType
<1> HIDE DEF s
<1>11. GoodSnap(s)
  <2> SUFFICES ASSUME NEW n \in DOMAIN s, n # 0
               PROVE  s[n] = Committed[n]
    BY DEF GoodSnap
  <2>1. n \in Index /\ n <= index
    BY <1>0, <1>10 DEF Index
  <2>2. n \in DOMAIN new /\ new[n] = Committed[n]
    BY <1>9, <2>1 DEF GoodLog
  <2>3. QED
    BY <1>10, <2>2
<1>12. QED
  BY <1>5, <1>9, <1>11 DEF new, s

\* An instance that starts from a snapshot, or installs one, has its commands.
LEMMA SnapIsGood ==
    ASSUME NEW s \in Snap, s # <<>>, GoodSnap(s)
    PROVE  GoodLog(s, SnapIndex(s))
<1>1. SnapIndex(s) \in Index /\ DOMAIN s = 0..SnapIndex(s)
  BY SnapType
<1>2. \A n \in Index : n \in Nat \ {0}
  BY DEF Index
<1>3. QED
  BY <1>1, <1>2 DEF GoodLog, GoodSnap

\* With a correct Raft, logs and snapshots stay what was committed.
LEMMA RaftStep == TypeOK /\ Installed /\ RaftInv /\ [Next]_vars => RaftInv'
<1> SUFFICES ASSUME TypeOK, Installed, RaftInv, [Next]_vars, correct', ~stale',
                    NEW r \in Inst
             PROVE  /\ GoodSnap(saved'[r])
                    /\ r[2] >= srvs'[r[1]] => GoodLog(logs'[r], lastApplied'[r])
  BY RaftInvPrime
<1> DEFINE Goal == /\ GoodSnap(saved'[r])
                   /\ r[2] >= srvs'[r[1]] => GoodLog(logs'[r], lastApplied'[r])
<1>0. r[1] \in Srv /\ r[2] \in Nat /\ srvs[r[1]] \in Nat /\ newest[r[1]] \in Nat
  BY Instances, CurrentType, BoundAssumption
<1>a. ASSUME correct, ~stale
      PROVE  \A p \in Inst : /\ GoodSnap(saved[p])
                             /\ p[2] >= srvs[p[1]] => GoodLog(logs[p], lastApplied[p])
  BY <1>a, RaftInvDef
<1>1. CASE Calm
  BY <1>a, <1>1 DEF Calm, fixed
<1>2. ASSUME NEW i \in Srv, Restart(i)
      PROVE  Goal
  <2> DEFINE p == <<i, newest[i] + 1>>
             snap == saved[<<i, newest[i]>>]
  <2>1. /\ correct /\ ~stale /\ srvs' = srvs
        /\ p \in Inst /\ <<i, newest[i]>> \in Inst
        /\ saved' = [saved EXCEPT ![p] = snap]
        /\ \/ UNCHANGED <<logs, lastApplied>>
           \/ /\ snap # <<>>
              /\ logs' = [logs EXCEPT ![p] = snap]
              /\ lastApplied' = [lastApplied EXCEPT ![p] = SnapIndex(snap)]
    BY <1>2, RestartStep DEF fixed, history
  <2>2. snap \in Snap /\ GoodSnap(snap)
    BY <1>a, <2>1 DEF TypeOK
  <2> HIDE DEF p, snap
  <2>3. GoodSnap(saved'[r])
    BY <1>a, <2>1, <2>2 DEF TypeOK
  <2>4. CASE UNCHANGED <<logs, lastApplied>>
    BY <1>a, <2>1, <2>3, <2>4
  <2>5. CASE /\ snap # <<>>
             /\ logs' = [logs EXCEPT ![p] = snap]
             /\ lastApplied' = [lastApplied EXCEPT ![p] = SnapIndex(snap)]
    <3>1. GoodLog(snap, SnapIndex(snap))
      BY <2>2, <2>5, SnapIsGood
    <3>2. \/ r = p /\ logs'[r] = snap /\ lastApplied'[r] = SnapIndex(snap)
          \/ r # p /\ logs'[r] = logs[r] /\ lastApplied'[r] = lastApplied[r]
      BY <2>5 DEF TypeOK
    <3>3. QED
      BY <1>a, <2>1, <2>3, <3>1, <3>2
  <2>6. QED
    BY <2>1, <2>4, <2>5
<1>3. ASSUME NEW S \in SUBSET Srv \ {{}}, Restarted(S)
      PROVE  Goal
  <2>1. /\ correct /\ ~stale /\ srvs' = newest /\ saved' = saved /\ lastApplied' = lastApplied
        /\ logs' = [p \in Inst |-> IF p[2] < newest[p[1]] THEN <<>> ELSE logs[p]]
    BY <1>3 DEF Restarted, fixed, history
  <2>2. srvs[r[1]] <= newest[r[1]]
    BY <1>0 DEF Installed
  <2>3. r[2] >= newest[r[1]] => logs'[r] = logs[r]
    BY <1>0, <2>1
  <2>4. QED
    BY <1>0, <1>a, <2>1, <2>2, <2>3
<1>4. ASSUME NEW p \in Inst, Deliver(p)
      PROVE  Goal
  <2>1. PICK index \in Index, cmd \in Cmd :
               /\ correct => index = lastApplied[p] + 1 /\ cmd = Committed[index]
               /\ ApplyCommand(p, index, cmd)
    BY <1>4 DEF Deliver
  <2>2. correct /\ ~stale /\ p = Current(p[1]) /\ p \in raft /\ srvs' = srvs
    BY <2>1, ApplyOutcome DEF fixed
  <2>3. /\ Accepts(p, index, cmd)
        /\ GoodLog(Put(logs[p], index, cmd), index)
        /\ GoodSnap(SnapshotOf(Put(logs[p], index, cmd), index))
    BY <2>1, <2>2, NextCommandIsGood
  <2>4. /\ logs'[p] = Put(logs[p], index, cmd)
        /\ \A q \in Inst : q # p => logs'[q] = logs[q]
        /\ lastApplied' = [lastApplied EXCEPT ![p] = index]
        /\ saved' = saved \/ saved' = [saved EXCEPT ![p] = SnapshotOf(logs'[p], index)]
    BY <2>1, <2>2, <2>3, ApplyLogs DEF Accepts
  <2>5. CASE r = p
    <3>1. saved'[p] = saved[p] \/ saved'[p] = SnapshotOf(logs'[p], index)
      BY <2>4 DEF TypeOK
    <3>2. lastApplied'[p] = index
      BY <2>4 DEF TypeOK
    <3>3. QED
      BY <1>a, <2>2, <2>3, <2>4, <2>5, <3>1, <3>2
  <2>6. CASE r # p
    <3>1. saved'[r] = saved[r] /\ logs'[r] = logs[r] /\ lastApplied'[r] = lastApplied[r]
      BY <2>4, <2>6 DEF TypeOK
    <3>2. QED
      BY <1>a, <2>2, <3>1
  <2>7. QED
    BY <2>5, <2>6
<1>5. ASSUME NEW p \in Inst, NEW q \in Inst, DeliverSnapshot(p, q)
      PROVE  Goal
  <2>1. /\ correct /\ ~stale /\ srvs' = srvs /\ saved' = saved
        /\ logs' = [logs EXCEPT ![p] = saved[q]]
        /\ lastApplied' = [lastApplied EXCEPT ![p] = SnapIndex(saved[q])]
        /\ SnapIndex(saved[q]) > lastApplied[p]
    BY <1>5 DEF DeliverSnapshot, fixed, history
  <2>2. saved[q] \in Snap /\ lastApplied[p] \in 0..MaxIndex
    BY DEF TypeOK
  <2>3. saved[q] # <<>>
    BY <2>1, <2>2, SnapType, BoundAssumption DEF Index
  <2>4. GoodLog(saved[q], SnapIndex(saved[q]))
    BY <1>a, <2>1, <2>2, <2>3, SnapIsGood
  <2>5. \/ r = p /\ logs'[r] = saved[q] /\ lastApplied'[r] = SnapIndex(saved[q])
        \/ r # p /\ logs'[r] = logs[r] /\ lastApplied'[r] = lastApplied[r]
    BY <2>1 DEF TypeOK
  <2>6. QED
    BY <1>a, <2>1, <2>4, <2>5
<1>6. QED
  BY <1>1, <1>2, <1>3, <1>4, <1>5, CalmSteps
\* The test's goroutine neither fails an applier nor ends the process.
LEMMA TestOperationOther ==
    ASSUME TestOperation
    PROVE  UNCHANGED <<fixed, failing, exited, history>>
<1>1. ASSUME NEW i \in Srv, NEW yes \in BOOLEAN, Connect(i, yes)
      PROVE  UNCHANGED <<fixed, failing, exited, history>>
  BY <1>1 DEF Connect, TestStep
<1>2. ASSUME NEW S \in SUBSET Srv \ {{}}, Shutdown(S) \/ Restarted(S) \/ Partition(S)
      PROVE  UNCHANGED <<fixed, failing, exited, history>>
  BY <1>2 DEF Shutdown, Restarted, Partition, TestStep
<1>3. ASSUME NEW i \in Srv, Restart(i)
      PROVE  UNCHANGED <<fixed, failing, exited, history>>
  BY <1>3 DEF Restart, TestStep
<1>4. CASE ClearFailure \/ One \/ OneReturns \/ EndTest \/ Cleaned
  BY <1>4 DEF ClearFailure, One, OneReturns, EndTest, Cleaned, TestStep
<1>5. QED
  BY <1>1, <1>2, <1>3, <1>4 DEF TestOperation

\* With a correct Raft, no delivery raises an alarm.
LEMMA AlarmStep ==
    TypeOK /\ RaftInv /\ NoFalseAlarm /\ [Next]_vars => NoFalseAlarm'
<1> SUFFICES ASSUME TypeOK, RaftInv, NoFalseAlarm, [Next]_vars, correct', ~stale'
             PROVE  failing' = {} /\ exited' \notin {"apply error", "panic"}
  BY DEF NoFalseAlarm
<1>1. CASE UNCHANGED <<fixed, failing, exited, stale>>
  BY <1>1 DEF NoFalseAlarm, fixed
<1>2. CASE TestOperation
  BY <1>1, <1>2, TestOperationOther DEF history
<1>3. CASE SetFinalized \/ UNCHANGED vars
  BY <1>1, <1>3 DEF SetFinalized, TestStep, vars, history
<1>4. ASSUME NEW illegal \in BOOLEAN, CheckHistory(illegal)
      PROVE  failing' = {} /\ exited' \notin {"apply error", "panic"}
  BY <1>1, <1>4 DEF CheckHistory
<1>5. ASSUME NEW p \in Inst, Deliver(p)
      PROVE  failing' = {} /\ exited' \notin {"apply error", "panic"}
  <2>1. PICK index \in Index, cmd \in Cmd :
               /\ correct => index = lastApplied[p] + 1 /\ cmd = Committed[index]
               /\ ApplyCommand(p, index, cmd)
    BY <1>5 DEF Deliver
  <2>2. correct /\ ~stale /\ p = Current(p[1]) /\ p \in raft
    BY <2>1, ApplyOutcome DEF fixed
  <2>3. Accepts(p, index, cmd)
    BY <2>1, <2>2, NextCommandIsGood
  <2>4. failing' = failing /\ exited' = exited
    BY <2>1, <2>2, <2>3, ApplyOutcome
  <2>5. QED
    BY <2>2, <2>4 DEF NoFalseAlarm
<1>6. ASSUME NEW p \in Inst, NEW q \in Inst, DeliverSnapshot(p, q)
      PROVE  failing' = {} /\ exited' \notin {"apply error", "panic"}
  BY <1>1, <1>6 DEF DeliverSnapshot, history
<1>7. ASSUME NEW p \in Inst, Exit(p)
      PROVE  failing' = {} /\ exited' \notin {"apply error", "panic"}
  BY <1>7 DEF Exit, NoFalseAlarm, fixed, history
<1>8. ASSUME NEW p \in Cleaner, CleanupStep(p)
      PROVE  failing' = {} /\ exited' \notin {"apply error", "panic"}
  BY <1>1, <1>8 DEF CleanupStep, history
<1>9. CASE Interrupted
  BY <1>9 DEF Interrupted, NoFalseAlarm, fixed, history
<1>10. QED
  BY <1>2, <1>3, <1>4, <1>5, <1>6, <1>7, <1>8, <1>9, NextCases

-----------------------------------------------------------------------------
(* The faults that the annotations show.                                   *)

\* The ongoing annotation is the one of these faults, or of two partitions.
Shows(text, conn, crashed) ==
    \/ text.two # {}
    \/ text = IF NoFault(conn, crashed) THEN None ELSE FaultText(conn, crashed)

Down == {i \in Srv : <<i, srvs[i]>> \notin raft}

\* FaultShown, with its two parts named.
LEMMA FaultShownDef ==
    FaultShown <=> (Undisturbed => /\ finfo.crashed = Down
                                   /\ Shows(continuous, finfo.connected, finfo.crashed))
BY DEF FaultShown, Shows, Down

\* How FaultShown is shown of the next state.
LEMMA FaultShownPrime ==
    ASSUME /\ finfo'.crashed = {i \in Srv : <<i, srvs'[i]>> \notin raft'}
           /\ Shows(continuous', finfo'.connected, finfo'.crashed)
    PROVE  FaultShown'
BY DEF FaultShown, Shows, NoFault, FaultText, AllConnected, None

\* annotateFault tells what was asked of it.
LEMMA FaultTold ==
    ASSUME TypeOK, NEW conn \in [Srv -> BOOLEAN], NEW crashed \in SUBSET Srv,
           AnnotateFault(conn, crashed),
           crashed = {i \in Srv : <<i, srvs'[i]>> \notin raft'}
    PROVE  FaultShown'
<1>1. Told(conn, crashed)
  BY FaultMarks DEF TypeOK
<1>2. finfo'.crashed = crashed /\ Shows(continuous', finfo'.connected, finfo'.crashed)
  BY <1>1 DEF Told, Shows
<1>3. QED
  BY <1>2, FaultShownPrime

\* The test's goroutine, as long as nobody cleans up.
LEMMA FaultTestOperation ==
    ASSUME TypeOK, Installed, FaultShown, Undisturbed, TestOperation
    PROVE  FaultShown'
<1>0. finfo.crashed = Down /\ Shows(continuous, finfo.connected, finfo.crashed)
  BY FaultShownDef
<1>a. finfo.connected \in [Srv -> BOOLEAN] /\ finfo.crashed \in SUBSET Srv
  BY DEF TypeOK, AnTypeOK
<1>u. ASSUME {i \in Srv : <<i, srvs'[i]>> \notin raft'} = Down,
             finfo'.connected = finfo.connected, finfo'.crashed = finfo.crashed,
             continuous' = continuous
      PROVE  FaultShown'
  BY <1>0, <1>u, FaultShownPrime
<1>1. ASSUME NEW i \in Srv, NEW yes \in BOOLEAN, Connect(i, yes)
      PROVE  FaultShown'
  <2>1. /\ connected' \in [Srv -> BOOLEAN] /\ AnnotateConnection(connected')
        /\ {j \in Srv : <<j, srvs'[j]>> \notin raft'} = Down
    BY <1>1 DEF Connect, TypeOK, srvVars, Down
  <2>2. CASE AnnotateFault(connected', finfo.crashed)
    BY <1>0, <1>a, <2>1, <2>2, FaultTold
  <2>3. CASE UNCHANGED <<finfo, marks>>
    BY <1>u, <2>1, <2>3 DEF marks
  <2>4. QED
    BY <2>1, <2>2, <2>3 DEF AnnotateConnection
<1>2. ASSUME NEW S \in SUBSET Srv \ {{}}, Shutdown(S)
      PROVE  FaultShown'
  <2>1. /\ AnnotateShutdown(S) /\ srvs' = srvs
        /\ raft' = {p \in raft : p[1] \notin S}
    BY <1>2 DEF Shutdown
  <2>2. {j \in Srv : <<j, srvs'[j]>> \notin raft'} = finfo.crashed \cup S
    BY <1>0, <2>1 DEF Down
  <2>3. CASE ~(S \subseteq finfo.crashed)
    <3>1. AnnotateFault(finfo.connected, finfo.crashed \cup S)
      BY <2>1, <2>3 DEF AnnotateShutdown
    <3>2. QED
      BY <1>a, <2>2, <3>1, FaultTold
  <2>4. CASE S \subseteq finfo.crashed
    <3>1. UNCHANGED <<finfo, marks>>
      BY <2>1, <2>4 DEF AnnotateShutdown
    <3>2. {j \in Srv : <<j, srvs'[j]>> \notin raft'} = Down
      BY <1>0, <2>2, <2>4
    <3>3. QED
      BY <1>u, <3>1, <3>2 DEF marks
  <2>5. QED
    BY <2>3, <2>4
<1>3. ASSUME NEW S \in SUBSET Srv \ {{}}, Restarted(S)
      PROVE  FaultShown'
  <2>1. /\ AnnotateRestart(S) /\ srvs' = newest /\ raft' = raft
        /\ \A i \in S : <<i, newest[i]>> \in raft
        /\ \A i \in Srv \ S : srvs[i] = newest[i]
    BY <1>3 DEF Restarted, Up
  <2>2. {j \in Srv : <<j, srvs'[j]>> \notin raft'} = finfo.crashed \ S
    BY <1>0, <2>1 DEF Down
  <2>3. CASE finfo.crashed \cap S # {}
    <3>1. AnnotateFault(finfo.connected, finfo.crashed \ S)
      BY <2>1, <2>3 DEF AnnotateRestart
    <3>2. QED
      BY <1>a, <2>2, <3>1, FaultTold
  <2>4. CASE finfo.crashed \cap S = {}
    <3>1. UNCHANGED <<finfo, marks>>
      BY <2>1, <2>4 DEF AnnotateRestart
    <3>2. {j \in Srv : <<j, srvs'[j]>> \notin raft'} = Down
      BY <1>0, <2>2, <2>4
    <3>3. QED
      BY <1>u, <3>1, <3>2 DEF marks
  <2>5. QED
    BY <2>3, <2>4
<1>4. ASSUME NEW S \in SUBSET Srv \ {{}}, Partition(S)
      PROVE  FaultShown'
  <2>1. continuous' = [None EXCEPT !.two = {S, Srv \ S}] /\ finfo' = finfo
        /\ {j \in Srv : <<j, srvs'[j]>> \notin raft'} = Down
    BY <1>4 DEF Partition, AnnotateTwoPartitions, AnnotateContinuous, srvVars, Down
  <2>2. continuous'.two = {S, Srv \ S}
    BY <2>1, NoneType DEF Shown
  <2>3. continuous'.two # {}
    BY <2>2
  <2>4. Shows(continuous', finfo'.connected, finfo'.crashed)
    BY <2>3 DEF Shows
  <2>5. QED
    BY <1>0, <2>1, <2>4, FaultShownPrime
<1>5. ASSUME NEW i \in Srv, Restart(i)
      PROVE  FaultShown'
  <2>1. /\ raft' = raft \cup {<<i, newest[i] + 1>>} /\ srvs' = srvs
        /\ UNCHANGED anVars
    BY <1>5, RestartStep
  <2>2. srvs[i] # newest[i] + 1
    <3>1. srvs[i] \in Nat /\ newest[i] \in Nat /\ srvs[i] <= newest[i]
      BY CurrentType, BoundAssumption DEF Installed
    <3>2. QED
      BY <3>1
  <2>3. {j \in Srv : <<j, srvs'[j]>> \notin raft'} = Down
    BY <2>1, <2>2 DEF Down
  <2>4. QED
    BY <1>u, <2>1, <2>3 DEF anVars, marks
<1>6. CASE ClearFailure
  <2>1. /\ finfo' = [finfo EXCEPT !.connected = AllConnected, !.crashed = {}]
        /\ continuous' = None /\ srvs' = srvs /\ raft' = raft
        /\ srvs = newest /\ \A i \in Srv : <<i, newest[i]>> \in raft
    BY <1>6 DEF ClearFailure, AnnotateClearFailure, AnnotateContinuousEnd, srvVars,
                TestStep, Installed, Up
  <2>2. finfo'.connected = AllConnected /\ finfo'.crashed = {}
    BY <2>1 DEF TypeOK, AnTypeOK
  <2>3. {j \in Srv : <<j, srvs'[j]>> \notin raft'} = {}
    BY <2>1
  <2>4. Shows(continuous', finfo'.connected, finfo'.crashed)
    BY <2>1, <2>2 DEF Shows, NoFault
  <2>5. QED
    BY <2>2, <2>3, <2>4, FaultShownPrime
<1>7. CASE One
  <2>1. finfo'.connected = finfo.connected /\ finfo'.crashed = finfo.crashed
    BY <1>7 DEF One, AnnotateCheckerBegin, TypeOK, AnTypeOK
  <2>2. QED
    BY <1>u, <1>7, <2>1 DEF One, marks, srvVars, Down
<1>8. CASE OneReturns
  BY <1>u, <1>8 DEF OneReturns, AnnotateCheckerEnd, Annotate, srvVars, Down
<1>9. CASE EndTest \/ Cleaned
  BY <1>u, <1>9 DEF EndTest, Cleaned, anVars, marks, srvVars, Down
<1>10. QED
  BY <1>1, <1>2, <1>3, <1>4, <1>5, <1>6, <1>7, <1>8, <1>9 DEF TestOperation

\* Every step that changes a fault also shows it.
LEMMA FaultStep ==
    TypeOK /\ Installed /\ FaultShown /\ [Next]_vars => FaultShown'
<1> SUFFICES ASSUME TypeOK, Installed, FaultShown, [Next]_vars, Undisturbed'
             PROVE  FaultShown'
  BY DEF FaultShown
<1>0. ASSUME NEW p \in Cleaner, CleanupStep(p)
      PROVE  FALSE
  BY <1>0, CleanupStepType DEF Undisturbed, Moves
<1>1. ASSUME UNCHANGED cleaning
      PROVE  /\ Undisturbed
             /\ finfo.crashed = Down
             /\ Shows(continuous, finfo.connected, finfo.crashed)
  BY <1>1, FaultShownDef DEF Undisturbed
<1>2. ASSUME UNCHANGED <<cleaning, finfo, continuous, srvs, raft>>
      PROVE  FaultShown'
  BY <1>1, <1>2, FaultShownPrime DEF Down
<1>3. CASE TestOperation
  BY <1>1, <1>3, TestOperationQuiet, FaultTestOperation DEF Quiet
<1>4. CASE SetFinalized \/ Interrupted \/ UNCHANGED vars
  BY <1>2, <1>4 DEF SetFinalized, SetAnnotationFinalized, Interrupted, vars, anVars, marks, srvVars
<1>5. ASSUME NEW illegal \in BOOLEAN, CheckHistory(illegal)
      PROVE  FaultShown'
  BY <1>2, <1>5 DEF CheckHistory, CheckPorcupine, marks, srvVars
<1>6. ASSUME NEW p \in Inst, Deliver(p)
      PROVE  FaultShown'
  <2>1. PICK index \in Index, cmd \in Cmd : ApplyCommand(p, index, cmd)
    BY <1>6 DEF Deliver
  <2>2. QED
    BY <1>2, <2>1, ApplyOutcome DEF Quiet
<1>7. ASSUME NEW p \in Inst, NEW q \in Inst, DeliverSnapshot(p, q)
      PROVE  FaultShown'
  BY <1>2, <1>7 DEF DeliverSnapshot, anVars, marks
<1>8. ASSUME NEW p \in Inst, Exit(p)
      PROVE  FaultShown'
  BY <1>2, <1>8 DEF Exit, anVars, marks, srvVars
<1>9. QED
  BY <1>0, <1>3, <1>4, <1>5, <1>6, <1>7, <1>8, NextCases
-----------------------------------------------------------------------------
(* The end of a test.                                                      *)

\* The test's goroutine cleans up last.
LEMMA TestOperationMain ==
    ASSUME TestOperation
    PROVE  main \in {"test", "one", "restart"} \/ main' = "done"
<1>1. ASSUME NEW i \in Srv, NEW yes \in BOOLEAN, Connect(i, yes)
      PROVE  main = "test"
  BY <1>1 DEF Connect, TestStep
<1>2. ASSUME NEW S \in SUBSET Srv \ {{}}, Shutdown(S) \/ Restarted(S) \/ Partition(S)
      PROVE  main \in {"test", "restart"}
  BY <1>2 DEF Shutdown, Restarted, Partition, TestStep
<1>3. ASSUME NEW i \in Srv, Restart(i)
      PROVE  main = "test"
  BY <1>3 DEF Restart, TestStep
<1>4. CASE ClearFailure \/ One \/ OneReturns \/ EndTest \/ Cleaned
  BY <1>4 DEF ClearFailure, One, OneReturns, EndTest, Cleaned, TestStep
<1>5. QED
  BY <1>1, <1>2, <1>3, <1>4 DEF TestOperation

\* Who calls cleanup: the test's goroutine, captureSignal's in a test without
\* appliers, or an applier that failed.
LEMMA WhoCleans ==
    ASSUME TypeOK, CleanInv, NEW p \in Cleaner, CleanupStep(p)
    PROVE  /\ \/ p = Tester /\ main \in {"finished", "failed", "done"}
              \/ p = Signal /\ kind = "kv"
              \/ p \in failing
           /\ UNCHANGED <<fixed, main, failing, exited, history>>
<1>1. CASE Clear(p) \/ Finalize(p) \/ OpenFile(p) \/ WriteFile(p)
  <2>1. cleaning[p] # "no"
    BY <1>1, LaterStep DEF TypeOK
  <2>2. CASE p \in Inst
    BY <2>1, <2>2 DEF CleanInv, CleanupStep
  <2>3. CASE p = Tester
    BY <2>1, <2>3 DEF CleanInv, CleanupStep
  <2>4. CASE p = Signal
    BY <2>1, <2>4 DEF CleanInv, CleanupStep, TypeOK
  <2>5. QED
    BY <2>2, <2>3, <2>4, Cleaners
<1>2. CASE ~(Clear(p) \/ Finalize(p) \/ OpenFile(p) \/ WriteFile(p))
  BY <1>2 DEF CleanupStep
<1>3. QED
  BY <1>1, <1>2

\* CleanInv is kept by steps that leave cleaning alone, and by which the test
\* goes on only if it has not begun to clean up.
LEMMA CleanKept ==
    ASSUME CleanInv, UNCHANGED <<fixed, failing, cleaning, wroteOps>>,
           main' = main \/ main \in {"test", "one", "restart"} \/ main' = "done",
           exited' = exited \/ exited' # "apply error"
    PROVE  CleanInv'
BY DEF CleanInv, Done, fixed

\* Who cleans up: failed appliers, the test's end and the signal.
LEMMA CleanStep == TypeOK /\ CleanInv /\ [Next]_vars => CleanInv'
<1> SUFFICES ASSUME TypeOK, CleanInv, [Next]_vars PROVE CleanInv'
  OBVIOUS
<1>1. CASE TestOperation
  <2>1. UNCHANGED <<fixed, failing, exited, wroteOps>>
    BY <1>1, TestOperationOther DEF history
  <2>2. UNCHANGED cleaning
    BY <1>1, TestOperationQuiet DEF Quiet
  <2>3. QED
    BY <1>1, <2>1, <2>2, TestOperationMain, CleanKept
<1>2. CASE SetFinalized \/ Interrupted \/ UNCHANGED vars
  BY <1>2, CleanKept DEF SetFinalized, SetAnnotationFinalized, TestStep, Interrupted, vars,
                         anVars, history
<1>3. ASSUME NEW illegal \in BOOLEAN, CheckHistory(illegal)
      PROVE  CleanInv'
  <2>1. /\ UNCHANGED <<fixed, failing, cleaning, exited>>
        /\ main = "test" /\ kind = "kv"
    BY <1>3 DEF CheckHistory, CheckPorcupine
  <2>2. QED
    BY <2>1 DEF CleanInv, Done, fixed
<1>4. ASSUME NEW p \in Inst, Deliver(p)
      PROVE  CleanInv'
  <2>1. PICK index \in Index, cmd \in Cmd : ApplyCommand(p, index, cmd)
    BY <1>4 DEF Deliver
  <2>2. /\ UNCHANGED <<fixed, main, cleaning, wroteOps>>
        /\ failing' = failing \/ failing' = failing \cup {p}
        /\ exited' = exited \/ exited' = "panic"
    BY <2>1, ApplyOutcome DEF Quiet
  <2>3. kind = "raft"
    BY <1>4 DEF Deliver
  <2>4. IsFiniteSet(failing')
    <3>1. IsFiniteSet(failing)
      BY DEF CleanInv
    <3>2. IsFiniteSet(failing \cup {p})
      BY <3>1, FS_AddElement
    <3>3. QED
      BY <2>2, <3>1, <3>2
  <2>5. QED
    BY <2>2, <2>3, <2>4 DEF CleanInv, Done, fixed
<1>5. ASSUME NEW p \in Inst, NEW q \in Inst, DeliverSnapshot(p, q)
      PROVE  CleanInv'
  BY <1>5, CleanKept DEF DeliverSnapshot, anVars, history
<1>6. ASSUME NEW p \in Inst, Exit(p)
      PROVE  CleanInv'
  BY <1>6 DEF Exit, CleanInv, Done, fixed, anVars, history
<1>7. ASSUME NEW p \in Cleaner, CleanupStep(p)
      PROVE  CleanInv'
  <2>1. /\ \/ p = Tester /\ main \in {"finished", "failed", "done"}
           \/ p = Signal /\ kind = "kv"
           \/ p \in failing
        /\ UNCHANGED <<fixed, main, failing, exited, history>>
    BY <1>7, WhoCleans
  <2>2. /\ \A q \in Cleaner : q # p => cleaning'[q] = cleaning[q]
        /\ cleaning[p] # "done"
    BY <1>7, CleanupStepType DEF Moves
  <2>0. Tester \notin failing /\ Signal \notin failing
    BY Cleaners DEF TypeOK
  <2>3. kind' = "raft" => cleaning'[Signal] = "no" /\ ~wroteOps'
    <3>1. kind' = kind /\ wroteOps' = wroteOps
      BY <2>1 DEF fixed, history
    <3>2. kind = "raft" => p # Signal /\ cleaning[Signal] = "no" /\ ~wroteOps
      BY <2>0, <2>1, Cleaners DEF CleanInv
    <3>3. QED
      BY <2>2, <3>1, <3>2, Cleaners
  <2>4. ASSUME NEW q \in Inst, cleaning'[q] # "no" PROVE q \in failing'
    BY <2>1, <2>2, <2>4, Cleaners DEF CleanInv
  <2>5. cleaning'[Tester] # "no" => main' \in {"finished", "failed", "done"}
    BY <2>0, <2>1, <2>2, Cleaners DEF CleanInv
  <2>6. Done => Done'
    BY <2>1, <2>2, Cleaners DEF Done, TypeOK
  <2>7. QED
    BY <2>1, <2>3, <2>4, <2>5, <2>6 DEF CleanInv, fixed
<1>8. QED
  BY <1>1, <1>2, <1>3, <1>4, <1>5, <1>6, <1>7, NextCases

\* Annotations that are made are not the operations of the clients.
LEMMA OpsKept ==
    ASSUME OpsInv, Quiet, wroteOps' = wroteOps
    PROVE  OpsInv'
BY DEF OpsInv, Quiet, Marked

\* The clients' operations are not overwritten at cleanup.
LEMMA OpsStep == TypeOK /\ CleanInv /\ OpsInv /\ [Next]_vars => OpsInv'
<1> SUFFICES ASSUME TypeOK, CleanInv, OpsInv, [Next]_vars PROVE OpsInv'
  OBVIOUS
<1>0. AnTypeOK
  BY DEF TypeOK
<1>1. CASE TestOperation
  BY <1>1, TestOperationOther, TestOperationQuiet, OpsKept DEF history
<1>2. CASE SetFinalized
  BY <1>2 DEF SetFinalized, SetAnnotationFinalized, TestStep, OpsInv, marks, history
<1>3. ASSUME NEW illegal \in BOOLEAN, CheckHistory(illegal)
      PROVE  OpsInv'
  <2>1. main = "test" /\ annotations' = annotations /\ cleaning' = cleaning
        /\ content' = content
        /\ wroteOps' = (wroteOps \/ "ops" \in file')
    BY <1>3 DEF CheckHistory, CheckPorcupine, marks
  <2>2. cleaning[Tester] = "no"
    BY <2>1, Cleaners DEF CleanInv
  <2>3. \/ finalized' = TRUE /\ "ops" \in file'
        \/ finalized' = finalized /\ file' = file
    BY <1>3 DEF CheckHistory, CheckPorcupine
  <2>4. QED
    BY <2>1, <2>2, <2>3 DEF OpsInv
<1>4. ASSUME NEW p \in Inst, Deliver(p)
      PROVE  OpsInv'
  <2>1. PICK index \in Index, cmd \in Cmd : ApplyCommand(p, index, cmd)
    BY <1>4 DEF Deliver
  <2>2. QED
    BY <2>1, ApplyOutcome, OpsKept
<1>5. ASSUME NEW p \in Inst, NEW q \in Inst, DeliverSnapshot(p, q)
      PROVE  OpsInv'
  BY <1>0, <1>5, AnUnchanged, OpsKept DEF DeliverSnapshot, history
<1>6. ASSUME NEW p \in Inst, Exit(p)
      PROVE  OpsInv'
  BY <1>0, <1>6, AnUnchanged, OpsKept DEF Exit, history
<1>7. ASSUME NEW p \in Cleaner, CleanupStep(p)
      PROVE  OpsInv'
  <2>1. /\ \/ p = Tester /\ main \in {"finished", "failed", "done"}
           \/ p = Signal /\ kind = "kv"
           \/ p \in failing
        /\ UNCHANGED <<fixed, main, failing, exited, history>>
    BY <1>7, WhoCleans
  <2>2. /\ \A q \in Cleaner : q # p => cleaning'[q] = cleaning[q]
        /\ cleaning[p] # "done" /\ cleaning'[p] # "no"
    BY <1>7, CleanupStepType DEF Moves
  <2>3. "ops" \notin annotations' /\ \A q \in Cleaner : "ops" \notin content'[q]
    <3>1. "ops" \notin Finalized
      BY DEF Finalized, OpsInv
    <3>2. QED
      BY <1>7, <3>1, CleanupStepType DEF OpsInv, Asked, Cleared, Took, Opened, Wrote
  <2>4. file' = file \/ "ops" \notin file'
    BY <1>7, CleanupStepType DEF OpsInv, Asked, Cleared, Took, Opened, Wrote
  <2>5. ASSUME wroteOps', cleaning'[Signal] = "no"
        PROVE  "ops" \in file' /\ cleaning'[Tester] \in {"clear", "done"}
    <3>1. wroteOps /\ p # Signal /\ cleaning[Signal] = "no"
      BY <2>1, <2>2, <2>5, Cleaners DEF history
    <3>2. kind = "kv" /\ failing = {}
      BY <3>1 DEF CleanInv, TypeOK
    <3>3. p = Tester
      BY <2>1, <3>1, <3>2
    <3>4. "ops" \in file
          /\ (cleaning[Tester] = "clear" \/ (cleaning[Tester] = "no" /\ finalized))
      BY <2>2, <3>1, <3>3 DEF OpsInv
    <3>5. Asked(p) \/ Cleared(p)
      BY <1>7, <3>3, <3>4, CleanupStepType DEF Took, Opened, Wrote
    <3>6. QED
      BY <3>3, <3>4, <3>5 DEF Asked, Cleared
  <2>6. QED
    BY <2>1, <2>3, <2>4, <2>5 DEF OpsInv, history
<1>8. CASE Interrupted \/ UNCHANGED vars
  BY <1>0, <1>8, AnUnchanged, OpsKept DEF Interrupted, vars, history
<1>9. QED
  BY <1>1, <1>2, <1>3, <1>4, <1>5, <1>6, <1>7, <1>8, NextCases
\* The error stays among the annotations as long as nobody cleans up.
LEMMA ErrorKept ==
    ASSUME ErrorInv, Quiet, UNCHANGED <<fixed, failing>>
    PROVE  ErrorInv'
BY DEF ErrorInv, Quiet, Marked, Done, Taken, Writing, InError, fixed

\* Two appliers that fail: there is no third.
LEMMA NoThird ==
    ASSUME NEW S, IsFiniteSet(S), Cardinality(S) <= 2,
           NEW x \in S, NEW y \in S, x # y, NEW z \in S
    PROVE  z = x \/ z = y
<1>1. IsFiniteSet({x}) /\ Cardinality({x}) = 1
  BY FS_Singleton
<1>2. IsFiniteSet({x} \cup {y}) /\ Cardinality({x} \cup {y}) = 2
  <2> DEFINE T == {x}
  <2>1. y \notin T
    OBVIOUS
  <2> HIDE DEF T
  <2>2. /\ IsFiniteSet(T \cup {y})
        /\ Cardinality(T \cup {y}) = IF y \in T THEN Cardinality(T) ELSE Cardinality(T) + 1
    BY <1>1, FS_AddElement DEF T
  <2>3. QED
    BY <1>1, <2>1, <2>2 DEF T
<1>3. Cardinality(S) \in Nat
  BY FS_CardinalityType
<1>4. {x} \cup {y} \in SUBSET S
  OBVIOUS
<1>5. Cardinality({x} \cup {y}) <= Cardinality(S)
      /\ (Cardinality(S) = Cardinality({x} \cup {y}) => S = {x} \cup {y})
  BY <1>4, FS_Subset
<1>6. S = {x} \cup {y}
  BY <1>2, <1>3, <1>5
<1>7. QED
  BY <1>6

\* The failure that stops a test stays in the file.
LEMMA ErrorStep ==
    TypeOK /\ CleanInv /\ ErrorInv /\ [Next]_vars => ErrorInv'
<1> SUFFICES ASSUME TypeOK, CleanInv, ErrorInv, [Next]_vars PROVE ErrorInv'
  OBVIOUS
<1>0. AnTypeOK
  BY DEF TypeOK
<1>1. CASE TestOperation
  BY <1>1, TestOperationOther, TestOperationQuiet, ErrorKept
<1>2. ASSUME kind = "kv", UNCHANGED fixed
      PROVE  ErrorInv'
  BY <1>2 DEF ErrorInv, fixed
<1>3. CASE SetFinalized
  BY <1>2, <1>3 DEF SetFinalized, TestStep
<1>4. ASSUME NEW illegal \in BOOLEAN, CheckHistory(illegal)
      PROVE  ErrorInv'
  BY <1>2, <1>4 DEF CheckHistory
<1>5. ASSUME NEW p \in Inst, Deliver(p)
      PROVE  ErrorInv'
  <2>1. PICK index \in Index, cmd \in Cmd : ApplyCommand(p, index, cmd)
    BY <1>5 DEF Deliver
  <2>2. Quiet /\ UNCHANGED fixed
    BY <2>1, ApplyOutcome
  <2>3. CASE failing' = failing
    BY <2>2, <2>3, ErrorKept
  <2>4. CASE failing' = failing \cup {p} /\ CheckerKind \in annotations'
    <3>1. cleaning[p] = "no"
      BY <1>5 DEF Deliver, CleanInv
    <3>2. UNCHANGED <<kind, finalized, visEnable, file, cleaning, content>>
      BY <2>2 DEF Quiet, fixed
    <3>3. (Done' <=> Done) /\ (Taken => Taken')
      BY <2>4, <3>1, <3>2 DEF Done, Taken
    <3>4. Cardinality(failing') <= 2 => Cardinality(failing) <= 2
      <4>1. IsFiniteSet(failing) /\ IsFiniteSet(failing \cup {p})
        BY FS_AddElement DEF CleanInv
      <4>2. Cardinality(failing) \in Nat /\ Cardinality(failing \cup {p}) \in Nat
        BY <4>1, FS_CardinalityType
      <4>3. Cardinality(failing) <= Cardinality(failing \cup {p})
        BY <4>1, FS_Subset
      <4>4. QED
        BY <2>4, <4>2, <4>3
    <3>5. InError(annotations')
      BY <2>4, CheckerKindType DEF InError
    <3>6. QED
      BY <2>4, <3>1, <3>2, <3>3, <3>4, <3>5 DEF ErrorInv, Writing
  <2>5. QED
    BY <2>1, <2>3, <2>4, ApplyOutcome
<1>6. ASSUME NEW p \in Inst, NEW q \in Inst, DeliverSnapshot(p, q)
      PROVE  ErrorInv'
  BY <1>0, <1>6, AnUnchanged, ErrorKept DEF DeliverSnapshot
<1>7. ASSUME NEW p \in Inst, Exit(p)
      PROVE  ErrorInv'
  BY <1>0, <1>7, AnUnchanged, ErrorKept DEF Exit
<1>8. ASSUME NEW p \in Cleaner, CleanupStep(p)
      PROVE  ErrorInv'
  <2> SUFFICES ASSUME kind' = "raft", visEnable' # "never", cleaning'[Tester] = "no"
               PROVE  ErrorInv'
    BY DEF ErrorInv
  <2>1. /\ \/ p = Tester /\ main \in {"finished", "failed", "done"}
           \/ p = Signal /\ kind = "kv"
           \/ p \in failing
        /\ UNCHANGED <<fixed, main, failing, exited, history>>
    BY <1>8, WhoCleans
  <2>2. /\ \A q \in Cleaner : q # p => cleaning'[q] = cleaning[q]
        /\ cleaning[p] # "done" /\ cleaning'[p] # "no" /\ visEnable' = visEnable
    BY <1>8, CleanupStepType DEF Moves
  <2>3. kind = "raft" /\ visEnable # "never" /\ cleaning[Tester] = "no" /\ p \in failing
    BY <2>1, <2>2, Cleaners DEF fixed
  <2>4. p \in Inst /\ p # Tester /\ failing' = failing /\ failing \subseteq Cleaner
    BY <2>1, <2>3, Cleaners DEF TypeOK
  <2> DEFINE two == Cardinality(failing) <= 2
             idle == \A r \in failing : ~Writing(r)
  <2>5. /\ finalized => Taken
        /\ two => /\ (\E r \in failing : cleaning[r] = "clear") => Taken
                  /\ Done /\ idle => InError(file)
                  /\ \A r \in failing :
                        /\ cleaning[r] \in {"no", "finalize"} => InError(annotations)
                        /\ Writing(r) => InError(content[r])
    BY <2>3 DEF ErrorInv
  <2>6. SUFFICES /\ finalized' => Taken'
                 /\ two => /\ (\E r \in failing : cleaning'[r] = "clear") => Taken'
                           /\ Done' /\ idle' => InError(file')
                           /\ \A r \in failing :
                                 /\ cleaning'[r] \in {"no", "finalize"} => InError(annotations')
                                 /\ Writing(r)' => InError(content'[r])
    BY <2>4 DEF ErrorInv
  <2> HIDE DEF two
  <2>7. CASE Asked(p)
    <3>1. Taken => Taken'
      BY <2>2, <2>4, <2>7 DEF Taken, Asked
    <3>2. cleaning'[p] = "clear" => finalized
      <4>1. Cleanup(p, TRUE)
        BY <1>8, <2>3, <2>4, <2>7, LaterStep, Cleaners DEF CleanupStep, TypeOK, Asked
      <4>2. QED
        BY <1>0, <2>3, <4>1, AskedStep
    <3>3. two => ((\E r \in failing : cleaning'[r] = "clear") => Taken')
      BY <2>2, <2>4, <2>5, <3>1, <3>2
    <3>4. Done' => Done
      BY <2>2, <2>4, <2>7 DEF Done, Asked
    <3>5. \A r \in failing : Writing(r)' <=> Writing(r)
      BY <2>2, <2>4, <2>7 DEF Writing, Asked
    <3>6. two => \A r \in failing :
                   cleaning'[r] \in {"no", "finalize"} => InError(annotations')
      BY <2>2, <2>3, <2>4, <2>5, <2>7 DEF Asked
    <3>7. file' = file /\ content' = content /\ finalized' = finalized
      BY <2>7 DEF Asked
    <3>8. QED
      BY <2>4, <2>5, <3>1, <3>3, <3>4, <3>5, <3>6, <3>7 DEF InError
  <2>8. CASE Cleared(p)
    <3>1. Taken'
      BY <2>3, <2>4, <2>8 DEF Taken, Cleared
    <3>2. file' = file /\ content' = content /\ cleaning[p] = "clear" /\ cleaning'[p] = "done"
      BY <2>8 DEF Cleared
    <3>3. ASSUME two
          PROVE  /\ Done' /\ idle' => InError(file')
                 /\ \A r \in failing :
                       /\ cleaning'[r] \in {"no", "finalize"} => InError(annotations')
                       /\ Writing(r)' => InError(content'[r])
      <4>1. Taken
        BY <2>3, <2>5, <3>2, <3>3
      <4>2. PICK q \in failing : cleaning[q] \in {"open", "write", "done"}
        BY <4>1 DEF Taken
      <4>3. q # p /\ cleaning'[q] = cleaning[q]
        BY <2>2, <2>4, <3>2, <4>2
      <4>4. \A r \in failing : r = p \/ r = q
        BY <2>3, <3>3, <4>3, NoThird DEF CleanInv, two
      <4>5. \A r \in failing : Writing(r)' <=> Writing(r)
        BY <2>2, <2>4, <3>2 DEF Writing
      <4>6. idle' => Done
        BY <2>4, <4>2, <4>5 DEF Done, Writing
      <4>7. idle' => idle
        BY <2>4, <4>5
      <4>8. Done' /\ idle' => InError(file')
        BY <2>5, <3>2, <3>3, <4>6, <4>7 DEF InError
      <4>9. \A r \in failing : cleaning'[r] \notin {"no", "finalize"}
        BY <3>2, <4>2, <4>3, <4>4
      <4>10. QED
        BY <2>5, <3>2, <3>3, <4>5, <4>8, <4>9
    <3>4. QED
      BY <3>1, <3>3
  <2>9. CASE Took(p)
    <3>1. annotations' = annotations /\ cleaning[p] = "finalize"
          /\ cleaning'[p] = (IF Finalized = {} THEN "done" ELSE "open")
          /\ content'[p] = Finalized
          /\ \A q \in Cleaner : q # p => content'[q] = content[q]
      BY <2>9 DEF Took
    <3>2. Taken'
      BY <2>3, <2>4, <3>1 DEF Taken
    <3>3. ASSUME two PROVE Writing(p)' /\ InError(content'[p])
      <4>1. InError(annotations)
        BY <2>3, <2>5, <3>1, <3>3
      <4>2. InError(Finalized) /\ Finalized # {}
        BY <4>1 DEF InError, Finalized
      <4>3. QED
        BY <3>1, <4>2 DEF Writing, InError
    <3>4. two => ~idle'
      BY <2>3, <2>4, <3>3
    <3>5. \A r \in failing : r # p => (Writing(r)' <=> Writing(r)) /\ cleaning'[r] = cleaning[r]
                                      /\ content'[r] = content[r]
      BY <2>2, <2>4, <3>1 DEF Writing
    <3>6. cleaning'[p] \notin {"no", "finalize"}
      BY <3>1
    <3>7. QED
      BY <2>5, <3>1, <3>2, <3>3, <3>4, <3>5, <3>6 DEF InError
  <2>10. CASE Opened(p)
    <3>1. annotations' = annotations /\ content' = content
          /\ cleaning[p] = "open" /\ cleaning'[p] = "write"
      BY <2>10 DEF Opened
    <3>2. Taken' /\ Writing(p)' /\ Writing(p)
      BY <2>3, <2>4, <3>1 DEF Taken, Writing
    <3>3. ~idle'
      BY <2>3, <2>4, <3>2
    <3>4. \A r \in failing : (Writing(r)' <=> Writing(r))
                             /\ (r # p => cleaning'[r] = cleaning[r])
      BY <2>2, <2>4, <3>2 DEF Writing
    <3>5. QED
      BY <2>5, <3>1, <3>2, <3>3, <3>4 DEF InError
  <2>11. CASE Wrote(p)
    <3>1. annotations' = annotations /\ cleaning[p] = "write" /\ cleaning'[p] = "done"
          /\ file' = content[p] \cup {"end"}
          /\ \A q \in Cleaner : q # p => content'[q] = content[q]
      BY <2>11 DEF Wrote
    <3>2. Taken' /\ ~Writing(p)' /\ Writing(p)
      BY <2>3, <2>4, <3>1 DEF Taken, Writing
    <3>3. two => InError(file')
      BY <2>3, <2>5, <3>1, <3>2 DEF InError
    <3>4. \A r \in failing : r # p => (Writing(r)' <=> Writing(r)) /\ cleaning'[r] = cleaning[r]
                                      /\ content'[r] = content[r]
      BY <2>2, <2>4, <3>1 DEF Writing
    <3>5. QED
      BY <2>5, <3>1, <3>2, <3>3, <3>4 DEF InError
  <2>12. QED
    BY <1>8, <2>7, <2>8, <2>9, <2>10, <2>11, CleanupStepType
<1>9. CASE Interrupted \/ UNCHANGED vars
  BY <1>0, <1>9, AnUnchanged, ErrorKept DEF Interrupted, vars
<1>10. QED
  BY <1>1, <1>3, <1>4, <1>5, <1>6, <1>7, <1>8, <1>9, NextCases

-----------------------------------------------------------------------------
(* The theorems.                                                           *)

\* A test begins with all of it.
LEMMA InitInv == Init => IndInv
<1> SUFFICES ASSUME Init PROVE IndInv
  OBVIOUS
<1>0. 1 \in 1..MaxInst /\ 0 \in 0..MaxIndex
  BY BoundAssumption
<1>1. AnTypeOK
  BY NoneType DEF Init, AnnotateTest, AnTypeOK, Kind
<1>2. TypeOK
  BY <1>0, <1>1, EmptyLog DEF Init, TypeOK, Inst, AllConnected
<1>3. \A p \in Inst : logs[p] = <<>> /\ saved[p] = <<>> /\ lastApplied[p] = 0
  BY DEF Init
<1>4. Installed /\ PlainInv
  BY <1>3 DEF Init, Installed, PlainInv
<1>5. LogInv
  <2>1. \A i \in Srv : Current(i) \in Inst
    BY <1>2, CurrentType
  <2>2. \A i \in Srv : DOMAIN logs[Current(i)] = {}
    BY <1>3, <2>1, EmptyLog
  <2>3. QED
    BY <1>2, <2>2 DEF LogInv
<1>6. RaftInv
  <2>1. \A n \in Index : ~(n <= 0)
    BY DEF Index
  <2>2. QED
    BY <1>3, <2>1, EmptyLog DEF RaftInv
<1>7. NoFalseAlarm /\ failing = {} /\ exited = "no"
  BY DEF Init, NoFalseAlarm
<1>8. FaultShown
  <2>1. finfo.crashed = {} /\ finfo.connected = AllConnected /\ continuous = None
    BY DEF Init, AnnotateTest, AllConnected
  <2>2. Down = {}
    BY DEF Init, Down
  <2>3. QED
    BY <2>1, <2>2, FaultShownDef DEF Shows, NoFault
<1>9. CleanInv
  <2>1. \A p \in Cleaner : cleaning[p] = "no"
    BY DEF Init, AnnotateTest
  <2>2. ~wroteOps /\ (kind = "kv" => ~snapshot)
    BY DEF Init
  <2>3. QED
    BY <1>7, <2>1, <2>2, Cleaners, FS_EmptySet DEF CleanInv
<1>10. OpsInv /\ ErrorInv
  BY DEF Init, AnnotateTest, OpsInv, ErrorInv, Done, Taken
<1>11. QED
  BY <1>4, <1>5, <1>6, <1>7, <1>8, <1>9, <1>10 DEF IndInv

\* Every step of a test keeps all of it.
LEMMA StepInv == IndInv /\ [Next]_vars => IndInv'
<1>1. LogInv <=> TypeOK /\ LogsAgree
  BY DEF LogInv, LogsAgree
<1>2. LogInv' <=> TypeOK' /\ LogsAgree'
  BY DEF LogInv, LogsAgree
<1>3. QED
  BY <1>1, <1>2, TypeStep, InstalledStep, PlainStep, LogsStep, RaftStep, AlarmStep, FaultStep,
     CleanStep, OpsStep, ErrorStep DEF IndInv

\* The inductive invariant holds in every test.
THEOREM IndInvariant == Spec => []IndInv
BY InitInv, StepInv, PTL DEF Spec

\* While no applier has failed, the servers of a test without snapshots have
\* applied the same commands and left out none, however faulty Raft is
\* (checkLogs, applier).
THEOREM LogsAgreeInTests == Spec => []LogInv
<1>1. IndInv => LogInv
  BY DEF IndInv
<1>2. QED
  BY <1>1, IndInvariant, PTL

\* With a correct Raft no applier reports an error or panics before an applier
\* has run for an instance that is not the one in ts.srvs (checkLogs, applierSnap).
THEOREM CorrectRaftPasses == Spec => []NoFalseAlarm
<1>1. IndInv => NoFalseAlarm
  BY DEF IndInv
<1>2. QED
  BY <1>1, IndInvariant, PTL

\* The ongoing annotation shows the servers that are down, and who is cut off
\* as finfo has it (annotateFault and its callers).
THEOREM FaultsAreShown == Spec => []FaultShown
<1>1. IndInv => FaultShown
  BY DEF IndInv
<1>2. QED
  BY <1>1, IndInvariant, PTL

\* The failure that stops a test is in its visualization, unless somebody is
\* between finalize and the end of the write, the test was ending or three
\* appliers failed; and the operations of the clients are not overwritten at
\* cleanup (cleanup, checkPorcupine).
THEOREM VisualizationKept == Spec => []VisKept
<1>1. IndInv => VisKept
  <2> SUFFICES ASSUME IndInv PROVE VisKept
    OBVIOUS
  <2>1. ASSUME exited = "apply error", visEnable # "never", cleaning[Tester] = "no",
               Cardinality(failing) <= 2, \A p \in Cleaner : ~Writing(p)
        PROVE  InError(file)
    <3>1. Done
      BY <2>1 DEF IndInv, CleanInv
    <3>2. kind = "raft" /\ failing \subseteq Cleaner
      BY <3>1, Cleaners DEF IndInv, CleanInv, Done, LogInv, TypeOK
    <3>3. QED
      BY <2>1, <3>1, <3>2 DEF IndInv, ErrorInv
  <2>2. wroteOps /\ cleaning[Signal] = "no" => "ops" \in file
    BY DEF IndInv, OpsInv
  <2>3. QED
    BY <2>1, <2>2 DEF VisKept
<1>2. QED
  BY <1>1, IndInvariant, PTL
=============================================================================
