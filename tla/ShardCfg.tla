------------------------------ MODULE ShardCfg ------------------------------
(***************************************************************************)
(* shardkv1/shardcfg/shardcfg.go: a ShardConfig that groups join and leave *)
(* and that is balanced after each change.  Join and Leave change the      *)
(* configuration group by group, so one that returns false has changed a   *)
(* part of it, and is not followed by Rebalance.                           *)
(***************************************************************************)
EXTENDS Integers, FiniteSets, SequencesExt

CONSTANTS NShards,      \* the number of shards
          Gid,          \* group ids, positive numbers
          ServerList,   \* the lists of servers a group may have, as sets
          MaxGroups,     \* bound: how many groups one call names
          MaxNum        \* bound: how often the configuration changes

\* analyze looks for a minimum below 257.
ASSUME NShardsAssumption == NShards \in 1..256
ASSUME GidAssumption == Gid \subseteq Nat \ {0}
ASSUME BoundAssumption == MaxGroups \in Nat /\ MaxNum \in Nat

VARIABLES Num, Shards, Groups,  \* the fields of ShardConfig
          balanced,             \* the last call returned true, or there was none
          exited                \* log.Fatalf was called

vars == <<Num, Shards, Groups, balanced, exited>>

Shard == 0 .. NShards - 1

TypeOK ==
    /\ Num \in 0..MaxNum
    /\ Shards \in [Shard -> Gid \cup {0}]
    /\ \E S \in SUBSET Gid : Groups \in [S -> ServerList]
    /\ balanced \in BOOLEAN
    /\ exited \in BOOLEAN

\* MakeShardConfig
Init ==
    /\ Num = 0
    /\ Shards = [s \in Shard |-> 0]
    /\ Groups = [g \in {} |-> {}]
    /\ balanced = TRUE
    /\ exited = FALSE

-----------------------------------------------------------------------------
(* Rebalance, as a function of the shards and the set of groups.           *)

Count(shards, g) == Cardinality({s \in Shard : shards[s] = g})

\* analyze: the first of the groups, by gid, with the most shards.
MostLoaded(shards, groups) ==
    CHOOSE g \in groups : \A h \in groups :
        Count(shards, g) > Count(shards, h) \/ (Count(shards, g) = Count(shards, h) /\ g <= h)

\* Faulty: starts from a minimum that no group is below.
LeastLoadedFromZero(shards, groups) == -1

\* analyze and least: the first of the groups with the fewest shards.
LeastLoaded(shards, groups) ==
    CHOOSE g \in groups : \A h \in groups :
        Count(shards, g) < Count(shards, h) \/ (Count(shards, g) = Count(shards, h) /\ g <= h)

\* The first loop of Rebalance: shards without a group, in order.
AssignAll(shards, groups) ==
    LET Assign(sh, s) ==
          IF sh[s] \in groups THEN sh ELSE [sh EXCEPT ![s] = LeastLoaded(sh, groups)]
    IN  FoldLeft(Assign, shards, [n \in 1..NShards |-> n - 1])

\* One shard, the first there is, from the most to the least loaded group.
MoveOne(shards, groups) ==
    LET mg == MostLoaded(shards, groups)
        s == CHOOSE s \in Shard : shards[s] = mg /\ \A t \in Shard : shards[t] = mg => s <= t
    IN  [shards EXCEPT ![s] = LeastLoaded(shards, groups)]

\* The condition on which the second loop stops.
Level(shards, groups) ==
    Count(shards, MostLoaded(shards, groups)) < Count(shards, LeastLoaded(shards, groups)) + 2

\* Faulty: stops one shard too early.
MoveAllTooEarly(shards, groups) ==
    LET move[sh \in [Shard -> groups]] ==
            IF Count(sh, MostLoaded(sh, groups)) < Count(sh, LeastLoaded(sh, groups)) + 3
            THEN sh ELSE move[MoveOne(sh, groups)]
    IN  move[shards]

\* The second loop of Rebalance.
MoveAll(shards, groups) ==
    LET move[sh \in [Shard -> groups]] ==
            IF Level(sh, groups) THEN sh ELSE move[MoveOne(sh, groups)]
    IN  move[shards]

\* Faulty: deals all shards out again.
RebalanceFromScratch(shards, groups) ==
    IF groups = {}
    THEN [s \in Shard |-> 0]
    ELSE MoveAll(AssignAll([s \in Shard |-> 0], groups), groups)

Rebalance(shards, groups) ==
    IF groups = {}
    THEN [s \in Shard |-> 0]
    ELSE MoveAll(AssignAll(shards, groups), groups)

-----------------------------------------------------------------------------
(* JoinBalance and LeaveBalance.                                           *)

With(groups, joining, S) ==
    [g \in DOMAIN groups \cup S |-> IF g \in DOMAIN groups THEN groups[g] ELSE joining[g]]

\* Faulty: only looks at the groups that were there before the call.
ConflictsOldOnly(g, joining, S) ==
    \E h \in DOMAIN Groups : Groups[h] \cap joining[g] # {}

\* Does g share a server with a group, once those in S have joined?
Conflicts(g, joining, S) ==
    \E h \in DOMAIN Groups \cup S :
        h # g /\ With(Groups, joining, S)[h] \cap joining[g] # {}

\* Can the loop over the map, in some order, have added just S?
CanAdd(joining, S) ==
    \E order \in SetToSeqs(S) : \A n \in 1..Cardinality(S) :
        ~Conflicts(order[n], joining, {order[m] : m \in 1 .. n - 1})

ChangeTo(groups) ==
    /\ Num < MaxNum
    /\ Num' = Num + 1
    /\ Groups' = groups
    /\ Shards' = Rebalance(Shards, DOMAIN groups)
    /\ balanced' = TRUE
    /\ UNCHANGED exited

FailWith(groups) ==
    /\ Groups' = groups
    /\ balanced' = FALSE
    /\ UNCHANGED <<Num, Shards, exited>>

Fatalf ==
    /\ exited' = TRUE
    /\ UNCHANGED <<Num, Shards, Groups, balanced>>

\* The argument of Join is a map, iterated in any order: a group that is a
\* member already stops it after some of the others have been added, a server
\* in two groups ends the process.
JoinBalance(joining) ==
    LET gids == DOMAIN joining
        new == gids \ DOMAIN Groups
    IN  \/ gids # {} /\ new = gids /\ CanAdd(joining, gids) /\ ChangeTo(With(Groups, joining, gids))
        \/ new # gids /\ \E S \in SUBSET new :
               CanAdd(joining, S) /\ FailWith(With(Groups, joining, S))
        \/ \E g \in new : \E S \in SUBSET (new \ {g}) :
               CanAdd(joining, S) /\ Conflicts(g, joining, S) /\ Fatalf
        \/ gids = {} /\ Fatalf

Without(groups, S) == [g \in DOMAIN groups \ S |-> groups[g]]

\* The argument of Leave is a list: it stops at the first gid that is not, or
\* no longer, a member.
LeaveBalance(gids) ==
    LET Missing(n) == gids[n] \notin DOMAIN Groups \/ \E m \in 1 .. n - 1 : gids[m] = gids[n]
        Upto(n) == {gids[m] : m \in 1..n}
    IN  \/ /\ gids # <<>> /\ \A n \in DOMAIN gids : ~Missing(n)
           /\ ChangeTo(Without(Groups, Upto(Len(gids))))
        \/ \E n \in DOMAIN gids :
               /\ Missing(n) /\ \A m \in 1 .. n - 1 : ~Missing(m)
               /\ FailWith(Without(Groups, Upto(n - 1)))
        \/ gids = <<>> /\ Fatalf

GidSets == {S \in SUBSET Gid : IsFiniteSet(S) /\ Cardinality(S) <= MaxGroups}

Next ==
    /\ ~exited
    /\ \/ \E S \in GidSets : \E joining \in [S -> ServerList] : JoinBalance(joining)
       \/ \E gids \in BoundedSeq(Gid, MaxGroups) : LeaveBalance(gids)

Spec == Init /\ [][Next]_vars

-----------------------------------------------------------------------------
(* Properties.                                                             *)

\* What CheckConfig demands of a configuration that was just changed, however
\* many calls before it failed half-way: no shard without a group, and no two
\* groups more than one shard apart.
ChangedConfigIsGood ==
    balanced /\ DOMAIN Groups # {} =>
        /\ \A s \in Shard : Shards[s] \in DOMAIN Groups
        /\ \A g, h \in DOMAIN Groups : Count(Shards, g) <= Count(Shards, h) + 1

\* A configuration keeps its type, and no server is in two groups, also when
\* several groups join in one call and when a call fails half-way.
ServersDisjoint ==
    /\ TypeOK
    /\ \A g, h \in DOMAIN Groups : g # h => Groups[g] \cap Groups[h] = {}

\* How many shards stay where they are if group g gets quota[g] of them.
Kept(quota) ==
    MapThenSumSet(LAMBDA g : Min({quota[g], Count(Shards, g)}), DOMAIN quota)

\* The ways to share NShards evenly between the groups.
Quotas(groups) ==
    LET low == NShards \div Cardinality(groups)
    IN  {q \in [groups -> {low, low + 1}] : MapThenSumSet(LAMBDA g : q[g], groups) = NShards}

\* A change moves no more shards than any even distribution over the new
\* groups has to, from whatever distribution the calls before left behind.
MovesAsFewAsPossible ==
    [][ Num' # Num /\ DOMAIN Groups' # {} =>
          Cardinality({s \in Shard : Shards'[s] = Shards[s]})
            = Max({Kept(q) : q \in Quotas(DOMAIN Groups')}) ]_vars
=============================================================================
