---------------------------- MODULE VersionedKV ----------------------------
(***************************************************************************)
(* What kvsrv1 promises to the users of a Clerk (kvtest.IKVClerk): a       *)
(* linearizable versioned store.  An operation is invoked, is executed     *)
(* against the store at an instant between its invocation and its return,  *)
(* and returns what it saw there.  The one weakening is the one the        *)
(* comment on Clerk.Put documents: on an unreliable network a Put whose    *)
(* answer would be OK or ErrVersion may return ErrMaybe instead.           *)
(*                                                                         *)
(* KVSystem, the model of the Clerk's retry loops over labrpc, is shown to *)
(* implement this specification; Lock is built on top of it.               *)
(***************************************************************************)
EXTENDS KVServer

CONSTANTS Client,       \* the clerks
          Unreliable    \* may the network lose requests and replies?

ASSUME UnreliableAssumption == Unreliable \in BOOLEAN

VARIABLES store,        \* the server's map
          op            \* op[c]: the latest operation of clerk c

kvVars == <<store, op>>

NoReply == [value |-> NoValue, version |-> 0, err |-> "None"]

Op == [kind : {"none", "get", "put"}, key : Key, value : Value,
       version : Version, phase : {"pending", "executed", "returned"},
       res : Reply \cup {NoReply}]

NewOp(kind, key, value, version) ==
    [kind |-> kind, key |-> key, value |-> value, version |-> version,
     phase |-> "pending", res |-> NoReply]

\* The key of the operation a clerk has not made yet; never looked at.
NoKey == CHOOSE k \in Key : TRUE

KVTypeOK ==
    /\ IsStore(store)
    /\ op \in [Client -> Op]

KVInit ==
    /\ store = MakeKVServer
    /\ op = [c \in Client |-> [NewOp("none", NoKey, NoValue, 0) EXCEPT !.phase = "returned"]]

-----------------------------------------------------------------------------
InvokeGet(c, key) ==
    /\ op[c].phase = "returned"
    /\ op' = [op EXCEPT ![c] = NewOp("get", key, NoValue, 0)]
    /\ UNCHANGED store

InvokePut(c, key, value, version) ==
    /\ op[c].phase = "returned"
    /\ op' = [op EXCEPT ![c] = NewOp("put", key, value, version)]
    /\ UNCHANGED store

\* Has the Put of c taken effect?
Performed(c) == op[c].kind = "put" /\ op[c].phase # "pending" /\ op[c].res.err = "OK"

\* An execution of c's operation.  An operation that changed nothing may be
\* executed again: its last execution before the return is the one it reports.
Execute(c) ==
    /\ op[c].phase # "returned"
    /\ ~Performed(c)
    /\ \/ /\ op[c].kind = "get"
          /\ op' = [op EXCEPT ![c].phase = "executed",
                              ![c].res = Get(store, op[c].key)]
          /\ UNCHANGED store
       \/ /\ op[c].kind = "put"
          /\ op' = [op EXCEPT ![c].phase = "executed",
                              ![c].res.err = PutErr(store, op[c].key, op[c].version)]
          /\ store' = PutStore(store, op[c].key, op[c].value, op[c].version)

\* The errors c's executed operation may report.
Reported(c) ==
    {op[c].res.err} \cup
    (IF Unreliable /\ op[c].kind = "put" /\ op[c].res.err \in {"OK", "ErrVersion"}
     THEN {"ErrMaybe"} ELSE {})

Return(c) ==
    /\ op[c].phase = "executed"
    /\ \E err \in Reported(c) :
         op' = [op EXCEPT ![c].phase = "returned", ![c].res.err = err]
    /\ UNCHANGED store

\* Clerks that use any key, value and version.
Invoke(c) ==
    LET o == op'[c]
    IN  /\ o.key \in Key /\ o.value \in Value /\ o.version \in Version
        /\ InvokeGet(c, o.key) \/ InvokePut(c, o.key, o.value, o.version)

KVNext == \E c \in Client : Invoke(c) \/ Execute(c) \/ Return(c)

KVSpec == KVInit /\ [][KVNext]_kvVars
=============================================================================
