------------------------------- MODULE KVTest -------------------------------
(***************************************************************************)
(* kvtest1/kvtest.go: the tests of a key/value server, as programs over    *)
(* the store of VersionedKV, with what kvtest1/porcupine.go records of     *)
(* them and models1/kv.go, the model their histories are checked against.  *)
(*                                                                         *)
(*   put, append - SpawnClientsAndWait runs OneClientPut or                *)
(*                 OneClientAppend in NClnt goroutines; the test's own     *)
(*                 goroutine ends them, collects what they counted and     *)
(*                 compares it with the store (CheckPutConcurrent,         *)
(*                 CheckAppends)                                           *)
(*   atleastonce - PutAtLeastOnce and CheckGet, each client with a key of  *)
(*                 its own                                                 *)
(*   spread      - SpreadPuts, likewise                                    *)
(*                                                                         *)
(* A value is the JSON of a list of entries <<id, n>>; EntryV is a list of *)
(* one.  A step of a goroutine is what it does between two calls of its    *)
(* clerk: nobody else sees anything of it.                                 *)
(***************************************************************************)
EXTENDS VersionedKV, Sequences, SequencesExt

CONSTANTS NClnt,        \* how many clients are spawned
          SharedKey,    \* the key "k" of put and append
          KeyOf,        \* KeyOf[c]: the key of client c in the other tests
          MaxIter,      \* bound: how often a client goes round its loop
          MaxMaybe      \* bound: the versions PutAtLeastOnce may see ErrMaybe for

Clnt == 0 .. NClnt - 1
Main == NClnt           \* the clerk of the test's own goroutine

ASSUME ClientAssumption == NClnt \in Nat \ {0} /\ Client = Clnt \cup {Main}
ASSUME TestKeyAssumption == SharedKey \in Key /\ KeyOf \in [Clnt -> Key]
ASSUME IterAssumption == MaxIter \in Nat \ {0} /\ MaxMaybe \in Nat

VARIABLES test,         \* which test runs
          pc,           \* where the goroutine of each client is
          iter,         \* rounds of a client so far; i of OneClientAppend
          ver,          \* ver, verm[k]: the version a client puts with
          err,          \* the err of OnePut's Put
          res,          \* ClntRes
          main,         \* where SpawnClientsAndWait and the check after it are
          next,         \* the index of its for loops
          rs,           \* the results it has collected
          failed        \* Fatalf was called

\* History, which no action reads: the state the model of models1/kv.go is in
\* for each key, once the operations of the log are taken in the order in which
\* the store executed them; the state in which the latest operation of each
\* clerk was taken; and whether the model accepted them all.
VARIABLES kv, at, accepted

locals == <<iter, ver, err, res>>
mainVars == <<main, next, rs>>
history == <<kv, at, accepted>>
vars == <<kvVars, test, pc, locals, mainVars, failed, history>>

Tests == {"put", "append", "atleastonce", "spread"}
Spawned == {"put", "append"}

ClntRes == [Nok : Nat, Nmaybe : Nat]
NoRes == [Nok |-> 0, Nmaybe |-> 0]

-----------------------------------------------------------------------------
(* models1/kv.go                                                           *)

KvState == [value : Value, version : Version]

KvInit == [value |-> NoValue, version |-> 0]

\* Does Step accept operation o, with what it returned, in state st?  A Get is
\* judged by its value only.
KvAccepts(st, o) ==
    \/ o.kind = "get" /\ o.res.value = st.value
    \/ o.kind = "put" /\ st.version = o.version /\ o.res.err \in {"OK", "ErrMaybe"}
    \/ o.kind = "put" /\ st.version # o.version /\ o.res.err \in {"ErrVersion", "ErrMaybe"}

\* Faulty: a Put of another version changes the state.
KvStepAnyVersion(st, o) ==
    IF o.kind = "put" THEN [value |-> o.value, version |-> st.version + 1] ELSE st

\* The state Step leaves behind.
KvStep(st, o) ==
    IF o.kind = "put" /\ st.version = o.version
    THEN [value |-> o.value, version |-> st.version + 1] ELSE st

-----------------------------------------------------------------------------

TypeOK ==
    /\ KVTypeOK
    /\ test \in Tests
    /\ pc \in [Clnt -> {"select", "putting", "getting", "checking", "result", "gone", "dead"}]
    /\ iter \in [Clnt -> 0..MaxIter]
    /\ ver \in [Clnt -> Version]
    /\ err \in [Clnt -> Err]
    /\ res \in [Clnt -> ClntRes]
    /\ main \in {"sleep", "signal", "collect", "check", "passed", "dead"}
    /\ next \in 0..NClnt
    /\ rs \in [Clnt -> ClntRes]
    /\ failed \in BOOLEAN /\ accepted \in BOOLEAN
    /\ kv \in [Key -> KvState] /\ at \in [Client -> KvState]

\* CheckAppends expects that the list was put, empty, at version 1.
Init ==
    /\ test \in Tests
    /\ store = IF test = "append"
               THEN [k \in {SharedKey} |-> [value |-> <<>>, version |-> 1]] ELSE MakeKVServer
    /\ op = [c \in Client |-> [NewOp("none", NoKey, NoValue, 0) EXCEPT !.phase = "returned"]]
    /\ pc = [c \in Clnt |-> "select"]
    /\ iter = [c \in Clnt |-> 0]
    /\ ver = [c \in Clnt |-> 0]
    /\ err = [c \in Clnt |-> "OK"]
    /\ res = [c \in Clnt |-> NoRes]
    /\ main = "sleep" /\ next = 0 /\ rs = [c \in Clnt |-> NoRes]
    /\ failed = FALSE
    /\ kv = [k \in Key |-> IF k \in DOMAIN store THEN store[k] ELSE KvInit]
    /\ at = [c \in Client |-> KvInit]
    /\ accepted = TRUE

\* The clerk of c has returned from the call that c waits for.
Back(c, label) == pc[c] = label /\ op[c].phase = "returned"

GoTo(c, label) == pc' = [pc EXCEPT ![c] = label]

\* Fatalf ends the client's goroutine.
Fatalf(c) ==
    /\ failed' = TRUE
    /\ GoTo(c, "dead")
    /\ UNCHANGED <<kvVars, locals>>

\* GetJson: Fatalf on an error, and on a value that is not JSON.
GotJson(o) == o.res.err = "OK" /\ o.res.value # NoValue

\* Faulty: counts only what is known to have been performed.
CountOnlyOK(c, e) ==
    res' = [res EXCEPT ![c].Nok = IF e = "OK" THEN @ + 1 ELSE @]

\* A Put that is known to have been performed, or that may have been.
Count(c, e) ==
    res' = [res EXCEPT ![c].Nok = IF e = "OK" THEN @ + 1 ELSE @,
                       ![c].Nmaybe = IF e = "ErrMaybe" THEN @ + 1 ELSE @]

NextRound(c) ==
    /\ iter' = [iter EXCEPT ![c] = @ + 1]
    /\ GoTo(c, "select")

-----------------------------------------------------------------------------
(* OneClientPut and OnePut.                                                *)

\* Faulty: the entry of a retry is the one of the first try.
OnePutFirstEntry(c, v) ==
    /\ InvokePut(c, SharedKey, <<<<c, ver[c]>>>>, v)
    /\ GoTo(c, "putting")

OnePut(c, v) ==
    /\ InvokePut(c, SharedKey, <<<<c, v>>>>, v)
    /\ GoTo(c, "putting")

OnePutRead(c) ==
    /\ Back(c, "putting")
    /\ IF op[c].res.err \notin {"OK", "ErrVersion", "ErrMaybe"} THEN Fatalf(c)
       ELSE /\ err' = [err EXCEPT ![c] = op[c].res.err]
            /\ InvokeGet(c, SharedKey)
            /\ GoTo(c, "getting")
            /\ UNCHANGED <<iter, ver, res, failed>>

\* "my put?"
WrongValue(c) ==
    /\ err[c] = "OK" /\ op[c].res.version = ver[c] + 1
    /\ op[c].res.value[1][1] # c /\ op[c].res.value[1][2] # ver[c]

OnePutReturn(c) ==
    LET ver0 == op[c].res.version
    IN  /\ Back(c, "getting")
        /\ IF ~GotJson(op[c]) \/ WrongValue(c) THEN Fatalf(c)
           ELSE /\ ver' = [ver EXCEPT ![c] = ver0]
                /\ IF err[c] = "ErrVersion"
                   THEN OnePut(c, ver0) /\ UNCHANGED <<iter, res>>
                   ELSE NextRound(c) /\ Count(c, err[c]) /\ UNCHANGED kvVars
                /\ UNCHANGED <<err, failed>>

-----------------------------------------------------------------------------
(* OneClientAppend.                                                        *)

AppendRead(c) ==
    /\ InvokeGet(c, SharedKey)
    /\ GoTo(c, "getting")

AppendPut(c) ==
    /\ Back(c, "getting")
    /\ IF ~GotJson(op[c]) THEN Fatalf(c)
       ELSE /\ InvokePut(c, SharedKey, Append(op[c].res.value, <<c, iter[c]>>), op[c].res.version)
            /\ GoTo(c, "putting")
            /\ UNCHANGED <<locals, failed>>

AppendReturn(c) ==
    /\ Back(c, "putting")
    /\ IF op[c].res.err \in {"OK", "ErrMaybe"}
       THEN NextRound(c) /\ Count(c, op[c].res.err) /\ UNCHANGED <<kvVars, ver, err, failed>>
       ELSE AppendRead(c) /\ UNCHANGED <<locals, failed>>

-----------------------------------------------------------------------------
(* PutAtLeastOnce, SpreadPuts and CheckGet.                                *)

PutOwn(c, v) ==
    /\ InvokePut(c, KeyOf[c], <<<<c, iter[c]>>>>, v)
    /\ GoTo(c, "putting")

\* Puts until a Put returns OK; then CheckGet.  Any other error at version 0 is
\* tried again.
PutAtLeastOnce(c) ==
    LET e == op[c].res.err
        v == IF e = "ErrNoKey" THEN 0 ELSE ver[c] + 1
    IN  /\ Back(c, "putting")
        /\ IF e = "ErrNoKey" /\ ver[c] # 0 THEN Fatalf(c)
           ELSE /\ ver' = [ver EXCEPT ![c] = v]
                /\ IF e # "OK" THEN PutOwn(c, v)
                   ELSE InvokeGet(c, KeyOf[c]) /\ GoTo(c, "checking")
                /\ UNCHANGED <<iter, err, res, failed>>

\* The Put of version 0 is done, whatever it returned; CheckGet expects version 1.
SpreadPuts(c) ==
    /\ Back(c, "putting")
    /\ ver' = [ver EXCEPT ![c] = 1]
    /\ InvokeGet(c, KeyOf[c])
    /\ GoTo(c, "checking")
    /\ UNCHANGED <<iter, err, res, failed>>

CheckGet(c) ==
    /\ Back(c, "checking")
    /\ IF op[c].res = [value |-> <<<<c, iter[c]>>>>, version |-> ver[c], err |-> "OK"]
       THEN NextRound(c) /\ UNCHANGED <<kvVars, ver, err, res, failed>>
       ELSE Fatalf(c)

-----------------------------------------------------------------------------
(* The clients' loops and SpawnClientsAndWait.  The channels done and ca   *)
(* are unbuffered: a send and its receive are one step.                    *)

\* The select finds nobody sending on done.  (Between two sends of the loop a
\* client that is not signalled yet could start one more round; here that round
\* comes before the first send, of which the other clients see nothing.)
StartRound(c) ==
    /\ pc[c] = "select"
    /\ main # "signal"
    /\ iter[c] < IF test = "spread" THEN 1 ELSE MaxIter
    /\ \/ test = "put" /\ OnePut(c, ver[c])
       \/ test = "append" /\ AppendRead(c)
       \/ test = "atleastonce" /\ PutOwn(c, ver[c])
       \/ test = "spread" /\ PutOwn(c, 0)
    /\ UNCHANGED <<locals, failed>>

ClientStep(c) ==
    /\ \/ StartRound(c)
       \/ test = "put" /\ (OnePutRead(c) \/ OnePutReturn(c))
       \/ test = "append" /\ (AppendPut(c) \/ AppendReturn(c))
       \/ test = "atleastonce" /\ PutAtLeastOnce(c)
       \/ test = "spread" /\ SpreadPuts(c)
       \/ test \notin Spawned /\ CheckGet(c)
    /\ UNCHANGED <<test, mainVars, history>>

\* time.Sleep(t) is over; in so many seconds somebody's Put has been performed.
\* (Otherwise the GetJson of the check would fail: nothing else makes sure that
\* the key exists.)
Wake ==
    /\ test \in Spawned
    /\ main = "sleep"
    /\ SharedKey \in DOMAIN store
    /\ main' = "signal"
    /\ UNCHANGED <<kvVars, test, pc, locals, next, rs, failed, history>>

\* Faulty: one signal for all of them.
SignalOnce(c) ==
    /\ main = "signal" /\ pc[c] = "select"
    /\ GoTo(c, "result")
    /\ main' = "collect" /\ next' = 0
    /\ UNCHANGED <<kvVars, test, locals, rs, failed, history>>

\* done <- struct{}{}, received by whichever client is at its select.
Signal(c) ==
    /\ main = "signal" /\ pc[c] = "select"
    /\ GoTo(c, "result")
    /\ IF next + 1 < NClnt THEN next' = next + 1 /\ UNCHANGED main
       ELSE next' = 0 /\ main' = "collect"
    /\ UNCHANGED <<kvVars, test, locals, rs, failed, history>>

\* rs[cli] = <-ca[cli], in order; then runClient deletes its clerk.  After the
\* last one the check reads the key.
Collect(c) ==
    /\ main = "collect" /\ next = c /\ pc[c] = "result"
    /\ rs' = [rs EXCEPT ![c] = res[c]]
    /\ GoTo(c, "gone")
    /\ next' = next + 1
    /\ IF next + 1 < NClnt THEN UNCHANGED <<main, kvVars>>
       ELSE main' = "check" /\ InvokeGet(Main, SharedKey)
    /\ UNCHANGED <<test, locals, failed, history>>

\* The sum of a field over the clients.
Total(r) == FoldLeft(LAMBDA sum, i : sum + r[i], 0, [i \in 1..NClnt |-> i - 1])

Nok == Total([c \in Clnt |-> rs[c].Nok])
Nmaybe == Total([c \in Clnt |-> rs[c].Nmaybe])

CheckPutConcurrent(ver0) ==
    IF Unreliable THEN ver0 <= Nok + Nmaybe ELSE ver0 = Nok

\* The loop of CheckAppends over the entries.
AppendsSeen(es) ==
    LET See(acc, e) ==
          LET id == e[1]
              n == e[2]
          IN  IF acc.expect[id] > n THEN [acc EXCEPT !.ok = FALSE]
              ELSE [acc EXCEPT !.expect[id] = n + 1,
                               !.skipped[id] = @ + (n - acc.expect[id])]
        zero == [c \in Clnt |-> 0]
    IN  FoldLeft(See, [ok |-> TRUE, expect |-> zero, skipped |-> zero], es)

CheckAppends(es, ver0) ==
    LET seen == AppendsSeen(es)
    IN  /\ seen.ok
        /\ Len(es) + 1 = ver0
        /\ \A c \in Clnt : /\ seen.skipped[c] <= rs[c].Nmaybe
                           /\ seen.expect[c] <= rs[c].Nok + rs[c].Nmaybe

\* The test's own goroutine checks what the clients counted.
Check ==
    LET ver0 == op[Main].res.version
        good == GotJson(op[Main]) /\ IF test = "put" THEN CheckPutConcurrent(ver0)
                                     ELSE CheckAppends(op[Main].res.value, ver0)
    IN  /\ main = "check" /\ op[Main].phase = "returned"
        /\ main' = IF good THEN "passed" ELSE "dead"
        /\ failed' = (failed \/ ~good)
        /\ UNCHANGED <<kvVars, test, pc, locals, next, rs, history>>

-----------------------------------------------------------------------------
(* The store, and the log of kvtest1/porcupine.go.  An operation is logged *)
(* when it has returned; SpreadPuts calls ck.Put, which is not logged.     *)

Logged(c) == ~(test = "spread" /\ op[c].kind = "put")

ExecuteOp(c) ==
    LET k == op[c].key
    IN  /\ Execute(c)
        /\ IF Logged(c)
           THEN /\ at' = [at EXCEPT ![c] = kv[k]]
                /\ kv' = [kv EXCEPT ![k] = KvStep(kv[k], op[c])]
           ELSE UNCHANGED <<at, kv>>
        /\ UNCHANGED <<test, pc, locals, mainVars, failed, accepted>>

\* The network does not lose every reply: PutAtLeastOnce gets an OK in the end.
ReturnOp(c) ==
    /\ Return(c)
    /\ test = "atleastonce" /\ op'[c].res.err = "ErrMaybe" => ver[c] < MaxMaybe
    /\ accepted' = (accepted /\ (Logged(c) => KvAccepts(at[c], op'[c])))
    /\ UNCHANGED <<test, pc, locals, mainVars, failed, kv, at>>

Next ==
    \/ \E c \in Clnt : ClientStep(c) \/ Signal(c) \/ Collect(c)
    \/ \E c \in Client : ExecuteOp(c) \/ ReturnOp(c)
    \/ Wake
    \/ Check

\* The clerks answer and the goroutines run.
Fairness ==
    /\ \A c \in Clnt : WF_vars(ClientStep(c)) /\ WF_vars(Signal(c)) /\ WF_vars(Collect(c))
    /\ \A c \in Client : WF_vars(ExecuteOp(c) /\ op[c].phase = "pending") /\ WF_vars(ReturnOp(c))
    /\ WF_vars(Wake) /\ WF_vars(Check)

Spec == Init /\ [][Next]_vars /\ Fairness

-----------------------------------------------------------------------------
(* Properties.                                                             *)

\* No check of the tests fails on a correct store, however the clients
\* interleave and whatever Puts return ErrMaybe: the versions add up to what
\* the clients counted, no entry is missing that was not maybe, and
\* PutAtLeastOnce returns the version the key has.
ChecksPass == ~failed

\* "Checks that the log of Clerk.Put's and Clerk.Get's is linearizable": the
\* model of models1/kv.go accepts the log in the order in which the store
\* executed it, so checkPorcupine does not call it illegal.  Not so for
\* SpreadPuts, whose Puts are missing in the log.
HistoryAccepted ==
    test # "spread" =>
        /\ accepted
        /\ \A k \in DOMAIN store : kv[k] = store[k]

\* What OnePut takes for its own Put is: the value read at the version after
\* its own has its id and its version (the code fails only if both differ).
OkPutIsRead ==
    /\ TypeOK
    /\ \A c \in Clnt :
         test = "put" /\ pc[c] = "getting" /\ op[c].phase = "returned"
         /\ err[c] = "OK" /\ op[c].res.version = ver[c] + 1
             => op[c].res.value = <<<<c, ver[c]>>>>

-----------------------------------------------------------------------------
(* What the proofs need: the inductive invariants behind HistoryAccepted,  *)
(* OkPutIsRead, OnlyCountsFail and ChecksPass.                             *)

TestKey(c) == IF test \in Spawned THEN SharedKey ELSE KeyOf[c]

\* What a client calls, and that it puts with a version above 0 only after its
\* key was put.
LoopInv(c) ==
    /\ pc[c] \in {"putting", "getting", "checking"} =>
         /\ iter[c] < MaxIter
         /\ op[c].kind = IF pc[c] = "putting" THEN "put" ELSE "get"
         /\ op[c].key = TestKey(c)
    /\ ver[c] # 0 /\ test # "spread" => TestKey(c) \in DOMAIN store

\* Any answer but ErrNoKey tells that the key exists, and the model accepts the
\* answer in the state in which the operation was executed.
AnswerInv(c) ==
    /\ op[c].kind = "put" /\ op[c].version # 0 => op[c].key \in DOMAIN store
    /\ op[c].phase # "pending" =>
         /\ op[c].kind # "none" => op[c].res.err \in Err
         /\ op[c].res.err \in {"OK", "ErrVersion", "ErrMaybe"} => op[c].key \in DOMAIN store
    /\ op[c].phase = "executed" /\ test # "spread" => KvAccepts(at[c], op[c])

\* The state of the model is the store.
ModelInv ==
    test # "spread" =>
        /\ accepted
        /\ \A k \in Key : kv[k] = IF k \in DOMAIN store THEN store[k] ELSE KvInit

\* The key has moved on from the version that c put with, and its next version
\* is the one c has put.
Mine(c) ==
    /\ SharedKey \in DOMAIN store
    /\ store[SharedKey].version > ver[c]
    /\ store[SharedKey].version = ver[c] + 1 => store[SharedKey].value = <<<<c, ver[c]>>>>

\* OnePut knows what it did if it was told OK.
ReadInv(c) ==
    test = "put" =>
        /\ pc[c] = "putting" =>
             /\ op[c].version = ver[c] /\ op[c].value = <<<<c, ver[c]>>>>
             /\ op[c].phase # "pending" /\ op[c].res.err = "OK" => Mine(c)
        /\ pc[c] = "getting" /\ err[c] = "OK" =>
             /\ Mine(c)
             /\ op[c].phase # "pending" /\ op[c].res.version = ver[c] + 1
                  => op[c].res.value = <<<<c, ver[c]>>>>

\* The inductive invariant.
IndInv ==
    /\ TypeOK
    /\ \A c \in Clnt : LoopInv(c) /\ ReadInv(c)
    /\ \A c \in Client : AnswerInv(c)
    /\ ModelInv

\* No check of a client fails, and the test's own goroutine reads a list: if
\* the test fails, the counts differ from what is in the store.
OnlyCountsFail ==
    /\ \A c \in Clnt : pc[c] # "dead"
    /\ main = "check" /\ op[Main].phase = "returned" => GotJson(op[Main])
    /\ failed => main = "dead"

\* A client waits for what it has called, meets no ErrNoKey, and reads a list.
SoundInv(c) ==
    /\ pc[c] # "dead"
    /\ pc[c] = "select" => op[c].phase = "returned"
    /\ op[c].kind = "put" => op[c].key = TestKey(c) /\ op[c].value # NoValue
    /\ op[c].phase # "pending" /\ pc[c] = "putting" => op[c].res.err # "ErrNoKey"
    /\ pc[c] = "getting" =>
         /\ test \in Spawned /\ SharedKey \in DOMAIN store
         /\ op[c].phase # "pending" => GotJson(op[c])

\* The key of c, which nobody else puts, holds what c put in this round.
OwnVersion(c) == CurrentVersion(store, KeyOf[c])
HoldsOwn(c) == KeyOf[c] \in DOMAIN store /\ store[KeyOf[c]].value = <<<<c, iter[c]>>>>

\* c knows the version of its key.
OwnInv(c) ==
    test \notin Spawned =>
        /\ test = "spread" /\ (pc[c] = "putting" \/ (pc[c] = "select" /\ iter[c] = 0))
             => ver[c] = 0
        /\ pc[c] = "select" /\ (test # "spread" \/ iter[c] = 0) => OwnVersion(c) = ver[c]
        /\ pc[c] = "putting" =>
             /\ op[c].version = ver[c] /\ op[c].value = <<<<c, iter[c]>>>>
             /\ IF op[c].phase = "pending" THEN OwnVersion(c) = ver[c]
                ELSE /\ HoldsOwn(c) /\ OwnVersion(c) = ver[c] + 1
                     /\ \/ op[c].res.err = "OK"
                        \/ op[c].res.err = "ErrMaybe" /\ op[c].phase = "returned"
        /\ pc[c] = "checking" =>
             /\ HoldsOwn(c) /\ OwnVersion(c) = ver[c]
             /\ op[c].phase # "pending" =>
                  op[c].res = [value |-> <<<<c, iter[c]>>>>, version |-> ver[c], err |-> "OK"]

\* Only lists are put, and the test's own goroutine reads one.
ListInv ==
    /\ \A k \in DOMAIN store : store[k].value # NoValue
    /\ test = "append" \/ main \notin {"sleep", "dead"} => SharedKey \in DOMAIN store
    /\ op[Main].kind # "put"
    /\ main = "check" =>
         /\ op[Main].kind = "get" /\ op[Main].key = SharedKey
         /\ op[Main].phase # "pending" => GotJson(op[Main])
    /\ failed => main = "dead"

\* The inductive invariant behind OnlyCountsFail, together with IndInv.
PassInv == ListInv /\ \A c \in Clnt : SoundInv(c) /\ OwnInv(c)

\* The latest Put of c in this round was performed, or may have been.
Told(c) ==
    \/ pc[c] = "putting" /\ op[c].phase # "pending" /\ op[c].res.err \in {"OK", "ErrMaybe"}
    \/ test = "put" /\ pc[c] = "getting" /\ err[c] \in {"OK", "ErrMaybe"}

\* What c has counted, and will count at the end of this round.
Counted(c) == res[c].Nok + res[c].Nmaybe + (IF Told(c) THEN 1 ELSE 0)

\* put: every version of the key is a Put that somebody has counted.
VersionsInv ==
    LET total == Total([c \in Clnt |-> Counted(c)])
        version == CurrentVersion(store, SharedKey)
    IN  test = "put" =>
          /\ version <= total
          /\ ~Unreliable => version = total

\* append: what CheckAppends' loop makes of the list.
Seen == AppendsSeen(store[SharedKey].value)

OrderInv ==
    test = "append" => Seen.ok /\ Len(store[SharedKey].value) + 1 = store[SharedKey].version

\* append: the rounds that c has finished without an entry are ones that it
\* counted as maybe.
EntriesInv(c) ==
    test = "append" =>
        /\ Seen.expect[c] <= iter[c] =>
             Seen.skipped[c] + (iter[c] - Seen.expect[c]) <= res[c].Nmaybe
        /\ Seen.expect[c] > iter[c] =>
             Seen.expect[c] = iter[c] + 1 /\ Seen.skipped[c] <= res[c].Nmaybe /\ Told(c)
        /\ pc[c] = "putting" /\ op[c].phase # "pending" /\ op[c].res.err = "OK" =>
             Seen.expect[c] > iter[c]

\* append: what c has read, and puts with its entry added, is the list if no
\* Put has been performed since.
FreshInv(c) ==
    LET list == store[SharedKey]
    IN  test = "append" =>
          /\ pc[c] = "getting" /\ op[c].phase # "pending" =>
               /\ op[c].res.version <= list.version
               /\ op[c].res.version = list.version => op[c].res.value = list.value
          /\ pc[c] = "putting" =>
               /\ op[c].version <= list.version
               /\ op[c].version = list.version =>
                    op[c].value = Append(list.value, <<c, iter[c]>>)

\* A client counts one Put a round.
RoundInv(c) ==
    test \in Spawned =>
        /\ iter[c] = res[c].Nok + res[c].Nmaybe
        /\ ~Unreliable => res[c].Nmaybe = 0 /\ op[c].res.err # "ErrMaybe" /\ err[c] # "ErrMaybe"
        /\ test = "put" /\ pc[c] = "getting" => err[c] # "ErrNoKey"
        /\ pc[c] # "checking"
        /\ pc[c] \in {"result", "gone"} => op[c].phase = "returned"
        /\ op[c].phase = "executed" => op[c].res.err # "ErrMaybe"

\* Its results are collected when it is done.
CollectInv(c) ==
    test \in Spawned =>
        /\ pc[c] = "gone" => rs[c] = res[c]
        /\ main = "collect" /\ c < next => pc[c] = "gone"
        /\ main = "check" => pc[c] = "gone"

\* The check reads the store that all clients have left.
CheckInv ==
    /\ main # "sleep" => test \in Spawned
    /\ main # "dead"
    /\ main = "check" /\ op[Main].phase # "pending" =>
         /\ op[Main].res.version = store[SharedKey].version
         /\ op[Main].res.value = store[SharedKey].value

\* The inductive invariant behind ChecksPass, together with IndInv and PassInv.
CountInv ==
    /\ VersionsInv /\ OrderInv /\ CheckInv
    /\ \A c \in Clnt : EntriesInv(c) /\ FreshInv(c) /\ RoundInv(c) /\ CollectInv(c)

-----------------------------------------------------------------------------

\* SpawnClientsAndWait returns and the test ends: nobody is left waiting on
\* done or ca, and no client is starved in its retry loop once the others stop.
TestEnds ==
    <>(IF test \in Spawned THEN main = "passed"
       ELSE \A c \in Clnt : pc[c] = "select" /\ iter[c] > 0)
=============================================================================
