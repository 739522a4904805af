---------------------------- MODULE KVTestProofs ----------------------------
(***************************************************************************)
(* For any number of clients and rounds: the model of models1/kv.go        *)
(* accepts every log of the tests but SpreadPuts', what OnePut takes for   *)
(* its own Put is its own, and no check of a client or of the test fails.  *)
(* A value is the JSON of any list of entries (AnyList), where the runs    *)
(* have short lists only.                                                  *)
(***************************************************************************)
EXTENDS KVTest, FoldLemmas

AnyList == Value = {NoValue} \cup Seq(Clnt \X Nat)

\* The test's own clerk is not a client's.
LEMMA Clients == Clnt \subseteq Client /\ Clnt \subseteq Nat /\ Main \in Client /\ Main \notin Clnt
BY ClientAssumption DEF Clnt, Main

\* The lists that the clients put are values.
LEMMA Lists ==
    ASSUME AnyList, NEW c \in Clnt, NEW n \in Nat
    PROVE  /\ <<<<c, n>>>> \in Value
           /\ \A es \in Value : es # NoValue => Append(es, <<c, n>>) \in Value
<1>1. <<c, n>> \in Clnt \X Nat
  OBVIOUS
<1>2. <<<<c, n>>>> \in Seq(Clnt \X Nat)
  BY <1>1
<1>3. \A es \in Seq(Clnt \X Nat) : Append(es, <<c, n>>) \in Seq(Clnt \X Nat)
  BY <1>1
<1>4. QED
  BY <1>2, <1>3 DEF AnyList

\* t is s after an accepted Put: every other entry is the same.
Written(s, t, key, value, version) ==
    /\ version = CurrentVersion(s, key)
    /\ DOMAIN t = DOMAIN s \cup {key}
    /\ t[key] = [value |-> value, version |-> version + 1]
    /\ \A k \in DOMAIN s : k # key => t[k] = s[k]

\* KVServer.Put writes the entry iff the version was the current one.
LEMMA PutLemma ==
    ASSUME NEW s, IsStore(s), NEW key \in Key, NEW value \in Value, NEW version \in Version
    PROVE  /\ IsStore(PutStore(s, key, value, version))
           /\ PutErr(s, key, version) # "OK" => PutStore(s, key, value, version) = s
           /\ PutErr(s, key, version) = "OK" =>
                Written(s, PutStore(s, key, value, version), key, value, version)
<1>1. CASE PutErr(s, key, version) # "OK"
  BY <1>1 DEF PutStore
<1>2. CASE PutErr(s, key, version) = "OK"
  <2>1. version = CurrentVersion(s, key)
    BY <1>2 DEF PutErr
  <2>2. [value |-> value, version |-> version + 1] \in Entry
    BY DEF Entry, Version
  <2>3. CASE key \in DOMAIN s
    <3>1. PutStore(s, key, value, version)
            = [s EXCEPT ![key] = [value |-> value, version |-> version + 1]]
      BY <1>2, <2>1, <2>3 DEF PutStore, UpdateRecord, CurrentVersion
    <3>2. QED
      BY <1>2, <2>1, <2>2, <2>3, <3>1 DEF IsStore, Written
  <2>4. CASE key \notin DOMAIN s
    <3>1. PutStore(s, key, value, version) = AddRecord(s, key, value, version)
      BY <1>2, <2>4 DEF PutStore
    <3>2. QED
      BY <1>2, <2>1, <2>2, <2>4, <3>1 DEF AddRecord, IsStore, Written
  <2>5. QED
    BY <2>3, <2>4
<1>3. QED
  BY <1>1, <1>2

\* KVServer.Get answers with the entry, or ErrNoKey without one.
LEMMA GetLemma ==
    ASSUME NEW s, IsStore(s), NEW key \in Key
    PROVE  /\ Get(s, key) \in Reply
           /\ key \in DOMAIN s => /\ Get(s, key).err = "OK"
                                  /\ Get(s, key).version = s[key].version
                                  /\ Get(s, key).value = s[key].value
           /\ key \notin DOMAIN s => /\ Get(s, key).err = "ErrNoKey"
                                     /\ Get(s, key).version = 0
                                     /\ Get(s, key).value = NoValue
<1>1. CASE key \in DOMAIN s
  <2>1. s[key] \in Entry
    BY <1>1 DEF IsStore
  <2>2. QED
    BY <1>1, <2>1 DEF Get, Reply, Err, Entry, Version
<1>2. CASE key \notin DOMAIN s
  BY <1>2, ValueAssumption DEF Get, Reply, Err, Version
<1>3. QED
  BY <1>1, <1>2

\* Entries stay or get a higher version.
Grows ==
    /\ DOMAIN store \subseteq DOMAIN store'
    /\ \A k \in DOMAIN store :
         \/ store'[k] = store[k]
         \/ store'[k].version \in Nat /\ store'[k].version > store[k].version

\* A new operation.
LEMMA NewOpLemma ==
    ASSUME NEW kind \in {"get", "put"}, NEW key \in Key, NEW value \in Value,
           NEW version \in Version
    PROVE  LET o == NewOp(kind, key, value, version)
           IN  /\ o \in Op /\ o.kind = kind /\ o.key = key /\ o.value = value
               /\ o.version = version /\ o.phase = "pending" /\ o.res = NoReply
BY DEF NewOp, Op

-----------------------------------------------------------------------------
(* The parts of the invariant that a client's step leaves alone.           *)

\* What one client, and what the test, has.
ClientType(c) ==
    /\ pc[c] \in {"select", "putting", "getting", "checking", "result", "gone", "dead"}
    /\ iter[c] \in 0..MaxIter /\ ver[c] \in Version /\ err[c] \in Err /\ res[c] \in ClntRes
    /\ op[c] \in Op /\ op[c].res \in Reply \cup {NoReply}
    /\ op[c].key \in Key /\ op[c].value \in Value /\ op[c].version \in Version

\* The types of what a client of the tests has.
LEMMA TypeParts ==
    ASSUME TypeOK, NEW c \in Clnt
    PROVE  ClientType(c)
<1>1. op[c] \in Op
  BY Clients DEF TypeOK, KVTypeOK
<1>2. QED
  BY <1>1 DEF TypeOK, ClientType, Op

\* A client that takes no step keeps its invariants while the store grows.
LEMMA OtherClient ==
    ASSUME NEW c \in Clnt, TypeOK, LoopInv(c), ReadInv(c), Grows,
           pc'[c] = pc[c], iter'[c] = iter[c], ver'[c] = ver[c], err'[c] = err[c],
           op'[c] = op[c], test' = test
    PROVE  LoopInv(c)' /\ ReadInv(c)'
<1>1. TestKey(c)' = TestKey(c)
  BY DEF TestKey
<1>2. Mine(c) => Mine(c)'
  <2> SUFFICES ASSUME Mine(c) PROVE Mine(c)'
    OBVIOUS
  <2>1. /\ SharedKey \in DOMAIN store'
        /\ \/ store'[SharedKey] = store[SharedKey]
           \/ /\ store'[SharedKey].version \in Nat
              /\ store'[SharedKey].version > store[SharedKey].version
    BY DEF Mine, Grows
  <2>2. store[SharedKey] \in Entry /\ ver[c] \in Nat
    BY DEF Mine, TypeOK, KVTypeOK, IsStore, Version
  <2>3. store[SharedKey].version \in Nat
    BY <2>2 DEF Entry, Version
  <2>4. CASE store'[SharedKey] = store[SharedKey]
    BY <2>1, <2>4 DEF Mine
  <2>5. CASE store'[SharedKey].version \in Nat /\ store'[SharedKey].version > store[SharedKey].version
    <3>1. /\ store'[SharedKey].version \in Nat
          /\ store'[SharedKey].version > ver[c] + 1
      BY <2>1, <2>2, <2>3, <2>5 DEF Mine
    <3>2. QED
      BY <2>1, <2>2, <3>1 DEF Mine
  <2>6. QED
    BY <2>1, <2>4, <2>5
<1>3. LoopInv(c)'
  BY <1>1 DEF LoopInv, Grows
<1>4. ReadInv(c)'
  BY <1>2 DEF ReadInv
<1>5. QED
  BY <1>3, <1>4

\* The answers that clerks have, or wait for, stay true while the store grows.
LEMMA OtherAnswer ==
    ASSUME NEW c \in Client, AnswerInv(c), Grows, op'[c] = op[c], at'[c] = at[c], test' = test
    PROVE  AnswerInv(c)'
BY DEF AnswerInv, Grows, KvAccepts

-----------------------------------------------------------------------------
(* The steps of a client.                                                  *)

Label == {"select", "putting", "getting", "checking", "result", "gone", "dead"}

\* A client goes to label, with new variables and perhaps a new operation.
Moves(c, label, i, v, e, o) ==
    /\ pc' = [pc EXCEPT ![c] = label] /\ iter' = [iter EXCEPT ![c] = i]
    /\ ver' = [ver EXCEPT ![c] = v] /\ err' = [err EXCEPT ![c] = e]
    /\ op' = [op EXCEPT ![c] = o]

\* What it takes to keep the invariant: a new operation is one that the label
\* waits for, and its version was learnt from an answer.
LEMMA LocalStep ==
    ASSUME IndInv, NEW c \in Clnt, NEW label \in Label, NEW i \in 0..MaxIter,
           NEW v \in Version, NEW e \in Err, NEW o \in Op, Moves(c, label, i, v, e, o),
           res' \in [Clnt -> ClntRes], failed' \in BOOLEAN,
           UNCHANGED <<store, test, mainVars, history>>,
           \/ o = op[c]
           \/ o.phase = "pending" /\ (o.kind = "put" /\ o.version # 0 => o.key \in DOMAIN store),
           label \in {"putting", "getting", "checking"} =>
             /\ i < MaxIter /\ o.key = TestKey(c)
             /\ o.kind = IF label = "putting" THEN "put" ELSE "get",
           v # 0 /\ test # "spread" => TestKey(c) \in DOMAIN store,
           test = "put" /\ label = "putting" =>
             o.phase = "pending" /\ o.version = v /\ o.value = <<<<c, v>>>>,
           test = "put" /\ label = "getting" =>
             o.phase = "pending" /\ v = ver[c] /\ (e = "OK" => Mine(c))
    PROVE  IndInv'
<1>1. /\ TypeOK /\ ModelInv /\ \A d \in Clnt : LoopInv(d) /\ ReadInv(d)
      /\ \A d \in Client : AnswerInv(d)
  BY DEF IndInv
<1>2. /\ pc'[c] = label /\ iter'[c] = i /\ ver'[c] = v /\ err'[c] = e /\ op'[c] = o
      /\ \A d \in Clnt : d # c => /\ pc'[d] = pc[d] /\ iter'[d] = iter[d]
                                  /\ ver'[d] = ver[d] /\ err'[d] = err[d]
      /\ \A d \in Client : d # c => op'[d] = op[d]
  BY <1>1, Clients DEF Moves, TypeOK, KVTypeOK
<1>3. TypeOK'
  <2>1. op' \in [Client -> Op]
    BY <1>1, Clients DEF Moves, TypeOK, KVTypeOK
  <2>2. /\ pc' \in [Clnt -> Label] /\ iter' \in [Clnt -> 0..MaxIter]
        /\ ver' \in [Clnt -> Version] /\ err' \in [Clnt -> Err]
    BY <1>1 DEF Moves, TypeOK, Label
  <2>3. QED
    BY <1>1, <2>1, <2>2 DEF TypeOK, KVTypeOK, Label, mainVars, history
<1>4. Grows /\ UNCHANGED <<store, test, at, kv, accepted>>
  BY DEF Grows, history
<1>5. TestKey(c)' = TestKey(c)
  BY <1>4 DEF TestKey
<1>6. LoopInv(c)'
  BY <1>2, <1>4, <1>5 DEF LoopInv
<1>7. ReadInv(c)'
  <2>1. v = ver[c] /\ Mine(c) => Mine(c)'
    BY <1>2, <1>4 DEF Mine
  <2>2. QED
    BY <1>2, <1>4, <2>1 DEF ReadInv
<1>8. AnswerInv(c)'
  <2>1. CASE o = op[c]
    BY <1>1, <1>2, <1>4, <2>1, Clients, OtherAnswer
  <2>2. CASE o.phase = "pending" /\ (o.kind = "put" /\ o.version # 0 => o.key \in DOMAIN store)
    BY <1>2, <1>4, <2>2 DEF AnswerInv
  <2>3. QED
    BY <2>1, <2>2
<1>9. ASSUME NEW d \in Clnt, d # c PROVE LoopInv(d)' /\ ReadInv(d)'
  <2>1. op'[d] = op[d]
    BY <1>2, <1>9, Clients
  <2>2. QED
    BY <1>1, <1>2, <1>4, <1>9, <2>1, OtherClient
<1>10. ASSUME NEW d \in Client, d # c PROVE AnswerInv(d)'
  BY <1>1, <1>2, <1>4, <1>10, OtherAnswer
<1>11. ModelInv'
  BY <1>1, <1>4 DEF ModelInv
<1>12. QED
  BY <1>3, <1>6, <1>7, <1>8, <1>9, <1>10, <1>11 DEF IndInv

\* What stays is as if it were set again.
LEMMA Unmoved ==
    ASSUME TypeOK, NEW c \in Clnt
    PROVE  /\ pc = [pc EXCEPT ![c] = pc[c]] /\ iter = [iter EXCEPT ![c] = iter[c]]
           /\ ver = [ver EXCEPT ![c] = ver[c]] /\ err = [err EXCEPT ![c] = err[c]]
           /\ op = [op EXCEPT ![c] = op[c]]
BY Clients DEF TypeOK, KVTypeOK

\* Fatalf ends a client, whatever it was doing.
LEMMA FatalStep ==
    ASSUME IndInv, NEW c \in Clnt, Fatalf(c), UNCHANGED <<test, mainVars, history>>
    PROVE  IndInv'
<1>1. TypeOK /\ ClientType(c) /\ LoopInv(c)
  BY TypeParts DEF IndInv
<1>2. Moves(c, "dead", iter[c], ver[c], err[c], op[c])
  BY <1>1, Unmoved DEF Fatalf, GoTo, kvVars, locals, Moves
<1>3. /\ UNCHANGED store /\ failed' \in BOOLEAN /\ res' \in [Clnt -> ClntRes]
  BY <1>1 DEF Fatalf, kvVars, locals, TypeOK
<1>4. QED
  BY <1>1, <1>2, <1>3, LocalStep DEF ClientType, LoopInv, Label

\* OnePut puts its own name and the version.
LEMMA OnePutStep ==
    ASSUME AnyList, IndInv, NEW c \in Clnt, NEW v \in Version, OnePut(c, v),
           test = "put", iter[c] < MaxIter, v # 0 => SharedKey \in DOMAIN store,
           ver' = [ver EXCEPT ![c] = v], UNCHANGED <<iter, err, res, failed, test, mainVars, history>>
    PROVE  IndInv'
<1> DEFINE o == NewOp("put", SharedKey, <<<<c, v>>>>, v)
<1>1. TypeOK /\ ClientType(c)
  BY TypeParts DEF IndInv
<1>2. /\ o \in Op /\ o.kind = "put" /\ o.key = SharedKey /\ o.value = <<<<c, v>>>>
      /\ o.version = v /\ o.phase = "pending"
  BY NewOpLemma, Lists, TestKeyAssumption DEF Version
<1>3. op' = [op EXCEPT ![c] = o] /\ UNCHANGED store /\ pc' = [pc EXCEPT ![c] = "putting"]
  BY DEF OnePut, InvokePut, GoTo
<1> HIDE DEF o
<1>4. Moves(c, "putting", iter[c], v, err[c], o)
  BY <1>1, <1>3, Unmoved DEF Moves
<1>5. TestKey(c) = SharedKey /\ res' \in [Clnt -> ClntRes] /\ failed' \in BOOLEAN
  BY <1>1 DEF TestKey, Spawned, TypeOK
<1>6. QED
  BY <1>1, <1>2, <1>3, <1>4, <1>5, LocalStep DEF ClientType, Label

\* A Get of the key that c uses.
LEMMA GetStep ==
    ASSUME IndInv, NEW c \in Clnt, NEW label \in {"getting", "checking"}, NEW v \in Version,
           NEW e \in Err, InvokeGet(c, TestKey(c)), GoTo(c, label), iter[c] < MaxIter,
           ver' = [ver EXCEPT ![c] = v], err' = [err EXCEPT ![c] = e],
           v # 0 /\ test # "spread" => TestKey(c) \in DOMAIN store,
           test = "put" => v = ver[c] /\ (e = "OK" => Mine(c)),
           UNCHANGED <<iter, res, failed, test, mainVars, history>>
    PROVE  IndInv'
<1> DEFINE o == NewOp("get", TestKey(c), NoValue, 0)
<1>1. TypeOK /\ ClientType(c)
  BY TypeParts DEF IndInv
<1>2. TestKey(c) \in Key
  BY TestKeyAssumption DEF TestKey
<1>3. /\ o \in Op /\ o.kind = "get" /\ o.key = TestKey(c) /\ o.phase = "pending"
  BY <1>2, NewOpLemma, ValueAssumption DEF Version
<1>4. op' = [op EXCEPT ![c] = o] /\ UNCHANGED store /\ pc' = [pc EXCEPT ![c] = label]
  BY DEF InvokeGet, GoTo
<1> HIDE DEF o
<1>5. Moves(c, label, iter[c], v, e, o)
  BY <1>1, <1>4, Unmoved DEF Moves
<1>6. res' \in [Clnt -> ClntRes] /\ failed' \in BOOLEAN
  BY <1>1 DEF TypeOK
<1>7. QED
  BY <1>1, <1>3, <1>4, <1>5, <1>6, LocalStep DEF ClientType, Label

\* A Put of a client, in the tests other than put.
LEMMA PutStep ==
    ASSUME IndInv, NEW c \in Clnt, NEW value \in Value, NEW version \in Version,
           NEW v \in Version, InvokePut(c, TestKey(c), value, version), GoTo(c, "putting"),
           test # "put", iter[c] < MaxIter, ver' = [ver EXCEPT ![c] = v],
           version # 0 => TestKey(c) \in DOMAIN store,
           v # 0 /\ test # "spread" => TestKey(c) \in DOMAIN store,
           UNCHANGED <<iter, err, res, failed, test, mainVars, history>>
    PROVE  IndInv'
<1> DEFINE o == NewOp("put", TestKey(c), value, version)
<1>1. TypeOK /\ ClientType(c)
  BY TypeParts DEF IndInv
<1>2. TestKey(c) \in Key
  BY TestKeyAssumption DEF TestKey
<1>3. /\ o \in Op /\ o.kind = "put" /\ o.key = TestKey(c) /\ o.phase = "pending"
      /\ o.version = version
  BY <1>2, NewOpLemma
<1>4. op' = [op EXCEPT ![c] = o] /\ UNCHANGED store /\ pc' = [pc EXCEPT ![c] = "putting"]
  BY DEF InvokePut, GoTo
<1> HIDE DEF o
<1>5. Moves(c, "putting", iter[c], v, err[c], o)
  BY <1>1, <1>4, Unmoved DEF Moves
<1>6. res' \in [Clnt -> ClntRes] /\ failed' \in BOOLEAN
  BY <1>1 DEF TypeOK
<1>7. QED
  BY <1>1, <1>3, <1>4, <1>5, <1>6, LocalStep DEF ClientType, Label

\* A client is done with a round.
LEMMA RoundStep ==
    ASSUME IndInv, NEW c \in Clnt, NEW v \in Version, NextRound(c), iter[c] < MaxIter,
           ver' = [ver EXCEPT ![c] = v], res' \in [Clnt -> ClntRes],
           v # 0 /\ test # "spread" => TestKey(c) \in DOMAIN store,
           UNCHANGED <<kvVars, err, failed, test, mainVars, history>>
    PROVE  IndInv'
<1>1. TypeOK /\ ClientType(c)
  BY TypeParts DEF IndInv
<1>2. iter[c] + 1 \in 0..MaxIter
  BY <1>1, IterAssumption DEF ClientType
<1>3. Moves(c, "select", iter[c] + 1, v, err[c], op[c])
  BY <1>1, Unmoved DEF Moves, NextRound, GoTo, kvVars
<1>4. failed' \in BOOLEAN /\ UNCHANGED store
  BY <1>1 DEF TypeOK, kvVars
<1>5. QED
  BY <1>1, <1>2, <1>3, <1>4, LocalStep DEF ClientType, Label

\* Counting keeps the results' type.
LEMMA CountType ==
    ASSUME TypeOK, NEW c \in Clnt, NEW e, Count(c, e)
    PROVE  res' \in [Clnt -> ClntRes]
<1> DEFINE nok == IF e = "OK" THEN res[c].Nok + 1 ELSE res[c].Nok
           nmaybe == IF e = "ErrMaybe" THEN res[c].Nmaybe + 1 ELSE res[c].Nmaybe
<1>1. res \in [Clnt -> ClntRes] /\ res[c] \in ClntRes
  BY DEF TypeOK
<1>2. nok \in Nat /\ nmaybe \in Nat
  BY <1>1 DEF ClntRes
<1>3. res' = [res EXCEPT ![c] = [res[c] EXCEPT !.Nok = nok, !.Nmaybe = nmaybe]]
  BY <1>1 DEF Count
<1> HIDE DEF nok, nmaybe
<1>4. [res[c] EXCEPT !.Nok = nok, !.Nmaybe = nmaybe] \in ClntRes
  BY <1>1, <1>2 DEF ClntRes
<1>5. QED
  BY <1>1, <1>3, <1>4

\* The steps of the clients' goroutines keep the invariant.
LEMMA ClientStepInv ==
    ASSUME AnyList, IndInv, NEW c \in Clnt, ClientStep(c)
    PROVE  IndInv'
<1>1. /\ TypeOK /\ ClientType(c) /\ LoopInv(c) /\ ReadInv(c) /\ AnswerInv(c)
      /\ UNCHANGED <<test, mainVars, history>>
  BY TypeParts, Clients DEF IndInv, ClientStep
<1>2. /\ iter[c] \in Nat /\ ver[c] \in Nat /\ MaxIter \in Nat /\ MaxIter > 0
      /\ op[c].res.version \in Nat /\ op[c].res.value \in Value
  BY <1>1, IterAssumption, ValueAssumption DEF ClientType, Version, Reply, NoReply
<1>3. /\ ver = [ver EXCEPT ![c] = ver[c]] /\ err = [err EXCEPT ![c] = err[c]]
  BY <1>1, Unmoved
<1>4. /\ test \in Spawned => TestKey(c) = SharedKey
      /\ test \notin Spawned => TestKey(c) = KeyOf[c]
  BY DEF TestKey
<1>5. CASE StartRound(c)
  <2>1. iter[c] < MaxIter /\ UNCHANGED <<locals, failed>>
    BY <1>2, <1>5 DEF StartRound
  <2>2. CASE test = "put" /\ OnePut(c, ver[c])
    BY <1>1, <1>2, <1>3, <1>4, <2>1, <2>2, OnePutStep DEF LoopInv, locals, Spawned, Version
  <2>3. CASE test = "append" /\ AppendRead(c)
    BY <1>1, <1>2, <1>3, <1>4, <2>1, <2>3, GetStep
       DEF LoopInv, locals, Spawned, Version, AppendRead, ClientType
  <2>4. CASE test = "atleastonce" /\ PutOwn(c, ver[c])
    <3>1. <<<<c, iter[c]>>>> \in Value
      BY <1>2, Lists
    <3>2. InvokePut(c, TestKey(c), <<<<c, iter[c]>>>>, ver[c]) /\ GoTo(c, "putting")
      BY <1>4, <2>4 DEF PutOwn, Spawned
    <3>3. QED
      BY <1>1, <1>2, <1>3, <2>1, <2>4, <3>1, <3>2, PutStep DEF LoopInv, locals, Version
  <2>5. CASE test = "spread" /\ PutOwn(c, 0)
    <3>1. <<<<c, iter[c]>>>> \in Value
      BY <1>2, Lists
    <3>2. InvokePut(c, TestKey(c), <<<<c, iter[c]>>>>, 0) /\ GoTo(c, "putting")
      BY <1>4, <2>5 DEF PutOwn, Spawned
    <3>3. QED
      BY <1>1, <1>2, <1>3, <2>1, <2>5, <3>1, <3>2, PutStep DEF LoopInv, locals, Version
  <2>6. QED
    BY <1>5, <2>2, <2>3, <2>4, <2>5 DEF StartRound
<1>6. CASE test = "put" /\ OnePutRead(c)
  <2>1. CASE Fatalf(c)
    BY <1>1, <2>1, FatalStep
  <2>2. CASE ~Fatalf(c)
    <3>1. /\ op[c].res.err \in Err
          /\ err' = [err EXCEPT ![c] = op[c].res.err]
          /\ InvokeGet(c, TestKey(c)) /\ GoTo(c, "getting")
          /\ UNCHANGED <<iter, ver, res, failed>>
      BY <1>4, <1>6, <2>2 DEF OnePutRead, Spawned, Err
    <3>2. /\ iter[c] < MaxIter
          /\ op[c].res.err = "OK" => Mine(c)
      BY <1>1, <1>6 DEF OnePutRead, Back, LoopInv, ReadInv
    <3>3. QED
      BY <1>1, <1>2, <1>3, <1>6, <3>1, <3>2, GetStep DEF LoopInv, Version
  <2>3. QED
    BY <2>1, <2>2
<1>7. CASE test = "put" /\ OnePutReturn(c)
  <2> DEFINE ver0 == op[c].res.version
  <2>1. CASE Fatalf(c)
    BY <1>1, <2>1, FatalStep
  <2>2. CASE ~Fatalf(c)
    <3>1. /\ GotJson(op[c]) /\ Back(c, "getting")
          /\ ver' = [ver EXCEPT ![c] = ver0] /\ UNCHANGED <<err, failed>>
          /\ \/ OnePut(c, ver0) /\ UNCHANGED <<iter, res>>
             \/ NextRound(c) /\ Count(c, err[c]) /\ UNCHANGED kvVars
      BY <1>7, <2>2 DEF OnePutReturn
    <3>2. /\ iter[c] < MaxIter /\ SharedKey \in DOMAIN store
      BY <1>1, <1>4, <1>7, <3>1 DEF LoopInv, AnswerInv, Back, GotJson, Spawned
    <3>3. CASE OnePut(c, ver0) /\ UNCHANGED <<iter, res>>
      BY <1>1, <1>2, <1>7, <3>1, <3>2, <3>3, OnePutStep DEF Version
    <3>4. CASE NextRound(c) /\ Count(c, err[c]) /\ UNCHANGED kvVars
      BY <1>1, <1>2, <1>4, <1>7, <3>1, <3>2, <3>4, RoundStep, CountType DEF Version, Spawned
    <3>5. QED
      BY <3>1, <3>3, <3>4
  <2>3. QED
    BY <2>1, <2>2
<1>8. CASE test = "append" /\ AppendPut(c)
  <2>1. CASE Fatalf(c)
    BY <1>1, <2>1, FatalStep
  <2>2. CASE ~Fatalf(c)
    <3> DEFINE value == Append(op[c].res.value, <<c, iter[c]>>)
    <3>1. /\ GotJson(op[c]) /\ Back(c, "getting")
          /\ InvokePut(c, TestKey(c), value, op[c].res.version)
          /\ GoTo(c, "putting") /\ UNCHANGED <<locals, failed>>
      BY <1>4, <1>8, <2>2 DEF AppendPut, Spawned
    <3>2. value \in Value
      BY <1>2, <3>1, Lists DEF GotJson
    <3>3. iter[c] < MaxIter /\ TestKey(c) \in DOMAIN store
      BY <1>1, <3>1 DEF LoopInv, AnswerInv, Back, GotJson
    <3> HIDE DEF value
    <3>4. QED
      BY <1>1, <1>2, <1>3, <1>8, <3>1, <3>2, <3>3, PutStep DEF Version, locals
  <2>3. QED
    BY <2>1, <2>2
<1>9. CASE test = "append" /\ AppendReturn(c)
  <2>1. iter[c] < MaxIter
    BY <1>1, <1>9 DEF AppendReturn, Back, LoopInv
  <2>2. CASE NextRound(c) /\ Count(c, op[c].res.err) /\ UNCHANGED <<kvVars, ver, err, failed>>
    BY <1>1, <1>2, <1>3, <2>1, <2>2, RoundStep, CountType DEF Version, LoopInv
  <2>3. CASE AppendRead(c) /\ UNCHANGED <<locals, failed>>
    BY <1>1, <1>2, <1>3, <1>4, <1>9, <2>1, <2>3, GetStep
       DEF Version, LoopInv, AppendRead, locals, Spawned, ClientType
  <2>4. QED
    BY <1>9, <2>2, <2>3 DEF AppendReturn
<1>10. CASE test = "atleastonce" /\ PutAtLeastOnce(c)
  <2> DEFINE e == op[c].res.err
             v == IF e = "ErrNoKey" THEN 0 ELSE ver[c] + 1
  <2>1. CASE Fatalf(c)
    BY <1>1, <2>1, FatalStep
  <2>2. CASE ~Fatalf(c)
    <3>1. /\ Back(c, "putting") /\ ver' = [ver EXCEPT ![c] = v]
          /\ \/ PutOwn(c, v)
             \/ InvokeGet(c, KeyOf[c]) /\ GoTo(c, "checking")
          /\ UNCHANGED <<iter, err, res, failed>>
      BY <1>10, <2>2 DEF PutAtLeastOnce
    <3>2. e \in Err /\ iter[c] < MaxIter /\ v \in Nat
      BY <1>1, <1>2, <3>1 DEF LoopInv, AnswerInv, Back
    <3>3. v # 0 => TestKey(c) \in DOMAIN store
      BY <1>1, <3>1, <3>2 DEF LoopInv, AnswerInv, Back, Err
    <3>4. KeyOf[c] = TestKey(c) /\ <<<<c, iter[c]>>>> \in Value
      BY <1>2, <1>4, <1>10, Lists DEF Spawned
    <3> HIDE DEF v, e
    <3>5. CASE PutOwn(c, v)
      BY <1>1, <1>3, <1>10, <3>1, <3>2, <3>3, <3>4, <3>5, PutStep DEF Version, PutOwn
    <3>6. CASE InvokeGet(c, KeyOf[c]) /\ GoTo(c, "checking")
      BY <1>1, <1>3, <1>10, <3>1, <3>2, <3>3, <3>4, <3>6, GetStep DEF Version, ClientType
    <3>7. QED
      BY <3>1, <3>5, <3>6
  <2>3. QED
    BY <2>1, <2>2
<1>11. CASE test = "spread" /\ SpreadPuts(c)
  <2>1. iter[c] < MaxIter /\ KeyOf[c] = TestKey(c)
    BY <1>1, <1>4, <1>11 DEF SpreadPuts, Back, LoopInv, Spawned
  <2>2. QED
    BY <1>1, <1>2, <1>3, <1>11, <2>1, GetStep DEF Version, SpreadPuts, ClientType
<1>12. CASE CheckGet(c)
  <2>1. CASE Fatalf(c)
    BY <1>1, <2>1, FatalStep
  <2>2. CASE ~Fatalf(c)
    <3>1. NextRound(c) /\ UNCHANGED <<kvVars, ver, err, res, failed>> /\ iter[c] < MaxIter
      BY <1>1, <1>12, <2>2 DEF CheckGet, Back, LoopInv
    <3>2. res' \in [Clnt -> ClntRes]
      BY <1>1, <3>1 DEF TypeOK
    <3>3. QED
      BY <1>1, <1>2, <1>3, <3>1, <3>2, RoundStep DEF Version, LoopInv
  <2>3. QED
    BY <2>1, <2>2
<1>13. QED
  BY <1>5, <1>6, <1>7, <1>8, <1>9, <1>10, <1>11, <1>12 DEF ClientStep

-----------------------------------------------------------------------------
(* The test's own goroutine.                                               *)

\* A client is ended, by done or by ca: its variables and its clerk stay.
LEMMA EndStep ==
    ASSUME IndInv, NEW c \in Clnt, NEW label \in {"result", "gone"}, GoTo(c, label),
           \A d \in Clnt : op'[d] = op[d], op' \in [Client -> Op], AnswerInv(Main)',
           main' \in {"signal", "collect", "check"}, next' \in 0..NClnt,
           rs' \in [Clnt -> ClntRes], UNCHANGED <<store, test, locals, failed, history>>
    PROVE  IndInv'
<1>1. /\ TypeOK /\ ModelInv /\ \A d \in Clnt : LoopInv(d) /\ ReadInv(d)
      /\ \A d \in Client : AnswerInv(d)
  BY DEF IndInv
<1>2. Grows /\ UNCHANGED <<test, iter, ver, err, res, at, kv, accepted>>
  BY DEF Grows, locals, history
<1>3. pc'[c] = label /\ \A d \in Clnt : d # c => pc'[d] = pc[d]
  BY <1>1 DEF GoTo, TypeOK
<1>4. TypeOK'
  BY <1>1, <1>2 DEF TypeOK, KVTypeOK, GoTo
<1>5. LoopInv(c)' /\ ReadInv(c)'
  BY <1>1, <1>2, <1>3 DEF LoopInv, ReadInv, TestKey
<1>6. ASSUME NEW d \in Clnt, d # c PROVE LoopInv(d)' /\ ReadInv(d)'
  BY <1>1, <1>2, <1>3, <1>6, OtherClient
<1>7. ASSUME NEW d \in Clnt PROVE AnswerInv(d)'
  BY <1>1, <1>2, Clients, OtherAnswer
<1>8. ModelInv'
  BY <1>1, <1>2 DEF ModelInv
<1>9. Client = Clnt \cup {Main}
  BY ClientAssumption
<1>10. QED
  BY <1>4, <1>5, <1>6, <1>7, <1>8, <1>9 DEF IndInv

\* The steps of SpawnClientsAndWait and the check after it keep the invariant.
LEMMA MainStepInv ==
    ASSUME IndInv, Wake \/ Check \/ (\E c \in Clnt : Signal(c) \/ Collect(c))
    PROVE  IndInv'
<1>1. /\ TypeOK /\ ModelInv /\ \A d \in Clnt : LoopInv(d) /\ ReadInv(d)
      /\ \A d \in Client : AnswerInv(d)
  BY DEF IndInv
<1>2. ASSUME UNCHANGED <<kvVars, test, pc, locals, history, next, rs>>, failed' \in BOOLEAN,
             main' \in {"signal", "passed", "dead"}
      PROVE  IndInv'
  <2>1. /\ Grows /\ UNCHANGED <<store, op, test, pc, iter, ver, err, res, kv, at, accepted>>
    BY <1>2 DEF Grows, kvVars, locals, history
  <2>2. TypeOK'
    BY <1>1, <1>2, <2>1 DEF TypeOK, KVTypeOK
  <2>3. \A d \in Clnt : LoopInv(d)' /\ ReadInv(d)'
    BY <1>1, <2>1, OtherClient
  <2>4. \A d \in Client : AnswerInv(d)'
    BY <1>1, <2>1, OtherAnswer
  <2>5. ModelInv'
    BY <1>1, <2>1 DEF ModelInv
  <2>6. QED
    BY <2>2, <2>3, <2>4, <2>5 DEF IndInv
<1>3. CASE Wake
  BY <1>1, <1>2, <1>3 DEF Wake, TypeOK
<1>4. CASE Check
  BY <1>2, <1>4 DEF Check
<1>5. NClnt \in Nat /\ NClnt > 0 /\ next \in 0..NClnt
  BY <1>1, ClientAssumption DEF TypeOK
<1>6. ASSUME NEW c \in Clnt, Signal(c) PROVE IndInv'
  <2>1. /\ GoTo(c, "result") /\ UNCHANGED <<store, op, test, locals, failed, history, rs>>
    BY <1>6 DEF Signal, kvVars
  <2>2. next' \in 0..NClnt /\ main' \in {"signal", "collect"}
    BY <1>5, <1>6 DEF Signal
  <2>3. AnswerInv(Main)' /\ op' \in [Client -> Op] /\ rs' \in [Clnt -> ClntRes]
    BY <1>1, <2>1, Clients DEF AnswerInv, TypeOK, KVTypeOK, history, KvAccepts
  <2>4. QED
    BY <2>1, <2>2, <2>3, EndStep
<1>7. ASSUME NEW c \in Clnt, Collect(c) PROVE IndInv'
  <2>1. /\ GoTo(c, "gone") /\ UNCHANGED <<test, locals, failed, history>>
        /\ next = c /\ next' = next + 1 /\ rs' = [rs EXCEPT ![c] = res[c]]
        /\ \/ UNCHANGED <<main, kvVars>> /\ main = "collect"
           \/ main' = "check" /\ InvokeGet(Main, SharedKey)
    BY <1>7 DEF Collect
  <2>2. next' \in 0..NClnt /\ rs' \in [Clnt -> ClntRes]
    BY <1>1, <1>5, <2>1 DEF TypeOK, Clnt
  <2>3. CASE UNCHANGED <<main, kvVars>> /\ main = "collect"
    <3>1. UNCHANGED <<store, op>> /\ main' = "collect"
      BY <2>3 DEF kvVars
    <3>2. AnswerInv(Main)' /\ op' \in [Client -> Op]
      BY <1>1, <2>1, <3>1, Clients DEF AnswerInv, TypeOK, KVTypeOK, history, KvAccepts
    <3>3. QED
      BY <2>1, <2>2, <3>1, <3>2, EndStep
  <2>4. CASE main' = "check" /\ InvokeGet(Main, SharedKey)
    <3> DEFINE o == NewOp("get", SharedKey, NoValue, 0)
    <3>1. o \in Op /\ o.kind = "get" /\ o.phase = "pending"
      BY NewOpLemma, ValueAssumption, TestKeyAssumption DEF Version
    <3>2. op' = [op EXCEPT ![Main] = o] /\ UNCHANGED store
      BY <2>4 DEF InvokeGet
    <3> HIDE DEF o
    <3>3. op \in [Client -> Op]
      BY <1>1 DEF TypeOK, KVTypeOK
    <3>4. /\ op' \in [Client -> Op] /\ op'[Main] = o /\ \A d \in Clnt : op'[d] = op[d]
      BY <3>1, <3>2, <3>3, Clients
    <3>5. AnswerInv(Main)'
      BY <3>1, <3>4 DEF AnswerInv
    <3>6. QED
      BY <2>1, <2>2, <2>4, <3>2, <3>4, <3>5, EndStep
  <2>5. QED
    BY <2>1, <2>3, <2>4
<1>8. QED
  BY <1>3, <1>4, <1>6, <1>7

-----------------------------------------------------------------------------
(* The store.                                                              *)

\* The arguments of c's operation stay as they are.
SameCall(c) ==
    /\ op'[c].kind = op[c].kind /\ op'[c].key = op[c].key
    /\ op'[c].value = op[c].value /\ op'[c].version = op[c].version

\* An execution: a Get answers with the entry, a Put perhaps writes it.
LEMMA Executed ==
    ASSUME TypeOK, NEW c \in Client, Execute(c)
    PROVE  /\ op' \in [Client -> Op] /\ IsStore(store') /\ Grows
           /\ \A d \in Client : d # c => op'[d] = op[d]
           /\ SameCall(c) /\ op'[c].phase = "executed"
           /\ \/ /\ op[c].kind = "get" /\ store' = store
                 /\ op'[c].res = Get(store, op[c].key)
              \/ /\ op[c].kind = "put"
                 /\ op'[c].res.err = PutErr(store, op[c].key, op[c].version)
                 /\ store' = PutStore(store, op[c].key, op[c].value, op[c].version)
<1>1. op \in [Client -> Op] /\ op[c] \in Op /\ IsStore(store)
  BY DEF TypeOK, KVTypeOK
<1>2. /\ op[c].key \in Key /\ op[c].value \in Value /\ op[c].version \in Version
      /\ op[c].res \in Reply \cup {NoReply}
  BY <1>1 DEF Op
<1>3. ASSUME NEW r \in Reply, op' = [op EXCEPT ![c] = [op[c] EXCEPT !.phase = "executed", !.res = r]]
      PROVE  /\ op' \in [Client -> Op] /\ \A d \in Client : d # c => op'[d] = op[d]
             /\ SameCall(c) /\ op'[c].phase = "executed" /\ op'[c].res = r
  <2> DEFINE new == [op[c] EXCEPT !.phase = "executed", !.res = r]
  <2>1. /\ new \in Op /\ new.kind = op[c].kind /\ new.key = op[c].key
        /\ new.value = op[c].value /\ new.version = op[c].version
        /\ new.phase = "executed" /\ new.res = r
    BY <1>1 DEF Op
  <2>2. op' = [op EXCEPT ![c] = new]
    BY <1>3
  <2> HIDE DEF new
  <2>3. QED
    BY <1>1, <2>1, <2>2 DEF SameCall
<1>4. CASE /\ op[c].kind = "get" /\ UNCHANGED store
           /\ op' = [op EXCEPT ![c].phase = "executed", ![c].res = Get(store, op[c].key)]
  <2> DEFINE r == Get(store, op[c].key)
  <2>1. r \in Reply
    BY <1>1, <1>2, GetLemma
  <2>2. op' = [op EXCEPT ![c] = [op[c] EXCEPT !.phase = "executed", !.res = r]]
    BY <1>1, <1>4
  <2> HIDE DEF r
  <2>3. Grows
    BY <1>4 DEF Grows
  <2>4. QED
    BY <1>1, <1>3, <1>4, <2>1, <2>2, <2>3 DEF r
<1>5. CASE /\ op[c].kind = "put"
           /\ op' = [op EXCEPT ![c].phase = "executed",
                               ![c].res.err = PutErr(store, op[c].key, op[c].version)]
           /\ store' = PutStore(store, op[c].key, op[c].value, op[c].version)
  <2> DEFINE e == PutErr(store, op[c].key, op[c].version)
             r == [op[c].res EXCEPT !.err = e]
  <2>1. e \in Err
    BY DEF PutErr, Err
  <2>2. op' = [op EXCEPT ![c] = [op[c] EXCEPT !.phase = "executed", !.res = r]]
    BY <1>1, <1>5
  <2>3. /\ IsStore(store')
        /\ e # "OK" => store' = store
        /\ e = "OK" => Written(store, store', op[c].key, op[c].value, op[c].version)
    BY <1>1, <1>2, <1>5, PutLemma
  <2> HIDE DEF e
  <2>4. r \in Reply /\ r.err = e
    BY <1>2, <2>1, ValueAssumption DEF Reply, NoReply, Version
  <2> HIDE DEF r
  <2>5. Grows
    <3>1. CASE e # "OK"
      BY <2>3, <3>1 DEF Grows
    <3>2. CASE e = "OK"
      <4>1. op[c].key \in DOMAIN store =>
              /\ op[c].version = store[op[c].key].version
              /\ store'[op[c].key].version = op[c].version + 1
        BY <2>3, <3>2 DEF CurrentVersion, Written
      <4>2. op[c].version \in Nat
        BY <1>2 DEF Version
      <4>3. QED
        BY <2>3, <3>2, <4>1, <4>2 DEF Grows, Written
    <3>3. QED
      BY <3>1, <3>2
  <2>6. QED
    BY <1>3, <1>5, <2>2, <2>3, <2>4, <2>5 DEF e
<1>6. QED
  BY <1>4, <1>5 DEF Execute

\* The model's step is the store's: its state stays the store, and it accepts
\* what the operation saw.
LEMMA ModelStep ==
    ASSUME IndInv, NEW c \in Client, ExecuteOp(c), test # "spread"
    PROVE  /\ KvAccepts(at'[c], op'[c])
           /\ \A k \in Key : kv'[k] = IF k \in DOMAIN store' THEN store'[k] ELSE KvInit
<1> DEFINE key == op[c].key
<1>1. TypeOK /\ AnswerInv(c) /\ IsStore(store)
  BY DEF IndInv, TypeOK, KVTypeOK
<1>2. Execute(c) /\ at'[c] = kv[key] /\ kv' = [kv EXCEPT ![key] = KvStep(kv[key], op[c])]
  BY <1>1 DEF ExecuteOp, Logged, TypeOK
<1>3. /\ op[c] \in Op /\ key \in Key /\ op[c].version \in Version /\ op[c].value \in Value
  BY <1>1 DEF TypeOK, KVTypeOK, Op
<1>4. \A k \in Key : kv[k] = IF k \in DOMAIN store THEN store[k] ELSE KvInit
  BY DEF IndInv, ModelInv
<1>5. kv[key].version = CurrentVersion(store, key)
  BY <1>3, <1>4 DEF CurrentVersion, KvInit
<1>6. /\ kv'[key] = KvStep(kv[key], op[c])
      /\ \A k \in Key : k # key => kv'[k] = kv[k]
  BY <1>1, <1>2, <1>3 DEF TypeOK
<1>7. SameCall(c)
  BY <1>1, <1>2, Executed
<1>8. CASE op[c].kind = "get" /\ store' = store /\ op'[c].res = Get(store, key)
  <2>1. op'[c].res.value = kv[key].value
    <3>1. CASE key \in DOMAIN store
      BY <1>1, <1>3, <1>4, <1>8, <3>1, GetLemma
    <3>2. CASE key \notin DOMAIN store
      BY <1>1, <1>3, <1>4, <1>8, <3>2, GetLemma DEF KvInit
    <3>3. QED
      BY <3>1, <3>2
  <2>2. kv'[key] = kv[key]
    BY <1>6, <1>8 DEF KvStep
  <2>3. QED
    BY <1>2, <1>4, <1>6, <1>7, <1>8, <2>1, <2>2 DEF KvAccepts, SameCall
<1>9. CASE /\ op[c].kind = "put" /\ op'[c].res.err = PutErr(store, key, op[c].version)
           /\ store' = PutStore(store, key, op[c].value, op[c].version)
  <2>1. CASE op[c].version = CurrentVersion(store, key)
    <3>1. PutErr(store, key, op[c].version) = "OK"
      BY <2>1 DEF PutErr
    <3>2. /\ DOMAIN store' = DOMAIN store \cup {key}
          /\ store'[key] = [value |-> op[c].value, version |-> op[c].version + 1]
          /\ \A k \in DOMAIN store : k # key => store'[k] = store[k]
      <4>1. Written(store, store', key, op[c].value, op[c].version)
        BY <1>1, <1>3, <1>9, <3>1, PutLemma
      <4>2. QED
        BY <4>1 DEF Written
    <3>3. kv'[key] = store'[key]
      BY <1>5, <1>6, <1>9, <2>1, <3>2 DEF KvStep
    <3>4. KvAccepts(at'[c], op'[c])
      BY <1>2, <1>5, <1>7, <1>9, <2>1, <3>1 DEF KvAccepts, SameCall
    <3>5. QED
      BY <1>4, <1>6, <3>2, <3>3, <3>4
  <2>2. CASE op[c].version # CurrentVersion(store, key)
    <3>1. key \in DOMAIN store
      BY <1>1, <1>9, <2>2 DEF AnswerInv, CurrentVersion
    <3>2. PutErr(store, key, op[c].version) = "ErrVersion"
      BY <2>2, <3>1 DEF PutErr
    <3>3. store' = store
      BY <1>9, <3>2 DEF PutStore
    <3>4. kv'[key] = kv[key]
      BY <1>5, <1>6, <2>2 DEF KvStep
    <3>5. KvAccepts(at'[c], op'[c])
      BY <1>2, <1>5, <1>7, <1>9, <2>2, <3>2 DEF KvAccepts, SameCall
    <3>6. QED
      BY <1>4, <1>6, <3>3, <3>4, <3>5
  <2>3. QED
    BY <2>1, <2>2
<1>10. QED
  BY <1>1, <1>2, <1>8, <1>9, Executed

\* What the operations of c's goroutine rely on, once c's was executed.
LEMMA ReadStep ==
    ASSUME IndInv, NEW c \in Clnt, Execute(c), UNCHANGED <<pc, iter, ver, err, test>>
    PROVE  LoopInv(c)' /\ ReadInv(c)'
<1>1. TypeOK /\ LoopInv(c) /\ ReadInv(c) /\ c \in Client /\ IsStore(store)
  BY Clients DEF IndInv, TypeOK, KVTypeOK
<1>2. SameCall(c) /\ Grows
  BY <1>1, Executed
<1>3. TestKey(c)' = TestKey(c)
  BY DEF TestKey
<1>4. LoopInv(c)'
  BY <1>1, <1>2, <1>3 DEF LoopInv, SameCall, Grows
<1>5. op[c] \in Op /\ op[c].key \in Key /\ op[c].value \in Value /\ op[c].version \in Version
  BY <1>1 DEF TypeOK, KVTypeOK, Op
<1>6. ASSUME test = "put", pc[c] = "putting" PROVE ReadInv(c)'
  <2>1. /\ op[c].kind = "put" /\ op[c].key = SharedKey /\ op[c].version = ver[c]
        /\ op[c].value = <<<<c, ver[c]>>>>
    BY <1>1, <1>6 DEF LoopInv, ReadInv, TestKey, Spawned
  <2>2. /\ op'[c].res.err = PutErr(store, SharedKey, ver[c])
        /\ store' = PutStore(store, SharedKey, <<<<c, ver[c]>>>>, ver[c])
    BY <1>1, <2>1, Executed
  <2>3. ASSUME op'[c].res.err = "OK" PROVE Mine(c)'
    <3>1. /\ SharedKey \in DOMAIN store'
          /\ store'[SharedKey] = [value |-> <<<<c, ver[c]>>>>, version |-> ver[c] + 1]
      <4>1. Written(store, store', SharedKey, <<<<c, ver[c]>>>>, ver[c])
        BY <1>1, <1>5, <2>1, <2>2, <2>3, PutLemma
      <4>2. QED
        BY <4>1 DEF Written
    <3>2. ver[c] \in Nat
      BY <1>1 DEF TypeOK, Version
    <3>3. QED
      BY <3>1, <3>2 DEF Mine
  <2>4. QED
    BY <1>2, <1>6, <2>1, <2>3 DEF ReadInv, SameCall
<1>7. ASSUME test = "put", pc[c] = "getting", err[c] = "OK" PROVE ReadInv(c)'
  <2>1. op[c].kind = "get" /\ op[c].key = SharedKey /\ Mine(c)
    BY <1>1, <1>7 DEF LoopInv, ReadInv, TestKey, Spawned
  <2>2. store' = store /\ op'[c].res = Get(store, SharedKey)
    BY <1>1, <2>1, Executed
  <2>3. Mine(c)'
    BY <2>1, <2>2 DEF Mine
  <2>4. op'[c].res.version = ver[c] + 1 => op'[c].res.value = <<<<c, ver[c]>>>>
    BY <1>1, <1>5, <2>1, <2>2, GetLemma DEF Mine
  <2>5. QED
    BY <1>7, <2>3, <2>4 DEF ReadInv
<1>8. ReadInv(c)'
  BY <1>6, <1>7 DEF ReadInv
<1>9. QED
  BY <1>4, <1>8

\* An execution keeps the invariant.
LEMMA ExecuteStepInv ==
    ASSUME IndInv, NEW c \in Client, ExecuteOp(c)
    PROVE  IndInv'
<1>1. /\ TypeOK /\ ModelInv /\ \A d \in Clnt : LoopInv(d) /\ ReadInv(d)
      /\ \A d \in Client : AnswerInv(d)
  BY DEF IndInv
<1>2. /\ Execute(c)
      /\ UNCHANGED <<test, pc, iter, ver, err, res, main, next, rs, failed, accepted>>
  BY DEF ExecuteOp, locals, mainVars
<1>3. /\ op' \in [Client -> Op] /\ IsStore(store') /\ Grows
      /\ \A d \in Client : d # c => op'[d] = op[d]
      /\ SameCall(c) /\ op'[c].phase = "executed"
  BY <1>1, <1>2, Executed
<1>4. /\ op[c] \in Op /\ op[c].key \in Key /\ op[c].value \in Value
      /\ op[c].version \in Version /\ IsStore(store)
  BY <1>1 DEF TypeOK, KVTypeOK, Op
<1>5. /\ kv' \in [Key -> KvState] /\ at' \in [Client -> KvState]
      /\ \A d \in Client : d # c => at'[d] = at[d]
  <2>1. kv \in [Key -> KvState] /\ at \in [Client -> KvState] /\ kv[op[c].key] \in KvState
    BY <1>1, <1>4 DEF TypeOK
  <2>2. KvStep(kv[op[c].key], op[c]) \in KvState
    BY <1>4, <2>1 DEF KvStep, KvState, Version
  <2>3. QED
    BY <2>1, <2>2 DEF ExecuteOp
<1>6. TypeOK'
  BY <1>1, <1>2, <1>3, <1>5 DEF TypeOK, KVTypeOK
<1>7. ASSUME NEW d \in Clnt PROVE LoopInv(d)' /\ ReadInv(d)'
  <2>1. CASE d = c
    BY <1>2, <2>1, ReadStep
  <2>2. CASE d # c
    BY <1>1, <1>2, <1>3, <2>2, Clients, OtherClient
  <2>3. QED
    BY <2>1, <2>2
<1>8. AnswerInv(c)'
  <2>1. /\ op'[c].res.err \in {"OK", "ErrVersion", "ErrNoKey"}
        /\ op'[c].res.err \in {"OK", "ErrVersion"} => op'[c].key \in DOMAIN store'
    <3>1. CASE op[c].kind = "get" /\ store' = store /\ op'[c].res = Get(store, op[c].key)
      BY <1>3, <1>4, <3>1, GetLemma DEF SameCall
    <3>2. CASE /\ op[c].kind = "put"
               /\ op'[c].res.err = PutErr(store, op[c].key, op[c].version)
               /\ store' = PutStore(store, op[c].key, op[c].value, op[c].version)
      <4>1. PutErr(store, op[c].key, op[c].version) = "OK" => op[c].key \in DOMAIN store'
        <5>1. PutErr(store, op[c].key, op[c].version) = "OK" =>
                Written(store, store', op[c].key, op[c].value, op[c].version)
          BY <1>4, <3>2, PutLemma
        <5>2. QED
          BY <5>1 DEF Written
      <4>2. /\ PutErr(store, op[c].key, op[c].version) \in {"OK", "ErrVersion", "ErrNoKey"}
            /\ PutErr(store, op[c].key, op[c].version) = "ErrVersion"
                 => op[c].key \in DOMAIN store
        BY DEF PutErr
      <4>3. QED
        BY <1>3, <3>2, <4>1, <4>2 DEF SameCall, Grows
    <3>3. QED
      BY <1>1, <1>2, <3>1, <3>2, Executed
  <2>2. test' # "spread" => KvAccepts(at'[c], op'[c])
    BY <1>2, ModelStep
  <2>3. op'[c].kind = "put" /\ op'[c].version # 0 => op'[c].key \in DOMAIN store'
    BY <1>1, <1>3 DEF AnswerInv, SameCall, Grows
  <2>4. QED
    BY <1>3, <2>1, <2>2, <2>3 DEF AnswerInv, Err, KvAccepts
<1>9. ASSUME NEW d \in Client, d # c PROVE AnswerInv(d)'
  BY <1>1, <1>2, <1>3, <1>5, <1>9, OtherAnswer
<1>10. ModelInv'
  BY <1>1, <1>2, ModelStep DEF ModelInv
<1>11. QED
  BY <1>6, <1>7, <1>8, <1>9, <1>10 DEF IndInv

\* A return: the answer stays, or an OK or ErrVersion of a Put becomes ErrMaybe.
LEMMA ReturnStepInv ==
    ASSUME IndInv, NEW c \in Client, ReturnOp(c)
    PROVE  IndInv'
<1>1. /\ TypeOK /\ ModelInv /\ \A d \in Clnt : LoopInv(d) /\ ReadInv(d)
      /\ \A d \in Client : AnswerInv(d)
  BY DEF IndInv
<1>2. /\ UNCHANGED <<store, test, pc, iter, ver, err, res, main, next, rs, failed, kv, at>>
      /\ op[c].phase = "executed"
      /\ accepted' = (accepted /\ (Logged(c) => KvAccepts(at[c], op'[c])))
  BY DEF ReturnOp, Return, locals, mainVars
<1>3. PICK e \in Reported(c) : op' = [op EXCEPT ![c].phase = "returned", ![c].res.err = e]
  BY DEF ReturnOp, Return
<1>4. /\ op \in [Client -> Op] /\ op[c] \in Op /\ op[c].res \in Reply \cup {NoReply}
      /\ op[c].kind \in {"none", "get", "put"}
  BY <1>1 DEF TypeOK, KVTypeOK, Op
<1>5. e = op[c].res.err \/ (op[c].kind = "put" /\ op[c].res.err \in {"OK", "ErrVersion"} /\ e = "ErrMaybe")
  BY <1>3 DEF Reported
<1> DEFINE r == [op[c].res EXCEPT !.err = e]
<1>6. /\ r \in Reply \cup {NoReply} /\ r.err = e
      /\ r.version = op[c].res.version /\ r.value = op[c].res.value
  <2>1. CASE e = op[c].res.err
    <3>1. r = op[c].res
      BY <1>4, <2>1 DEF Reply, NoReply
    <3>2. QED
      BY <1>4, <2>1, <3>1
  <2>2. CASE op[c].res.err \in {"OK", "ErrVersion"} /\ e = "ErrMaybe"
    <3>1. op[c].res \in Reply
      BY <1>4, <2>2 DEF NoReply
    <3>2. QED
      BY <2>2, <3>1 DEF Reply, Err
  <2>3. QED
    BY <1>5, <2>1, <2>2
<1> DEFINE new == [op[c] EXCEPT !.phase = "returned", !.res = r]
<1>7. op' = [op EXCEPT ![c] = new]
  BY <1>3, <1>4
<1> HIDE DEF r
<1>8. /\ new \in Op /\ new.kind = op[c].kind /\ new.key = op[c].key
      /\ new.value = op[c].value /\ new.version = op[c].version
      /\ new.phase = "returned" /\ new.res = r
  BY <1>4, <1>6 DEF Op
<1> HIDE DEF new
<1>9. /\ op' \in [Client -> Op] /\ op'[c] = new /\ \A d \in Client : d # c => op'[d] = op[d]
  BY <1>4, <1>7, <1>8
<1>10. Grows
  BY <1>2 DEF Grows
<1>11. TypeOK'
  BY <1>1, <1>2, <1>9 DEF TypeOK, KVTypeOK
<1>12. ASSUME NEW d \in Clnt PROVE LoopInv(d)' /\ ReadInv(d)'
  <2>1. CASE d # c
    BY <1>1, <1>2, <1>9, <1>10, <2>1, Clients, OtherClient
  <2>2. CASE d = c
    <3>1. LoopInv(c)'
      BY <1>1, <1>2, <1>8, <1>9, <2>2 DEF LoopInv, TestKey
    <3>2. e = "OK" => op[c].res.err = "OK"
      BY <1>5
    <3>3. Mine(c)' <=> Mine(c)
      BY <1>2 DEF Mine
    <3>4. ReadInv(c)'
      BY <1>1, <1>2, <1>6, <1>8, <1>9, <2>2, <3>2, <3>3 DEF ReadInv
    <3>5. QED
      BY <2>2, <3>1, <3>4
  <2>3. QED
    BY <2>1, <2>2
<1>13. AnswerInv(c)'
  <2>1. AnswerInv(c)
    BY <1>1
  <2>2. e \in {"OK", "ErrVersion", "ErrMaybe"} =>
          op[c].res.err \in {"OK", "ErrVersion", "ErrMaybe"}
    BY <1>5
  <2>3. op[c].kind # "none" => e \in Err
    BY <1>2, <1>5, <2>1 DEF AnswerInv, Err
  <2>4. QED
    BY <1>2, <1>6, <1>8, <1>9, <2>1, <2>2, <2>3 DEF AnswerInv
<1>14. ASSUME NEW d \in Client, d # c PROVE AnswerInv(d)'
  BY <1>1, <1>2, <1>9, <1>10, <1>14, OtherAnswer
<1>15. test # "spread" => KvAccepts(at[c], op'[c])
  <2>1. test # "spread" => KvAccepts(at[c], op[c])
    BY <1>1, <1>2 DEF AnswerInv
  <2>2. QED
    BY <1>5, <1>6, <1>8, <1>9, <2>1 DEF KvAccepts
<1>16. ModelInv'
  BY <1>1, <1>2, <1>15 DEF ModelInv
<1>17. QED
  BY <1>11, <1>12, <1>13, <1>14, <1>16 DEF IndInv

\* The invariant holds at first: only append has a key, with an empty list.
LEMMA IndInit ==
    ASSUME AnyList, Init
    PROVE  IndInv
<1>1. <<>> \in Value /\ NoKey \in Key
  BY KeyAssumption DEF AnyList, NoKey
<1>2. IsStore(store)
  <2>1. CASE test = "append"
    <3>1. store = [k \in {SharedKey} |-> [value |-> <<>>, version |-> 1]]
      BY <2>1 DEF Init
    <3>2. [value |-> <<>>, version |-> 1] \in Entry
      BY <1>1 DEF Entry, Version
    <3>3. QED
      BY <3>1, <3>2, TestKeyAssumption DEF IsStore
  <2>2. CASE test # "append"
    BY <2>2 DEF Init, MakeKVServer, IsStore
  <2>3. QED
    BY <2>1, <2>2
<1> DEFINE o == [NewOp("none", NoKey, NoValue, 0) EXCEPT !.phase = "returned"]
<1>3. /\ o \in Op /\ o.kind = "none" /\ o.phase = "returned" /\ o.res = NoReply
  BY <1>1, ValueAssumption DEF NewOp, Op, Version
<1>4. op = [c \in Client |-> o]
  BY DEF Init
<1> HIDE DEF o
<1>5. \A c \in Client : op[c] \in Op /\ op[c].kind = "none" /\ op[c].phase = "returned"
                        /\ op[c].res.err = "None"
  BY <1>3, <1>4 DEF NoReply
<1>6. KVTypeOK
  BY <1>2, <1>3, <1>4 DEF KVTypeOK
<1>7. KvInit \in KvState /\ \A k \in DOMAIN store : store[k] \in KvState
  BY <1>2, ValueAssumption DEF KvInit, KvState, Version, IsStore, Entry
<1>8. kv \in [Key -> KvState] /\ at \in [Client -> KvState] /\ accepted = TRUE
  BY <1>7 DEF Init
<1>9. NoRes \in ClntRes /\ 0 \in 0..MaxIter /\ 0 \in 0..NClnt /\ 0 \in Version /\ "OK" \in Err
  BY IterAssumption, ClientAssumption DEF NoRes, ClntRes, Version, Err
<1>10. /\ pc \in [Clnt -> {"select"}] /\ iter \in [Clnt -> 0..MaxIter] /\ ver \in [Clnt -> Version]
       /\ err \in [Clnt -> Err] /\ res \in [Clnt -> ClntRes] /\ rs \in [Clnt -> ClntRes]
       /\ \A c \in Clnt : ver[c] = 0
  BY <1>9 DEF Init
<1>11. test \in Tests /\ main = "sleep" /\ next = 0 /\ failed = FALSE
  BY DEF Init
<1>12. TypeOK
  BY <1>6, <1>8, <1>9, <1>10, <1>11 DEF TypeOK
<1>13. \A c \in Clnt : LoopInv(c) /\ ReadInv(c)
  BY <1>10 DEF LoopInv, ReadInv
<1>14. \A c \in Client : AnswerInv(c)
  BY <1>5 DEF AnswerInv
<1>15. ModelInv
  BY <1>8 DEF Init, ModelInv
<1>16. QED
  BY <1>12, <1>13, <1>14, <1>15 DEF IndInv

\* Every step keeps the invariant.
LEMMA IndStep ==
    ASSUME AnyList, IndInv, [Next]_vars
    PROVE  IndInv'
<1>1. CASE UNCHANGED vars
  <2>1. UNCHANGED <<store, op, test, pc, iter, ver, err, res, main, next, rs, failed, kv, at, accepted>>
    BY <1>1 DEF vars, kvVars, locals, mainVars, history
  <2>2. Grows
    BY <2>1 DEF Grows
  <2>3. TypeOK'
    BY <2>1 DEF IndInv, TypeOK, KVTypeOK
  <2>4. \A c \in Clnt : LoopInv(c)' /\ ReadInv(c)'
    BY <2>1, <2>2, OtherClient DEF IndInv
  <2>5. \A c \in Client : AnswerInv(c)'
    BY <2>1, <2>2, OtherAnswer DEF IndInv
  <2>6. ModelInv'
    BY <2>1 DEF IndInv, ModelInv
  <2>7. QED
    BY <2>3, <2>4, <2>5, <2>6 DEF IndInv
<1>2. CASE Next
  BY <1>2, ClientStepInv, MainStepInv, ExecuteStepInv, ReturnStepInv DEF Next
<1>3. QED
  BY <1>1, <1>2

\* The inductive invariant of the tests, for any number of clients and rounds.
THEOREM IndInvariant == ASSUME AnyList PROVE Spec => []IndInv
<1>1. Init => IndInv
  BY IndInit
<1>2. IndInv /\ [Next]_vars => IndInv'
  BY IndStep
<1>3. QED
  BY <1>1, <1>2, PTL DEF Spec

\* checkPorcupine has an order of the log that the model accepts, the one in
\* which the store executed it: it never calls a correct store illegal.
THEOREM LogAccepted == ASSUME AnyList PROVE Spec => []HistoryAccepted
<1>1. IndInv => HistoryAccepted
  <2> SUFFICES ASSUME IndInv, test # "spread"
               PROVE  accepted /\ \A k \in DOMAIN store : kv[k] = store[k]
    BY DEF HistoryAccepted
  <2>1. DOMAIN store \subseteq Key
    BY DEF IndInv, TypeOK, KVTypeOK, IsStore
  <2>2. QED
    BY <2>1 DEF IndInv, ModelInv
<1>2. QED
  BY <1>1, IndInvariant, PTL

\* What OnePut reads at the version after its own, once its Put has returned OK,
\* is what it has put.
THEOREM ReadsItsPut == ASSUME AnyList PROVE Spec => []OkPutIsRead
<1>1. IndInv => OkPutIsRead
  BY DEF IndInv, ReadInv, OkPutIsRead
<1>2. QED
  BY <1>1, IndInvariant, PTL

-----------------------------------------------------------------------------
(* No check of a client fails.                                             *)

\* "" is not the JSON of a list, and each client has a key of its own.
NoJson == NoValue \notin Seq(Clnt \X Nat)
OwnKeys == \A c, d \in Clnt : KeyOf[c] = KeyOf[d] => c = d

\* A client that takes no step, and whose own key nobody puts.
LEMMA OtherPass ==
    ASSUME NEW c \in Clnt, SoundInv(c), OwnInv(c), DOMAIN store \subseteq DOMAIN store',
           test \notin Spawned => /\ OwnVersion(c)' = OwnVersion(c)
                                  /\ HoldsOwn(c) => HoldsOwn(c)',
           pc'[c] = pc[c], iter'[c] = iter[c], ver'[c] = ver[c], op'[c] = op[c], test' = test
    PROVE  SoundInv(c)' /\ OwnInv(c)'
<1>1. TestKey(c)' = TestKey(c)
  BY DEF TestKey
<1>2. GotJson(op'[c]) <=> GotJson(op[c])
  OBVIOUS
<1>3. SoundInv(c)'
  BY <1>1, <1>2 DEF SoundInv
<1>4. CASE test \notin Spawned
  <2>1. OwnVersion(c)' = OwnVersion(c) /\ (HoldsOwn(c) => HoldsOwn(c)')
    BY <1>4
  <2> HIDE DEF OwnVersion, HoldsOwn
  <2>2. QED
    BY <1>3, <2>1 DEF OwnInv
<1>5. CASE test \in Spawned
  BY <1>3, <1>5 DEF OwnInv
<1>6. QED
  BY <1>4, <1>5

\* While the store stays, so does what a client knows of its key.
LEMMA SameStore ==
    ASSUME NEW c \in Clnt, store' = store, iter'[c] = iter[c]
    PROVE  OwnVersion(c)' = OwnVersion(c) /\ (HoldsOwn(c) => HoldsOwn(c)')
BY DEF OwnVersion, HoldsOwn

\* What it takes to keep the invariant when a client moves: it goes on, with an
\* operation that fits, and it knows the version of its key.
LEMMA LocalPass ==
    ASSUME TypeOK, PassInv, NEW c \in Clnt, NEW label, NEW i, NEW v, NEW e, NEW o \in Op,
           Moves(c, label, i, v, e, o), UNCHANGED <<store, test, main, failed>>,
           label # "dead",
           label = "select" => o.phase = "returned",
           \/ o = op[c]
           \/ o.kind = "put" => o.key = TestKey(c) /\ o.value # NoValue,
           label = "getting" => test \in Spawned /\ SharedKey \in DOMAIN store,
           label \in {"putting", "getting", "checking"} => o.phase = "pending",
           test \notin Spawned =>
             /\ label = "select" => /\ test = "spread" => i # 0
                                    /\ test # "spread" => OwnVersion(c) = v
             /\ label = "putting" => /\ o.version = v /\ o.value = <<<<c, i>>>>
                                     /\ OwnVersion(c) = v
                                     /\ test = "spread" => v = 0
             /\ label = "checking" => /\ KeyOf[c] \in DOMAIN store
                                      /\ store[KeyOf[c]].value = <<<<c, i>>>>
                                      /\ OwnVersion(c) = v
    PROVE  PassInv'
<1>1. ListInv /\ \A d \in Clnt : SoundInv(d) /\ OwnInv(d)
  BY DEF PassInv
<1>2. /\ pc'[c] = label /\ iter'[c] = i /\ ver'[c] = v /\ op'[c] = o
      /\ \A d \in Clnt : d # c => /\ pc'[d] = pc[d] /\ iter'[d] = iter[d] /\ ver'[d] = ver[d]
      /\ \A d \in Client : d # c => op'[d] = op[d]
  BY Clients DEF Moves, TypeOK, KVTypeOK
<1>3. TestKey(c)' = TestKey(c) /\ OwnVersion(c)' = OwnVersion(c)
  BY DEF TestKey, OwnVersion
<1>4. SoundInv(c)'
  BY <1>1, <1>2, <1>3 DEF SoundInv
<1>5. OwnInv(c)'
  <2>1. label = "checking" /\ test \notin Spawned => HoldsOwn(c)'
    BY <1>2 DEF HoldsOwn
  <2>2. QED
    BY <1>2, <1>3, <2>1 DEF OwnInv
<1>6. ASSUME NEW d \in Clnt, d # c PROVE SoundInv(d)' /\ OwnInv(d)'
  <2>1. op'[d] = op[d]
    BY <1>2, <1>6, Clients
  <2>2. QED
    BY <1>1, <1>2, <1>6, <2>1, OtherPass, SameStore
<1>7. ListInv'
  <2>1. op'[Main] = op[Main]
    BY <1>2, Clients
  <2>2. QED
    BY <1>1, <2>1 DEF ListInv, GotJson
<1>8. QED
  BY <1>4, <1>5, <1>6, <1>7 DEF PassInv

\* A new Put of a client.
LEMMA PutPass ==
    ASSUME TypeOK, PassInv, NEW c \in Clnt, NEW value \in Value, NEW version \in Version,
           NEW v \in Version, InvokePut(c, TestKey(c), value, version), GoTo(c, "putting"),
           ver' = [ver EXCEPT ![c] = v], value # NoValue,
           UNCHANGED <<iter, err, failed, test, main>>,
           test \notin Spawned => /\ version = v /\ value = <<<<c, iter[c]>>>>
                                  /\ OwnVersion(c) = v /\ (test = "spread" => v = 0)
    PROVE  PassInv'
<1> DEFINE o == NewOp("put", TestKey(c), value, version)
<1>1. TestKey(c) \in Key
  BY TestKeyAssumption DEF TestKey
<1>2. /\ o \in Op /\ o.kind = "put" /\ o.key = TestKey(c) /\ o.phase = "pending"
      /\ o.value = value /\ o.version = version
  BY <1>1, NewOpLemma
<1>3. op' = [op EXCEPT ![c] = o] /\ UNCHANGED store /\ pc' = [pc EXCEPT ![c] = "putting"]
  BY DEF InvokePut, GoTo
<1> HIDE DEF o
<1>4. Moves(c, "putting", iter[c], v, err[c], o)
  BY <1>3, Unmoved DEF Moves
<1>5. QED
  BY <1>2, <1>3, <1>4, LocalPass

\* A new Get of a client.
LEMMA GetPass ==
    ASSUME TypeOK, PassInv, NEW c \in Clnt, NEW label \in {"getting", "checking"}, NEW v, NEW e,
           InvokeGet(c, TestKey(c)), GoTo(c, label),
           ver' = [ver EXCEPT ![c] = v], err' = [err EXCEPT ![c] = e],
           UNCHANGED <<iter, failed, test, main>>,
           label = "getting" => test \in Spawned /\ SharedKey \in DOMAIN store,
           label = "checking" /\ test \notin Spawned => HoldsOwn(c) /\ OwnVersion(c) = v
    PROVE  PassInv'
<1> DEFINE o == NewOp("get", TestKey(c), NoValue, 0)
<1>1. TestKey(c) \in Key
  BY TestKeyAssumption DEF TestKey
<1>2. /\ o \in Op /\ o.kind = "get" /\ o.phase = "pending"
  BY <1>1, NewOpLemma, ValueAssumption DEF Version
<1>3. op' = [op EXCEPT ![c] = o] /\ UNCHANGED store /\ pc' = [pc EXCEPT ![c] = label]
  BY DEF InvokeGet, GoTo
<1> HIDE DEF o
<1>4. Moves(c, label, iter[c], v, e, o)
  BY <1>3, Unmoved DEF Moves
<1>5. QED
  BY <1>2, <1>3, <1>4, LocalPass DEF HoldsOwn

\* The end of a round.
LEMMA RoundPass ==
    ASSUME TypeOK, PassInv, NEW c \in Clnt, NEW v, NextRound(c), op[c].phase = "returned",
           ver' = [ver EXCEPT ![c] = v], UNCHANGED <<kvVars, err, failed, test, main>>,
           test \notin Spawned /\ test # "spread" => OwnVersion(c) = v
    PROVE  PassInv'
<1>1. iter[c] + 1 # 0 /\ op[c] \in Op
  BY Clients DEF TypeOK, KVTypeOK
<1>2. Moves(c, "select", iter[c] + 1, v, err[c], op[c])
  BY Unmoved DEF Moves, NextRound, GoTo, kvVars
<1>3. UNCHANGED store
  BY DEF kvVars
<1>4. QED
  BY <1>1, <1>2, <1>3, LocalPass

\* The lists that the clients put are not "".
LEMMA ListsAreJson ==
    ASSUME AnyList, NoJson, NEW c \in Clnt, NEW n \in Nat
    PROVE  /\ <<<<c, n>>>> # NoValue
           /\ \A es \in Value : es # NoValue => Append(es, <<c, n>>) # NoValue
<1>1. <<c, n>> \in Clnt \X Nat
  OBVIOUS
<1>2. <<<<c, n>>>> \in Seq(Clnt \X Nat)
  BY <1>1
<1>3. \A es \in Seq(Clnt \X Nat) : Append(es, <<c, n>>) \in Seq(Clnt \X Nat)
  BY <1>1
<1>4. QED
  BY <1>2, <1>3 DEF AnyList, NoJson

\* The steps of the clients' goroutines: none calls Fatalf.
LEMMA ClientPass ==
    ASSUME AnyList, NoJson, IndInv, PassInv, NEW c \in Clnt, ClientStep(c)
    PROVE  PassInv'
<1>1. /\ TypeOK /\ ClientType(c) /\ LoopInv(c) /\ ReadInv(c) /\ AnswerInv(c)
      /\ SoundInv(c) /\ OwnInv(c) /\ ListInv /\ UNCHANGED <<test, main>>
  BY TypeParts, Clients DEF IndInv, PassInv, ClientStep, mainVars
<1>2. /\ iter[c] \in Nat /\ ver[c] \in Nat /\ op[c].res.version \in Nat
      /\ op[c].res.value \in Value
  BY <1>1, IterAssumption, ValueAssumption DEF ClientType, Version, Reply, NoReply
<1>3. /\ ver = [ver EXCEPT ![c] = ver[c]] /\ err = [err EXCEPT ![c] = err[c]]
  BY <1>1, Unmoved
<1>4. /\ test \in Spawned => TestKey(c) = SharedKey
      /\ test \notin Spawned => TestKey(c) = KeyOf[c]
  BY DEF TestKey
<1>5. /\ <<<<c, iter[c]>>>> \in Value /\ <<<<c, iter[c]>>>> # NoValue
      /\ \A v \in Nat : <<<<c, v>>>> \in Value /\ <<<<c, v>>>> # NoValue
  BY <1>2, Lists, ListsAreJson
<1>6. CASE StartRound(c)
  <2>1. pc[c] = "select" /\ UNCHANGED <<iter, ver, err, failed>>
    BY <1>6 DEF StartRound, locals
  <2>2. CASE test = "put" /\ OnePut(c, ver[c])
    <3>1. InvokePut(c, TestKey(c), <<<<c, ver[c]>>>>, ver[c]) /\ GoTo(c, "putting")
      BY <1>4, <2>2 DEF OnePut, Spawned
    <3>2. QED
      BY <1>1, <1>2, <1>3, <1>5, <2>1, <2>2, <3>1, PutPass DEF Version, Spawned
  <2>3. CASE test = "append" /\ AppendRead(c)
    BY <1>1, <1>3, <1>4, <2>1, <2>3, GetPass DEF AppendRead, ListInv, Spawned
  <2>4. CASE test = "atleastonce" /\ PutOwn(c, ver[c])
    <3>1. InvokePut(c, TestKey(c), <<<<c, iter[c]>>>>, ver[c]) /\ GoTo(c, "putting")
      BY <1>4, <2>4 DEF PutOwn, Spawned
    <3>2. OwnVersion(c) = ver[c]
      BY <1>1, <2>1, <2>4 DEF OwnInv, Spawned
    <3>3. QED
      BY <1>1, <1>2, <1>3, <1>5, <2>1, <2>4, <3>1, <3>2, PutPass DEF Version
  <2>5. CASE test = "spread" /\ PutOwn(c, 0)
    <3>1. InvokePut(c, TestKey(c), <<<<c, iter[c]>>>>, 0) /\ GoTo(c, "putting")
      BY <1>4, <2>5 DEF PutOwn, Spawned
    <3>2. iter[c] = 0
      BY <1>2, <1>6, <2>5 DEF StartRound
    <3>3. OwnVersion(c) = 0 /\ ver[c] = 0
      BY <1>1, <2>1, <2>5, <3>2 DEF OwnInv, Spawned
    <3>4. QED
      BY <1>1, <1>2, <1>3, <1>5, <2>1, <2>5, <3>1, <3>3, PutPass DEF Version
  <2>6. QED
    BY <1>6, <2>2, <2>3, <2>4, <2>5 DEF StartRound
<1>7. CASE test = "put" /\ OnePutRead(c)
  <2>1. pc[c] = "putting" /\ op[c].phase = "returned"
    BY <1>7 DEF OnePutRead, Back
  <2>2. op[c].res.err \in {"OK", "ErrVersion", "ErrMaybe"}
    BY <1>1, <2>1 DEF LoopInv, AnswerInv, SoundInv, Err
  <2>3. /\ err' = [err EXCEPT ![c] = op[c].res.err] /\ UNCHANGED <<iter, ver, failed>>
        /\ InvokeGet(c, TestKey(c)) /\ GoTo(c, "getting")
    BY <1>4, <1>7, <2>2 DEF OnePutRead, Spawned
  <2>4. SharedKey \in DOMAIN store /\ test \in Spawned
    BY <1>1, <1>4, <1>7, <2>1, <2>2 DEF AnswerInv, LoopInv, Spawned
  <2>5. QED
    BY <1>1, <1>3, <2>3, <2>4, GetPass
<1>8. CASE test = "put" /\ OnePutReturn(c)
  <2>1. pc[c] = "getting" /\ op[c].phase = "returned"
    BY <1>8 DEF OnePutReturn, Back
  <2>2. GotJson(op[c])
    BY <1>1, <2>1 DEF SoundInv
  <2>3. ~WrongValue(c)
    <3> SUFFICES ASSUME err[c] = "OK", op[c].res.version = ver[c] + 1
                 PROVE  op[c].res.value[1][1] = c
      BY DEF WrongValue
    <3>1. op[c].res.value = <<<<c, ver[c]>>>>
      BY <1>1, <1>8, <2>1 DEF ReadInv
    <3>2. QED
      BY <3>1
  <2>4. /\ ver' = [ver EXCEPT ![c] = op[c].res.version] /\ UNCHANGED <<err, failed>>
        /\ \/ OnePut(c, op[c].res.version) /\ UNCHANGED <<iter, res>>
           \/ NextRound(c) /\ UNCHANGED kvVars
    BY <1>8, <2>2, <2>3 DEF OnePutReturn
  <2>5. CASE OnePut(c, op[c].res.version) /\ UNCHANGED <<iter, res>>
    <3>1. /\ InvokePut(c, TestKey(c), <<<<c, op[c].res.version>>>>, op[c].res.version)
          /\ GoTo(c, "putting")
      BY <1>4, <1>8, <2>5 DEF OnePut, Spawned
    <3>2. QED
      BY <1>1, <1>2, <1>5, <1>8, <2>4, <2>5, <3>1, PutPass DEF Version, Spawned
  <2>6. CASE NextRound(c) /\ UNCHANGED kvVars
    BY <1>1, <1>8, <2>1, <2>4, <2>6, RoundPass DEF Spawned
  <2>7. QED
    BY <2>4, <2>5, <2>6
<1>9. CASE test = "append" /\ AppendPut(c)
  <2> DEFINE value == Append(op[c].res.value, <<c, iter[c]>>)
  <2>1. pc[c] = "getting" /\ op[c].phase = "returned"
    BY <1>9 DEF AppendPut, Back
  <2>2. GotJson(op[c])
    BY <1>1, <2>1 DEF SoundInv
  <2>3. /\ InvokePut(c, TestKey(c), value, op[c].res.version)
        /\ GoTo(c, "putting") /\ UNCHANGED <<iter, ver, err, failed>>
    BY <1>4, <1>9, <2>2 DEF AppendPut, Spawned, locals
  <2>4. value \in Value /\ value # NoValue
    BY <1>2, <2>2, Lists, ListsAreJson DEF GotJson
  <2> HIDE DEF value
  <2>5. QED
    BY <1>1, <1>2, <1>3, <1>9, <2>3, <2>4, PutPass DEF Version, Spawned
<1>10. CASE test = "append" /\ AppendReturn(c)
  <2>1. op[c].phase = "returned"
    BY <1>10 DEF AppendReturn, Back
  <2>2. CASE NextRound(c) /\ UNCHANGED <<kvVars, ver, err, failed>>
    BY <1>1, <1>3, <1>10, <2>1, <2>2, RoundPass DEF Spawned
  <2>3. CASE AppendRead(c) /\ UNCHANGED <<locals, failed>>
    BY <1>1, <1>3, <1>4, <1>10, <2>3, GetPass DEF AppendRead, ListInv, Spawned, locals
  <2>4. QED
    BY <1>10, <2>2, <2>3 DEF AppendReturn
<1>11. CASE test = "atleastonce" /\ PutAtLeastOnce(c)
  <2>1. pc[c] = "putting" /\ op[c].phase = "returned" /\ test \notin Spawned
    BY <1>11 DEF PutAtLeastOnce, Back, Spawned
  <2>2. HoldsOwn(c) /\ OwnVersion(c) = ver[c] + 1 /\ op[c].res.err \in {"OK", "ErrMaybe"}
    BY <1>1, <2>1 DEF OwnInv
  <2>3. /\ ver' = [ver EXCEPT ![c] = ver[c] + 1] /\ UNCHANGED <<iter, err, failed>>
        /\ \/ PutOwn(c, ver[c] + 1)
           \/ InvokeGet(c, KeyOf[c]) /\ GoTo(c, "checking")
    BY <1>11, <2>2 DEF PutAtLeastOnce
  <2>4. ver[c] + 1 \in Nat
    BY <1>2
  <2>5. CASE PutOwn(c, ver[c] + 1)
    <3>1. InvokePut(c, TestKey(c), <<<<c, iter[c]>>>>, ver[c] + 1) /\ GoTo(c, "putting")
      BY <1>4, <2>1, <2>5 DEF PutOwn
    <3>2. QED
      BY <1>1, <1>5, <1>11, <2>2, <2>3, <2>4, <3>1, PutPass DEF Version
  <2>6. CASE InvokeGet(c, KeyOf[c]) /\ GoTo(c, "checking")
    BY <1>1, <1>3, <1>4, <2>1, <2>2, <2>3, <2>6, GetPass
  <2>7. QED
    BY <2>3, <2>5, <2>6
<1>12. CASE test = "spread" /\ SpreadPuts(c)
  <2>1. /\ pc[c] = "putting" /\ op[c].phase = "returned" /\ test \notin Spawned
        /\ ver' = [ver EXCEPT ![c] = 1] /\ InvokeGet(c, TestKey(c))
        /\ GoTo(c, "checking") /\ UNCHANGED <<iter, err, failed>>
    BY <1>4, <1>12 DEF SpreadPuts, Back, Spawned
  <2>2. HoldsOwn(c) /\ OwnVersion(c) = 1
    BY <1>1, <1>12, <2>1 DEF OwnInv
  <2>3. QED
    BY <1>1, <1>3, <2>1, <2>2, GetPass
<1>13. CASE test \notin Spawned /\ CheckGet(c)
  <2>1. pc[c] = "checking" /\ op[c].phase = "returned"
    BY <1>13 DEF CheckGet, Back
  <2>2. /\ OwnVersion(c) = ver[c]
        /\ op[c].res = [value |-> <<<<c, iter[c]>>>>, version |-> ver[c], err |-> "OK"]
    BY <1>1, <1>13, <2>1 DEF OwnInv
  <2>3. NextRound(c) /\ UNCHANGED <<kvVars, ver, err, failed>>
    BY <1>13, <2>2 DEF CheckGet
  <2>4. QED
    BY <1>1, <1>3, <2>1, <2>2, <2>3, RoundPass
<1>14. QED
  BY <1>6, <1>7, <1>8, <1>9, <1>10, <1>11, <1>12, <1>13 DEF ClientStep

\* The steps of SpawnClientsAndWait and the check after it.
LEMMA MainPass ==
    ASSUME IndInv, PassInv, Wake \/ Check \/ (\E c \in Clnt : Signal(c) \/ Collect(c))
    PROVE  PassInv'
<1>1. /\ TypeOK /\ ListInv /\ \A d \in Clnt : SoundInv(d) /\ OwnInv(d)
  BY DEF IndInv, PassInv
<1>2. ASSUME UNCHANGED <<store, test, iter, ver>>, \A d \in Clnt : op'[d] = op[d],
             \A d \in Clnt : pc'[d] = pc[d] \/ pc'[d] \in {"result", "gone"}
      PROVE  \A d \in Clnt : SoundInv(d)' /\ OwnInv(d)'
  <2> SUFFICES ASSUME NEW d \in Clnt PROVE SoundInv(d)' /\ OwnInv(d)'
    OBVIOUS
  <2>1. CASE pc'[d] = pc[d]
    BY <1>1, <1>2, <2>1, OtherPass, SameStore
  <2>2. CASE pc'[d] \in {"result", "gone"}
    BY <1>1, <1>2, <2>2 DEF SoundInv, OwnInv, TestKey
  <2>3. QED
    BY <1>2, <2>1, <2>2
<1>3. CASE Wake
  <2>1. /\ UNCHANGED <<store, op, test, iter, ver, pc, failed>> /\ main = "sleep"
        /\ main' = "signal" /\ SharedKey \in DOMAIN store
    BY <1>3 DEF Wake, kvVars, locals
  <2>2. ListInv'
    BY <1>1, <2>1 DEF ListInv
  <2>3. QED
    BY <1>2, <2>1, <2>2 DEF PassInv
<1>4. CASE Check
  <2>1. /\ UNCHANGED <<store, op, test, iter, ver, pc>> /\ main = "check"
        /\ main' \in {"passed", "dead"}
    BY <1>4 DEF Check, kvVars, locals
  <2>2. ~failed
    BY <1>1, <2>1 DEF ListInv
  <2>3. failed' => main' = "dead"
    BY <1>4, <2>2 DEF Check
  <2>4. ListInv'
    BY <1>1, <2>1, <2>3 DEF ListInv
  <2>5. QED
    BY <1>2, <2>1, <2>4 DEF PassInv
<1>5. ASSUME NEW c \in Clnt, Signal(c) PROVE PassInv'
  <2>1. /\ UNCHANGED <<store, op, test, iter, ver, failed>> /\ main = "signal"
        /\ main' \in {"signal", "collect"} /\ GoTo(c, "result")
    BY <1>5 DEF Signal, kvVars, locals
  <2>2. \A d \in Clnt : pc'[d] = pc[d] \/ pc'[d] \in {"result", "gone"}
    BY <1>1, <2>1 DEF GoTo, TypeOK
  <2>3. ListInv'
    BY <1>1, <2>1 DEF ListInv
  <2>4. QED
    BY <1>2, <2>1, <2>2, <2>3 DEF PassInv
<1>6. ASSUME NEW c \in Clnt, Collect(c) PROVE PassInv'
  <2>1. /\ UNCHANGED <<test, iter, ver, failed>> /\ main = "collect" /\ GoTo(c, "gone")
        /\ \/ UNCHANGED <<main, store, op>>
           \/ main' = "check" /\ InvokeGet(Main, SharedKey)
    BY <1>6 DEF Collect, kvVars, locals
  <2>2. \A d \in Clnt : pc'[d] = pc[d] \/ pc'[d] \in {"result", "gone"}
    BY <1>1, <2>1 DEF GoTo, TypeOK
  <2>3. CASE UNCHANGED <<main, store, op>>
    <3>1. ListInv'
      BY <1>1, <2>1, <2>3 DEF ListInv
    <3>2. QED
      BY <1>2, <2>1, <2>2, <2>3, <3>1 DEF PassInv
  <2>4. CASE main' = "check" /\ InvokeGet(Main, SharedKey)
    <3> DEFINE o == NewOp("get", SharedKey, NoValue, 0)
    <3>1. o \in Op /\ o.kind = "get" /\ o.key = SharedKey /\ o.phase = "pending"
      BY NewOpLemma, ValueAssumption, TestKeyAssumption DEF Version
    <3>2. op' = [op EXCEPT ![Main] = o] /\ UNCHANGED store
      BY <2>4 DEF InvokeGet
    <3> HIDE DEF o
    <3>3. op'[Main] = o /\ \A d \in Clnt : op'[d] = op[d]
      BY <1>1, <3>2, Clients DEF TypeOK, KVTypeOK
    <3>4. ListInv'
      BY <1>1, <2>1, <2>4, <3>1, <3>2, <3>3 DEF ListInv
    <3>5. QED
      BY <1>2, <2>1, <2>2, <3>2, <3>3, <3>4 DEF PassInv
  <2>5. QED
    BY <2>1, <2>3, <2>4
<1>7. QED
  BY <1>3, <1>4, <1>5, <1>6

\* An execution of c's Put leaves the keys of the other clients alone, and only
\* a client's list gets into the store.
LEMMA StorePass ==
    ASSUME OwnKeys, IndInv, PassInv, NEW c \in Client, Execute(c), UNCHANGED <<test, iter>>
    PROVE  /\ \A k \in DOMAIN store' : store'[k].value # NoValue
           /\ test \notin Spawned => \A d \in Clnt : d # c =>
                OwnVersion(d)' = OwnVersion(d) /\ (HoldsOwn(d) => HoldsOwn(d)')
<1>1. TypeOK /\ ListInv /\ IsStore(store)
  BY DEF IndInv, PassInv, TypeOK, KVTypeOK
<1>2. /\ op[c] \in Op /\ op[c].key \in Key /\ op[c].value \in Value /\ op[c].version \in Version
  BY <1>1 DEF TypeOK, KVTypeOK, Op
<1>3. CASE store' = store
  BY <1>1, <1>3, SameStore DEF ListInv
<1>4. CASE op[c].kind = "put" /\ Written(store, store', op[c].key, op[c].value, op[c].version)
  <2>1. c \in Clnt
    BY <1>1, <1>4, ClientAssumption DEF ListInv
  <2>2. op[c].key = TestKey(c) /\ op[c].value # NoValue
    BY <1>4, <2>1 DEF PassInv, SoundInv
  <2>3. \A k \in DOMAIN store' : store'[k].value # NoValue
    BY <1>1, <1>4, <2>2 DEF Written, ListInv
  <2>4. ASSUME test \notin Spawned, NEW d \in Clnt, d # c
        PROVE  OwnVersion(d)' = OwnVersion(d) /\ (HoldsOwn(d) => HoldsOwn(d)')
    <3>1. KeyOf[d] # op[c].key
      BY <2>1, <2>2, <2>4 DEF TestKey, OwnKeys
    <3>2. /\ KeyOf[d] \in DOMAIN store' <=> KeyOf[d] \in DOMAIN store
          /\ KeyOf[d] \in DOMAIN store => store'[KeyOf[d]] = store[KeyOf[d]]
      BY <1>4, <3>1 DEF Written
    <3>3. QED
      BY <3>2 DEF OwnVersion, CurrentVersion, HoldsOwn
  <2>5. QED
    BY <2>3, <2>4
<1>5. store' = store \/ (op[c].kind = "put" /\ Written(store, store', op[c].key, op[c].value, op[c].version))
  BY <1>1, <1>2, Executed, PutLemma
<1>6. QED
  BY <1>3, <1>4, <1>5

\* What an execution of its own operation tells a client.
LEMMA TellPass ==
    ASSUME IndInv, PassInv, NEW c \in Clnt, Execute(c), UNCHANGED <<test, pc, iter, ver>>
    PROVE  SoundInv(c)' /\ OwnInv(c)'
<1>1. /\ TypeOK /\ ListInv /\ SoundInv(c) /\ OwnInv(c) /\ LoopInv(c) /\ AnswerInv(c)
      /\ IsStore(store) /\ c \in Client
  BY Clients DEF IndInv, PassInv, TypeOK, KVTypeOK
<1>2. /\ op[c] \in Op /\ op[c].key \in Key /\ op[c].value \in Value /\ op[c].version \in Version
  BY <1>1 DEF TypeOK, KVTypeOK, Op
<1>3. /\ SameCall(c) /\ op'[c].phase = "executed" /\ Grows /\ pc[c] # "select"
  BY <1>1, Executed DEF SoundInv, Execute
<1>4. TestKey(c)' = TestKey(c)
  BY DEF TestKey
<1>5. op[c].kind = "put" => /\ op'[c].res.err = PutErr(store, op[c].key, op[c].version)
                            /\ store' = PutStore(store, op[c].key, op[c].value, op[c].version)
  BY <1>1, Executed
<1>6. op[c].kind = "get" => op'[c].res = Get(store, op[c].key) /\ store' = store
  BY <1>1, Executed
<1>7. pc[c] = "putting" => op'[c].res.err # "ErrNoKey"
  <2>1. ASSUME op[c].kind = "put" PROVE PutErr(store, op[c].key, op[c].version) # "ErrNoKey"
    BY <1>1, <2>1 DEF AnswerInv, PutErr, CurrentVersion
  <2>2. QED
    BY <1>1, <1>5, <2>1 DEF LoopInv
<1>8. pc[c] = "getting" => GotJson(op'[c])
  <2> SUFFICES ASSUME pc[c] = "getting" PROVE GotJson(op'[c])
    OBVIOUS
  <2>1. op[c].kind = "get" /\ op[c].key \in DOMAIN store
    BY <1>1 DEF LoopInv, SoundInv, TestKey
  <2>2. store[op[c].key].value # NoValue
    BY <1>1, <2>1 DEF ListInv
  <2>3. op'[c].res.err = "OK" /\ op'[c].res.value = store[op[c].key].value
    BY <1>1, <1>2, <1>6, <2>1, GetLemma
  <2>4. QED
    BY <2>2, <2>3 DEF GotJson
<1>9. SoundInv(c)'
  BY <1>1, <1>3, <1>4, <1>7, <1>8 DEF SoundInv, SameCall, Grows
<1>10. ASSUME test \notin Spawned, pc[c] = "putting"
       PROVE  HoldsOwn(c)' /\ OwnVersion(c)' = ver[c] + 1 /\ op'[c].res.err = "OK"
  <2>1. /\ op[c].kind = "put" /\ op[c].key = KeyOf[c] /\ op[c].version = ver[c]
        /\ op[c].value = <<<<c, iter[c]>>>>
    BY <1>1, <1>10 DEF LoopInv, TestKey, OwnInv
  <2>2. OwnVersion(c) = ver[c]
    BY <1>1, <1>10, <2>1 DEF OwnInv, Execute, Performed
  <2>3. PutErr(store, KeyOf[c], ver[c]) = "OK"
    BY <2>2 DEF OwnVersion, PutErr
  <2>4. Written(store, store', KeyOf[c], <<<<c, iter[c]>>>>, ver[c])
    BY <1>1, <1>2, <1>5, <2>1, <2>3, PutLemma
  <2>5. KeyOf[c] \in DOMAIN store'
        /\ store'[KeyOf[c]] = [value |-> <<<<c, iter[c]>>>>, version |-> ver[c] + 1]
    BY <2>4 DEF Written
  <2>6. QED
    BY <1>5, <2>1, <2>3, <2>5 DEF HoldsOwn, OwnVersion, CurrentVersion
<1>11. ASSUME test \notin Spawned, pc[c] = "checking"
       PROVE  /\ HoldsOwn(c)' /\ OwnVersion(c)' = ver[c]
              /\ op'[c].res = [value |-> <<<<c, iter[c]>>>>, version |-> ver[c], err |-> "OK"]
  <2>1. /\ op[c].kind = "get" /\ op[c].key = KeyOf[c] /\ HoldsOwn(c) /\ OwnVersion(c) = ver[c]
    BY <1>1, <1>11 DEF LoopInv, TestKey, OwnInv
  <2>2. HoldsOwn(c)' /\ OwnVersion(c)' = ver[c]
    BY <1>6, <2>1 DEF HoldsOwn, OwnVersion
  <2>3. Get(store, KeyOf[c]) = [value |-> <<<<c, iter[c]>>>>, version |-> ver[c], err |-> "OK"]
    BY <2>1 DEF Get, HoldsOwn, OwnVersion, CurrentVersion
  <2>4. QED
    BY <1>6, <2>1, <2>2, <2>3
<1>12. OwnInv(c)'
  BY <1>1, <1>3, <1>10, <1>11 DEF OwnInv, SameCall
<1>13. QED
  BY <1>9, <1>12

\* An execution.
LEMMA ExecutePass ==
    ASSUME OwnKeys, IndInv, PassInv, NEW c \in Client, ExecuteOp(c)
    PROVE  PassInv'
<1>1. /\ TypeOK /\ ListInv /\ IsStore(store) /\ \A d \in Clnt : SoundInv(d) /\ OwnInv(d)
  BY DEF IndInv, PassInv, TypeOK, KVTypeOK
<1>2. Execute(c) /\ UNCHANGED <<test, pc, iter, ver, main, failed>>
  BY DEF ExecuteOp, locals, mainVars
<1>3. /\ SameCall(c) /\ DOMAIN store \subseteq DOMAIN store'
      /\ \A d \in Client : d # c => op'[d] = op[d]
      /\ op[c].kind = "get" => op'[c].res = Get(store, op[c].key) /\ store' = store
  BY <1>1, <1>2, Executed DEF Grows
<1>4. \A k \in DOMAIN store' : store'[k].value # NoValue
  BY <1>2, StorePass
<1>5. ASSUME NEW d \in Clnt PROVE SoundInv(d)' /\ OwnInv(d)'
  <2>1. CASE d = c
    BY <1>2, <2>1, TellPass
  <2>2. CASE d # c
    <3>1. test \notin Spawned => OwnVersion(d)' = OwnVersion(d) /\ (HoldsOwn(d) => HoldsOwn(d)')
      BY <1>2, <2>2, StorePass
    <3>2. op'[d] = op[d]
      BY <1>3, <2>2, Clients
    <3>3. QED
      BY <1>1, <1>2, <1>3, <3>1, <3>2, OtherPass
  <2>3. QED
    BY <2>1, <2>2
<1>6. ListInv'
  <2>1. op'[Main].kind # "put" /\ op'[Main].kind = op[Main].kind /\ op'[Main].key = op[Main].key
    BY <1>1, <1>3, Clients DEF ListInv, SameCall
  <2>2. ASSUME main = "check", op'[Main].phase # "pending" PROVE GotJson(op'[Main])
    <3>1. CASE c # Main
      BY <1>1, <1>3, <2>2, <3>1, Clients DEF ListInv
    <3>2. CASE c = Main
      <4>1. op[Main].kind = "get" /\ op[Main].key = SharedKey /\ SharedKey \in DOMAIN store
        BY <1>1, <2>2 DEF ListInv
      <4>2. op'[Main].res.err = "OK" /\ op'[Main].res.value = store[SharedKey].value
        BY <1>1, <1>3, <3>2, <4>1, GetLemma, TestKeyAssumption
      <4>3. QED
        BY <1>1, <4>1, <4>2 DEF ListInv, GotJson
    <3>3. QED
      BY <3>1, <3>2
  <2>3. QED
    BY <1>1, <1>2, <1>3, <1>4, <2>1, <2>2 DEF ListInv
<1>7. QED
  BY <1>5, <1>6 DEF PassInv

\* A return: an answer other than a Put's stays, a Put's may become ErrMaybe.
LEMMA Returned ==
    ASSUME TypeOK, NEW c \in Client, Return(c)
    PROVE  /\ SameCall(c) /\ op'[c].phase = "returned" /\ store' = store
           /\ \A d \in Client : d # c => op'[d] = op[d]
           /\ op'[c].res = op[c].res \/ (op[c].kind = "put" /\ op'[c].res.err = "ErrMaybe")
<1>1. /\ op \in [Client -> Op] /\ op[c] \in Op /\ op[c].res \in Reply \cup {NoReply}
  BY DEF TypeOK, KVTypeOK, Op
<1>2. PICK e \in Reported(c) : op' = [op EXCEPT ![c].phase = "returned", ![c].res.err = e]
  BY DEF Return
<1> DEFINE r == [op[c].res EXCEPT !.err = e]
           new == [op[c] EXCEPT !.phase = "returned", !.res = r]
<1>3. r = op[c].res \/ (op[c].kind = "put" /\ r.err = "ErrMaybe")
  BY <1>1, <1>2 DEF Reported, Reply, NoReply
<1>4. op' = [op EXCEPT ![c] = new]
  BY <1>1, <1>2
<1> HIDE DEF r
<1>5. /\ new.kind = op[c].kind /\ new.key = op[c].key /\ new.value = op[c].value
      /\ new.version = op[c].version /\ new.phase = "returned" /\ new.res = r
  BY <1>1 DEF Op
<1> HIDE DEF new
<1>6. op'[c] = new /\ \A d \in Client : d # c => op'[d] = op[d]
  BY <1>1, <1>4
<1>7. QED
  BY <1>3, <1>5, <1>6 DEF SameCall, Return

\* A return keeps PassInv.
LEMMA ReturnPass ==
    ASSUME IndInv, PassInv, NEW c \in Client, ReturnOp(c)
    PROVE  PassInv'
<1>1. /\ TypeOK /\ ListInv /\ \A d \in Clnt : SoundInv(d) /\ OwnInv(d) /\ LoopInv(d)
  BY DEF IndInv, PassInv
<1>2. Return(c) /\ UNCHANGED <<test, pc, iter, ver, main, failed>> /\ op[c].phase = "executed"
  BY DEF ReturnOp, Return, locals, mainVars
<1>3. /\ SameCall(c) /\ op'[c].phase = "returned" /\ store' = store
      /\ \A d \in Client : d # c => op'[d] = op[d]
      /\ op'[c].res = op[c].res \/ (op[c].kind = "put" /\ op'[c].res.err = "ErrMaybe")
  BY <1>1, <1>2, Returned
<1>4. GotJson(op[c]) /\ op[c].kind # "put" => GotJson(op'[c])
  BY <1>3 DEF GotJson
<1>5. ASSUME c \in Clnt PROVE SoundInv(c)' /\ OwnInv(c)'
  <2>1. SoundInv(c) /\ OwnInv(c) /\ LoopInv(c)
    BY <1>1, <1>5
  <2>2. TestKey(c)' = TestKey(c) /\ OwnVersion(c)' = OwnVersion(c) /\ HoldsOwn(c)' = HoldsOwn(c)
    BY <1>2, <1>3 DEF TestKey, OwnVersion, HoldsOwn
  <2>3. SoundInv(c)'
    BY <1>2, <1>3, <1>4, <2>1, <2>2 DEF SoundInv, SameCall, LoopInv
  <2>4. ASSUME test \notin Spawned, pc[c] = "putting"
        PROVE  /\ HoldsOwn(c) /\ OwnVersion(c) = ver[c] + 1
               /\ op'[c].res.err \in {"OK", "ErrMaybe"}
    BY <1>2, <1>3, <2>1, <2>4 DEF OwnInv
  <2>5. pc[c] = "checking" => op'[c].res = op[c].res
    BY <1>3, <2>1 DEF LoopInv
  <2>6. OwnInv(c)'
    BY <1>2, <1>3, <2>1, <2>2, <2>4, <2>5 DEF OwnInv, SameCall
  <2>7. QED
    BY <2>3, <2>6
<1>6. ASSUME NEW d \in Clnt, d # c PROVE SoundInv(d)' /\ OwnInv(d)'
  <2>1. op'[d] = op[d]
    BY <1>3, <1>6, Clients
  <2>2. QED
    BY <1>1, <1>2, <1>3, <2>1, OtherPass, SameStore
<1>7. ListInv'
  <2>1. CASE c # Main
    BY <1>1, <1>2, <1>3, <2>1, Clients DEF ListInv, GotJson
  <2>2. CASE c = Main
    BY <1>1, <1>2, <1>3, <1>4, <2>2 DEF ListInv, SameCall
  <2>3. QED
    BY <2>1, <2>2
<1>8. QED
  BY <1>5, <1>6, <1>7 DEF PassInv

\* At first only append's key exists, with an empty list, and no client has put.
LEMMA PassInit ==
    ASSUME NoJson, Init
    PROVE  PassInv
<1> DEFINE o == [NewOp("none", NoKey, NoValue, 0) EXCEPT !.phase = "returned"]
<1>1. o.kind = "none" /\ o.phase = "returned"
  BY DEF NewOp
<1>2. op = [c \in Client |-> o]
  BY DEF Init
<1> HIDE DEF o
<1>3. \A c \in Client : op[c].kind = "none" /\ op[c].phase = "returned"
  BY <1>1, <1>2
<1>4. /\ \A c \in Clnt : pc[c] = "select" /\ ver[c] = 0
      /\ main = "sleep" /\ failed = FALSE
  BY DEF Init
<1>5. CASE test = "append"
  <2>1. store = [k \in {SharedKey} |-> [value |-> <<>>, version |-> 1]]
    BY <1>5 DEF Init
  <2>2. <<>> # NoValue
    <3>1. <<>> \in Seq(Clnt \X Nat)
      OBVIOUS
    <3>2. QED
      BY <3>1 DEF NoJson
  <2>3. ListInv
    BY <1>3, <1>4, <2>1, <2>2, Clients DEF ListInv
  <2>4. \A c \in Clnt : SoundInv(c) /\ OwnInv(c)
    BY <1>3, <1>4, <1>5, Clients DEF SoundInv, OwnInv, Spawned
  <2>5. QED
    BY <2>3, <2>4 DEF PassInv
<1>6. CASE test # "append"
  <2>1. DOMAIN store = {}
    BY <1>6 DEF Init, MakeKVServer
  <2>2. ListInv
    BY <1>3, <1>4, <1>6, <2>1, Clients DEF ListInv
  <2>3. \A c \in Clnt : OwnVersion(c) = 0
    BY <2>1 DEF OwnVersion, CurrentVersion
  <2>4. \A c \in Clnt : SoundInv(c) /\ OwnInv(c)
    BY <1>3, <1>4, <2>3, Clients DEF SoundInv, OwnInv
  <2>5. QED
    BY <2>2, <2>4 DEF PassInv
<1>7. QED
  BY <1>5, <1>6

\* Every step keeps PassInv.
LEMMA PassStep ==
    ASSUME AnyList, NoJson, OwnKeys, IndInv, PassInv, [Next]_vars
    PROVE  PassInv'
<1>1. CASE UNCHANGED vars
  <2>1. UNCHANGED <<store, op, test, pc, iter, ver, main, failed>>
    BY <1>1 DEF vars, kvVars, locals, mainVars
  <2>2. \A c \in Clnt : SoundInv(c)' /\ OwnInv(c)'
    BY <2>1, OtherPass, SameStore DEF PassInv
  <2>3. ListInv'
    BY <2>1 DEF PassInv, ListInv
  <2>4. QED
    BY <2>2, <2>3 DEF PassInv
<1>2. CASE Next
  BY <1>2, ClientPass, MainPass, ExecutePass, ReturnPass DEF Next
<1>3. QED
  BY <1>1, <1>2

\* No client calls Fatalf, however many there are and whatever Puts return
\* ErrMaybe: OnePut reads its own Put, PutAtLeastOnce and SpreadPuts know the
\* version that CheckGet compares, no Put above version 0 returns ErrNoKey.  Only
\* the counts of CheckPutConcurrent and CheckAppends could fail the test.
THEOREM ClientsPass ==
    ASSUME AnyList, NoJson, OwnKeys
    PROVE  Spec => []OnlyCountsFail
<1>1. Init => PassInv
  BY PassInit
<1>2. IndInv /\ PassInv /\ [Next]_vars => PassInv'
  BY PassStep
<1>3. PassInv => OnlyCountsFail
  BY DEF PassInv, ListInv, SoundInv, OnlyCountsFail
<1>4. Spec => []IndInv
  BY IndInvariant
<1>5. QED
  BY <1>1, <1>2, <1>3, <1>4, PTL DEF Spec

-----------------------------------------------------------------------------
(* The sums of CheckPutConcurrent.                                         *)

\* Total adds up the clients one by one.
LEMMA TotalRuns ==
    ASSUME NEW r \in [Clnt -> Nat]
    PROVE  \E a \in [0..NClnt -> Nat] :
             a[0] = 0 /\ (\A k \in Clnt : a[k + 1] = a[k] + r[k]) /\ Total(r) = a[NClnt]
<1> DEFINE seq == [i \in 1..NClnt |-> i - 1]
           H == [x \in Nat \X (1..NClnt) |-> x[1] + r[x[2] - 1]]
           Eq(f) == f = [s \in SUBSET (1..NClnt) |->
                           IF s = {} THEN 0 ELSE f[s \ {Max(s)}] + r[seq[Max(s)]]]
           sum == CHOOSE f : Eq(f)
<1>1. Total(r) = sum[1..NClnt]
  BY DEF Total, FoldLeft, MapThenFoldSet
<1>2. NClnt \in Nat /\ \A i \in 1..NClnt : i - 1 \in Clnt /\ r[i - 1] \in Nat
  BY ClientAssumption DEF Clnt
<1>3. H \in [Nat \X (1..NClnt) -> Nat]
  BY <1>2
<1>4. \E f : Eq(f)
  <2> HIDE DEF H
  <2>1. PICK g : IsFold(g, Nat, 0, NClnt, H)
    BY <1>2, <1>3, FoldExists
  <2>2. /\ g \in [SUBSET (1..NClnt) -> Nat]
        /\ \A s \in SUBSET (1..NClnt) :
             g[s] = IF s = {} THEN 0 ELSE H[<<g[s \ {Max(s)}], Max(s)>>]
    BY <2>1 DEF IsFold
  <2>3. ASSUME NEW s \in SUBSET (1..NClnt), s # {}
        PROVE  g[s] = g[s \ {Max(s)}] + r[seq[Max(s)]]
    <3>1. Max(s) \in 1..NClnt /\ s \ {Max(s)} \in SUBSET (1..NClnt)
      BY <1>2, <2>3, MaxLemma
    <3>2. g[s \ {Max(s)}] \in Nat /\ g[s] = H[<<g[s \ {Max(s)}], Max(s)>>]
      BY <2>2, <2>3, <3>1
    <3>3. seq[Max(s)] = Max(s) - 1
      BY <3>1
    <3> HIDE DEF seq
    <3>4. QED
      BY <3>1, <3>2, <3>3 DEF H
  <2> HIDE DEF seq
  <2>4. Eq(g)
    BY <2>2, <2>3
  <2> HIDE DEF Eq
  <2>5. QED
    BY <2>4
<1>5. Eq(sum)
  <2> HIDE DEF Eq
  <2>1. QED
    BY <1>4
<1> HIDE DEF sum
<1>6. sum[{}] = 0
  BY <1>5
<1>7. ASSUME NEW k \in 1..NClnt, sum[1 .. k - 1] \in Nat
      PROVE  sum[1..k] = H[<<sum[1 .. k - 1], k>>]
  <2>1. k - 1 \in Nat /\ (k - 1) + 1 = k
    OBVIOUS
  <2>2. Max(1..k) = k /\ (1..k) \ {k} = 1 .. k - 1
    BY <2>1, MaxOfInterval
  <2>3. 1..k \in SUBSET (1..NClnt) /\ k \in 1..k /\ seq[k] = k - 1
    BY <1>2
  <2>4. sum[1..k] = sum[1 .. k - 1] + r[k - 1]
    <3> HIDE DEF seq
    <3>1. 1..k # {}
      BY <2>3
    <3>2. QED
      BY <1>5, <2>2, <2>3, <3>1
  <2>5. QED
    BY <1>7, <2>4
<1> HIDE DEF H
<1>8. PICK a : IsRun(a, Nat, 0, NClnt, H) /\ a[NClnt] = sum[1..NClnt]
  <2>1. Unfolds(sum, Nat, 0, NClnt, H)
    BY <1>6, <1>7 DEF Unfolds
  <2>2. 0 \in Nat
    OBVIOUS
  <2>3. EndsRun(sum, Nat, 0, NClnt, H)
    BY <1>2, <1>3, <2>1, <2>2, FoldRuns
  <2>4. QED
    BY <2>3 DEF EndsRun
<1>9. a \in [0..NClnt -> Nat] /\ a[0] = 0
  BY <1>8 DEF IsRun
<1>10. ASSUME NEW k \in Clnt PROVE a[k + 1] = a[k] + r[k]
  <2>1. k + 1 \in 1..NClnt /\ (k + 1) - 1 = k /\ k \in 0..NClnt
    BY <1>2 DEF Clnt
  <2>2. a[k + 1] = H[<<a[k], k + 1>>] /\ a[k] \in Nat
    BY <1>8, <1>9, <2>1 DEF IsRun
  <2>3. QED
    BY <2>1, <2>2 DEF H
<1>11. QED
  BY <1>1, <1>8, <1>9, <1>10

\* Sums of pointwise sums.
LEMMA TotalAdd ==
    ASSUME NEW q \in [Clnt -> Nat], NEW r \in [Clnt -> Nat], NEW s \in [Clnt -> Nat],
           \A c \in Clnt : s[c] = q[c] + r[c]
    PROVE  Total(s) = Total(q) + Total(r) /\ Total(q) \in Nat /\ Total(r) \in Nat
<1>1. PICK a \in [0..NClnt -> Nat] :
             a[0] = 0 /\ (\A k \in Clnt : a[k + 1] = a[k] + q[k]) /\ Total(q) = a[NClnt]
  BY TotalRuns
<1>2. PICK b \in [0..NClnt -> Nat] :
             b[0] = 0 /\ (\A k \in Clnt : b[k + 1] = b[k] + r[k]) /\ Total(r) = b[NClnt]
  BY TotalRuns
<1>3. PICK d \in [0..NClnt -> Nat] :
             d[0] = 0 /\ (\A k \in Clnt : d[k + 1] = d[k] + s[k]) /\ Total(s) = d[NClnt]
  BY TotalRuns
<1> DEFINE Adds(k) == k <= NClnt => d[k] = a[k] + b[k]
           T == {k \in Nat : Adds(k)}
<1>4. Adds(0)
  BY <1>1, <1>2, <1>3
<1>5. ASSUME NEW k \in Nat, Adds(k) PROVE Adds(k + 1)
  <2> SUFFICES ASSUME k + 1 <= NClnt PROVE d[k + 1] = a[k + 1] + b[k + 1]
    OBVIOUS
  <2>1. k \in Clnt /\ k \in 0..NClnt /\ k <= NClnt
    BY ClientAssumption DEF Clnt
  <2>2. a[k] \in Nat /\ b[k] \in Nat /\ q[k] \in Nat /\ r[k] \in Nat /\ s[k] = q[k] + r[k]
    BY <2>1
  <2>3. a[k + 1] = a[k] + q[k] /\ b[k + 1] = b[k] + r[k] /\ d[k + 1] = d[k] + s[k]
    BY <1>1, <1>2, <1>3, <2>1
  <2>4. d[k] = a[k] + b[k]
    BY <1>5, <2>1
  <2>5. QED
    BY <2>2, <2>3, <2>4
<1>6. \A k \in Nat : Adds(k)
  <2> HIDE DEF Adds
  <2>1. 0 \in T /\ \A k \in Nat : k \in T => k + 1 \in T
    BY <1>4, <1>5
  <2>2. \A k \in Nat : k \in T
    <3> HIDE DEF T
    <3>1. QED
      BY <2>1, Induction
  <2>3. QED
    BY <2>2
<1>7. NClnt \in Nat /\ NClnt \in 0..NClnt
  BY ClientAssumption
<1>8. d[NClnt] = a[NClnt] + b[NClnt]
  BY <1>6, <1>7
<1>9. QED
  BY <1>1, <1>2, <1>3, <1>7, <1>8

\* The sum when only c counts.
LEMMA TotalOne ==
    ASSUME NEW c \in Clnt
    PROVE  Total([d \in Clnt |-> IF d = c THEN 1 ELSE 0]) = 1
<1> DEFINE r == [d \in Clnt |-> IF d = c THEN 1 ELSE 0]
<1>1. r \in [Clnt -> Nat] /\ r[c] = 1 /\ \A d \in Clnt : d # c => r[d] = 0
  OBVIOUS
<1> HIDE DEF r
<1>2. PICK a \in [0..NClnt -> Nat] :
             a[0] = 0 /\ (\A k \in Clnt : a[k + 1] = a[k] + r[k]) /\ Total(r) = a[NClnt]
  BY <1>1, TotalRuns
<1> DEFINE Is(k) == k <= NClnt => a[k] = IF c < k THEN 1 ELSE 0
           T == {k \in Nat : Is(k)}
<1>3. c \in Nat /\ c < NClnt /\ NClnt \in Nat
  BY ClientAssumption DEF Clnt
<1>4. Is(0)
  BY <1>2, <1>3
<1>5. ASSUME NEW k \in Nat, Is(k) PROVE Is(k + 1)
  <2> SUFFICES ASSUME k + 1 <= NClnt PROVE a[k + 1] = IF c < k + 1 THEN 1 ELSE 0
    OBVIOUS
  <2>1. k \in Clnt /\ k <= NClnt
    BY <1>3 DEF Clnt
  <2>2. a[k + 1] = a[k] + r[k] /\ a[k] = IF c < k THEN 1 ELSE 0
    BY <1>2, <1>5, <2>1
  <2>3. CASE k = c
    BY <1>1, <1>3, <2>2, <2>3
  <2>4. CASE k # c
    BY <1>1, <1>3, <2>1, <2>2, <2>4
  <2>5. QED
    BY <2>3, <2>4
<1>6. \A k \in Nat : Is(k)
  <2> HIDE DEF Is
  <2>1. 0 \in T /\ \A k \in Nat : k \in T => k + 1 \in T
    BY <1>4, <1>5
  <2>2. \A k \in Nat : k \in T
    <3> HIDE DEF T
    <3>1. QED
      BY <2>1, Induction
  <2>3. QED
    BY <2>2
<1>7. a[NClnt] = 1
  BY <1>3, <1>6
<1>8. QED
  BY <1>2, <1>7 DEF r

\* One more for c.
LEMMA TotalBump ==
    ASSUME NEW r \in [Clnt -> Nat], NEW s \in [Clnt -> Nat], NEW c \in Clnt,
           s[c] = r[c] + 1, \A d \in Clnt : d # c => s[d] = r[d]
    PROVE  Total(s) = Total(r) + 1 /\ Total(r) \in Nat
<1> DEFINE one == [d \in Clnt |-> IF d = c THEN 1 ELSE 0]
<1>1. one \in [Clnt -> Nat] /\ \A d \in Clnt : s[d] = r[d] + one[d]
  OBVIOUS
<1>2. Total(one) = 1
  BY TotalOne
<1> HIDE DEF one
<1>3. QED
  BY <1>1, <1>2, TotalAdd

\* No clients have counted.
LEMMA TotalZero ==
    Total([c \in Clnt |-> 0]) = 0
<1> DEFINE z == [c \in Clnt |-> 0]
<1>1. z \in [Clnt -> Nat] /\ \A c \in Clnt : z[c] = z[c] + z[c]
  OBVIOUS
<1> HIDE DEF z
<1>2. Total(z) = Total(z) + Total(z) /\ Total(z) \in Nat
  BY <1>1, TotalAdd
<1>3. \A n \in Nat : n = n + n => n = 0
  OBVIOUS
<1>4. Total(z) = 0
  BY <1>2, <1>3
<1>5. QED
  BY <1>4 DEF z

-----------------------------------------------------------------------------
(* The loop of CheckAppends.                                               *)

Acc == [ok : BOOLEAN, expect : [Clnt -> Nat], skipped : [Clnt -> Nat]]

NoneSeen == [ok |-> TRUE, expect |-> [c \in Clnt |-> 0], skipped |-> [c \in Clnt |-> 0]]

\* What the loop does with the entry e.
See(acc, e) ==
    IF acc.expect[e[1]] > e[2] THEN [acc EXCEPT !.ok = FALSE]
    ELSE [acc EXCEPT !.expect[e[1]] = e[2] + 1,
                     !.skipped[e[1]] = @ + (e[2] - acc.expect[e[1]])]

\* What CheckAppends makes of one entry: a number that is not below the one it
\* expects counts as seen, the ones left out as skipped.
LEMMA SeeLemma ==
    ASSUME NEW acc \in Acc, NEW c \in Clnt, NEW n \in Nat
    PROVE  LET new == See(acc, <<c, n>>)
           IN  /\ new \in Acc
               /\ acc.expect[c] <= n =>
                    /\ new.ok = acc.ok
                    /\ new.expect[c] = n + 1
                    /\ new.skipped[c] = acc.skipped[c] + (n - acc.expect[c])
                    /\ \A d \in Clnt : d # c => /\ new.expect[d] = acc.expect[d]
                                                /\ new.skipped[d] = acc.skipped[d]
<1> DEFINE e == <<c, n>>
           ex == [acc.expect EXCEPT ![c] = n + 1]
           sk == [acc.skipped EXCEPT ![c] = acc.skipped[c] + (n - acc.expect[c])]
           new == [acc EXCEPT !.expect = ex, !.skipped = sk]
<1>1. /\ acc.ok \in BOOLEAN /\ acc.expect \in [Clnt -> Nat] /\ acc.skipped \in [Clnt -> Nat]
      /\ acc.expect[c] \in Nat /\ acc.skipped[c] \in Nat /\ e[1] = c /\ e[2] = n
      /\ acc = [ok |-> acc.ok, expect |-> acc.expect, skipped |-> acc.skipped]
  BY DEF Acc
<1>2. CASE acc.expect[c] > n
  <2>1. See(acc, e) = [acc EXCEPT !.ok = FALSE]
    BY <1>1, <1>2 DEF See
  <2>2. [acc EXCEPT !.ok = FALSE] \in Acc
    BY DEF Acc
  <2>3. QED
    BY <1>1, <1>2, <2>1, <2>2
<1>3. CASE acc.expect[c] <= n
  <2>1. acc.skipped[c] + (n - acc.expect[c]) \in Nat
    BY <1>1, <1>3
  <2>2. ex \in [Clnt -> Nat] /\ sk \in [Clnt -> Nat]
    BY <1>1, <2>1
  <2>3. /\ ex[c] = n + 1 /\ sk[c] = acc.skipped[c] + (n - acc.expect[c])
        /\ \A d \in Clnt : d # c => ex[d] = acc.expect[d] /\ sk[d] = acc.skipped[d]
    BY <1>1
  <2>4. See(acc, e) = [acc EXCEPT !.expect = ex, !.skipped = sk]
    BY <1>1, <1>3 DEF See
  <2> HIDE DEF ex, sk
  <2>5. new \in Acc
    BY <1>1, <2>2 DEF Acc
  <2>6. See(acc, e) = new /\ new.ok = acc.ok /\ new.expect = ex /\ new.skipped = sk
    BY <2>4 DEF Acc
  <2> HIDE DEF new
  <2>7. QED
    BY <2>3, <2>5, <2>6
<1>4. QED
  BY <1>1, <1>2, <1>3

\* The loop takes the entries one by one.
LEMMA SeenRuns ==
    ASSUME NEW es \in Seq(Clnt \X Nat)
    PROVE  \E a \in [0..Len(es) -> Acc] :
             a[0] = NoneSeen /\ (\A k \in 1..Len(es) : a[k] = See(a[k - 1], es[k]))
             /\ AppendsSeen(es) = a[Len(es)]
<1> DEFINE n == Len(es)
           H == [x \in Acc \X (1..n) |-> See(x[1], es[x[2]])]
           Eq(f) == f = [s \in SUBSET (1..n) |->
                           IF s = {} THEN NoneSeen ELSE See(f[s \ {Max(s)}], es[Max(s)])]
           sum == CHOOSE f : Eq(f)
<1>1. AppendsSeen(es) = sum[1..n]
  <2>1. DOMAIN es = 1..n
    OBVIOUS
  <2>2. QED
    BY <2>1 DEF AppendsSeen, See, NoneSeen, FoldLeft, MapThenFoldSet
<1>2. n \in Nat /\ NoneSeen \in Acc
  BY DEF NoneSeen, Acc
<1>3. ASSUME NEW acc \in Acc, NEW i \in 1..n PROVE See(acc, es[i]) \in Acc
  <2>1. PICK c \in Clnt, m \in Nat : es[i] = <<c, m>>
    <3>1. es[i] \in Clnt \X Nat
      OBVIOUS
    <3>2. QED
      BY <3>1
  <2>2. QED
    BY <2>1, SeeLemma
<1> HIDE DEF n
<1>4. H \in [Acc \X (1..n) -> Acc]
  BY <1>3
<1>5. \E f : Eq(f)
  <2> HIDE DEF H
  <2>1. PICK g : IsFold(g, Acc, NoneSeen, n, H)
    BY <1>2, <1>4, FoldExists
  <2>2. /\ g \in [SUBSET (1..n) -> Acc]
        /\ \A s \in SUBSET (1..n) :
             g[s] = IF s = {} THEN NoneSeen ELSE H[<<g[s \ {Max(s)}], Max(s)>>]
    BY <2>1 DEF IsFold
  <2>3. ASSUME NEW s \in SUBSET (1..n), s # {}
        PROVE  g[s] = See(g[s \ {Max(s)}], es[Max(s)])
    <3>1. Max(s) \in 1..n /\ s \ {Max(s)} \in SUBSET (1..n)
      BY <1>2, <2>3, MaxLemma
    <3>2. g[s \ {Max(s)}] \in Acc /\ g[s] = H[<<g[s \ {Max(s)}], Max(s)>>]
      BY <2>2, <2>3, <3>1
    <3>3. QED
      BY <3>1, <3>2 DEF H
  <2>4. Eq(g)
    BY <2>2, <2>3
  <2> HIDE DEF Eq
  <2>5. QED
    BY <2>4
<1>6. Eq(sum)
  <2> HIDE DEF Eq
  <2>1. QED
    BY <1>5
<1> HIDE DEF sum
<1>7. sum[{}] = NoneSeen
  BY <1>6
<1>8. ASSUME NEW k \in 1..n, sum[1 .. k - 1] \in Acc
      PROVE  sum[1..k] = H[<<sum[1 .. k - 1], k>>]
  <2>1. k - 1 \in Nat /\ (k - 1) + 1 = k
    BY <1>2
  <2>2. Max(1..k) = k /\ (1..k) \ {k} = 1 .. k - 1
    BY <2>1, MaxOfInterval
  <2>3. 1..k \in SUBSET (1..n) /\ k \in 1..k
    BY <1>2
  <2>4. sum[1..k] = See(sum[1 .. k - 1], es[k])
    <3>1. 1..k # {}
      BY <2>3
    <3>2. QED
      BY <1>6, <2>2, <2>3, <3>1
  <2>5. QED
    BY <1>8, <2>4
<1> HIDE DEF H
<1>9. PICK a : IsRun(a, Acc, NoneSeen, n, H) /\ a[n] = sum[1..n]
  <2>1. Unfolds(sum, Acc, NoneSeen, n, H)
    BY <1>7, <1>8 DEF Unfolds
  <2>2. EndsRun(sum, Acc, NoneSeen, n, H)
    BY <1>2, <1>4, <2>1, FoldRuns
  <2>3. QED
    BY <2>2 DEF EndsRun
<1>10. a \in [0..n -> Acc] /\ a[0] = NoneSeen
  BY <1>9 DEF IsRun
<1>11. ASSUME NEW k \in 1..n PROVE a[k] = See(a[k - 1], es[k])
  <2>1. k - 1 \in 0..n
    BY <1>2
  <2>2. a[k] = H[<<a[k - 1], k>>] /\ a[k - 1] \in Acc
    BY <1>9, <1>10, <2>1 DEF IsRun
  <2>3. QED
    BY <2>2 DEF H
<1>12. QED
  BY <1>1, <1>9, <1>10, <1>11 DEF n

\* No entries.
LEMMA SeenEmpty == AppendsSeen(<<>>) = NoneSeen
<1>1. <<>> \in Seq(Clnt \X Nat) /\ Len(<<>>) = 0
  OBVIOUS
<1>2. PICK a \in [0..Len(<<>>) -> Acc] : a[0] = NoneSeen /\ AppendsSeen(<<>>) = a[Len(<<>>)]
  BY <1>1, SeenRuns
<1>3. QED
  BY <1>1, <1>2

\* One more entry.
LEMMA SeenAppend ==
    ASSUME NEW es \in Seq(Clnt \X Nat), NEW e \in Clnt \X Nat
    PROVE  AppendsSeen(es) \in Acc /\ AppendsSeen(Append(es, e)) = See(AppendsSeen(es), e)
<1> DEFINE n == Len(es)
           fs == Append(es, e)
<1>1. /\ n \in Nat /\ fs \in Seq(Clnt \X Nat) /\ Len(fs) = n + 1 /\ fs[n + 1] = e
      /\ \A k \in 1..n : fs[k] = es[k]
  OBVIOUS
<1>2. PICK a \in [0..n -> Acc] :
             a[0] = NoneSeen /\ (\A k \in 1..n : a[k] = See(a[k - 1], es[k]))
             /\ AppendsSeen(es) = a[n]
  BY SeenRuns
<1>3. PICK b \in [0 .. n + 1 -> Acc] :
             b[0] = NoneSeen /\ (\A k \in 1 .. n + 1 : b[k] = See(b[k - 1], fs[k]))
             /\ AppendsSeen(fs) = b[n + 1]
  <2> HIDE DEF fs
  <2>1. QED
    BY <1>1, SeenRuns
<1> HIDE DEF n, fs
<1> DEFINE Same(k) == k <= n => b[k] = a[k]
           T == {k \in Nat : Same(k)}
<1>4. Same(0)
  BY <1>2, <1>3
<1>5. ASSUME NEW k \in Nat, Same(k) PROVE Same(k + 1)
  <2> SUFFICES ASSUME k + 1 <= n PROVE b[k + 1] = a[k + 1]
    OBVIOUS
  <2>1. k + 1 \in 1..n /\ k + 1 \in 1 .. n + 1 /\ (k + 1) - 1 = k /\ k <= n
    BY <1>1
  <2>2. b[k] = a[k] /\ fs[k + 1] = es[k + 1]
    BY <1>1, <1>5, <2>1
  <2>3. a[k + 1] = See(a[k], es[k + 1]) /\ b[k + 1] = See(b[k], fs[k + 1])
    BY <1>2, <1>3, <2>1
  <2>4. QED
    BY <2>2, <2>3
<1>6. \A k \in Nat : Same(k)
  <2> HIDE DEF Same
  <2>1. 0 \in T /\ \A k \in Nat : k \in T => k + 1 \in T
    BY <1>4, <1>5
  <2>2. \A k \in Nat : k \in T
    <3> HIDE DEF T
    <3>1. QED
      BY <2>1, Induction
  <2>3. QED
    BY <2>2
<1>7. b[n] = a[n] /\ a[n] \in Acc
  BY <1>1, <1>6
<1>8. b[n + 1] = See(b[n], fs[n + 1])
  <2>1. n + 1 \in 1 .. n + 1 /\ (n + 1) - 1 = n
    BY <1>1
  <2>2. QED
    BY <1>3, <2>1
<1>9. QED
  BY <1>1, <1>2, <1>3, <1>7, <1>8 DEF fs

-----------------------------------------------------------------------------
(* The counts of the clients and the store.                                *)

\* The loop ends with counts for each client.
LEMMA SeenType ==
    ASSUME NEW es \in Seq(Clnt \X Nat)
    PROVE  AppendsSeen(es) \in Acc
<1>1. PICK a \in [0..Len(es) -> Acc] : AppendsSeen(es) = a[Len(es)]
  BY SeenRuns
<1>2. Len(es) \in 0..Len(es)
  OBVIOUS
<1>3. QED
  BY <1>1, <1>2

\* In append, the shared key has a list.
LEMMA ListType ==
    ASSUME AnyList, TypeOK, ListInv, test = "append"
    PROVE  /\ SharedKey \in DOMAIN store /\ store[SharedKey].version \in Nat
           /\ store[SharedKey].value \in Seq(Clnt \X Nat)
           /\ Seen \in Acc
<1>1. SharedKey \in DOMAIN store /\ store[SharedKey] \in Entry
  BY DEF ListInv, TypeOK, KVTypeOK, IsStore
<1>2. store[SharedKey].version \in Nat /\ store[SharedKey].value \in Value
  BY <1>1 DEF Entry, Version
<1>3. store[SharedKey].value \in Seq(Clnt \X Nat)
  BY <1>1, <1>2 DEF AnyList, ListInv
<1>4. QED
  BY <1>1, <1>2, <1>3, SeenType DEF Seen

\* What c counts is a number.
LEMMA CountedType ==
    ASSUME TypeOK
    PROVE  /\ \A c \in Clnt : /\ res[c].Nok \in Nat /\ res[c].Nmaybe \in Nat
                              /\ Counted(c) \in Nat
           /\ [c \in Clnt |-> Counted(c)] \in [Clnt -> Nat]
           /\ Total([c \in Clnt |-> Counted(c)]) \in Nat
<1>1. ASSUME NEW c \in Clnt
      PROVE res[c].Nok \in Nat /\ res[c].Nmaybe \in Nat /\ Counted(c) \in Nat
  <2>1. res[c] \in ClntRes
    BY DEF TypeOK
  <2>2. res[c].Nok \in Nat /\ res[c].Nmaybe \in Nat
    BY <2>1 DEF ClntRes
  <2>3. QED
    BY <2>2 DEF Counted
<1> DEFINE f == [c \in Clnt |-> Counted(c)]
<1>2. f \in [Clnt -> Nat]
  BY <1>1
<1>3. PICK a \in [0..NClnt -> Nat] : Total(f) = a[NClnt]
  <2> HIDE DEF f
  <2>1. QED
    BY <1>2, TotalRuns
<1>4. NClnt \in 0..NClnt
  BY ClientAssumption
<1>5. QED
  BY <1>1, <1>2, <1>3, <1>4

\* Nothing is counted, and the version stays.
LEMMA SameVersions ==
    ASSUME VersionsInv, \A c \in Clnt : Counted(c)' = Counted(c), test' = test,
           CurrentVersion(store', SharedKey) = CurrentVersion(store, SharedKey)
    PROVE  VersionsInv'
<1>1. [c \in Clnt |-> Counted(c)'] = [c \in Clnt |-> Counted(c)]
  OBVIOUS
<1>2. QED
  BY <1>1 DEF VersionsInv

\* c counts one more.
LEMMA MoreVersions ==
    ASSUME TypeOK, TypeOK', VersionsInv, NEW c \in Clnt, Counted(c)' = Counted(c) + 1,
           \A d \in Clnt : d # c => Counted(d)' = Counted(d), test' = test,
           \/ CurrentVersion(store', SharedKey) = CurrentVersion(store, SharedKey) + 1
           \/ Unreliable /\ CurrentVersion(store', SharedKey) = CurrentVersion(store, SharedKey),
           CurrentVersion(store, SharedKey) \in Nat
    PROVE  VersionsInv'
<1> DEFINE f == [d \in Clnt |-> Counted(d)]
           g == [d \in Clnt |-> Counted(d)']
<1>1. f \in [Clnt -> Nat]
  BY CountedType
<1>2. g \in [Clnt -> Nat] /\ g[c] = f[c] + 1 /\ \A d \in Clnt : d # c => g[d] = f[d]
  BY <1>1
<1> HIDE DEF f, g
<1>3. Total(g) = Total(f) + 1 /\ Total(f) \in Nat
  BY <1>1, <1>2, TotalBump
<1>4. /\ test = "put" => /\ CurrentVersion(store, SharedKey) <= Total(f)
                         /\ ~Unreliable => CurrentVersion(store, SharedKey) = Total(f)
  BY DEF VersionsInv, f
<1>5. /\ test = "put" => /\ CurrentVersion(store', SharedKey) <= Total(g)
                         /\ ~Unreliable => CurrentVersion(store', SharedKey) = Total(g)
  BY <1>3, <1>4
<1>6. QED
  BY <1>5 DEF VersionsInv, g

\* A client that takes no step.
LEMMA OtherCount ==
    ASSUME NEW c \in Clnt, op'[c] = op[c], pc'[c] = pc[c], err'[c] = err[c], res'[c] = res[c],
           iter'[c] = iter[c], test' = test
    PROVE  /\ Told(c)' <=> Told(c)
           /\ Counted(c)' = Counted(c)
           /\ RoundInv(c) => RoundInv(c)'
           /\ store' = store => /\ EntriesInv(c) => EntriesInv(c)'
                                /\ FreshInv(c) => FreshInv(c)'
<1>1. Told(c)' <=> Told(c)
  BY DEF Told
<1>2. Counted(c)' = Counted(c)
  BY <1>1 DEF Counted
<1>3. RoundInv(c) => RoundInv(c)'
  BY DEF RoundInv
<1>4. store' = store => (EntriesInv(c) => EntriesInv(c)')
  BY <1>1 DEF EntriesInv, Seen
<1>5. store' = store => (FreshInv(c) => FreshInv(c)')
  BY DEF FreshInv
<1>6. QED
  BY <1>1, <1>2, <1>3, <1>4, <1>5

\* What a round that ends adds to the results.
LEMMA CountLemma ==
    ASSUME TypeOK, NEW c \in Clnt, NEW e \in {"OK", "ErrMaybe"}, Count(c, e)
    PROVE  /\ res'[c].Nok + res'[c].Nmaybe = res[c].Nok + res[c].Nmaybe + 1
           /\ res'[c].Nmaybe = IF e = "ErrMaybe" THEN res[c].Nmaybe + 1 ELSE res[c].Nmaybe
           /\ \A d \in Clnt : d # c => res'[d] = res[d]
<1> DEFINE nok == IF e = "OK" THEN res[c].Nok + 1 ELSE res[c].Nok
           nmaybe == IF e = "ErrMaybe" THEN res[c].Nmaybe + 1 ELSE res[c].Nmaybe
           new == [res[c] EXCEPT !.Nok = nok, !.Nmaybe = nmaybe]
<1>1. res \in [Clnt -> ClntRes] /\ res[c] \in ClntRes /\ res[c].Nok \in Nat /\ res[c].Nmaybe \in Nat
  BY DEF TypeOK, ClntRes
<1>2. nok + nmaybe = res[c].Nok + res[c].Nmaybe + 1
  BY <1>1
<1>3. res' = [res EXCEPT ![c] = new]
  BY <1>1 DEF Count
<1> HIDE DEF nok, nmaybe
<1>4. new.Nok = nok /\ new.Nmaybe = nmaybe
  BY <1>1 DEF ClntRes
<1> HIDE DEF new
<1>5. res'[c] = new /\ \A d \in Clnt : d # c => res'[d] = res[d]
  BY <1>1, <1>3
<1>6. QED
  BY <1>2, <1>4, <1>5 DEF nmaybe

\* Only c has moved.
Alone(c) ==
    /\ UNCHANGED <<store, test, main, next, rs>>
    /\ op'[Main] = op[Main]
    /\ \A d \in Clnt : d # c => /\ op'[d] = op[d] /\ pc'[d] = pc[d] /\ err'[d] = err[d]
                                /\ res'[d] = res[d] /\ iter'[d] = iter[d]

\* A step of one client that leaves what it has counted keeps CountInv.
LEMMA LocalCount ==
    ASSUME CountInv, NEW c \in Clnt, Alone(c), pc[c] # "gone", pc'[c] # "gone",
           Counted(c)' = Counted(c), EntriesInv(c)', FreshInv(c)', RoundInv(c)'
    PROVE  CountInv'
<1>1. /\ VersionsInv /\ OrderInv /\ CheckInv
      /\ \A d \in Clnt : EntriesInv(d) /\ FreshInv(d) /\ RoundInv(d) /\ CollectInv(d)
  BY DEF CountInv
<1>2. ASSUME NEW d \in Clnt, d # c
      PROVE  /\ Counted(d)' = Counted(d)
             /\ EntriesInv(d)' /\ FreshInv(d)' /\ RoundInv(d)' /\ CollectInv(d)'
  <2>1. /\ op'[d] = op[d] /\ pc'[d] = pc[d] /\ err'[d] = err[d] /\ res'[d] = res[d]
        /\ iter'[d] = iter[d] /\ UNCHANGED <<store, test, main, next, rs>>
    BY <1>2 DEF Alone
  <2>2. Counted(d)' = Counted(d) /\ EntriesInv(d)' /\ FreshInv(d)' /\ RoundInv(d)'
    BY <1>1, <2>1, OtherCount
  <2>3. CollectInv(d)'
    BY <1>1, <2>1 DEF CollectInv
  <2>4. QED
    BY <2>2, <2>3
<1>3. UNCHANGED <<store, test, main, next, rs>> /\ op'[Main] = op[Main]
  BY DEF Alone
<1>4. VersionsInv'
  <2>1. \A d \in Clnt : Counted(d)' = Counted(d)
    BY <1>2
  <2>2. QED
    BY <1>1, <1>3, <2>1, SameVersions
<1>5. OrderInv' /\ CheckInv'
  BY <1>1, <1>3 DEF OrderInv, CheckInv, Seen
<1>6. CollectInv(c)'
  BY <1>1, <1>3 DEF CollectInv
<1>7. QED
  BY <1>2, <1>4, <1>5, <1>6 DEF CountInv

\* c makes a new call, in the same round.
LEMMA CallCount ==
    ASSUME CountInv, NEW c \in Clnt, Alone(c), test \in Spawned, pc[c] # "gone",
           pc'[c] \in {"putting", "getting"}, op'[c].phase = "pending", op'[c].res = NoReply,
           iter'[c] = iter[c], res'[c] = res[c], Told(c)' <=> Told(c),
           ~Unreliable => err'[c] # "ErrMaybe",
           test = "put" /\ pc'[c] = "getting" => err'[c] # "ErrNoKey",
           test = "append" /\ pc'[c] = "putting" =>
             /\ op'[c].version <= store[SharedKey].version
             /\ op'[c].version = store[SharedKey].version =>
                  op'[c].value = Append(store[SharedKey].value, <<c, iter[c]>>)
    PROVE  CountInv'
<1>1. EntriesInv(c) /\ FreshInv(c) /\ RoundInv(c) /\ UNCHANGED <<store, test>>
  BY DEF CountInv, Alone
<1>2. EntriesInv(c)'
  BY <1>1 DEF EntriesInv, Seen
<1>3. FreshInv(c)'
  BY <1>1 DEF FreshInv
<1>4. RoundInv(c)'
  BY <1>1 DEF RoundInv, NoReply
<1>5. Counted(c)' = Counted(c)
  BY DEF Counted
<1>6. QED
  BY <1>2, <1>3, <1>4, <1>5, LocalCount

\* c ends its round, with the Put that it counts.
LEMMA RoundCount ==
    ASSUME AnyList, TypeOK, ListInv, CountInv, NEW c \in Clnt, Alone(c), test \in Spawned,
           pc[c] \in {"putting", "getting"}, pc'[c] = "select", iter'[c] = iter[c] + 1,
           op'[c] = op[c], err'[c] = err[c], NEW e \in {"OK", "ErrMaybe"}, Count(c, e),
           ~Unreliable => e # "ErrMaybe", Told(c),
           test = "append" /\ e = "OK" => Seen.expect[c] > iter[c]
    PROVE  CountInv'
<1>1. EntriesInv(c) /\ RoundInv(c) /\ UNCHANGED <<store, test>>
  BY DEF CountInv, Alone
<1>2. /\ res'[c].Nok + res'[c].Nmaybe = res[c].Nok + res[c].Nmaybe + 1
      /\ res'[c].Nmaybe = IF e = "ErrMaybe" THEN res[c].Nmaybe + 1 ELSE res[c].Nmaybe
  BY CountLemma
<1>3. iter[c] \in Nat /\ res[c].Nok \in Nat /\ res[c].Nmaybe \in Nat
  BY CountedType, TypeParts, IterAssumption DEF ClientType
<1>4. EntriesInv(c)'
  <2> SUFFICES ASSUME test = "append" PROVE EntriesInv(c)'
    BY <1>1 DEF EntriesInv
  <2> DEFINE ex == Seen.expect[c]
             sk == Seen.skipped[c]
  <2>1. ex \in Nat /\ sk \in Nat
    BY ListType DEF Acc
  <2>2. /\ ex <= iter[c] => sk + (iter[c] - ex) <= res[c].Nmaybe
        /\ ex > iter[c] => ex = iter[c] + 1 /\ sk <= res[c].Nmaybe
    BY <1>1 DEF EntriesInv
  <2>3. e = "OK" => ex > iter[c]
    OBVIOUS
  <2>4. ex <= iter'[c] /\ sk + (iter'[c] - ex) <= res'[c].Nmaybe
    <3> HIDE DEF ex, sk
    <3>1. QED
      BY <1>2, <1>3, <2>1, <2>2, <2>3
  <2>5. Seen' = Seen
    BY <1>1 DEF Seen
  <2>6. ~(ex > iter'[c])
    <3> HIDE DEF ex
    <3>1. QED
      BY <1>3, <2>1, <2>4
  <2>7. QED
    BY <2>4, <2>5, <2>6 DEF EntriesInv
<1>5. FreshInv(c)'
  BY DEF FreshInv
<1>6. RoundInv(c)'
  BY <1>1, <1>2, <1>3 DEF RoundInv
<1>7. Counted(c)' = Counted(c)
  <2>1. ~Told(c)'
    BY DEF Told
  <2>2. QED
    BY <1>2, <1>3, <2>1 DEF Counted
<1>8. QED
  BY <1>4, <1>5, <1>6, <1>7, LocalCount

\* The tests that count nothing.
LEMMA NotSpawned ==
    ASSUME CountInv, test \notin Spawned, test' = test, main' = main
    PROVE  CountInv'
<1>1. main = "sleep" /\ test # "put" /\ test # "append"
  BY DEF CountInv, CheckInv, Spawned
<1>2. VersionsInv' /\ OrderInv' /\ CheckInv'
  BY <1>1 DEF VersionsInv, OrderInv, CheckInv
<1>3. \A c \in Clnt : EntriesInv(c)' /\ FreshInv(c)' /\ RoundInv(c)' /\ CollectInv(c)'
  BY <1>1 DEF EntriesInv, FreshInv, RoundInv, CollectInv
<1>4. QED
  BY <1>2, <1>3 DEF CountInv

\* A step that moves only c.
Goes(c, label, i, e, o) ==
    /\ pc' = [pc EXCEPT ![c] = label] /\ iter' = [iter EXCEPT ![c] = i]
    /\ err' = [err EXCEPT ![c] = e] /\ op' = [op EXCEPT ![c] = o]

\* A step in which client c goes on leaves the other clients alone.
LEMMA AloneLemma ==
    ASSUME TypeOK, NEW c \in Clnt, NEW label, NEW i, NEW e, NEW o, Goes(c, label, i, e, o),
           \A d \in Clnt : d # c => res'[d] = res[d], UNCHANGED <<store, test, main, next, rs>>
    PROVE  Alone(c) /\ pc'[c] = label /\ iter'[c] = i /\ err'[c] = e /\ op'[c] = o
BY Clients DEF Alone, Goes, TypeOK, KVTypeOK

\* A new call of c.
LEMMA NewCallLemma ==
    ASSUME TypeOK, CountInv, NEW c \in Clnt, NEW kind \in {"get", "put"}, NEW value \in Value,
           NEW version \in Version, NEW label \in {"putting", "getting"}, NEW e,
           op' = [op EXCEPT ![c] = NewOp(kind, SharedKey, value, version)],
           GoTo(c, label), err' = [err EXCEPT ![c] = e],
           UNCHANGED <<store, test, main, next, rs, iter, res>>, test \in Spawned,
           pc[c] # "gone",
           Told(c) <=> test = "put" /\ label = "getting" /\ e \in {"OK", "ErrMaybe"},
           ~Unreliable => e # "ErrMaybe",
           test = "put" /\ label = "getting" => e # "ErrNoKey",
           test = "append" /\ label = "putting" =>
             /\ version <= store[SharedKey].version
             /\ version = store[SharedKey].version =>
                  value = Append(store[SharedKey].value, <<c, iter[c]>>)
    PROVE  CountInv'
<1> DEFINE o == NewOp(kind, SharedKey, value, version)
<1>1. o.value = value /\ o.version = version /\ o.phase = "pending" /\ o.res = NoReply
  BY NewOpLemma, TestKeyAssumption
<1>2. Goes(c, label, iter[c], e, o)
  BY Unmoved DEF GoTo, Goes
<1> HIDE DEF o
<1>3. Alone(c) /\ pc'[c] = label /\ iter'[c] = iter[c] /\ err'[c] = e /\ op'[c] = o
  BY <1>2, AloneLemma
<1>4. Told(c)' <=> Told(c)
  BY <1>1, <1>3 DEF Told
<1>5. QED
  BY <1>1, <1>3, <1>4, CallCount

\* The steps of the clients' goroutines.
LEMMA ClientCount ==
    ASSUME AnyList, IndInv, PassInv, PassInv', CountInv, NEW c \in Clnt, ClientStep(c)
    PROVE  CountInv'
<1>1. /\ TypeOK /\ ClientType(c) /\ LoopInv(c) /\ ReadInv(c) /\ AnswerInv(c)
      /\ SoundInv(c) /\ ListInv /\ UNCHANGED <<test, main, next, rs>>
      /\ EntriesInv(c) /\ FreshInv(c) /\ RoundInv(c)
  BY TypeParts, Clients DEF IndInv, PassInv, CountInv, ClientStep, mainVars
<1>2. /\ iter[c] \in Nat /\ ver[c] \in Nat /\ op[c].res.version \in Nat
      /\ op[c].res.value \in Value /\ NoValue \in Value /\ 0 \in Version
  BY <1>1, IterAssumption, ValueAssumption DEF ClientType, Version, Reply, NoReply
<1>3. err = [err EXCEPT ![c] = err[c]] /\ op = [op EXCEPT ![c] = op[c]]
  BY <1>1, Unmoved
<1>4. pc'[c] # "dead"
  BY DEF PassInv, SoundInv
<1>5. ~Fatalf(c)
  BY <1>1, <1>4 DEF Fatalf, GoTo, TypeOK
<1>6. CASE test \notin Spawned
  BY <1>1, <1>6, NotSpawned
<1>7. CASE test = "put"
  <2>1. test \in Spawned
    BY <1>7 DEF Spawned
  <2>2. CASE StartRound(c)
    <3>1. /\ pc[c] = "select" /\ InvokePut(c, SharedKey, <<<<c, ver[c]>>>>, ver[c])
          /\ GoTo(c, "putting") /\ UNCHANGED <<iter, err, res>>
      BY <1>7, <2>2 DEF StartRound, OnePut, locals
    <3>2. ~Told(c)
      BY <3>1 DEF Told
    <3>3. <<<<c, ver[c]>>>> \in Value
      BY <1>2, Lists
    <3>4. ~Unreliable => err[c] # "ErrMaybe"
      BY <1>1, <2>1 DEF RoundInv
    <3>5. QED
      BY <1>1, <1>2, <1>3, <1>7, <2>1, <3>1, <3>2, <3>3, <3>4, NewCallLemma DEF InvokePut, Version
  <2>3. CASE OnePutRead(c)
    <3>1. /\ pc[c] = "putting" /\ op[c].phase = "returned" /\ InvokeGet(c, SharedKey)
          /\ op[c].res.err \in {"OK", "ErrVersion", "ErrMaybe"}
          /\ GoTo(c, "getting") /\ err' = [err EXCEPT ![c] = op[c].res.err] /\ UNCHANGED <<iter, res>>
      BY <1>5, <2>3 DEF OnePutRead, Back
    <3>2. Told(c) <=> op[c].res.err \in {"OK", "ErrMaybe"}
      BY <3>1 DEF Told
    <3>3. ~Unreliable => op[c].res.err # "ErrMaybe"
      BY <1>1, <2>1 DEF RoundInv
    <3>4. QED
      BY <1>1, <1>2, <1>7, <2>1, <3>1, <3>2, <3>3, NewCallLemma DEF InvokeGet
  <2>4. CASE OnePutReturn(c)
    <3>1. pc[c] = "getting" /\ op[c].phase = "returned" /\ UNCHANGED err
      BY <1>5, <2>4 DEF OnePutReturn, Back
    <3>2. /\ ~Unreliable => err[c] # "ErrMaybe"
          /\ err[c] \in {"OK", "ErrMaybe", "ErrVersion"}
      BY <1>1, <1>7, <2>1, <3>1 DEF RoundInv, ClientType, Err
    <3>3. CASE err[c] = "ErrVersion"
      <4>1. /\ InvokePut(c, SharedKey, <<<<c, op[c].res.version>>>>, op[c].res.version)
            /\ GoTo(c, "putting") /\ UNCHANGED <<iter, res>>
        BY <1>5, <2>4, <3>3 DEF OnePutReturn, OnePut
      <4>2. ~Told(c)
        BY <3>1, <3>3 DEF Told
      <4>3. <<<<c, op[c].res.version>>>> \in Value
        BY <1>2, Lists
      <4>4. QED
        BY <1>1, <1>2, <1>3, <1>7, <2>1, <3>1, <3>2, <4>1, <4>2, <4>3, NewCallLemma DEF InvokePut, Version
    <3>4. CASE err[c] # "ErrVersion"
      <4>1. NextRound(c) /\ Count(c, err[c]) /\ UNCHANGED kvVars
        BY <1>5, <2>4, <3>4 DEF OnePutReturn
      <4>2. err[c] \in {"OK", "ErrMaybe"} /\ Told(c)
        BY <1>7, <3>1, <3>2, <3>4 DEF Told
      <4>3. \A d \in Clnt : d # c => res'[d] = res[d]
        BY <1>1, <4>1, <4>2, CountLemma
      <4>4. /\ Alone(c) /\ pc'[c] = "select" /\ iter'[c] = iter[c] + 1
            /\ op'[c] = op[c] /\ err'[c] = err[c]
        <5>1. Goes(c, "select", iter[c] + 1, err[c], op[c])
          BY <1>3, <3>1, <4>1 DEF NextRound, GoTo, kvVars, Goes
        <5>2. QED
          BY <1>1, <4>1, <4>3, <5>1, AloneLemma DEF kvVars
      <4>5. QED
        BY <1>1, <1>7, <2>1, <3>1, <3>2, <4>1, <4>2, <4>4, RoundCount
    <3>5. QED
      BY <3>3, <3>4
  <2>5. QED
    BY <1>7, <2>1, <2>2, <2>3, <2>4 DEF ClientStep
<1>8. CASE test = "append"
  <2>1. test \in Spawned
    BY <1>8 DEF Spawned
  <2>2. ASSUME AppendRead(c), UNCHANGED <<iter, err, res>>, ~Told(c), pc[c] # "gone" PROVE CountInv'
    <3>1. InvokeGet(c, SharedKey) /\ GoTo(c, "getting")
      BY <2>2 DEF AppendRead
    <3>2. ~Unreliable => err[c] # "ErrMaybe"
      BY <1>1, <2>1 DEF RoundInv
    <3>3. QED
      BY <1>1, <1>2, <1>3, <1>8, <2>1, <2>2, <3>1, <3>2, NewCallLemma DEF InvokeGet
  <2>3. CASE StartRound(c)
    <3>1. AppendRead(c) /\ UNCHANGED <<iter, err, res>> /\ pc[c] = "select"
      BY <1>8, <2>3 DEF StartRound, locals
    <3>2. QED
      BY <2>2, <3>1 DEF Told
  <2>4. CASE AppendPut(c)
    <3> DEFINE value == Append(op[c].res.value, <<c, iter[c]>>)
    <3>1. /\ pc[c] = "getting" /\ op[c].phase = "returned" /\ GotJson(op[c])
          /\ InvokePut(c, SharedKey, value, op[c].res.version)
          /\ GoTo(c, "putting") /\ UNCHANGED <<iter, err, res>>
      BY <1>5, <2>4 DEF AppendPut, Back, locals
    <3>2. value \in Value
      BY <1>2, <3>1, Lists DEF GotJson
    <3>3. ~Told(c)
      BY <1>8, <3>1 DEF Told
    <3>4. ~Unreliable => err[c] # "ErrMaybe"
      BY <1>1, <2>1 DEF RoundInv
    <3>5. /\ op[c].res.version <= store[SharedKey].version
          /\ op[c].res.version = store[SharedKey].version =>
               value = Append(store[SharedKey].value, <<c, iter[c]>>)
      BY <1>1, <1>8, <3>1 DEF FreshInv
    <3> HIDE DEF value
    <3>6. QED
      BY <1>1, <1>2, <1>3, <1>8, <2>1, <3>1, <3>2, <3>3, <3>4, <3>5, NewCallLemma DEF InvokePut, Version
  <2>5. CASE AppendReturn(c)
    <3>1. pc[c] = "putting" /\ op[c].phase = "returned"
      BY <2>5 DEF AppendReturn, Back
    <3>2. CASE op[c].res.err \in {"OK", "ErrMaybe"}
      <4>1. NextRound(c) /\ Count(c, op[c].res.err) /\ UNCHANGED <<kvVars, err>>
        BY <2>5, <3>2 DEF AppendReturn
      <4>2. Told(c)
        BY <3>1, <3>2 DEF Told
      <4>3. \A d \in Clnt : d # c => res'[d] = res[d]
        BY <1>1, <3>2, <4>1, CountLemma
      <4>4. /\ Alone(c) /\ pc'[c] = "select" /\ iter'[c] = iter[c] + 1
            /\ op'[c] = op[c] /\ err'[c] = err[c]
        <5>1. Goes(c, "select", iter[c] + 1, err[c], op[c])
          BY <1>3, <3>1, <4>1 DEF NextRound, GoTo, kvVars, Goes
        <5>2. QED
          BY <1>1, <4>1, <4>3, <5>1, AloneLemma DEF kvVars
      <4>5. ~Unreliable => op[c].res.err # "ErrMaybe"
        BY <1>1, <2>1 DEF RoundInv
      <4>6. op[c].res.err = "OK" => Seen.expect[c] > iter[c]
        BY <1>1, <1>8, <3>1 DEF EntriesInv
      <4>7. QED
        BY <1>1, <2>1, <3>1, <3>2, <4>1, <4>2, <4>4, <4>5, <4>6, RoundCount
    <3>3. CASE op[c].res.err \notin {"OK", "ErrMaybe"}
      <4>1. AppendRead(c) /\ UNCHANGED <<iter, err, res>>
        BY <2>5, <3>3 DEF AppendReturn, locals
      <4>2. ~Told(c)
        BY <1>8, <3>1, <3>3 DEF Told
      <4>3. QED
        BY <2>2, <3>1, <4>1, <4>2
    <3>4. QED
      BY <3>2, <3>3
  <2>6. QED
    BY <1>8, <2>1, <2>3, <2>4, <2>5 DEF ClientStep
<1>9. QED
  BY <1>6, <1>7, <1>8 DEF Spawned

-----------------------------------------------------------------------------
(* SpawnClientsAndWait and the checks.                                     *)

\* The sums that the check compares.
LEMMA CheckPutLemma ==
    ASSUME TypeOK, CountInv, test = "put", main = "check", SharedKey \in DOMAIN store
    PROVE  CheckPutConcurrent(store[SharedKey].version)
<1> DEFINE q == [c \in Clnt |-> rs[c].Nok]
           r == [c \in Clnt |-> rs[c].Nmaybe]
           s == [c \in Clnt |-> Counted(c)]
<1>1. VersionsInv /\ \A c \in Clnt : RoundInv(c) /\ CollectInv(c)
  BY DEF CountInv
<1>2. ASSUME NEW c \in Clnt
      PROVE  /\ rs[c] = res[c] /\ rs[c].Nok \in Nat /\ rs[c].Nmaybe \in Nat
             /\ Counted(c) = rs[c].Nok + rs[c].Nmaybe
             /\ ~Unreliable => rs[c].Nmaybe = 0
  <2>1. pc[c] = "gone" /\ rs[c] = res[c]
    BY <1>1 DEF CollectInv, Spawned
  <2>2. ~Told(c)
    BY <2>1 DEF Told
  <2>3. res[c].Nok \in Nat /\ res[c].Nmaybe \in Nat
    BY CountedType
  <2>4. ~Unreliable => res[c].Nmaybe = 0
    BY <1>1 DEF RoundInv, Spawned
  <2>5. QED
    BY <2>1, <2>2, <2>3, <2>4 DEF Counted
<1>3. /\ q \in [Clnt -> Nat] /\ r \in [Clnt -> Nat] /\ s \in [Clnt -> Nat]
      /\ \A c \in Clnt : s[c] = q[c] + r[c]
  BY <1>2, CountedType
<1>4. ~Unreliable => r = [c \in Clnt |-> 0]
  BY <1>2
<1>5. Nok = Total(q) /\ Nmaybe = Total(r)
  BY DEF Nok, Nmaybe
<1>6. /\ store[SharedKey].version <= Total(s)
      /\ ~Unreliable => store[SharedKey].version = Total(s)
  BY <1>1 DEF VersionsInv, CurrentVersion
<1> HIDE DEF q, r, s
<1>7. Total(s) = Total(q) + Total(r) /\ Total(q) \in Nat /\ Total(r) \in Nat
  BY <1>3, TotalAdd
<1>8. ~Unreliable => Total(r) = 0
  BY <1>4, TotalZero
<1>9. QED
  BY <1>5, <1>6, <1>7, <1>8 DEF CheckPutConcurrent

\* CheckAppends accepts the list that the clients have appended to.
LEMMA CheckAppendsLemma ==
    ASSUME AnyList, TypeOK, ListInv, CountInv, test = "append", main = "check"
    PROVE  CheckAppends(store[SharedKey].value, store[SharedKey].version)
<1>1. OrderInv /\ \A c \in Clnt : EntriesInv(c) /\ RoundInv(c) /\ CollectInv(c)
  BY DEF CountInv
<1>2. ASSUME NEW c \in Clnt
      PROVE  Seen.skipped[c] <= rs[c].Nmaybe /\ Seen.expect[c] <= rs[c].Nok + rs[c].Nmaybe
  <2>1. pc[c] = "gone" /\ rs[c] = res[c]
    BY <1>1 DEF CollectInv, Spawned
  <2>2. ~Told(c)
    BY <2>1 DEF Told
  <2>3. res[c].Nok \in Nat /\ res[c].Nmaybe \in Nat
    BY CountedType
  <2>4. Seen.expect[c] \in Nat /\ Seen.skipped[c] \in Nat
    BY ListType DEF Acc
  <2>5. iter[c] = res[c].Nok + res[c].Nmaybe
    BY <1>1 DEF RoundInv, Spawned
  <2>6. /\ Seen.expect[c] <= iter[c] => Seen.skipped[c] + (iter[c] - Seen.expect[c]) <= res[c].Nmaybe
        /\ ~(Seen.expect[c] > iter[c])
    BY <1>1, <2>2 DEF EntriesInv
  <2>7. QED
    BY <2>1, <2>3, <2>4, <2>5, <2>6
<1>3. Seen.ok /\ Len(store[SharedKey].value) + 1 = store[SharedKey].version
  BY <1>1 DEF OrderInv
<1>4. QED
  BY <1>2, <1>3 DEF CheckAppends, Seen

\* So the check passes.
LEMMA CheckPasses ==
    ASSUME AnyList, TypeOK, PassInv, CountInv, Check
    PROVE  main' = "passed"
<1>1. /\ main = "check" /\ op[Main].phase = "returned" /\ ListInv /\ CheckInv
  BY DEF Check, PassInv, CountInv
<1>2. /\ GotJson(op[Main]) /\ SharedKey \in DOMAIN store /\ test \in Spawned
      /\ op[Main].res.version = store[SharedKey].version
      /\ op[Main].res.value = store[SharedKey].value
  BY <1>1 DEF ListInv, CheckInv
<1>3. CASE test = "put"
  <2>1. CheckPutConcurrent(op[Main].res.version)
    BY <1>1, <1>2, <1>3, CheckPutLemma
  <2>2. QED
    BY <1>2, <1>3, <2>1 DEF Check
<1>4. CASE test = "append"
  <2>1. CheckAppends(op[Main].res.value, op[Main].res.version)
    BY <1>1, <1>2, <1>4, CheckAppendsLemma
  <2>2. QED
    BY <1>2, <1>4, <2>1 DEF Check
<1>5. QED
  BY <1>2, <1>3, <1>4 DEF Spawned

\* What the clients have counted stays while the test's goroutine moves.
LEMMA MainCountLemma ==
    ASSUME CountInv, UNCHANGED <<store, test, iter, err, res>>, \A d \in Clnt : op'[d] = op[d],
           \A d \in Clnt : \/ pc'[d] = pc[d]
                           \/ /\ pc[d] \in {"select", "result"} /\ pc'[d] \in {"result", "gone"}
                              /\ op[d].phase = "returned",
           CheckInv', \A d \in Clnt : CollectInv(d)'
    PROVE  CountInv'
<1>1. /\ VersionsInv /\ OrderInv
      /\ \A d \in Clnt : EntriesInv(d) /\ FreshInv(d) /\ RoundInv(d)
  BY DEF CountInv
<1>2. ASSUME NEW d \in Clnt
      PROVE  Counted(d)' = Counted(d) /\ EntriesInv(d)' /\ FreshInv(d)' /\ RoundInv(d)'
  <2>1. CASE pc'[d] = pc[d]
    BY <1>1, <2>1, OtherCount
  <2>2. CASE /\ pc[d] \in {"select", "result"} /\ pc'[d] \in {"result", "gone"}
             /\ op[d].phase = "returned"
    <3>1. ~Told(d) /\ ~Told(d)'
      BY <2>2 DEF Told
    <3>2. Counted(d)' = Counted(d)
      BY <3>1 DEF Counted
    <3>3. EntriesInv(d)'
      BY <1>1, <2>2, <3>1 DEF EntriesInv, Seen
    <3>4. FreshInv(d)'
      BY <2>2 DEF FreshInv
    <3>5. RoundInv(d)'
      BY <1>1, <2>2 DEF RoundInv
    <3>6. QED
      BY <3>2, <3>3, <3>4, <3>5
  <2>3. QED
    BY <2>1, <2>2
<1>3. VersionsInv'
  BY <1>1, <1>2, SameVersions
<1>4. OrderInv'
  BY <1>1 DEF OrderInv, Seen
<1>5. QED
  BY <1>2, <1>3, <1>4 DEF CountInv

\* The steps of the test's own goroutine.
LEMMA MainCount ==
    ASSUME AnyList, IndInv, PassInv, CountInv,
           Wake \/ Check \/ (\E c \in Clnt : Signal(c) \/ Collect(c))
    PROVE  CountInv'
<1>1. /\ TypeOK /\ CheckInv /\ ListInv
      /\ \A d \in Clnt : CollectInv(d) /\ RoundInv(d) /\ SoundInv(d)
  BY DEF IndInv, PassInv, CountInv
<1>2. CASE Wake
  <2>1. /\ UNCHANGED <<store, op, test, iter, err, res, pc, rs, next>> /\ test \in Spawned
        /\ main' = "signal"
    BY <1>2 DEF Wake, kvVars, locals
  <2>2. CheckInv' /\ \A d \in Clnt : CollectInv(d)'
    BY <1>1, <2>1 DEF CheckInv, CollectInv
  <2>3. QED
    BY <2>1, <2>2, MainCountLemma
<1>3. CASE Check
  <2>1. /\ UNCHANGED <<store, op, test, iter, err, res, pc, rs, next>> /\ main = "check"
        /\ main' = "passed"
    BY <1>1, <1>3, CheckPasses DEF Check, kvVars, locals
  <2>2. CheckInv' /\ \A d \in Clnt : CollectInv(d)'
    BY <1>1, <2>1 DEF CheckInv, CollectInv
  <2>3. QED
    BY <2>1, <2>2, MainCountLemma
<1>4. ASSUME NEW c \in Clnt, Signal(c) PROVE CountInv'
  <2>1. /\ UNCHANGED <<store, op, test, iter, err, res, rs>> /\ main = "signal"
        /\ pc[c] = "select" /\ pc' = [pc EXCEPT ![c] = "result"]
        /\ main' = "signal" \/ (main' = "collect" /\ next' = 0)
    BY <1>4 DEF Signal, GoTo, kvVars, locals
  <2>2. pc'[c] = "result" /\ \A d \in Clnt : d # c => pc'[d] = pc[d]
    BY <1>1, <2>1 DEF TypeOK
  <2>3. op[c].phase = "returned"
    BY <1>1, <2>1 DEF SoundInv
  <2>4. ASSUME NEW d \in Clnt PROVE CollectInv(d)'
    <3>1. ~(d < 0)
      BY Clients
    <3>2. QED
      BY <1>1, <2>1, <2>2, <3>1 DEF CollectInv
  <2>5. CheckInv'
    BY <1>1, <2>1 DEF CheckInv
  <2>6. QED
    BY <2>1, <2>2, <2>3, <2>4, <2>5, MainCountLemma
<1>5. ASSUME NEW c \in Clnt, Collect(c) PROVE CountInv'
  <2>1. /\ UNCHANGED <<store, test, iter, err, res>> /\ main = "collect" /\ next = c
        /\ pc[c] = "result" /\ pc' = [pc EXCEPT ![c] = "gone"] /\ rs' = [rs EXCEPT ![c] = res[c]]
        /\ next' = c + 1
        /\ \/ UNCHANGED <<main, op>>
           \/ /\ ~(c + 1 < NClnt) /\ main' = "check"
              /\ op' = [op EXCEPT ![Main] = NewOp("get", SharedKey, NoValue, 0)]
    BY <1>5 DEF Collect, GoTo, kvVars, locals, InvokeGet
  <2>2. pc'[c] = "gone" /\ \A d \in Clnt : d # c => pc'[d] = pc[d] /\ rs'[d] = rs[d]
    BY <1>1, <2>1 DEF TypeOK
  <2>3. rs'[c] = res[c] /\ test \in Spawned
    BY <1>1, <2>1 DEF TypeOK, CheckInv
  <2>4. op[c].phase = "returned"
    BY <1>1, <2>1, <2>3 DEF RoundInv
  <2>5. \A d \in Clnt : op'[d] = op[d]
    BY <1>1, <2>1, Clients DEF TypeOK, KVTypeOK
  <2>6. ASSUME NEW d \in Clnt PROVE CollectInv(d)'
    <3>1. c \in Nat /\ d \in Nat /\ d < NClnt /\ NClnt \in Nat
      BY ClientAssumption DEF Clnt
    <3>2. d < c + 1 => d < c \/ d = c
      BY <3>1
    <3>3. d < c => pc[d] = "gone"
      BY <1>1, <2>1, <2>3 DEF CollectInv
    <3>4. main' = "check" => d < c + 1
      BY <2>1, <3>1
    <3>5. pc'[d] = "gone" => rs'[d] = res[d]
      BY <1>1, <2>2, <2>3 DEF CollectInv
    <3>6. d < c + 1 => pc'[d] = "gone"
      BY <2>2, <3>2, <3>3
    <3>7. QED
      BY <2>1, <3>4, <3>5, <3>6 DEF CollectInv
  <2>7. CheckInv'
    <3>1. CASE UNCHANGED <<main, op>>
      BY <1>1, <2>1, <3>1 DEF CheckInv
    <3>2. CASE main' = "check" /\ op' = [op EXCEPT ![Main] = NewOp("get", SharedKey, NoValue, 0)]
      <4>1. op'[Main] = NewOp("get", SharedKey, NoValue, 0)
        BY <1>1, <3>2, Clients DEF TypeOK, KVTypeOK
      <4>2. op'[Main].phase = "pending"
        BY <4>1 DEF NewOp
      <4>3. QED
        BY <2>1, <2>3, <3>2, <4>2 DEF CheckInv
    <3>3. QED
      BY <2>1, <3>1, <3>2
  <2>8. QED
    BY <2>1, <2>2, <2>4, <2>5, <2>6, <2>7, MainCountLemma
<1>6. QED
  BY <1>2, <1>3, <1>4, <1>5

-----------------------------------------------------------------------------
(* The operations on the store.                                            *)

\* A client whose call is under way is in the middle of a round.
LEMMA CallingLemma ==
    ASSUME IndInv, PassInv, CountInv, NEW c \in Clnt, test \in Spawned, op[c].phase # "returned"
    PROVE  /\ pc[c] \in {"putting", "getting"} /\ main # "check"
           /\ op[c].kind = IF pc[c] = "putting" THEN "put" ELSE "get"
           /\ op[c].key = SharedKey
<1>1. /\ ClientType(c) /\ LoopInv(c) /\ SoundInv(c) /\ RoundInv(c) /\ CollectInv(c)
  BY TypeParts DEF IndInv, PassInv, CountInv
<1>2. pc[c] \in {"putting", "getting"}
  BY <1>1 DEF ClientType, SoundInv, RoundInv
<1>3. QED
  BY <1>1, <1>2 DEF CollectInv, LoopInv, TestKey

\* A Put that may still be executed has not been counted.
LEMMA UntoldLemma ==
    ASSUME TypeOK, NEW c \in Clnt, RoundInv(c), test \in Spawned, pc[c] = "putting",
           op[c].kind = "put", op[c].phase # "returned", ~Performed(c)
    PROVE  ~Told(c)
<1>1. op[c].phase \in {"pending", "executed", "returned"}
  BY TypeParts DEF ClientType, Op
<1>2. QED
  BY <1>1 DEF Told, Performed, RoundInv

\* An execution that leaves the store alone: a Get, or a Put of an old version.
LEMMA TellCount ==
    ASSUME IndInv, PassInv, CountInv, NEW c \in Clnt, ExecuteOp(c), test \in Spawned,
           store' = store
    PROVE  CountInv'
<1>1. /\ TypeOK /\ ListInv /\ EntriesInv(c) /\ FreshInv(c) /\ RoundInv(c) /\ IsStore(store)
      /\ SoundInv(c) /\ c \in Client /\ Main \in Client /\ Main # c
  BY Clients DEF IndInv, PassInv, CountInv, TypeOK, KVTypeOK
<1>2. /\ Execute(c) /\ op[c].phase # "returned" /\ ~Performed(c)
      /\ UNCHANGED <<test, pc, iter, err, res, main, next, rs>>
  BY DEF ExecuteOp, Execute, locals, mainVars
<1>3. /\ SameCall(c) /\ op'[c].phase = "executed"
      /\ \A d \in Client : d # c => op'[d] = op[d]
      /\ \/ op[c].kind = "get" /\ op'[c].res = Get(store, op[c].key)
         \/ /\ op[c].kind = "put" /\ op'[c].res.err = PutErr(store, op[c].key, op[c].version)
            /\ store' = PutStore(store, op[c].key, op[c].value, op[c].version)
  BY <1>1, <1>2, Executed
<1>4. /\ pc[c] \in {"putting", "getting"} /\ op[c].key = SharedKey
      /\ op[c].kind = IF pc[c] = "putting" THEN "put" ELSE "get"
  BY <1>2, CallingLemma
<1>5. Alone(c)
  BY <1>1, <1>2, <1>3, Clients DEF Alone
<1>6. CASE pc[c] = "getting"
  <2>1. op'[c].res = Get(store, SharedKey) /\ SharedKey \in DOMAIN store
    BY <1>1, <1>3, <1>4, <1>6 DEF SoundInv
  <2>2. /\ op'[c].res.err = "OK" /\ op'[c].res.version = store[SharedKey].version
        /\ op'[c].res.value = store[SharedKey].value
    BY <1>1, <2>1, GetLemma, TestKeyAssumption
  <2>3. store[SharedKey].version \in Nat
    BY <1>1, <2>1 DEF IsStore, Entry, Version
  <2>4. Told(c)' <=> Told(c)
    BY <1>2, <1>6 DEF Told
  <2>5. Counted(c)' = Counted(c) /\ EntriesInv(c)'
    BY <1>1, <1>2, <1>6, <2>4 DEF Counted, EntriesInv, Seen
  <2>6. FreshInv(c)'
    BY <1>2, <1>6, <2>2, <2>3 DEF FreshInv
  <2>7. RoundInv(c)'
    BY <1>1, <1>2, <1>6, <2>2 DEF RoundInv
  <2>8. QED
    BY <1>2, <1>5, <1>6, <2>5, <2>6, <2>7, LocalCount
<1>7. CASE pc[c] = "putting"
  <2>1. /\ op[c].kind = "put" /\ op'[c].res.err = PutErr(store, SharedKey, op[c].version)
        /\ store' = PutStore(store, SharedKey, op[c].value, op[c].version)
    BY <1>3, <1>4, <1>7
  <2>2. op'[c].res.err \notin {"OK", "ErrMaybe"}
    <3>1. PutErr(store, SharedKey, op[c].version) # "ErrMaybe"
      BY DEF PutErr
    <3>2. ASSUME PutErr(store, SharedKey, op[c].version) = "OK" PROVE FALSE
      <4>1. /\ op[c].value \in Value /\ op[c].version \in Version
        BY <1>1, TypeParts DEF ClientType
      <4>2. Written(store, store', SharedKey, op[c].value, op[c].version)
        BY <1>1, <2>1, <3>2, <4>1, PutLemma, TestKeyAssumption
      <4>3. CurrentVersion(store', SharedKey) = op[c].version + 1 /\ op[c].version = CurrentVersion(store, SharedKey)
        BY <4>2 DEF Written, CurrentVersion
      <4>4. QED
        BY <4>1, <4>3 DEF Version
    <3>3. QED
      BY <2>1, <3>1, <3>2
  <2>3. ~Told(c) /\ ~Told(c)'
    <3>1. ~Told(c)
      BY <1>1, <1>2, <1>7, <2>1, UntoldLemma
    <3>2. QED
      BY <1>2, <1>7, <2>2, <3>1 DEF Told
  <2>4. Counted(c)' = Counted(c) /\ EntriesInv(c)'
    BY <1>1, <1>2, <2>2, <2>3 DEF Counted, EntriesInv, Seen
  <2>5. FreshInv(c)'
    BY <1>1, <1>2, <1>3, <1>7 DEF FreshInv, SameCall
  <2>6. RoundInv(c)'
    BY <1>1, <1>2, <1>7, <2>2 DEF RoundInv
  <2>7. QED
    BY <1>2, <1>5, <1>7, <2>4, <2>5, <2>6, LocalCount
<1>8. QED
  BY <1>4, <1>6, <1>7

\* A Put that is performed, in put: the version and what c will count go up.
LEMMA PerformPut ==
    ASSUME IndInv, IndInv', PassInv, CountInv, NEW c \in Clnt, ExecuteOp(c), test = "put",
           op[c].kind = "put", op'[c].res.err = "OK",
           Written(store, store', SharedKey, op[c].value, op[c].version)
    PROVE  CountInv'
<1>1. /\ TypeOK /\ TypeOK' /\ VersionsInv /\ CheckInv /\ test \in Spawned
      /\ \A d \in Clnt : RoundInv(d) /\ CollectInv(d) /\ d \in Client
  BY Clients DEF IndInv, CountInv, Spawned
<1>2. /\ Execute(c) /\ op[c].phase # "returned" /\ ~Performed(c)
      /\ UNCHANGED <<test, pc, iter, err, res, main, next, rs>>
  BY DEF ExecuteOp, Execute, locals, mainVars
<1>3. op'[c].phase = "executed" /\ \A d \in Client : d # c => op'[d] = op[d]
  BY <1>1, <1>2, Executed
<1>4. pc[c] = "putting" /\ main # "check"
  BY <1>1, <1>2, CallingLemma
<1>5. ~Told(c) /\ Told(c)'
  BY <1>1, <1>2, <1>3, <1>4, UntoldLemma DEF Told
<1>6. Counted(c)' = Counted(c) + 1
  BY <1>1, <1>2, <1>5, CountedType DEF Counted
<1>7. ASSUME NEW d \in Clnt, d # c PROVE Counted(d)' = Counted(d) /\ RoundInv(d)'
  BY <1>1, <1>2, <1>3, <1>7, OtherCount
<1>8. /\ CurrentVersion(store', SharedKey) = CurrentVersion(store, SharedKey) + 1
      /\ CurrentVersion(store, SharedKey) \in Nat
  <2>1. op[c].version \in Nat
    BY <1>1, TypeParts DEF ClientType, Version
  <2>2. QED
    BY <2>1 DEF Written, CurrentVersion
<1>9. VersionsInv'
  BY <1>1, <1>2, <1>6, <1>7, <1>8, MoreVersions
<1>10. RoundInv(c)'
  BY <1>1, <1>2, <1>4 DEF RoundInv
<1>11. CheckInv' /\ \A d \in Clnt : CollectInv(d)'
  BY <1>1, <1>2, <1>4 DEF CheckInv, CollectInv
<1>12. OrderInv' /\ \A d \in Clnt : EntriesInv(d)' /\ FreshInv(d)'
  BY <1>2 DEF OrderInv, EntriesInv, FreshInv
<1>13. QED
  BY <1>7, <1>9, <1>10, <1>11, <1>12 DEF CountInv

\* A Put that is performed, in append: the list has the entry of c as its last.
LEMMA PerformAppend ==
    ASSUME AnyList, IndInv, PassInv, CountInv, NEW c \in Clnt, ExecuteOp(c), test = "append",
           op[c].kind = "put", op'[c].res.err = "OK",
           Written(store, store', SharedKey, op[c].value, op[c].version)
    PROVE  CountInv'
<1>1. /\ TypeOK /\ ListInv /\ OrderInv /\ CheckInv /\ test \in Spawned
      /\ \A d \in Clnt : /\ EntriesInv(d) /\ FreshInv(d) /\ RoundInv(d) /\ CollectInv(d)
                         /\ d \in Client
  BY Clients DEF IndInv, PassInv, CountInv, Spawned
<1>2. /\ Execute(c) /\ op[c].phase # "returned" /\ ~Performed(c)
      /\ UNCHANGED <<test, pc, iter, err, res, main, next, rs>>
  BY DEF ExecuteOp, Execute, locals, mainVars
<1>3. /\ SameCall(c) /\ op'[c].phase = "executed" /\ \A d \in Client : d # c => op'[d] = op[d]
  BY <1>1, <1>2, Executed
<1>4. pc[c] = "putting" /\ main # "check"
  BY <1>1, <1>2, CallingLemma
<1>5. ~Told(c) /\ Told(c)'
  BY <1>1, <1>2, <1>3, <1>4, UntoldLemma DEF Told
<1> DEFINE list == store[SharedKey].value
           version == store[SharedKey].version
           n == iter[c]
<1>6. /\ SharedKey \in DOMAIN store /\ version \in Nat /\ list \in Seq(Clnt \X Nat)
      /\ Seen \in Acc
  BY <1>1, ListType
<1>7. n \in Nat /\ res[c].Nmaybe \in Nat
  BY <1>1, CountedType, TypeParts, IterAssumption DEF ClientType
<1>8. /\ op[c].version = version
      /\ store'[SharedKey] = [value |-> op[c].value, version |-> version + 1]
  BY <1>6 DEF Written, CurrentVersion
<1>9. op[c].value = Append(list, <<c, n>>)
  BY <1>1, <1>4, <1>8 DEF FreshInv
<1>10. /\ store'[SharedKey].version = version + 1
       /\ store'[SharedKey].value = Append(list, <<c, n>>)
  BY <1>8, <1>9
<1>11. Len(store'[SharedKey].value) = Len(list) + 1
  BY <1>6, <1>7, <1>10
<1>12. Seen.expect[c] <= n
  <2>1. Seen.expect[c] \in Nat
    BY <1>6 DEF Acc
  <2>2. ~(Seen.expect[c] > n)
    BY <1>1, <1>5 DEF EntriesInv
  <2>3. QED
    BY <1>7, <2>1, <2>2
<1>13. Seen' = See(Seen, <<c, n>>)
  <2>1. <<c, n>> \in Clnt \X Nat
    BY <1>7
  <2>2. AppendsSeen(Append(list, <<c, n>>)) = See(AppendsSeen(list), <<c, n>>)
    BY <1>6, <2>1, SeenAppend
  <2>3. QED
    BY <1>10, <2>2 DEF Seen
<1>14. /\ Seen'.ok = Seen.ok /\ Seen'.expect[c] = n + 1
       /\ Seen'.skipped[c] = Seen.skipped[c] + (n - Seen.expect[c])
       /\ \A d \in Clnt : d # c => /\ Seen'.expect[d] = Seen.expect[d]
                                   /\ Seen'.skipped[d] = Seen.skipped[d]
  BY <1>6, <1>7, <1>12, <1>13, SeeLemma
<1>15. OrderInv'
  <2>1. Seen.ok /\ Len(list) + 1 = version /\ Len(list) \in Nat
    BY <1>1, <1>6 DEF OrderInv
  <2>2. QED
    BY <1>10, <1>11, <1>14, <2>1 DEF OrderInv
<1>16. EntriesInv(c)'
  <2>1. Seen.skipped[c] + (n - Seen.expect[c]) <= res[c].Nmaybe
    BY <1>1, <1>12 DEF EntriesInv
  <2>2. n + 1 > n /\ ~(n + 1 <= n)
    BY <1>7
  <2>3. QED
    BY <1>2, <1>5, <1>14, <2>1, <2>2 DEF EntriesInv
<1>17. FreshInv(c)'
  <2>1. ~(version = version + 1) /\ version <= version + 1
    BY <1>6
  <2>2. QED
    BY <1>2, <1>3, <1>4, <1>8, <1>10, <2>1 DEF FreshInv, SameCall
<1>18. RoundInv(c)'
  BY <1>1, <1>2, <1>4 DEF RoundInv
<1>19. ASSUME NEW d \in Clnt, d # c PROVE EntriesInv(d)' /\ FreshInv(d)' /\ RoundInv(d)'
  <2>1. op'[d] = op[d] /\ EntriesInv(d) /\ FreshInv(d) /\ RoundInv(d)
    BY <1>1, <1>3, <1>19
  <2>2. (Told(d)' <=> Told(d)) /\ RoundInv(d)'
    BY <1>2, <2>1, OtherCount
  <2>3. EntriesInv(d)'
    BY <1>2, <1>14, <1>19, <2>1, <2>2 DEF EntriesInv
  <2>4. op[d].version \in Nat /\ op[d].res.version \in Nat
    BY <1>1, TypeParts DEF ClientType, Version, Reply, NoReply
  <2>5. ASSUME NEW v \in Nat, v <= version PROVE v <= version + 1 /\ v # version + 1
    BY <1>6, <2>5
  <2>6. FreshInv(d)'
    BY <1>2, <1>10, <2>1, <2>4, <2>5 DEF FreshInv
  <2>7. QED
    BY <2>2, <2>3, <2>6
<1>20. CheckInv' /\ VersionsInv' /\ \A d \in Clnt : CollectInv(d)'
  BY <1>1, <1>2, <1>4 DEF CheckInv, CollectInv, VersionsInv
<1>21. QED
  BY <1>15, <1>16, <1>17, <1>18, <1>19, <1>20 DEF CountInv

\* The check's own Get.
LEMMA CheckReads ==
    ASSUME IndInv, PassInv, CountInv, ExecuteOp(Main)
    PROVE  CountInv'
<1>1. /\ TypeOK /\ ListInv /\ CheckInv /\ IsStore(store) /\ Main \in Client
      /\ \A d \in Clnt : CollectInv(d) /\ d \in Client /\ d # Main
  BY Clients DEF IndInv, PassInv, CountInv, TypeOK, KVTypeOK
<1>2. Execute(Main) /\ UNCHANGED <<test, pc, iter, err, res, main, next, rs>>
  BY DEF ExecuteOp, locals, mainVars
<1>3. /\ op[Main].kind = "get" /\ store' = store /\ op'[Main].res = Get(store, op[Main].key)
      /\ \A d \in Clnt : op'[d] = op[d]
  BY <1>1, <1>2, Executed DEF ListInv
<1>4. CheckInv'
  <2>1. ASSUME main = "check" PROVE /\ op'[Main].res.version = store[SharedKey].version
                                    /\ op'[Main].res.value = store[SharedKey].value
    <3>1. op[Main].key = SharedKey /\ SharedKey \in DOMAIN store
      BY <1>1, <2>1 DEF ListInv
    <3>2. QED
      BY <1>1, <1>3, <3>1, GetLemma, TestKeyAssumption
  <2>2. QED
    BY <1>1, <1>2, <1>3, <2>1 DEF CheckInv
<1>5. \A d \in Clnt : CollectInv(d)'
  BY <1>1, <1>2 DEF CollectInv
<1>6. QED
  BY <1>2, <1>3, <1>4, <1>5, MainCountLemma

\* An execution.
LEMMA ExecuteCount ==
    ASSUME AnyList, IndInv, IndInv', PassInv, CountInv, NEW c \in Client, ExecuteOp(c)
    PROVE  CountInv'
<1>1. TypeOK /\ IsStore(store) /\ UNCHANGED <<test, main>> /\ Execute(c)
  BY DEF IndInv, TypeOK, KVTypeOK, ExecuteOp, mainVars
<1>2. CASE test \notin Spawned
  BY <1>1, <1>2, NotSpawned
<1>3. CASE c = Main
  BY <1>3, CheckReads
<1>4. CASE c \in Clnt /\ test \in Spawned /\ store' = store
  BY <1>4, TellCount
<1>5. CASE c \in Clnt /\ test \in Spawned /\ store' # store
  <2>1. /\ op[c].kind = "put" /\ op'[c].res.err = PutErr(store, op[c].key, op[c].version)
        /\ store' = PutStore(store, op[c].key, op[c].value, op[c].version)
    BY <1>1, <1>5, Executed
  <2>2. op[c].key = SharedKey /\ op[c].value \in Value /\ op[c].version \in Version
    BY <1>1, <1>5, CallingLemma, TypeParts DEF Execute, ClientType
  <2>3. PutErr(store, SharedKey, op[c].version) = "OK"
    BY <1>1, <1>5, <2>1, <2>2, PutLemma, TestKeyAssumption
  <2>4. Written(store, store', SharedKey, op[c].value, op[c].version)
    BY <1>1, <2>1, <2>2, <2>3, PutLemma, TestKeyAssumption
  <2>5. test = "put" \/ test = "append"
    BY <1>5 DEF Spawned
  <2>6. QED
    BY <1>5, <2>1, <2>2, <2>3, <2>4, <2>5, PerformPut, PerformAppend
<1>6. QED
  BY <1>2, <1>3, <1>4, <1>5, ClientAssumption

\* Only an unreliable network makes a Put return ErrMaybe.
LEMMA ReturnedErr ==
    ASSUME TypeOK, NEW c \in Client, Return(c), op'[c].res.err = "ErrMaybe"
    PROVE  op[c].res.err = "ErrMaybe" \/ Unreliable
<1>1. /\ op \in [Client -> Op] /\ op[c] \in Op /\ op[c].res \in Reply \cup {NoReply}
  BY DEF TypeOK, KVTypeOK, Op
<1>2. PICK e \in Reported(c) : op' = [op EXCEPT ![c].phase = "returned", ![c].res.err = e]
  BY DEF Return
<1> DEFINE r == [op[c].res EXCEPT !.err = e]
           new == [op[c] EXCEPT !.phase = "returned", !.res = r]
<1>3. r.err = e
  BY <1>1 DEF Reply, NoReply
<1>4. op' = [op EXCEPT ![c] = new]
  BY <1>1, <1>2
<1> HIDE DEF r
<1>5. new.res = r
  BY <1>1 DEF Op
<1> HIDE DEF new
<1>6. op'[c] = new
  BY <1>1, <1>4
<1>7. e = "ErrMaybe"
  BY <1>3, <1>5, <1>6
<1>8. QED
  BY <1>2, <1>7 DEF Reported

\* The return of a client's call: a Put that did nothing may be counted.
LEMMA ReturnCount ==
    ASSUME IndInv, IndInv', PassInv, CountInv, NEW c \in Client, ReturnOp(c)
    PROVE  CountInv'
<1>1. /\ TypeOK /\ TypeOK' /\ ListInv /\ VersionsInv /\ OrderInv /\ CheckInv
      /\ \A d \in Clnt : /\ EntriesInv(d) /\ FreshInv(d) /\ RoundInv(d) /\ CollectInv(d)
                         /\ d \in Client /\ d # Main
  BY Clients DEF IndInv, PassInv, CountInv
<1>2. /\ Return(c) /\ op[c].phase = "executed"
      /\ UNCHANGED <<test, pc, iter, err, res, main, next, rs>>
  BY DEF ReturnOp, Return, locals, mainVars
<1>3. /\ SameCall(c) /\ op'[c].phase = "returned" /\ store' = store
      /\ \A d \in Client : d # c => op'[d] = op[d]
      /\ op'[c].res = op[c].res \/ (op[c].kind = "put" /\ op'[c].res.err = "ErrMaybe")
  BY <1>1, <1>2, Returned
<1>4. op'[c].res.err = "ErrMaybe" => op[c].res.err = "ErrMaybe" \/ Unreliable
  BY <1>1, <1>2, ReturnedErr
<1>5. CASE test \notin Spawned
  BY <1>2, <1>5, NotSpawned
<1>6. \A d \in Clnt : CollectInv(d)'
  BY <1>1, <1>2 DEF CollectInv
<1>7. CASE c = Main
  <2>1. op'[Main].res = op[Main].res /\ \A d \in Clnt : op'[d] = op[d]
    BY <1>1, <1>3, <1>7 DEF ListInv
  <2>2. CheckInv'
    BY <1>1, <1>2, <1>3, <1>7, <2>1 DEF CheckInv
  <2>3. QED
    BY <1>2, <1>3, <1>6, <2>1, <2>2, MainCountLemma
<1>8. CASE c \in Clnt /\ test \in Spawned
  <2>1. /\ pc[c] \in {"putting", "getting"} /\ main # "check"
        /\ op[c].kind = IF pc[c] = "putting" THEN "put" ELSE "get"
    BY <1>2, <1>8, CallingLemma
  <2>2. EntriesInv(c) /\ FreshInv(c) /\ RoundInv(c) /\ op[c].res.err # "ErrMaybe"
    BY <1>1, <1>2, <1>8 DEF RoundInv
  <2>3. Told(c) => Told(c)'
    BY <1>2, <1>3, <2>1, <2>2 DEF Told
  <2>4. ASSUME Told(c)', ~Told(c) PROVE Unreliable
    BY <1>2, <1>3, <1>4, <2>1, <2>2, <2>4 DEF Told
  <2>5. ASSUME NEW d \in Clnt, d # c
        PROVE  Counted(d)' = Counted(d) /\ EntriesInv(d)' /\ FreshInv(d)' /\ RoundInv(d)'
    BY <1>1, <1>2, <1>3, <2>5, OtherCount
  <2>6. VersionsInv'
    <3>1. CASE Told(c)' <=> Told(c)
      <4>1. Counted(c)' = Counted(c)
        BY <1>2, <3>1 DEF Counted
      <4>2. \A d \in Clnt : Counted(d)' = Counted(d)
        BY <2>5, <4>1
      <4>3. QED
        BY <1>1, <1>2, <1>3, <4>2, SameVersions
    <3>2. CASE Told(c)' /\ ~Told(c)
      <4>1. Counted(c)' = Counted(c) + 1
        BY <1>1, <1>2, <1>8, <3>2, CountedType DEF Counted
      <4>2. CurrentVersion(store, SharedKey) \in Nat
        BY <1>1 DEF CurrentVersion, TypeOK, KVTypeOK, IsStore, Entry, Version
      <4>3. QED
        BY <1>1, <1>2, <1>3, <1>8, <2>4, <2>5, <3>2, <4>1, <4>2, MoreVersions
    <3>3. QED
      BY <2>3, <3>1, <3>2
  <2>7. OrderInv' /\ CheckInv'
    BY <1>1, <1>2, <1>3, <2>1 DEF OrderInv, CheckInv, Seen
  <2>8. EntriesInv(c)'
    <3>1. op'[c].res.err = "OK" => op[c].res.err = "OK"
      BY <1>3
    <3>2. Seen' = Seen
      BY <1>3 DEF Seen
    <3>3. QED
      BY <1>2, <2>2, <2>3, <3>1, <3>2 DEF EntriesInv
  <2>9. FreshInv(c)'
    BY <1>2, <1>3, <2>1, <2>2 DEF FreshInv, SameCall
  <2>10. RoundInv(c)'
    BY <1>2, <1>3, <1>4, <2>1, <2>2 DEF RoundInv
  <2>11. QED
    BY <1>6, <2>5, <2>6, <2>7, <2>8, <2>9, <2>10 DEF CountInv
<1>9. QED
  BY <1>5, <1>7, <1>8, ClientAssumption

\* At first nobody has counted anything, and append's list is empty.
LEMMA CountInit ==
    ASSUME AnyList, Init
    PROVE  CountInv
<1>1. TypeOK
  BY IndInit DEF IndInv
<1> DEFINE o == [NewOp("none", NoKey, NoValue, 0) EXCEPT !.phase = "returned"]
<1>2. o.phase = "returned" /\ o.res = NoReply
  BY DEF NewOp
<1>3. op = [c \in Client |-> o]
  BY DEF Init
<1> HIDE DEF o
<1>4. /\ main = "sleep"
      /\ \A c \in Clnt : /\ op[c].phase = "returned" /\ op[c].res.err = "None"
                         /\ pc[c] = "select" /\ iter[c] = 0 /\ err[c] = "OK"
                         /\ res[c].Nok = 0 /\ res[c].Nmaybe = 0
  <2>1. \A c \in Clnt : op[c].phase = "returned" /\ op[c].res.err = "None"
    BY <1>2, <1>3, Clients DEF NoReply
  <2>2. \A c \in Clnt : res[c].Nok = 0 /\ res[c].Nmaybe = 0
    BY DEF Init, NoRes
  <2>3. main = "sleep" /\ \A c \in Clnt : pc[c] = "select" /\ iter[c] = 0 /\ err[c] = "OK"
    BY DEF Init
  <2>4. QED
    BY <2>1, <2>2, <2>3
<1>5. \A c \in Clnt : ~Told(c) /\ Counted(c) = 0
  BY <1>4 DEF Told, Counted
<1>6. \A c \in Clnt : RoundInv(c) /\ CollectInv(c) /\ FreshInv(c)
  BY <1>4 DEF RoundInv, CollectInv, FreshInv
<1>7. CheckInv
  BY <1>4 DEF CheckInv
<1>8. VersionsInv
  <2>1. ASSUME test = "put" PROVE CurrentVersion(store, SharedKey) = 0
    BY <2>1 DEF Init, MakeKVServer, CurrentVersion
  <2>2. [c \in Clnt |-> Counted(c)] = [c \in Clnt |-> 0]
    BY <1>5
  <2>3. Total([c \in Clnt |-> Counted(c)]) = 0
    BY <2>2, TotalZero
  <2>4. QED
    BY <2>1, <2>3 DEF VersionsInv
<1>9. ASSUME test = "append" PROVE OrderInv /\ \A c \in Clnt : EntriesInv(c)
  <2>1. store[SharedKey].value = <<>> /\ store[SharedKey].version = 1
    BY <1>9 DEF Init
  <2>2. Seen = NoneSeen
    BY <2>1, SeenEmpty DEF Seen
  <2>3. Seen.ok /\ \A c \in Clnt : Seen.expect[c] = 0 /\ Seen.skipped[c] = 0
    BY <2>2 DEF NoneSeen
  <2>4. Len(<<>>) + 1 = 1
    OBVIOUS
  <2>5. QED
    BY <1>4, <2>1, <2>3, <2>4 DEF OrderInv, EntriesInv
<1>10. OrderInv /\ \A c \in Clnt : EntriesInv(c)
  BY <1>9 DEF OrderInv, EntriesInv
<1>11. QED
  BY <1>6, <1>7, <1>8, <1>10 DEF CountInv

\* Every step keeps CountInv.
LEMMA CountStep ==
    ASSUME AnyList, IndInv, IndInv', PassInv, PassInv', CountInv, [Next]_vars
    PROVE  CountInv'
<1>1. CASE UNCHANGED vars
  <2>1. UNCHANGED <<store, op, test, pc, iter, err, res, main, next, rs>>
    BY <1>1 DEF vars, kvVars, locals, mainVars
  <2>2. CheckInv' /\ \A d \in Clnt : CollectInv(d)'
    BY <2>1 DEF CountInv, CheckInv, CollectInv
  <2>3. QED
    BY <2>1, <2>2, MainCountLemma
<1>2. CASE Next
  BY <1>2, ClientCount, MainCount, ExecuteCount, ReturnCount DEF Next
<1>3. QED
  BY <1>1, <1>2

\* No check of the tests fails on a correct store, for any number of clients and
\* rounds, however they interleave and whatever Puts return ErrMaybe: the sums
\* that CheckPutConcurrent compares with the version add up, and the list that
\* CheckAppends goes through has the entries of each client in order, with no
\* more missing than the client counted as maybe.
THEOREM TestsPass ==
    ASSUME AnyList, NoJson, OwnKeys
    PROVE  Spec => []ChecksPass
<1>1. Init => IndInv /\ PassInv /\ CountInv
  BY IndInit, PassInit, CountInit
<1>2. (IndInv /\ PassInv /\ CountInv) /\ [Next]_vars => (IndInv /\ PassInv /\ CountInv)'
  <2>1. SUFFICES ASSUME IndInv, PassInv, CountInv, [Next]_vars
                 PROVE  (IndInv /\ PassInv /\ CountInv)'
    OBVIOUS
  <2>2. IndInv' /\ PassInv'
    BY <2>1, IndStep, PassStep
  <2>3. QED
    BY <2>1, <2>2, CountStep
<1>3. PassInv /\ CountInv => ChecksPass
  BY DEF PassInv, ListInv, CountInv, CheckInv, ChecksPass
<1>4. QED
  BY <1>1, <1>2, <1>3, PTL DEF Spec
=============================================================================
