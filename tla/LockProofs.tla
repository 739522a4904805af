----------------------------- MODULE LockProofs -----------------------------
(***************************************************************************)
(* Proofs about Lock, for any set of clients, any values and any number of *)
(* acquisitions.  The clerk enters only through two lemmas: what executing *)
(* a Put does to the entry of its key, and what a Get answers.             *)
(***************************************************************************)
EXTENDS Lock, TLAPS

\* KVServer.Put writes the entry iff the version matches, and then the entry
\* has the new value and the next version; otherwise the map stays as it was.
LEMMA PutLemma ==
    ASSUME NEW s, IsStore(s), NEW key \in Key, NEW value \in Value, NEW version \in Version
    PROVE  LET e == PutErr(s, key, version)
               t == PutStore(s, key, value, version)
           IN  /\ e \in {"OK", "ErrNoKey", "ErrVersion"}
               /\ IsStore(t)
               /\ DOMAIN s \subseteq DOMAIN t
               /\ e # "OK" => t = s
               /\ e = "OK" => /\ key \in DOMAIN t
                              /\ t[key].value = value
                              /\ t[key].version = version + 1
               /\ e = "OK" /\ key \in DOMAIN s => s[key].version = version
               /\ e = "OK" /\ key \notin DOMAIN s => version = 0
<1>1. CASE PutErr(s, key, version) # "OK"
  BY <1>1 DEF PutErr, PutStore
<1>2. CASE PutErr(s, key, version) = "OK" /\ key \in DOMAIN s
  <2>1. PutStore(s, key, value, version) = UpdateRecord(s, key, value)
    BY <1>2 DEF PutStore
  <2>2. s[key].version = version
    BY <1>2 DEF PutErr, CurrentVersion
  <2>3. s[key] \in Entry
    BY <1>2 DEF IsStore
  <2>4. [value |-> value, version |-> s[key].version + 1] \in Entry
    BY <2>2 DEF Entry, Version
  <2>5. QED
    BY <1>2, <2>1, <2>2, <2>3, <2>4 DEF UpdateRecord, IsStore
<1>3. CASE PutErr(s, key, version) = "OK" /\ key \notin DOMAIN s
  <2>1. PutStore(s, key, value, version) = AddRecord(s, key, value, version)
    BY <1>3 DEF PutStore
  <2>2. version = 0
    BY <1>3 DEF PutErr, CurrentVersion
  <2>3. [value |-> value, version |-> version + 1] \in Entry
    BY <2>2 DEF Entry, Version
  <2>4. QED
    BY <1>3, <2>1, <2>2, <2>3 DEF AddRecord, IsStore
<1>4. QED
  BY <1>1, <1>2, <1>3

\* KVServer.Get answers with the entry of the key, or ErrNoKey without one.
LEMMA GetLemma ==
    ASSUME NEW s, IsStore(s), NEW key \in Key
    PROVE  /\ Get(s, key) \in Reply
           /\ Get(s, key).err = "OK" <=> key \in DOMAIN s
           /\ key \in DOMAIN s => /\ Get(s, key).version = s[key].version
                                  /\ Get(s, key).value = s[key].value
<1>1. CASE key \in DOMAIN s
  <2>1. s[key] \in Entry
    BY <1>1 DEF IsStore
  <2>2. QED
    BY <1>1, <2>1 DEF Get, Reply, Err, Entry, Version
<1>2. CASE key \notin DOMAIN s
  BY <1>2, ValueAssumption DEF Get, Reply, Err, Version
<1>3. QED
  BY <1>1, <1>2

-----------------------------------------------------------------------------
(* Type correctness.                                                       *)

\* An operation that starts is well typed, and has no result yet.
LEMMA NewOpType ==
    ASSUME NEW kind \in {"none", "get", "put"}, NEW key \in Key,
           NEW value \in Value, NEW version \in Version
    PROVE  NewOp(kind, key, value, version) \in Op
BY DEF NewOp, Op, NoReply

\* The clerk's own steps keep the store and the operations well typed.
LEMMA ClerkType ==
    ASSUME KVTypeOK, NEW c \in Client, Execute(c) \/ Return(c)
    PROVE  KVTypeOK'
<1> USE DEF KVTypeOK
<1>1. op[c] \in Op
  OBVIOUS
<1>2. CASE Execute(c) /\ op[c].kind = "get"
  <2>1. Get(store, op[c].key) \in Reply
    BY <1>1, GetLemma DEF Op
  <2>2. QED
    BY <1>1, <1>2, <2>1 DEF Execute, Op
<1>3. CASE Execute(c) /\ op[c].kind = "put"
  <2> DEFINE e == PutErr(store, op[c].key, op[c].version)
  <2>1. e \in Err /\ IsStore(PutStore(store, op[c].key, op[c].value, op[c].version))
    BY <1>1, PutLemma DEF Op, Err
  <2>2. [op[c].res EXCEPT !.err = e] \in Reply
    BY <1>1, <2>1, ValueAssumption DEF Op, Reply, NoReply, Version
  <2>3. op' = [op EXCEPT ![c] = [op[c] EXCEPT !.phase = "executed",
                                              !.res = [op[c].res EXCEPT !.err = e]]]
    BY <1>1, <1>3 DEF Execute, Op
  <2>4. IsStore(store')
    BY <1>3, <2>1 DEF Execute
  <2>5. QED
    BY <1>1, <2>2, <2>3, <2>4 DEF Op
<1>4. CASE Return(c)
  <2>1. PICK err \in Reported(c) :
            op' = [op EXCEPT ![c].phase = "returned", ![c].res.err = err]
    BY <1>4 DEF Return
  <2>2. [op[c].res EXCEPT !.err = err] \in Reply \cup {NoReply}
    BY <1>1, ValueAssumption DEF Op, Reply, NoReply, Reported, Version, Err
  <2>3. op' = [op EXCEPT ![c] = [op[c] EXCEPT !.phase = "returned",
                                              !.res = [op[c].res EXCEPT !.err = err]]]
    BY <1>1, <2>1 DEF Op
  <2>4. QED
    BY <1>1, <1>4, <2>2, <2>3 DEF Op, Return
<1>5. QED
  BY <1>2, <1>3, <1>4 DEF Execute

\* The variables of the lock and of the clerks it calls keep their types.
THEOREM TypeCorrect == Spec => []TypeOK
<1>1. Init => TypeOK
  <2>1. NewOp("none", NoKey, NoValue, 0) \in Op
    BY NewOpType, KeyAssumption, ValueAssumption DEF NoKey, Version
  <2>2. IsStore(MakeKVServer)
    BY DEF IsStore, MakeKVServer
  <2>3. QED
    BY <2>1, <2>2, ValueAssumption DEF Init, KVInit, TypeOK, KVTypeOK, PC, Version, Op
<1>2. TypeOK /\ [Next]_lockVars => TypeOK'
  <2> SUFFICES ASSUME TypeOK, [Next]_lockVars
               PROVE  TypeOK'
    OBVIOUS
  <2>1. \A v \in Value, n \in Version : NewOp("put", LockKey, v, n) \in Op
    BY NewOpType, LockKeyAssumption
  <2>2. NewOp("get", LockKey, NoValue, 0) \in Op
    BY NewOpType, LockKeyAssumption, ValueAssumption DEF Version
  <2>3. \A c \in Client : op[c] \in Op /\ op[c].res.version \in Version
    BY DEF TypeOK, KVTypeOK, Op, Reply, NoReply, Version
  <2>4. NoValue \in Value /\ 0 \in Version
    BY ValueAssumption DEF Version
  <2> USE DEF TypeOK
  <2> DEFINE Local(c) == Acquire(c) \/ AcquireStep(c) \/ ReleaseStep(c)
  <2>5. CASE \E c \in Client : Local(c)
    <3>1. PICK c \in Client : Local(c)
      BY <2>5
    <3>2. pc' \in [Client -> PC]
      BY <3>1 DEF Acquire, AcquireStep, AcquireGot, CreateReturned, TakeReturned,
         ConfirmReturned, ReleaseStep, Release, ReleaseGot, CheckReturned, ReputReturned,
         CallGet, CallPutToken, GoTo, PC, Acquiring, Releasing
    <3>3. KVTypeOK'
      BY <2>1, <2>2, <2>3, <2>4, <3>1 DEF KVTypeOK, Acquire, AcquireStep, AcquireGot, CreateReturned, TakeReturned,
         ConfirmReturned, ReleaseStep, Release, ReleaseGot, CheckReturned, ReputReturned,
         CallGet, CallPutToken, InvokeGet, InvokePut, Token, kvVars
    <3>4. valWritten' \in [Client -> Value]
      BY <3>1 DEF Acquire, AcquireStep, AcquireGot, CreateReturned, TakeReturned,
         ConfirmReturned, ReleaseStep, Release, ReleaseGot, CheckReturned, ReputReturned,
         CallPutToken, Token
    <3>5. currVersion' \in [Client -> Version] /\ acquires' \in [Client -> Nat]
      BY <2>3, <3>1 DEF Acquire, AcquireStep, AcquireGot, CreateReturned, TakeReturned,
         ConfirmReturned, ReleaseStep, Release, ReleaseGot, CheckReturned, ReputReturned
    <3>6. QED
      BY <3>2, <3>3, <3>4, <3>5
  <2>6. CASE \E c \in Client : ClerkStep(c)
    BY <2>6, ClerkType DEF ClerkStep, lockLocals
  <2>7. CASE UNCHANGED lockVars
    BY <2>7 DEF lockVars, kvVars, lockLocals, KVTypeOK
  <2>8. QED
    BY <2>5, <2>6, <2>7 DEF Next
<1>3. QED
  BY <1>1, <1>2, PTL DEF Spec

-----------------------------------------------------------------------------
(* Mutual exclusion.                                                       *)

\* Two clients never own the lock, and the owner is the one whose value is
\* in the entry: valWritten identifies a client.
LEMMA OwnerUnique ==
    ASSUME LockInv, NEW c \in Client, NEW d \in Client, Owns(c), Owns(d)
    PROVE  c = d
BY DEF LockInv, DistinctTokens, Owns

\* A Put that KVServer accepts leaves every other owner its lock, and a value
\* the lock holds is only replaced by its owner's CheckAndReput.
LEMMA PutRespectsOwner ==
    ASSUME TypeOK, LockInv, NEW c \in Client, Execute(c), op[c].kind = "put",
           PutErr(store, op[c].key, op[c].version) = "OK"
    PROVE  /\ pc[c] \in {"create", "take", "relPut"}
           /\ Exists' /\ store'[LockKey].value = op[c].value
           /\ Exists => store'[LockKey].version = store[LockKey].version + 1
           /\ store'[LockKey].version = op[c].version + 1
           /\ pc[c] = "relPut" => Owns(c) /\ store[LockKey].version = currVersion[c]
           /\ pc[c] \in {"create", "take"} => \A d \in Client : ~Owns(d)
<1>1. op[c] \in Op /\ CallMatchesPC(c) /\ TakeIsOfFreeLock(c) /\ ReleaseInv(c)
  BY DEF TypeOK, KVTypeOK, LockInv, ClientInv
<1>2. IsStore(store) /\ op[c].key = LockKey /\ pc[c] \in PC
  BY <1>1 DEF TypeOK, KVTypeOK, CallMatchesPC
<1>3. /\ Exists' /\ store'[LockKey].value = op[c].value
      /\ store'[LockKey].version = op[c].version + 1
      /\ Exists => store[LockKey].version = op[c].version
      /\ ~Exists => op[c].version = 0
  BY <1>1, <1>2, PutLemma DEF Execute, Op, Exists
<1>4. pc[c] \in {"create", "take", "relPut"}
  BY <1>1, <1>2 DEF CallMatchesPC, Execute, PC, Acquiring, Releasing
<1>5. Exists => store[LockKey].version \in Nat \ {0} /\ store[LockKey] \in Entry
  BY <1>2 DEF IsStore, Entry, Exists, Version
<1>6. pc[c] = "relPut" => Owns(c) /\ store[LockKey].version = currVersion[c]
  <2>1. currVersion[c] \in Nat
    BY DEF TypeOK, Version
  <2>2. QED
    BY <1>1, <1>3, <1>5, <2>1 DEF ReleaseInv, CallMatchesPC, Owns
<1>7. pc[c] = "create" => ~Exists
  BY <1>1, <1>3, <1>5 DEF CallMatchesPC
<1>8. pc[c] = "take" => store[LockKey].value = NoValue
  BY <1>1, <1>3 DEF CallMatchesPC, TakeIsOfFreeLock, Execute, Performed
<1>9. QED
  BY <1>3, <1>4, <1>5, <1>6, <1>7, <1>8 DEF Owns

\* A step that leaves the store and d's own state alone keeps d's invariant.
LEMMA Bystander ==
    ASSUME NEW d \in Client, ClientInv(d), store' = store, op'[d] = op[d], pc'[d] = pc[d],
           valWritten'[d] = valWritten[d], currVersion'[d] = currVersion[d]
    PROVE  ClientInv(d)'
BY DEF ClientInv, CallMatchesPC, ReadIsPast, TakeIsOfFreeLock, OwnershipKnown, ReleaseInv,
       Owns, Exists

\* A client that has just called ck.Get knows nothing new.
LEMMA GetStarts ==
    ASSUME TypeOK, LockInv, NEW c \in Client, NEW l \in {"get", "confirm"}, CallGet(c, l),
           l = "confirm" => valWritten[c] # NoValue,
           UNCHANGED <<valWritten, currVersion>>
    PROVE  LockInv'
<1>1. DistinctTokens'
  BY DEF LockInv, DistinctTokens
<1>2. ASSUME NEW d \in Client, d # c PROVE ClientInv(d)'
  BY <1>2, Bystander DEF LockInv, TypeOK, KVTypeOK, CallGet, GoTo, InvokeGet
<1>3. ClientInv(c)'
  <2>1. pc'[c] = l /\ op'[c] = NewOp("get", LockKey, NoValue, 0)
    BY DEF TypeOK, KVTypeOK, CallGet, GoTo, InvokeGet
  <2>2. QED
    BY <2>1 DEF NewOp, NoReply, ClientInv, CallMatchesPC, ReadIsPast,
       TakeIsOfFreeLock, OwnershipKnown, ReleaseInv
<1>4. QED
  BY <1>1, <1>2, <1>3 DEF LockInv

\* A step after which a client rests.
LEMMA Rests ==
    ASSUME TypeOK, LockInv, NEW c \in Client, NEW l \in {"idle", "held"}, GoTo(c, l),
           op[c].phase = "returned", l = "held" => Owns(c),
           UNCHANGED <<store, op, valWritten, currVersion>>
    PROVE  LockInv'
<1>1. DistinctTokens'
  BY DEF LockInv, DistinctTokens
<1>2. ASSUME NEW d \in Client, d # c PROVE ClientInv(d)'
  BY <1>2, Bystander DEF LockInv, TypeOK, GoTo
<1>3. ClientInv(c)'
  <2>1. pc'[c] = l /\ ClientInv(c)
    BY DEF TypeOK, GoTo, LockInv
  <2>2. QED
    BY <2>1 DEF ClientInv, CallMatchesPC, ReadIsPast,
       TakeIsOfFreeLock, OwnershipKnown, ReleaseInv, Owns, Exists
<1>4. QED
  BY <1>1, <1>2, <1>3 DEF LockInv

\* A Put of a fresh value, at version 0 or over an entry read as free.
LEMMA PutTokenStarts ==
    ASSUME TypeOK, LockInv, NEW c \in Client, NEW l \in {"create", "take"}, NEW n \in Version,
           CallPutToken(c, n, l), l = "create" => n = 0,
           l = "take" => /\ Exists /\ n <= store[LockKey].version
                         /\ n = store[LockKey].version => store[LockKey].value = NoValue,
           UNCHANGED currVersion
    PROVE  LockInv'
<1>1. PICK t \in Token : /\ Fresh(t)
                         /\ valWritten' = [valWritten EXCEPT ![c] = t]
                         /\ InvokePut(c, LockKey, t, n)
  BY DEF CallPutToken
<1>2. /\ pc'[c] = l /\ op'[c] = NewOp("put", LockKey, t, n) /\ valWritten'[c] = t
      /\ store' = store /\ t # NoValue
  BY <1>1 DEF TypeOK, KVTypeOK, CallPutToken, GoTo, InvokePut, Token
<1>3. DistinctTokens'
  BY <1>1 DEF LockInv, DistinctTokens, Fresh, TypeOK
<1>4. ASSUME NEW d \in Client, d # c PROVE ClientInv(d)'
  BY <1>1, <1>4, Bystander DEF LockInv, TypeOK, KVTypeOK, CallPutToken, GoTo, InvokePut
<1>5. ClientInv(c)'
  BY <1>2 DEF NewOp, NoReply, ClientInv, CallMatchesPC, ReadIsPast,
     TakeIsOfFreeLock, OwnershipKnown, ReleaseInv, Exists
<1>6. QED
  BY <1>3, <1>4, <1>5 DEF LockInv

\* The steps of Acquire keep the invariant.
LEMMA AcquireInv ==
    ASSUME TypeOK, LockInv, NEW c \in Client, Acquire(c) \/ AcquireStep(c)
    PROVE  LockInv'
<1>1. /\ op[c] \in Op /\ op[c].res.version \in Version
      /\ CallMatchesPC(c) /\ ReadIsPast(c) /\ OwnershipKnown(c)
  BY DEF TypeOK, KVTypeOK, LockInv, ClientInv, Op, Reply, NoReply, Version
<1>2. CASE Acquire(c)
  BY <1>2, GetStarts DEF Acquire
<1>3. CASE AcquireGot(c)
  <2>1. CASE op[c].res.err = "ErrNoKey"
    BY <1>3, <2>1, PutTokenStarts DEF AcquireGot, Version
  <2>2. CASE op[c].res.err = "OK" /\ op[c].res.value = NoValue
    <3>1. CallPutToken(c, op[c].res.version, "take") /\ pc[c] = "get" /\ UNCHANGED currVersion
      BY <1>3, <2>2 DEF AcquireGot, Returned
    <3>2. QED
      BY <1>1, <2>2, <3>1, PutTokenStarts DEF CallMatchesPC, ReadIsPast
  <2>3. CASE op[c].res.err = "OK" /\ op[c].res.value # NoValue
    BY <1>3, <2>3, GetStarts DEF AcquireGot
  <2>4. QED
    BY <1>3, <2>1, <2>2, <2>3 DEF AcquireGot
<1>4. CASE CreateReturned(c)
  <2>1. CASE op[c].res.err = "OK"
    BY <1>1, <1>4, <2>1, Rests DEF CreateReturned, Returned, OwnershipKnown, kvVars
  <2>2. CASE op[c].res.err # "OK"
    BY <1>4, <2>2, GetStarts DEF CreateReturned
  <2>3. QED
    BY <2>1, <2>2
<1>5. CASE TakeReturned(c)
  <2>1. CASE op[c].res.err = "OK"
    BY <1>1, <1>5, <2>1, Rests DEF TakeReturned, Returned, OwnershipKnown, kvVars
  <2>2. CASE op[c].res.err = "ErrMaybe"
    BY <1>1, <1>5, <2>2, GetStarts DEF TakeReturned, Returned, CallMatchesPC
  <2>3. CASE op[c].res.err \notin {"OK", "ErrMaybe"}
    BY <1>5, <2>3, GetStarts DEF TakeReturned
  <2>4. QED
    BY <2>1, <2>2, <2>3
<1>6. CASE ConfirmReturned(c)
  <2>1. CASE op[c].res.err # "OK"
    BY <1>1, <1>6, <2>1, GetStarts DEF ConfirmReturned, Returned, CallMatchesPC
  <2>2. CASE op[c].res.err = "OK" /\ op[c].res.value = valWritten[c]
    BY <1>1, <1>6, <2>2, Rests DEF ConfirmReturned, Returned, OwnershipKnown, kvVars
  <2>3. CASE op[c].res.err = "OK" /\ op[c].res.value # valWritten[c]
    BY <1>6, <2>3, GetStarts DEF ConfirmReturned
  <2>4. QED
    BY <2>1, <2>2, <2>3
<1>7. QED
  BY <1>2, <1>3, <1>4, <1>5, <1>6 DEF AcquireStep

\* The steps of Release and CheckAndReput keep the invariant.
LEMMA ReleaseKeepsInv ==
    ASSUME TypeOK, LockInv, NEW c \in Client, ReleaseStep(c)
    PROVE  LockInv'
<1>1. DistinctTokens'
  BY DEF LockInv, DistinctTokens, ReleaseStep, Release, ReleaseGot, CheckReturned, ReputReturned
<1>2. ASSUME NEW d \in Client, d # c PROVE ClientInv(d)'
  BY <1>2, Bystander DEF LockInv, TypeOK, KVTypeOK, ReleaseStep, Release, ReleaseGot,
     CheckReturned, ReputReturned, CallGet, GoTo, InvokeGet, InvokePut, kvVars
<1>3. ClientInv(c)'
  <2>1. op[c] \in Op /\ op[c].res.version \in Nat /\ currVersion[c] \in Nat /\ ClientInv(c)
    BY DEF TypeOK, KVTypeOK, LockInv, Op, Reply, NoReply, Version
  <2>2. CASE \E l \in {"relGet", "relCheck"} : CallGet(c, l)
    <3>1. PICK l \in {"relGet", "relCheck"} : CallGet(c, l)
      BY <2>2
    <3>2. /\ pc'[c] = l /\ op'[c] = NewOp("get", LockKey, NoValue, 0)
          /\ store' = store /\ valWritten' = valWritten
      BY <3>1 DEF TypeOK, KVTypeOK, CallGet, GoTo, InvokeGet, ReleaseStep, Release,
         ReleaseGot, CheckReturned, ReputReturned
    <3>3. l = "relGet" => Owns(c)
      BY <2>1, <3>1, <3>2 DEF ReleaseStep, Release, ReleaseGot, CheckReturned, ReputReturned,
         ClientInv, OwnershipKnown, CallGet, GoTo, TypeOK
    <3>4. l = "relCheck" =>
            \/ Owns(c) /\ store[LockKey].version = currVersion'[c]
            \/ Exists /\ ~Owns(c) /\ store[LockKey].version > currVersion'[c]
      BY <2>1, <3>1, <3>2 DEF ReleaseStep, Release, ReleaseGot, CheckReturned, ReputReturned,
         Returned, ClientInv, ReleaseInv, OwnershipKnown, CallGet, GoTo, TypeOK
    <3>5. QED
      BY <3>2, <3>3, <3>4 DEF NewOp, NoReply, ClientInv, CallMatchesPC, ReadIsPast,
         TakeIsOfFreeLock, OwnershipKnown, ReleaseInv, Owns, Exists
  <2>3. CASE CheckReturned(c) /\ InvokePut(c, LockKey, NoValue, op[c].res.version)
    <3>1. /\ op[c].res.err = "OK" /\ currVersion[c] >= op[c].res.version /\ pc'[c] = "relPut"
          /\ op'[c] = NewOp("put", LockKey, NoValue, op[c].res.version)
          /\ UNCHANGED <<store, valWritten, currVersion>> /\ Returned(c, "relCheck")
      BY <2>3 DEF TypeOK, KVTypeOK, CheckReturned, InvokePut, GoTo, CallGet, InvokeGet, NewOp, kvVars
    <3>2. op[c].res.version = currVersion[c]
      BY <2>1, <3>1 DEF ClientInv, ReleaseInv, Returned
    <3>3. QED
      BY <2>1, <3>1, <3>2 DEF NewOp, NoReply, Returned, ClientInv, CallMatchesPC, ReadIsPast,
         TakeIsOfFreeLock, OwnershipKnown, ReleaseInv, Owns, Exists
  <2>4. CASE CheckReturned(c) /\ GoTo(c, "idle") /\ UNCHANGED kvVars
    BY <2>4, Rests DEF CheckReturned, Returned, kvVars, LockInv
  <2>5. QED
    BY <2>2, <2>3, <2>4 DEF ReleaseStep, Release, ReleaseGot, CheckReturned, ReputReturned
<1>4. QED
  BY <1>1, <1>2, <1>3 DEF LockInv

\* An execution of a client's operation keeps the invariant of every client:
\* its own result is recorded, and the others' locks are respected.
LEMMA ExecuteInv ==
    ASSUME TypeOK, LockInv, NEW c \in Client, Execute(c), UNCHANGED lockLocals
    PROVE  LockInv'
<1>1. DistinctTokens'
  BY DEF LockInv, DistinctTokens, lockLocals
<1>2. /\ op[c] \in Op /\ IsStore(store) /\ op[c].key = LockKey /\ LockKey \in Key
      /\ ClientInv(c) /\ pc[c] \in PC /\ currVersion[c] \in Nat
  BY LockKeyAssumption DEF TypeOK, KVTypeOK, LockInv, ClientInv, CallMatchesPC, Version
<1>3. Exists => store[LockKey] \in Entry /\ store[LockKey].version \in Nat
  BY <1>2 DEF IsStore, Exists, Entry, Version
<1>4. CASE op[c].kind = "get"
  <2>1. /\ store' = store /\ UNCHANGED <<pc, valWritten, currVersion>>
        /\ op' = [op EXCEPT ![c].phase = "executed", ![c].res = Get(store, LockKey)]
    BY <1>2, <1>4 DEF Execute, lockLocals
  <2>2. ASSUME NEW d \in Client, d # c PROVE ClientInv(d)'
    BY <2>1, <2>2, Bystander DEF LockInv, TypeOK, KVTypeOK
  <2>3. ClientInv(c)'
    <3>1. /\ op'[c].kind = "get" /\ op'[c].key = LockKey /\ op'[c].phase = "executed"
          /\ op'[c].res = Get(store, LockKey)
      BY <1>2, <1>4, <2>1 DEF TypeOK, KVTypeOK, Op
    <3>2. /\ op'[c].res.err = "OK" <=> Exists
          /\ Exists => /\ op'[c].res.version = store[LockKey].version
                       /\ op'[c].res.value = store[LockKey].value
      BY <1>2, <3>1, GetLemma DEF Exists
    <3>3. pc[c] \in {"get", "confirm", "relGet", "relCheck"}
      BY <1>2, <1>4 DEF Execute, ClientInv, CallMatchesPC, PC, Acquiring, Releasing
    <3>4. QED
      BY <1>2, <1>3, <2>1, <3>1, <3>2, <3>3 DEF ClientInv, CallMatchesPC, ReadIsPast,
         TakeIsOfFreeLock, OwnershipKnown, ReleaseInv, Owns, Exists
  <2>4. QED
    BY <1>1, <2>2, <2>3 DEF LockInv
<1>5. CASE op[c].kind = "put" /\ PutErr(store, op[c].key, op[c].version) # "OK"
  <2> DEFINE e == PutErr(store, op[c].key, op[c].version)
  <2>1. /\ store' = store /\ UNCHANGED <<pc, valWritten, currVersion>> /\ e # "OK"
        /\ op' = [op EXCEPT ![c].phase = "executed", ![c].res.err = e]
    BY <1>2, <1>5, PutLemma DEF Execute, lockLocals, Op
  <2>2. ASSUME NEW d \in Client, d # c PROVE ClientInv(d)'
    BY <2>1, <2>2, Bystander DEF LockInv, TypeOK, KVTypeOK
  <2>3. ClientInv(c)'
    <3>1. /\ op'[c].kind = "put" /\ op'[c].key = LockKey /\ op'[c].phase = "executed"
          /\ op'[c].value = op[c].value /\ op'[c].version = op[c].version
          /\ op'[c].res.err = e
      BY <1>2, <1>5, <2>1 DEF TypeOK, KVTypeOK, Op, Reply, NoReply
    <3>2. pc[c] \in {"create", "take", "relPut"}
      BY <1>2, <1>5 DEF Execute, ClientInv, CallMatchesPC, PC, Acquiring, Releasing
    <3>3. pc[c] = "take" => op[c].res.err # "OK" /\ op[c].phase # "returned"
      BY <1>2, <1>5 DEF Execute, Performed, ClientInv, CallMatchesPC
    <3>4. QED
      BY <1>2, <2>1, <3>1, <3>2, <3>3 DEF ClientInv, CallMatchesPC, ReadIsPast,
         TakeIsOfFreeLock, OwnershipKnown, ReleaseInv, Owns, Exists
  <2>4. QED
    BY <1>1, <2>2, <2>3 DEF LockInv
<1>6. CASE op[c].kind = "put" /\ PutErr(store, op[c].key, op[c].version) = "OK"
  <2>1. /\ pc[c] \in {"create", "take", "relPut"}
        /\ Exists' /\ store'[LockKey].value = op[c].value
        /\ Exists => store'[LockKey].version = store[LockKey].version + 1
        /\ store'[LockKey].version = op[c].version + 1
        /\ pc[c] = "relPut" => Owns(c) /\ store[LockKey].version = currVersion[c]
        /\ pc[c] \in {"create", "take"} => \A d \in Client : ~Owns(d)
    BY <1>6, PutRespectsOwner
  <2>2. /\ UNCHANGED <<pc, valWritten, currVersion>>
        /\ op' = [op EXCEPT ![c].phase = "executed", ![c].res.err = "OK"]
    BY <1>2, <1>6 DEF Execute, lockLocals
  <2>3. ASSUME NEW d \in Client, d # c PROVE ClientInv(d)'
    <3>1. op'[d] = op[d] /\ ClientInv(d) /\ currVersion[d] \in Nat
      BY <2>2, <2>3 DEF TypeOK, KVTypeOK, LockInv, Version
    <3>2. /\ op[d].version \in Nat /\ op[d].res.version \in Nat
      BY DEF TypeOK, KVTypeOK, Op, Reply, NoReply, Version
    <3>3. ~Owns(d)
      BY <2>1, <2>3, OwnerUnique
    <3>4. ~Owns(d)'
      BY <1>2, <2>1, <2>2, <2>3 DEF Owns, LockInv, DistinctTokens, ClientInv, CallMatchesPC
    <3>5. CallMatchesPC(d)' /\ OwnershipKnown(d)'
      BY <2>2, <3>1, <3>3 DEF ClientInv, CallMatchesPC, OwnershipKnown
    <3>6. \A n \in Nat : Exists /\ n <= store[LockKey].version =>
               n <= store'[LockKey].version /\ n # store'[LockKey].version
      BY <1>3, <2>1
    <3>7. ReadIsPast(d)'
      BY <2>1, <3>1, <3>2, <3>6 DEF ClientInv, ReadIsPast
    <3>8. TakeIsOfFreeLock(d)'
      BY <2>1, <2>2, <3>1, <3>2, <3>6 DEF ClientInv, TakeIsOfFreeLock
    <3>9. ReleaseInv(d)'
      BY <1>3, <2>1, <2>2, <3>1, <3>2, <3>3, <3>4 DEF ClientInv, OwnershipKnown, ReleaseInv
    <3>10. QED
      BY <3>5, <3>7, <3>8, <3>9 DEF ClientInv
  <2>4. ClientInv(c)'
    <3>1. /\ op'[c].kind = "put" /\ op'[c].key = LockKey /\ op'[c].phase = "executed"
          /\ op'[c].value = op[c].value /\ op'[c].version = op[c].version
          /\ op'[c].res.err = "OK"
      BY <1>2, <1>6, <2>2 DEF TypeOK, KVTypeOK, Op, Reply, NoReply
    <3>2. CASE pc[c] \in {"create", "take"}
      BY <1>2, <2>1, <2>2, <3>1, <3>2 DEF ClientInv, CallMatchesPC, ReadIsPast,
         TakeIsOfFreeLock, OwnershipKnown, ReleaseInv, Owns, Exists
    <3>3. CASE pc[c] = "relPut"
      <4>1. ~Owns(c)' /\ store'[LockKey].version > currVersion[c]
        BY <1>2, <2>1, <2>2, <3>3 DEF Owns, ClientInv, CallMatchesPC
      <4>2. QED
        BY <1>2, <2>1, <2>2, <3>1, <3>3, <4>1 DEF ClientInv, CallMatchesPC, ReadIsPast,
           TakeIsOfFreeLock, OwnershipKnown, ReleaseInv, Exists
    <3>4. QED
      BY <2>1, <3>2, <3>3
  <2>5. QED
    BY <1>1, <2>3, <2>4 DEF LockInv
<1>7. QED
  BY <1>4, <1>5, <1>6 DEF Execute

\* A clerk call that returns reports what was executed, or ErrMaybe.
LEMMA ReturnInv ==
    ASSUME TypeOK, LockInv, NEW c \in Client, Return(c), UNCHANGED lockLocals
    PROVE  LockInv'
<1>1. DistinctTokens'
  BY DEF LockInv, DistinctTokens, lockLocals
<1>2. PICK err \in Reported(c) :
        op' = [op EXCEPT ![c].phase = "returned", ![c].res.err = err]
  BY DEF Return
<1>3. store' = store /\ UNCHANGED <<pc, valWritten, currVersion>>
  BY DEF Return, lockLocals
<1>4. ASSUME NEW d \in Client, d # c PROVE ClientInv(d)'
  BY <1>2, <1>3, <1>4, Bystander DEF LockInv, TypeOK, KVTypeOK
<1>5. ClientInv(c)'
  <2>1. op[c] \in Op /\ ClientInv(c) /\ op[c].phase = "executed"
    BY DEF TypeOK, KVTypeOK, LockInv, Return
  <2>2. /\ op'[c].kind = op[c].kind /\ op'[c].key = op[c].key /\ op'[c].phase = "returned"
        /\ op'[c].value = op[c].value /\ op'[c].version = op[c].version
        /\ op'[c].res.err = err /\ op'[c].res.value = op[c].res.value
        /\ op'[c].res.version = op[c].res.version
    BY <1>2, <2>1 DEF TypeOK, KVTypeOK, Op, Reply, NoReply
  <2>3. err = op[c].res.err \/ (err = "ErrMaybe" /\ op[c].kind = "put")
    BY <1>2 DEF Reported
  <2>4. QED
    BY <1>3, <2>1, <2>2, <2>3 DEF ClientInv, CallMatchesPC, ReadIsPast,
       TakeIsOfFreeLock, OwnershipKnown, ReleaseInv, Owns, Exists
<1>6. QED
  BY <1>1, <1>4, <1>5 DEF LockInv

\* The invariant that ties each client's control state to the lock's entry.
THEOREM LockInvariant == Spec => []LockInv
<1>1. Init => LockInv
  <2>1. NoKey = LockKey
    BY LockKeyAssumption DEF NoKey
  <2>2. QED
    BY <2>1 DEF Init, KVInit, NewOp, NoReply, LockInv, DistinctTokens, ClientInv, CallMatchesPC,
       ReadIsPast, TakeIsOfFreeLock, OwnershipKnown, ReleaseInv
<1>2. TypeOK /\ LockInv /\ [Next]_lockVars => LockInv'
  <2> SUFFICES ASSUME TypeOK, LockInv, [Next]_lockVars
               PROVE  LockInv'
    OBVIOUS
  <2>1. CASE \E c \in Client : Acquire(c) \/ AcquireStep(c) \/ ReleaseStep(c)
    BY <2>1, AcquireInv, ReleaseKeepsInv
  <2>2. CASE \E c \in Client : ClerkStep(c)
    BY <2>2, ExecuteInv, ReturnInv DEF ClerkStep
  <2>3. CASE UNCHANGED lockVars
    BY <2>3, Bystander DEF lockVars, kvVars, lockLocals, LockInv, DistinctTokens
  <2>4. QED
    BY <2>1, <2>2, <2>3 DEF Next
<1>3. QED
  BY <1>1, <1>2, TypeCorrect, PTL DEF Spec

\* Lock.Acquire and Lock.Release exclude: at most one client holds the lock.
THEOREM Exclusion == Spec => []MutualExclusion
<1>1. LockInv => MutualExclusion
  BY OwnerUnique DEF MutualExclusion, LockInv, ClientInv, OwnershipKnown
<1>2. QED
  BY <1>1, LockInvariant, PTL

\* No Put, resent or not, overwrites a lock that somebody else holds.
THEOREM OwnerReleases == Spec => OnlyOwnerReleases
<1> DEFINE Act == \A t \in Token :
          Exists /\ store[LockKey].value = t /\ store'[LockKey].value # t
            => /\ store'[LockKey].value = NoValue
               /\ \E c \in Client : pc[c] = "relPut" /\ valWritten[c] = t
<1>1. TypeOK /\ LockInv /\ [Next]_lockVars => Act
  <2> SUFFICES ASSUME TypeOK, LockInv, [Next]_lockVars, NEW t \in Token,
                      Exists, store[LockKey].value = t, store'[LockKey].value # t
               PROVE  /\ store'[LockKey].value = NoValue
                      /\ \E c \in Client : pc[c] = "relPut" /\ valWritten[c] = t
    OBVIOUS
  <2>1. PICK c \in Client : Execute(c) /\ op[c].kind = "put"
    BY DEF Next, Acquire, AcquireStep, AcquireGot, CreateReturned, TakeReturned,
       ConfirmReturned, ReleaseStep, Release, ReleaseGot, CheckReturned, ReputReturned,
       CallGet, CallPutToken, InvokeGet, InvokePut, ClerkStep, Execute, Return, kvVars, lockVars
  <2>2. op[c] \in Op /\ IsStore(store) /\ ClientInv(c)
    BY DEF TypeOK, KVTypeOK, LockInv
  <2>3. PutErr(store, op[c].key, op[c].version) = "OK"
    BY <2>1, <2>2, PutLemma DEF Execute, Op
  <2>4. CASE pc[c] = "relPut"
    BY <2>1, <2>2, <2>3, <2>4, PutRespectsOwner DEF Owns, ClientInv, CallMatchesPC
  <2>5. CASE pc[c] = "take"
    BY <2>1, <2>2, <2>3, <2>5, PutLemma DEF Execute, Performed, Op, Exists, ClientInv, CallMatchesPC, TakeIsOfFreeLock, Token
  <2>6. CASE pc[c] = "create"
    <3>1. store[LockKey] \in Entry
      BY <2>2 DEF IsStore, Exists
    <3>2. QED
      BY <2>1, <2>2, <2>3, <2>6, <3>1, PutLemma DEF Execute, Op, Exists, ClientInv, CallMatchesPC, Entry
  <2>7. QED
    BY <2>1, <2>3, <2>4, <2>5, <2>6, PutRespectsOwner
<1>2. QED
  BY <1>1, TypeCorrect, LockInvariant, PTL DEF Spec, OnlyOwnerReleases

\* Release returns only once the caller's value has left the entry.
THEOREM ReleaseIsDone == Spec => ReleaseFrees
<1> DEFINE Act == \A c \in Client : pc[c] \in Releasing /\ pc'[c] = "idle" => ~Owns(c)'
<1>1. TypeOK /\ LockInv /\ [Next]_lockVars => Act
  <2> SUFFICES ASSUME TypeOK, LockInv, [Next]_lockVars, NEW c \in Client,
                      pc[c] \in Releasing, pc'[c] = "idle"
               PROVE  ~Owns(c)'
    OBVIOUS
  <2>1. CheckReturned(c) /\ op[c].res.err = "OK" /\ currVersion[c] < op[c].res.version
    BY DEF TypeOK, Next, Acquire, AcquireStep, AcquireGot, CreateReturned, TakeReturned,
       ConfirmReturned, ReleaseStep, Release, ReleaseGot, CheckReturned, ReputReturned, Returned,
       CallGet, CallPutToken, GoTo, ClerkStep, lockLocals, lockVars, Releasing
  <2>2. UNCHANGED <<store, valWritten>> /\ pc[c] = "relCheck"
    BY <2>1 DEF CheckReturned, kvVars, Returned, CallGet, InvokeGet, InvokePut
  <2>3. /\ op[c].res.version \in Nat /\ currVersion[c] \in Nat /\ ClientInv(c)
        /\ Exists => store[LockKey].version \in Nat
    BY DEF TypeOK, KVTypeOK, LockInv, Op, Reply, NoReply, Version, IsStore, Entry, Exists
  <2>4. ~Owns(c)
    BY <2>1, <2>2, <2>3 DEF ClientInv, CallMatchesPC, ReadIsPast, ReleaseInv
  <2>5. QED
    BY <2>2, <2>4 DEF Owns, Exists
<1>2. QED
  BY <1>1, TypeCorrect, LockInvariant, PTL DEF Spec, ReleaseFrees

\* The types and LockInv hold together, with any number of clients and tokens.
THEOREM IndInvariant == Spec => []IndInv
BY TypeCorrect, LockInvariant, PTL DEF IndInv
=============================================================================
