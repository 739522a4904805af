-------------------------------- MODULE Lock --------------------------------
(***************************************************************************)
(* The lock of kvsrv1/lock/lock.go: clients that share one key of a        *)
(* versioned key/value store.  The key holds "" when the lock is free and  *)
(* the holder's random value when it is taken.                             *)
(*                                                                         *)
(* lockWrapper.ck is the clerk of VersionedKV.  A client's code between    *)
(* two clerk calls only touches its local variables, so it is one action:  *)
(* it looks at the reply of the call that returned and makes the next      *)
(* call.  pc[c] names the call c waits for (or where it rests).            *)
(***************************************************************************)
EXTENDS VersionedKV

CONSTANTS LockKey,      \* lockWrapper.key
          MaxAcquires   \* bound: how often each client acquires the lock

ASSUME LockKeyAssumption == Key = {LockKey}
ASSUME MaxAcquiresAssumption == MaxAcquires \in Nat

VARIABLES pc,           \* control state of each client
          valWritten,   \* Acquire's valWritten
          currVersion,  \* CheckAndReput's argument
          acquires      \* how many Acquire calls each client has made

lockLocals == <<pc, valWritten, currVersion, acquires>>
lockVars == <<kvVars, lockLocals>>

Token == Value \ {NoValue}

Acquiring == {"get", "create", "take", "confirm"}
Releasing == {"relGet", "relCheck", "relPut"}
PC == {"idle", "held"} \cup Acquiring \cup Releasing

TypeOK ==
    /\ KVTypeOK
    /\ pc \in [Client -> PC]
    /\ valWritten \in [Client -> Value]
    /\ currVersion \in [Client -> Version]
    /\ acquires \in [Client -> Nat]

Init ==
    /\ KVInit
    /\ pc = [c \in Client |-> "idle"]
    /\ valWritten = [c \in Client |-> NoValue]
    /\ currVersion = [c \in Client |-> 0]
    /\ acquires = [c \in Client |-> 0]

-----------------------------------------------------------------------------
(* kvtest.RandValue(8): a token that no client and no entry carries.       *)
Fresh(t) ==
    /\ \A d \in Client : valWritten[d] # t
    /\ \A k \in DOMAIN store : store[k].value # t

GoTo(c, l) == pc' = [pc EXCEPT ![c] = l]

CallGet(c, l) == InvokeGet(c, LockKey) /\ GoTo(c, l)

\* A Put of a new random value, at the version just read.
CallPutToken(c, version, l) ==
    /\ \E t \in Token :
         /\ Fresh(t)
         /\ valWritten' = [valWritten EXCEPT ![c] = t]
         /\ InvokePut(c, LockKey, t, version)
    /\ GoTo(c, l)

Returned(c, l) == pc[c] = l /\ op[c].phase = "returned"

Acquire(c) ==
    /\ pc[c] = "idle"
    /\ acquires[c] < MaxAcquires
    /\ acquires' = [acquires EXCEPT ![c] = @ + 1]
    /\ CallGet(c, "get")
    /\ UNCHANGED <<valWritten, currVersion>>

\* Acquire's Get returned: create the key, take a free lock or look again.
AcquireGot(c) ==
    /\ Returned(c, "get")
    /\ \/ /\ op[c].res.err = "ErrNoKey"
          /\ CallPutToken(c, 0, "create")
       \/ /\ op[c].res.err = "OK" /\ op[c].res.value = NoValue
          /\ CallPutToken(c, op[c].res.version, "take")
       \/ /\ op[c].res.err = "OK" /\ op[c].res.value # NoValue
          /\ CallGet(c, "get")
          /\ UNCHANGED valWritten
    /\ UNCHANGED <<currVersion, acquires>>

\* The Put at version 0 returned: any error starts Acquire's loop again.
CreateReturned(c) ==
    /\ Returned(c, "create")
    /\ \/ op[c].res.err = "OK" /\ GoTo(c, "held") /\ UNCHANGED kvVars
       \/ op[c].res.err # "OK" /\ CallGet(c, "get")
    /\ UNCHANGED <<valWritten, currVersion, acquires>>

\* Faulty: takes ErrMaybe for success.
TakeReturnedMaybeIsOK(c) ==
    /\ Returned(c, "take")
    /\ \/ op[c].res.err \in {"OK", "ErrMaybe"} /\ GoTo(c, "held") /\ UNCHANGED kvVars
       \/ op[c].res.err \notin {"OK", "ErrMaybe"} /\ CallGet(c, "get")
    /\ UNCHANGED <<valWritten, currVersion, acquires>>

\* The Put over a free lock returned: on ErrMaybe, read back who holds it.
TakeReturned(c) ==
    /\ Returned(c, "take")
    /\ \/ op[c].res.err = "OK" /\ GoTo(c, "held") /\ UNCHANGED kvVars
       \/ op[c].res.err = "ErrMaybe" /\ CallGet(c, "confirm")
       \/ op[c].res.err \notin {"OK", "ErrMaybe"} /\ CallGet(c, "get")
    /\ UNCHANGED <<valWritten, currVersion, acquires>>

\* Faulty: does not compare the value read with valWritten.
ConfirmReturnedUnchecked(c) ==
    /\ Returned(c, "confirm")
    /\ \/ op[c].res.err # "OK" /\ CallGet(c, "confirm")
       \/ op[c].res.err = "OK" /\ GoTo(c, "held") /\ UNCHANGED kvVars
    /\ UNCHANGED <<valWritten, currVersion, acquires>>

\* ReadUntilSuccess after ErrMaybe: the lock is ours if our value is there.
ConfirmReturned(c) ==
    /\ Returned(c, "confirm")
    /\ \/ op[c].res.err # "OK" /\ CallGet(c, "confirm")
       \/ /\ op[c].res.err = "OK" /\ op[c].res.value = valWritten[c]
          /\ GoTo(c, "held") /\ UNCHANGED kvVars
       \/ /\ op[c].res.err = "OK" /\ op[c].res.value # valWritten[c]
          /\ CallGet(c, "get")
    /\ UNCHANGED <<valWritten, currVersion, acquires>>

Release(c) ==
    /\ pc[c] = "held"
    /\ CallGet(c, "relGet")
    /\ UNCHANGED <<valWritten, currVersion, acquires>>

\* Release's Get returned: CheckAndReput(version) starts by reading again.
ReleaseGot(c) ==
    /\ Returned(c, "relGet")
    /\ currVersion' = [currVersion EXCEPT ![c] = op[c].res.version]
    /\ CallGet(c, "relCheck")
    /\ UNCHANGED <<valWritten, acquires>>

\* Faulty: releases whatever non-empty value it reads.
CheckReturnedAnyOwner(c) ==
    /\ Returned(c, "relCheck")
    /\ \/ op[c].res.value = NoValue /\ GoTo(c, "idle") /\ UNCHANGED kvVars
       \/ /\ op[c].res.value # NoValue
          /\ InvokePut(c, LockKey, NoValue, op[c].res.version)
          /\ GoTo(c, "relPut")
    /\ UNCHANGED <<valWritten, currVersion, acquires>>

\* Faulty: currVersion <= version.
CheckReturnedTooEarly(c) ==
    /\ Returned(c, "relCheck")
    /\ \/ op[c].res.err # "OK" /\ CallGet(c, "relCheck")
       \/ op[c].res.err = "OK" /\ GoTo(c, "idle") /\ UNCHANGED kvVars
    /\ UNCHANGED <<valWritten, currVersion, acquires>>

\* Faulty: reads again instead of writing.
CheckReturnedOnlyReads(c) ==
    /\ Returned(c, "relCheck")
    /\ \/ /\ op[c].res.err = "OK" /\ currVersion[c] < op[c].res.version
          /\ GoTo(c, "idle") /\ UNCHANGED kvVars
       \/ /\ op[c].res.err # "OK" \/ currVersion[c] >= op[c].res.version
          /\ CallGet(c, "relCheck")
    /\ UNCHANGED <<valWritten, currVersion, acquires>>

\* CheckAndReput's loop: done once the version has moved, else Put "".
CheckReturned(c) ==
    /\ Returned(c, "relCheck")
    /\ \/ op[c].res.err # "OK" /\ CallGet(c, "relCheck")
       \/ /\ op[c].res.err = "OK" /\ currVersion[c] < op[c].res.version
          /\ GoTo(c, "idle") /\ UNCHANGED kvVars
       \/ /\ op[c].res.err = "OK" /\ currVersion[c] >= op[c].res.version
          /\ InvokePut(c, LockKey, NoValue, op[c].res.version)
          /\ GoTo(c, "relPut")
    /\ UNCHANGED <<valWritten, currVersion, acquires>>

\* The result of the Put "" is ignored; the next read tells.
ReputReturned(c) ==
    /\ Returned(c, "relPut")
    /\ CallGet(c, "relCheck")
    /\ UNCHANGED <<valWritten, currVersion, acquires>>

-----------------------------------------------------------------------------
AcquireStep(c) ==
    AcquireGot(c) \/ CreateReturned(c) \/ TakeReturned(c) \/ ConfirmReturned(c)

ReleaseStep(c) ==
    Release(c) \/ ReleaseGot(c) \/ CheckReturned(c) \/ ReputReturned(c)

\* The clerk makes progress on its own.
ClerkStep(c) == (Execute(c) \/ Return(c)) /\ UNCHANGED lockLocals

Next ==
    \E c \in Client : Acquire(c) \/ AcquireStep(c) \/ ReleaseStep(c) \/ ClerkStep(c)

Spec == Init /\ [][Next]_lockVars

\* The clerks' calls return, a client in Acquire or Release keeps running,
\* and a holder releases (as lock_test.go's clients do).
Fairness ==
    \A c \in Client :
        /\ WF_lockVars(Execute(c) /\ op[c].phase = "pending" /\ UNCHANGED lockLocals)
        /\ WF_lockVars(Return(c) /\ UNCHANGED lockLocals)
        /\ WF_lockVars(AcquireStep(c))
        /\ WF_lockVars(ReleaseStep(c))

FairSpec == Spec /\ Fairness

-----------------------------------------------------------------------------
(* Properties.                                                             *)

Exists == LockKey \in DOMAIN store

\* The lock's entry holds the value c wrote last.
Owns(c) ==
    /\ Exists
    /\ valWritten[c] # NoValue
    /\ store[LockKey].value = valWritten[c]

\* Two clients are never between Acquire's return and Release's call at once,
\* whatever the order of their Gets and Puts and whichever Put returned
\* ErrMaybe (lock_test.go: "two clients acquired lock").
MutualExclusion ==
    \A c, d \in Client : pc[c] = "held" /\ pc[d] = "held" => c = d

\* A taken lock changes hands only through "", and only the client whose value
\* it holds writes the "": a Put of CheckAndReput, or an old Put of Acquire
\* that was resent, never overwrites somebody else's lock.
OnlyOwnerReleases ==
    [][ \A t \in Token :
          Exists /\ store[LockKey].value = t /\ store'[LockKey].value # t
            => /\ store'[LockKey].value = NoValue
               /\ \E c \in Client : pc[c] = "relPut" /\ valWritten[c] = t ]_lockVars

\* When Release returns, the lock no longer holds the caller's value, even if
\* another client has taken it since.
ReleaseFrees ==
    [][ \A c \in Client : pc[c] \in Releasing /\ pc'[c] = "idle" => ~Owns(c)' ]_lockVars

\* If some client is in Acquire, some client gets the lock: no client is left
\* spinning on a lock that nobody holds (lock_test.go runs its clients until
\* the time is up and waits for each of them).
SomebodyAcquires ==
    (\E c \in Client : pc[c] \in Acquiring) ~> (\E c \in Client : pc[c] = "held")

\* The Put that created the key came back as ErrMaybe although it was
\* performed: its client has started over and does not know its lock.
Orphaned == \E c \in Client : pc[c] = "get" /\ Owns(c)

\* The one way for SomebodyAcquires to fail is that Put of line 38: whatever
\* else is lost or doubtful, the ErrMaybe of a take or of a release included,
\* somebody acquires the lock.
AcquiresUnlessOrphaned ==
    (\E c \in Client : pc[c] \in Acquiring)
        ~> (\E c \in Client : pc[c] = "held") \/ Orphaned

\* Release returns: CheckAndReput's loop sees the version move.
ReleaseReturns == \A c \in Client : pc[c] \in Releasing ~> pc[c] = "idle"

-----------------------------------------------------------------------------
(* The inductive invariant behind MutualExclusion.                         *)

\* Two clients never carry the same random value.
DistinctTokens ==
    \A c, d \in Client : valWritten[c] = valWritten[d] /\ valWritten[c] # NoValue => c = d

\* What the outstanding call of a client at pc[c] is.
CallMatchesPC(c) ==
    /\ op[c].key = LockKey
    /\ op[c].phase = "pending" => op[c].res.err = "None"
    /\ pc[c] \in {"idle", "held"} => op[c].phase = "returned"
    /\ pc[c] \in {"get", "confirm", "relGet", "relCheck"} => op[c].kind = "get"
    /\ pc[c] \in {"create", "take"} =>
          op[c].kind = "put" /\ op[c].value = valWritten[c]
    /\ pc[c] = "create" => op[c].version = 0
    /\ pc[c] = "relPut" =>
          op[c].kind = "put" /\ op[c].value = NoValue /\ op[c].version = currVersion[c]
    /\ pc[c] \in {"create", "take", "confirm"} => valWritten[c] # NoValue

\* What c has read is not newer than the store, and still there if as new.
ReadIsPast(c) ==
    op[c].kind = "get" /\ op[c].res.err = "OK" =>
        /\ Exists
        /\ op[c].res.version <= store[LockKey].version
        /\ op[c].res.version = store[LockKey].version
             => op[c].res.value = store[LockKey].value

\* A Put over a free lock can still succeed only while the lock is free.
TakeIsOfFreeLock(c) ==
    pc[c] = "take" /\ op[c].res.err # "OK" /\ op[c].phase # "returned" =>
        /\ Exists
        /\ op[c].version <= store[LockKey].version
        /\ op[c].version = store[LockKey].version => store[LockKey].value = NoValue

\* Where the code relies on holding the lock, the lock holds c's value.
OwnershipKnown(c) ==
    /\ pc[c] \in {"held", "relGet"} => Owns(c)
    /\ pc[c] \in {"create", "take"} /\ op[c].res.err = "OK" => Owns(c)
    /\ pc[c] = "confirm" /\ op[c].res.err = "OK" /\ op[c].res.value = valWritten[c]
         => Owns(c)

\* From Release on: c owns the lock at the version it read, or has freed it.
ReleaseInv(c) ==
    /\ pc[c] = "relGet" /\ op[c].phase # "pending" =>
         op[c].res.err = "OK" /\ op[c].res.version = store[LockKey].version
    /\ pc[c] \in {"relCheck", "relPut"} =>
         \/ Owns(c) /\ store[LockKey].version = currVersion[c]
         \/ Exists /\ ~Owns(c) /\ store[LockKey].version > currVersion[c]
    /\ pc[c] = "relCheck" /\ op[c].phase # "pending" =>
         op[c].res.err = "OK" /\ op[c].res.version >= currVersion[c]

ClientInv(c) ==
    /\ CallMatchesPC(c)
    /\ ReadIsPast(c)
    /\ TakeIsOfFreeLock(c)
    /\ OwnershipKnown(c)
    /\ ReleaseInv(c)

LockInv == DistinctTokens /\ \A c \in Client : ClientInv(c)

\* The whole inductive invariant: the types and LockInv, which ties each
\* client's place in the code to what the server's key holds.
IndInv == TypeOK /\ LockInv
=============================================================================
