------------------------------ MODULE KVServer ------------------------------
(***************************************************************************)
(* The single-machine key/value server of kvsrv1/server.go: a map from     *)
(* keys to (value, version) entries.  Every handler runs under kv.mu, so   *)
(* each is one function of the map: what it answers and the map it leaves. *)
(* kv.KVStore is a function whose domain is the set of keys present.       *)
(***************************************************************************)
EXTENDS Naturals

CONSTANTS Key,      \* the keys clients use
          Value,    \* the values clients store
          NoValue   \* "", the zero value of a Go string; a client may Put it too

ASSUME KeyAssumption == Key # {}
ASSUME ValueAssumption == NoValue \in Value

Version == Nat

Entry == [value : Value, version : Version \ {0}]

IsStore(s) == DOMAIN s \subseteq Key /\ s \in [DOMAIN s -> Entry]

Err == {"OK", "ErrNoKey", "ErrVersion", "ErrMaybe"}

Reply == [value : Value, version : Version, err : Err]

\* make(map[string]Entry)
MakeKVServer == [k \in {} |-> NoValue]

-----------------------------------------------------------------------------
(* The handlers.                                                           *)

\* Faulty: forgets version++.
AddRecordAtVersion(store, key, value, version) ==
    [k \in DOMAIN store \cup {key} |->
        IF k = key THEN [value |-> value, version |-> version] ELSE store[k]]

AddRecord(store, key, value, version) ==
    [k \in DOMAIN store \cup {key} |->
        IF k = key THEN [value |-> value, version |-> version + 1] ELSE store[k]]

UpdateRecord(store, key, value) ==
    [store EXCEPT ![key] = [value |-> value, version |-> @.version + 1]]

Get(store, key) ==
    IF key \in DOMAIN store
    THEN [value |-> store[key].value, version |-> store[key].version, err |-> "OK"]
    ELSE [value |-> NoValue, version |-> 0, err |-> "ErrNoKey"]

\* The version a Put of key must carry: 0 creates the key.
CurrentVersion(store, key) ==
    IF key \in DOMAIN store THEN store[key].version ELSE 0

\* Faulty: accepts an old version too.
PutErrOldVersion(store, key, version) ==
    IF version <= CurrentVersion(store, key) THEN "OK" ELSE "ErrVersion"

\* Faulty: ErrNoKey whenever the version does not match.
PutErrNoKeyOnly(store, key, version) ==
    IF version = CurrentVersion(store, key) THEN "OK" ELSE "ErrNoKey"

PutErr(store, key, version) ==
    IF version = CurrentVersion(store, key) THEN "OK"
    ELSE IF key \in DOMAIN store THEN "ErrVersion" ELSE "ErrNoKey"

\* The map after a Put: the entry is written only if the Put is accepted.
PutStore(store, key, value, version) ==
    IF PutErr(store, key, version) # "OK" THEN store
    ELSE IF key \in DOMAIN store THEN UpdateRecord(store, key, value)
    ELSE AddRecord(store, key, value, version)
=============================================================================
