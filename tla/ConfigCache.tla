------------------------------ MODULE ConfigCache ------------------------------
(***************************************************************************)
(* The cache of configuration values of one namespace, with enable_cache:  *)
(* getConfigValueFromApollo (config.go) looks a key up, fetches it from    *)
(* Apollo without any lock and stores what it got; handleConfigChanged     *)
(* (watchers.go) evicts the keys of a reload, one callback per key.        *)
(*                                                                         *)
(* A key's value is the number of its last change on the server, which is  *)
(* external.                                                               *)
(***************************************************************************)
EXTENDS Integers, Sequences

CONSTANTS
    Keys,
    Readers,        \* goroutines that call GetConfigValue
    Deletes,        \* whether the server may delete a key
    MaxChanges      \* bound: changes of each key

ASSUME CacheAssumption == Deletes \in BOOLEAN /\ MaxChanges \in Nat

VARIABLES
    version,        \* per key: the number of changes the server made to it
    present,        \* per key: the server has it
    pending,        \* the server has a change the watcher has not reloaded yet
    queue,          \* reloads made and not dispatched yet: the keys each found
    evicting,       \* keys of the reload in dispatch whose callback is to come
    cache,          \* p.configCache: a version, or None
    raced,          \* history, per key: its entry was out of date when stored
    reader          \* where each reader is, with the key it reads and the value it
                    \* got

vars == <<version, present, pending, queue, evicting, cache, raced, reader>>
server == <<version, present>>

None == -1
Versions == 0..MaxChanges
Values == Versions \union {None}

Reader == [at : {"idle", "lookup", "fetch", "store", "done", "failed"},
           key : Keys, value : Values]

TypeOK == /\ version \in [Keys -> Versions]
          /\ present \in [Keys -> BOOLEAN]
          /\ pending \in BOOLEAN
          /\ queue \in Seq(SUBSET Keys) /\ Len(queue) <= 2
          /\ evicting \subseteq Keys
          /\ cache \in [Keys -> Values]
          /\ raced \in [Keys -> BOOLEAN]
          /\ reader \in [Readers -> Reader]
          /\ \A r \in Readers : reader[r].at \in {"store", "done"} => reader[r].value # None

Init == /\ version = [k \in Keys |-> 0]
        /\ present = [k \in Keys |-> TRUE]
        /\ pending = FALSE
        /\ queue = <<>>
        /\ evicting = {}
        /\ cache = [k \in Keys |-> None]
        /\ raced = [k \in Keys |-> FALSE]
        /\ reader \in [Readers -> [at : {"idle"}, key : Keys, value : {None}]]

--------------------------------------------------------------------------------
(* The server. *)

Change(k) == /\ version[k] < MaxChanges
             /\ version' = [version EXCEPT ![k] = @ + 1]
             /\ \/ present' = [present EXCEPT ![k] = TRUE]
                \/ Deletes /\ present[k] /\ present' = [present EXCEPT ![k] = FALSE]
             /\ pending' = TRUE
             /\ UNCHANGED <<queue, evicting, cache, raced, reader>>

--------------------------------------------------------------------------------
(* The watcher's side. *)

\* The long-poll loop reloads the namespace.  One reload waits in notifyCh, one
\* more in the loop, blocked on the send.
LoopReloads == /\ pending
               /\ Len(queue) < 2
               /\ pending' = FALSE
               /\ queue' = Append(queue, {k \in Keys : present[k]})
               /\ UNCHANGED <<server, evicting, cache, raced, reader>>

\* dispatchLoop takes the next reload up after the callbacks of the last one.
Dispatch == /\ queue # <<>>
            /\ evicting = {}
            /\ queue' = Tail(queue)
            /\ evicting' = Head(queue)
            /\ UNCHANGED <<server, pending, cache, raced, reader>>

\* Mutant: one callback per reload instead of one per key.
HandleConfigChangedOnce(k) ==
    /\ k \in evicting
    /\ evicting' = {}
    /\ cache' = [cache EXCEPT ![k] = None]
    /\ raced' = [raced EXCEPT ![k] = FALSE]
    /\ UNCHANGED <<server, pending, queue, reader>>

\* handleConfigChanged deletes the entry of the key.
HandleConfigChanged(k) ==
    /\ k \in evicting
    /\ evicting' = evicting \ {k}
    /\ cache' = [cache EXCEPT ![k] = None]
    /\ raced' = [raced EXCEPT ![k] = FALSE]
    /\ UNCHANGED <<server, pending, queue, reader>>

--------------------------------------------------------------------------------
(* getConfigValueFromApollo. *)

Begin(r, k) ==
    /\ reader[r].at \in {"idle", "done", "failed"}
    /\ reader' = [reader EXCEPT ![r] = [at |-> "lookup", key |-> k, value |-> None]]
    /\ UNCHANGED <<server, pending, queue, evicting, cache, raced>>

\* The look at the cache, under the read lock.
Lookup(r) ==
    /\ reader[r].at = "lookup"
    /\ LET hit == cache[reader[r].key] IN
       reader' = [reader EXCEPT ![r].at = IF hit # None THEN "done" ELSE "fetch",
                                ![r].value = hit]
    /\ UNCHANGED <<server, pending, queue, evicting, cache, raced>>

\* Mutant: the fetch of an absent key is taken for a value.
FetchAnything(r) ==
    /\ reader[r].at = "fetch"
    /\ reader' = [reader EXCEPT ![r].at = "store",
                                ![r].value = IF present[reader[r].key]
                                             THEN version[reader[r].key] ELSE None]
    /\ UNCHANGED <<server, pending, queue, evicting, cache, raced>>

\* The HTTP request; a key the server does not have is an error.
Fetch(r) ==
    /\ reader[r].at = "fetch"
    /\ reader' = IF present[reader[r].key]
                 THEN [reader EXCEPT ![r].at = "store", ![r].value = version[reader[r].key]]
                 ELSE [reader EXCEPT ![r].at = "failed"]
    /\ UNCHANGED <<server, pending, queue, evicting, cache, raced>>

\* What was fetched is stored, under the write lock, whatever has happened since.
Store(r) ==
    /\ reader[r].at = "store"
    /\ LET k == reader[r].key IN
       /\ cache' = [cache EXCEPT ![k] = reader[r].value]
       /\ raced' = [raced EXCEPT ![k] = reader[r].value # version[k]]
    /\ reader' = [reader EXCEPT ![r].at = "done"]
    /\ UNCHANGED <<server, pending, queue, evicting>>

--------------------------------------------------------------------------------

Next == \/ \E k \in Keys : Change(k) \/ HandleConfigChanged(k)
        \/ LoopReloads \/ Dispatch
        \/ \E r \in Readers : \/ \E k \in Keys : Begin(r, k)
                              \/ Lookup(r) \/ Fetch(r) \/ Store(r)

Spec == Init /\ [][Next]_vars

--------------------------------------------------------------------------------
(* Properties. *)

Quiescent == ~pending /\ queue = <<>> /\ evicting = {}

\* An entry that was up to date when it was stored, and whose key still exists,
\* is up to date once every change has been dispatched: no change of any key is
\* forgotten, in whatever order readers and callbacks run.
ChangesEvict ==
    Quiescent => \A k \in Keys : cache[k] # None /\ present[k] /\ ~raced[k]
                                    => cache[k] = version[k]
================================================================================
