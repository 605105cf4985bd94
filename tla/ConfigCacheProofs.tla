---------------------------- MODULE ConfigCacheProofs ----------------------------
(***************************************************************************)
(* Proofs about ConfigCache, for any keys, any readers and any number of   *)
(* changes and deletions.                                                  *)
(***************************************************************************)
EXTENDS ConfigCache, SequenceTheorems, TLAPS

\* The steps of readers that leave the cache alone.
ReaderMoves(r) == (\E k \in Keys : Begin(r, k)) \/ Lookup(r) \/ Fetch(r)

LEMMA ReaderMovesFrame ==
    ASSUME NEW r \in Readers, ReaderMoves(r)
    PROVE  UNCHANGED <<version, present, pending, queue, evicting, cache, raced>>
BY DEF ReaderMoves, Begin, Lookup, Fetch, server

LEMMA ReaderMovesType ==
    ASSUME TypeOK, NEW r \in Readers, ReaderMoves(r)
    PROVE  /\ reader' \in [Readers -> Reader]
           /\ \A q \in Readers : reader'[q].at \in {"store", "done"} => reader'[q].value # None
<1> USE DEF TypeOK, Reader, Values
<1>0. reader[r] \in Reader
  OBVIOUS
<1>1. CASE \E k \in Keys : Begin(r, k)
  BY <1>1 DEF Begin
<1>2. CASE Lookup(r)
  <2>1. PICK place \in {"done", "fetch"}, hit \in Values :
           /\ reader' = [reader EXCEPT ![r] = [reader[r] EXCEPT !.at = place, !.value = hit]]
           /\ place = "done" => hit # None
    <3> DEFINE hit == cache[reader[r].key]
               place == IF hit # None THEN "done" ELSE "fetch"
    <3>1. reader' = [reader EXCEPT ![r] = [reader[r] EXCEPT !.at = place, !.value = hit]]
      BY <1>0, <1>2 DEF Lookup
    <3>2. hit \in Values /\ place \in {"done", "fetch"} /\ (place = "done" => hit # None)
      BY <1>0
    <3> HIDE DEF hit, place
    <3>3. QED BY <3>1, <3>2
  <2>2. [reader[r] EXCEPT !.at = place, !.value = hit] \in Reader
    BY <1>0, <2>1
  <2>3. QED BY <1>0, <2>1, <2>2
<1>3. CASE Fetch(r)
  <2>1. CASE present[reader[r].key]
    <3> DEFINE got == version[reader[r].key]
    <3>1. got \in Versions /\ got # None
      BY <1>0, CacheAssumption DEF Versions, None
    <3>2. reader' = [reader EXCEPT ![r] = [reader[r] EXCEPT !.at = "store", !.value = got]]
      BY <1>3, <2>1 DEF Fetch
    <3>3. [reader[r] EXCEPT !.at = "store", !.value = got] \in Reader
      BY <1>0, <3>1
    <3>4. QED BY <1>0, <3>1, <3>2, <3>3
  <2>2. CASE ~present[reader[r].key]
    BY <1>0, <1>3, <2>2 DEF Fetch
  <2>3. QED BY <2>1, <2>2
<1>4. QED BY <1>1, <1>2, <1>3 DEF ReaderMoves

\* The variables keep their types; at most two reloads wait, and what is stored or
\* returned is a value.
THEOREM CacheTypeCorrect == Spec => []TypeOK
<1>1. Init => TypeOK
  <2> SUFFICES ASSUME Init PROVE TypeOK
    OBVIOUS
  <2> USE DEF Init
  <2>1. 0 \in Versions /\ None \in Values
    BY CacheAssumption DEF Versions, Values
  <2>2. queue \in Seq(SUBSET Keys) /\ Len(queue) <= 2
    OBVIOUS
  <2>3. reader \in [Readers -> Reader]
    BY <2>1 DEF Reader
  <2>4. \A r \in Readers : reader[r].at = "idle"
    OBVIOUS
  <2>5. QED BY <2>1, <2>2, <2>3, <2>4 DEF TypeOK
<1>2. TypeOK /\ [Next]_vars => TypeOK'
  <2> SUFFICES ASSUME TypeOK, [Next]_vars PROVE TypeOK'
    OBVIOUS
  <2>1. ASSUME NEW k \in Keys, Change(k) PROVE TypeOK'
    <3>1. version' \in [Keys -> Versions]
      BY <2>1, CacheAssumption DEF Change, TypeOK, Versions
    <3>2. present' \in [Keys -> BOOLEAN]
      BY <2>1 DEF Change, TypeOK
    <3>3. QED BY <2>1, <3>1, <3>2 DEF Change, TypeOK
  <2>2. ASSUME NEW k \in Keys, HandleConfigChanged(k) PROVE TypeOK'
    BY <2>2 DEF HandleConfigChanged, TypeOK, Values, server
  <2>3. CASE LoopReloads
    <3>1. queue' \in Seq(SUBSET Keys) /\ Len(queue') = Len(queue) + 1
      <4> DEFINE keys == {k \in Keys : present[k]}
      <4>1. queue \in Seq(SUBSET Keys) /\ keys \in SUBSET Keys /\ queue' = Append(queue, keys)
        BY <2>3 DEF LoopReloads, TypeOK
      <4> HIDE DEF keys
      <4>2. QED BY <4>1, AppendProperties
    <3>2. Len(queue') <= 2
      BY <2>3, <3>1 DEF LoopReloads, TypeOK
    <3>3. QED BY <2>3, <3>1, <3>2 DEF LoopReloads, TypeOK, server
  <2>4. CASE Dispatch
    <3>1. queue' \in Seq(SUBSET Keys) /\ Len(queue') <= 2 /\ evicting' \subseteq Keys
      BY <2>4 DEF Dispatch, TypeOK
    <3>2. QED BY <2>4, <3>1 DEF Dispatch, TypeOK, server
  <2>5. ASSUME NEW r \in Readers, ReaderMoves(r) PROVE TypeOK'
    BY <2>5, ReaderMovesFrame, ReaderMovesType DEF TypeOK
  <2>6. ASSUME NEW r \in Readers, Store(r) PROVE TypeOK'
    BY <2>6 DEF Store, TypeOK, Reader, server
  <2>7. CASE UNCHANGED vars
    BY <2>7 DEF vars, TypeOK
  <2>8. QED BY <2>1, <2>2, <2>3, <2>4, <2>5, <2>6, <2>7 DEF Next, ReaderMoves
<1>3. QED BY <1>1, <1>2, PTL DEF Spec

--------------------------------------------------------------------------------
(* No change is forgotten. *)

\* An entry that was right when it was stored and is out of date by now.
Stale(k) == cache[k] # None /\ present[k] /\ ~raced[k] /\ cache[k] # version[k]

\* The inductive invariant.  Its second part says who will evict such an entry: the
\* reload still to be made, the last one made, or the callbacks of the one being
\* dispatched.  The first part is what makes that last reload contain the key.
Announced ==
    /\ ~pending /\ queue # <<>> => queue[Len(queue)] = {k \in Keys : present[k]}
    /\ \A k \in Keys : Stale(k) => \/ pending
                                   \/ queue # <<>>
                                   \/ k \in evicting

\* An entry that was up to date when stored, and whose key still exists, is up to
\* date again once every change has been dispatched, however many readers and
\* callbacks interleave.
THEOREM NoChangeForgotten == Spec => []ChangesEvict
<1>1. Init => Announced
  BY DEF Init, Announced, Stale
<1>2. TypeOK /\ Announced /\ [Next]_vars => Announced'
  <2> SUFFICES ASSUME TypeOK, Announced, [Next]_vars PROVE Announced'
    OBVIOUS
  <2> USE DEF server
  <2>1. ASSUME NEW k \in Keys, Change(k) PROVE Announced'
    BY <2>1 DEF Change, Announced
  <2>2. ASSUME NEW k \in Keys, HandleConfigChanged(k) PROVE Announced'
    BY <2>2 DEF HandleConfigChanged, Announced, Stale, TypeOK
  <2>3. CASE LoopReloads
    <3>1. /\ Len(queue') = Len(queue) + 1
          /\ queue'[Len(queue')] = {k \in Keys : present[k]}
          /\ queue' # <<>>
      <4> DEFINE keys == {k \in Keys : present[k]}
      <4>1. queue \in Seq(SUBSET Keys) /\ keys \in SUBSET Keys /\ queue' = Append(queue, keys)
        BY <2>3 DEF LoopReloads, TypeOK
      <4>2. /\ Len(queue') = Len(queue) + 1 /\ queue' # <<>>
            /\ queue'[Len(queue) + 1] = keys
        <5> HIDE DEF keys
        <5>1. QED BY <4>1, AppendProperties
      <4>3. QED BY <4>2
    <3>2. UNCHANGED present
      BY <2>3 DEF LoopReloads
    <3>3. QED BY <3>1, <3>2 DEF Announced
  <2>4. CASE Dispatch
    <3>1. UNCHANGED <<version, present, pending, cache, raced>>
      BY <2>4 DEF Dispatch
    <3>2. /\ queue \in Seq(SUBSET Keys) /\ queue # <<>>
          /\ queue' = Tail(queue) /\ evicting' = Head(queue)
      BY <2>4 DEF Dispatch, TypeOK
    <3>3. queue' # <<>> => queue'[Len(queue')] = queue[Len(queue)]
      BY <3>2
    <3>4. queue' = <<>> => evicting' = queue[Len(queue)]
      <4>1. Len(Tail(queue)) = Len(queue) - 1 /\ Len(queue) \in Nat
        BY <3>2, HeadTailProperties
      <4>2. ASSUME queue' = <<>> PROVE Len(queue) = 1
        <5>1. Len(Tail(queue)) = 0
          <6>1. Tail(queue) = <<>>
            BY <3>2, <4>2, Zenon
          <6>2. Len(<<>>) = 0
            BY EmptySeq
          <6>3. QED BY <6>1, <6>2, Zenon
        <5>2. QED BY <4>1, <5>1
      <4>3. Head(queue) = queue[1]
        BY <3>2
      <4>4. QED BY <3>2, <4>2, <4>3
    <3>5. ~pending' /\ queue' # <<>> => queue'[Len(queue')] = {k \in Keys : present'[k]}
      BY <3>1, <3>2, <3>3 DEF Announced
    <3>6. ASSUME NEW k \in Keys, Stale(k)', ~pending', queue' = <<>> PROVE k \in evicting'
      <4>1. present[k] /\ ~pending
        BY <3>1, <3>6 DEF Stale
      <4>2. queue[Len(queue)] = {j \in Keys : present[j]}
        BY <3>2, <4>1 DEF Announced
      <4>3. QED BY <3>4, <3>6, <4>1, <4>2
    <3>7. QED BY <3>5, <3>6 DEF Announced
  <2>5. ASSUME NEW r \in Readers, ReaderMoves(r) PROVE Announced'
    BY <2>5, ReaderMovesFrame DEF Announced, Stale
  <2>6. ASSUME NEW r \in Readers, Store(r) PROVE Announced'
    BY <2>6 DEF Store, Announced, Stale, TypeOK, Reader
  <2>7. CASE UNCHANGED vars
    BY <2>7 DEF vars, Announced, Stale
  <2>8. QED BY <2>1, <2>2, <2>3, <2>4, <2>5, <2>6, <2>7 DEF Next, ReaderMoves
<1>3. Announced => ChangesEvict
  BY DEF Announced, ChangesEvict, Quiescent, Stale
<1>4. QED BY <1>1, <1>2, <1>3, CacheTypeCorrect, PTL DEF Spec
================================================================================
