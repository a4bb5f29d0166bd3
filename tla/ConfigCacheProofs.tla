--------------------------- MODULE ConfigCacheProofs ---------------------------
(***************************************************************************)
(* For any number of processes, callers and saves: no load returns a       *)
(* snapshot older than a save that had returned when the load began.       *)
(*                                                                         *)
(* LoadSeesSaves is not inductive.  What carries it is that the cache never*)
(* holds anything older than the last save of its process (Cached), and    *)
(* that a load which may still store its snapshot, because no generation   *)
(* has passed since it captured one, has a snapshot the cache may hold     *)
(* (Queried).                                                              *)
(***************************************************************************)
EXTENDS ConfigCache, TLAPS

\* A save that returned, and what a load saw saved, are in the database.
Bounded ==
    /\ \A p \in Procs : saved[p] <= db
    /\ \A c \in Callers : due[c] <= db
    /\ \A c \in Callers : at[c] = "committed" => val[c] <= db

\* The cache is empty or holds every save of its process that has returned.
Cached == \A p \in Procs : cache[p].snap >= saved[p]

\* A load in flight has what it is due, and what the cache must hold if the load
\* is still allowed to store it.
Queried ==
    \A c \in Callers : at[c] = "queried" =>
        /\ val[c] >= due[c]
        /\ Unmoved(c) => val[c] >= saved[Home[c]]

IInv == TypeOK /\ Bounded /\ Cached /\ Queried /\ LoadSeesSaves

\* An empty cache entry is told apart from every snapshot.
LEMMA EmptyAboveCommits ==
    /\ Empty \in Nat /\ 0 \in Commits /\ Commits \subseteq Nat
    /\ \A v \in Commits : v < Empty
BY ConfigCacheAssumption DEF Empty, Commits

\* Initially no process has a snapshot and no caller is at work.
LEMMA InitInv == Init => IInv
BY EmptyAboveCommits, ConfigCacheAssumption
DEF Init, IInv, TypeOK, Bounded, Cached, Queried, LoadSeesSaves, Unmoved, Commits, CacheRow

\* A row keeps its type under each operation on the cache.
LEMMA RowTypes ==
    ASSUME NEW row \in CacheRow, NEW v \in Commits
    PROVE  /\ Stored(row, v) \in CacheRow
           /\ Stored(row, v).snap = v /\ Stored(row, v).generation = row.generation
           /\ Invalidated(row) \in CacheRow
           /\ Invalidated(row).snap = Empty
           /\ Invalidated(row).generation = row.generation + 1
           /\ [row EXCEPT !.aged = TRUE] \in CacheRow
<1> DEFINE next == row.generation + 1
<1>1. next \in Nat
  BY DEF CacheRow
<1>2. Invalidated(row) = [row EXCEPT !.snap = Empty, !.generation = next]
  BY DEF Invalidated
<1> HIDE DEF next
<1>3. /\ Invalidated(row) \in CacheRow
      /\ Invalidated(row).snap = Empty /\ Invalidated(row).generation = next
  BY <1>1, <1>2 DEF CacheRow
<1>4. /\ Stored(row, v) \in CacheRow
      /\ Stored(row, v).snap = v /\ Stored(row, v).generation = row.generation
  BY DEF CacheRow, Stored
<1>5. [row EXCEPT !.aged = TRUE] \in CacheRow
  BY DEF CacheRow
<1> QED
  BY <1>3, <1>4, <1>5 DEF next

\* A caller that ends is idle with nothing in hand; the others do not move.
LEMMA EndsFrees ==
    ASSUME NEW S, Ends(S), TypeOK
    PROVE  /\ at' \in [Callers -> {"idle", "missed", "captured", "queried", "loaded", "committed"}]
           /\ val' \in [Callers -> Commits] /\ gen' \in [Callers -> Nat]
           /\ due' \in [Callers -> Commits]
           /\ \A c \in Callers : IF c \in S
                 THEN at'[c] = "idle" /\ val'[c] = 0 /\ gen'[c] = 0 /\ due'[c] = 0
                 ELSE at'[c] = at[c] /\ val'[c] = val[c] /\ gen'[c] = gen[c] /\ due'[c] = due[c]
<1>1. 0 \in Commits /\ 0 \in Nat
  BY EmptyAboveCommits
<1> QED
  BY <1>1 DEF Ends, TypeOK

\* The steps of a load.
LEMMA LoadInv ==
    ASSUME IInv, NEW c \in Callers, Load(c)
    PROVE  IInv'
<1> USE EmptyAboveCommits, ConfigCacheAssumption
<1> Home[c] \in Procs
  OBVIOUS
<1>1. CASE LoadHits(c)
  BY <1>1 DEF LoadHits, Begins, Goto, Usable, IInv, TypeOK, Bounded, Cached, Queried,
              LoadSeesSaves, Unmoved, Commits, CacheRow
<1>2. CASE LoadMisses(c)
  BY <1>2 DEF LoadMisses, Begins, Goto, IInv, TypeOK, Bounded, Cached, Queried,
              LoadSeesSaves, Unmoved, Commits
<1>3. CASE LoadCaptures(c)
  BY <1>3 DEF LoadCaptures, Goto, IInv, TypeOK, Bounded, Cached, Queried,
              LoadSeesSaves, Unmoved, Commits, CacheRow
<1>4. CASE LoadQueries(c)
  BY <1>4 DEF LoadQueries, Goto, IInv, TypeOK, Bounded, Cached, Queried,
              LoadSeesSaves, Unmoved, Commits, CacheRow
<1>5. CASE LoadFails(c) \/ LoadReturns(c)
  <2>1. Ends({c}) /\ UNCHANGED <<db, cache, saved>>
    BY <1>5 DEF LoadFails, LoadReturns
  <2> QED
    BY <2>1, EndsFrees DEF IInv, TypeOK, Bounded, Cached, Queried, LoadSeesSaves, Unmoved
<1>6. CASE LoadStores(c)
  <2> DEFINE p == Home[c]
  <2> DEFINE row == IF Unmoved(c) THEN Stored(cache[p], val[c]) ELSE cache[p]
  <2>1. /\ row \in CacheRow /\ row.generation = cache[p].generation
        /\ row.snap >= saved[p]
    <3>1. cache[p] \in CacheRow /\ val[c] \in Commits
      BY DEF IInv, TypeOK
    <3> QED
      BY <1>6, <3>1, RowTypes DEF LoadStores, IInv, Cached, Queried
  <2>2. cache' = [cache EXCEPT ![p] = row]
    BY <1>6 DEF LoadStores, SetCache
  <2> HIDE DEF row
  <2> QED
    BY <1>6, <2>1, <2>2 DEF LoadStores, Goto, IInv, TypeOK, Bounded, Cached, Queried,
                            LoadSeesSaves, Unmoved, Commits, CacheRow
<1> QED
  BY <1>1, <1>2, <1>3, <1>4, <1>5, <1>6 DEF Load

\* The steps of a save.  An invalidation raises what the cache must hold, and
\* the generation with it: no load that has queried is still unmoved.
LEMMA SaveInv ==
    ASSUME IInv, NEW c \in Callers, Save(c)
    PROVE  IInv'
<1> USE EmptyAboveCommits, ConfigCacheAssumption
<1> Home[c] \in Procs
  OBVIOUS
<1>1. CASE SaveCommits(c)
  BY <1>1 DEF SaveCommits, Goto, IInv, TypeOK, Bounded, Cached, Queried,
              LoadSeesSaves, Unmoved, Commits
<1>2. CASE SaveLost(c)
  BY <1>2 DEF SaveLost, IInv, TypeOK, Bounded, Cached, Queried,
              LoadSeesSaves, Unmoved, Commits
<1>3. CASE SaveInvalidates(c)
  <2> DEFINE p == Home[c]
  <2> DEFINE row == Invalidated(cache[p])
  <2> DEFINE newest == IF val[c] > saved[p] THEN val[c] ELSE saved[p]
  <2>1. /\ row \in CacheRow /\ row.snap = Empty
        /\ row.generation = cache[p].generation + 1
    BY RowTypes DEF IInv, TypeOK, Commits
  <2>2. newest \in Commits /\ newest <= db
    BY <1>3 DEF SaveInvalidates, IInv, TypeOK, Bounded, Commits
  <2>3. cache' = [cache EXCEPT ![p] = row] /\ saved' = [saved EXCEPT ![p] = newest]
    BY <1>3 DEF SaveInvalidates, SetCache
  <2> HIDE DEF row, newest
  <2>4. Ends({c}) /\ UNCHANGED db /\ TypeOK
    BY <1>3 DEF SaveInvalidates, IInv
  <2>5. TypeOK' /\ Bounded'
    <3>1. \A d \in Callers : at'[d] \in {"captured", "queried"} =>
             gen'[d] <= cache'[Home[d]].generation
      BY <2>1, <2>3, <2>4, EndsFrees DEF TypeOK, CacheRow
    <3>2. TypeOK'
      <4>1. cache' \in [Procs -> CacheRow] /\ saved' \in [Procs -> Commits]
        BY <2>1, <2>2, <2>3, <2>4 DEF TypeOK
      <4> QED
        BY <2>4, <3>1, <4>1, EndsFrees DEF TypeOK
    <3> QED
      BY <2>2, <2>3, <2>4, <3>2, EndsFrees DEF IInv, TypeOK, Bounded, Commits
  <2>6. Cached'
    <3> SUFFICES ASSUME NEW q \in Procs PROVE cache'[q].snap >= saved'[q]
      BY DEF Cached
    <3>1. CASE q = p
      <4>1. cache'[q] = row /\ saved'[q] = newest
        BY <2>3, <2>4, <3>1 DEF TypeOK
      <4> QED
        BY <2>1, <2>2, <4>1 DEF Commits
    <3>2. CASE q # p
      BY <2>3, <2>4, <3>2 DEF IInv, TypeOK, Cached
    <3> QED
      BY <3>1, <3>2
  <2>7. Queried' /\ LoadSeesSaves'
    <3>1. \A d \in Callers : at'[d] \in {"queried", "loaded"} =>
             at[d] = at'[d] /\ val'[d] = val[d] /\ due'[d] = due[d] /\ gen'[d] = gen[d]
      BY <2>4, EndsFrees
    <3>2. \A d \in Callers : at'[d] = "queried" /\ Home[d] = p => ~Unmoved(d)'
      BY <2>1, <2>3, <3>1 DEF IInv, TypeOK, Unmoved, CacheRow
    <3>3. \A d \in Callers : Home[d] # p =>
             cache'[Home[d]] = cache[Home[d]] /\ saved'[Home[d]] = saved[Home[d]]
      BY <2>3, <2>4 DEF TypeOK
    <3> QED
      BY <3>1, <3>2, <3>3 DEF IInv, Queried, LoadSeesSaves, Unmoved
  <2> QED
    BY <2>5, <2>6, <2>7 DEF IInv
<1> QED
  BY <1>1, <1>2, <1>3 DEF Save

\* Time, and a process that another replaces.
LEMMA ProcInv ==
    ASSUME IInv, NEW p \in Procs, Ages(p) \/ Replaced(p)
    PROVE  IInv'
<1> USE EmptyAboveCommits, ConfigCacheAssumption
<1>1. CASE Ages(p)
  BY <1>1 DEF Ages, Usable, SetCache, IInv, TypeOK, Bounded, Cached, Queried,
              LoadSeesSaves, Unmoved, Commits, CacheRow
<1>2. CASE Replaced(p)
  <2> DEFINE row == [snap |-> Empty, aged |-> FALSE, generation |-> 0]
  <2>1. row \in CacheRow /\ row.snap = Empty
    BY DEF CacheRow
  <2>2. cache' = [cache EXCEPT ![p] = row]
    BY <1>2 DEF Replaced, SetCache
  <2> HIDE DEF row
  <2> DEFINE gone == {c \in Callers : Home[c] = p}
  <2>3. Ends(gone) /\ UNCHANGED <<db, saved>> /\ TypeOK
    BY <1>2 DEF Replaced, IInv
  <2>6. \A c \in Callers : c \in gone <=> Home[c] = p
    OBVIOUS
  <2> HIDE DEF gone
  <2>4. TypeOK' /\ Bounded' /\ Cached'
    <3>1. \A d \in Callers : at'[d] \in {"captured", "queried"} =>
             gen'[d] <= cache'[Home[d]].generation
      BY <2>1, <2>2, <2>3, <2>6, EndsFrees DEF TypeOK
    <3>2. TypeOK'
      <4>1. cache' \in [Procs -> CacheRow]
        BY <2>1, <2>2, <2>3 DEF TypeOK
      <4> QED
        BY <2>3, <3>1, <4>1, EndsFrees DEF TypeOK
    <3>3. Bounded'
      <4>1. \A c \in Callers : due'[c] <= db'
        BY <2>3, EndsFrees DEF IInv, Bounded, TypeOK, Commits
      <4>2. \A c \in Callers : at'[c] = "committed" => val'[c] <= db'
        BY <2>3, EndsFrees DEF IInv, Bounded
      <4> QED
        BY <2>3, <4>1, <4>2 DEF IInv, Bounded
    <3>4. Cached'
      <4> SUFFICES ASSUME NEW q \in Procs PROVE cache'[q].snap >= saved'[q]
        BY DEF Cached
      <4>1. saved'[q] = saved[q] /\ saved[q] \in Commits
        BY <2>3 DEF TypeOK
      <4>2. cache'[q] = IF q = p THEN row ELSE cache[q]
        BY <2>2, <2>3 DEF TypeOK
      <4>3. CASE q = p
        BY <2>1, <4>1, <4>2, <4>3 DEF Commits
      <4> QED
        BY <4>1, <4>2, <4>3 DEF IInv, Cached
    <3> QED
      BY <3>2, <3>3, <3>4
  <2>5. Queried' /\ LoadSeesSaves'
    BY <2>2, <2>3, <2>6, EndsFrees DEF IInv, TypeOK, Queried, LoadSeesSaves, Unmoved
  <2> QED
    BY <2>4, <2>5 DEF IInv
<1> QED
  BY <1>1, <1>2

\* Every step, stuttering included, keeps the inductive invariant.
LEMMA NextInv == IInv /\ [Next]_vars => IInv'
<1> SUFFICES ASSUME IInv, [Next]_vars PROVE IInv'
  OBVIOUS
<1>1. CASE UNCHANGED vars
  BY <1>1 DEF vars, IInv, TypeOK, Bounded, Cached, Queried, LoadSeesSaves, Unmoved
<1> QED
  BY <1>1, LoadInv, SaveInv, ProcInv DEF Next

\* The inductive invariant of the cache protocol.
THEOREM Invariance == Spec => []IInv
BY InitInv, NextInv, PTL DEF Spec

\* The types of the protocol's state, for every instance.
THEOREM TypeCorrect == Spec => []TypeOK
<1>1. IInv => TypeOK
  BY DEF IInv
<1> QED
  BY <1>1, Invariance, PTL

\* Settings take effect at once in the process that saved them, for any number
\* of loads and saves in flight: the generation check of put is enough.
THEOREM SavesAreSeen == Spec => []LoadSeesSaves
<1>1. IInv => LoadSeesSaves
  BY DEF IInv
<1> QED
  BY <1>1, Invariance, PTL
==============================================================================
