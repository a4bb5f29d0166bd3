------------------------------ MODULE ConfigCache ------------------------------
(***************************************************************************)
(* The configuration snapshot of the store: app_config in the database,    *)
(* the cache each process keeps of it, the loads every agent step and every*)
(* screen makes, and the saves of the Settings screen.  A load that misses *)
(* looks, captures the generation, queries and stores in four steps, and a *)
(* save commits and invalidates in two: they overlap.                      *)
(*                                                                         *)
(* A snapshot is identified by the number of commits it contains.  Two     *)
(* processes are alive at once only during a deploy.                       *)
(***************************************************************************)
EXTENDS Naturals

CONSTANTS
    Procs,      \* processes that share the database
    Callers,    \* loads and saves in flight at once
    Home,       \* the process each of them runs in
    MaxSaves    \* bound: commits to app_config

ASSUME ConfigCacheAssumption ==
    /\ Home \in [Callers -> Procs]
    /\ MaxSaves \in Nat

VARIABLES
    db,      \* commits to app_config so far
    cache,   \* per process: [snap, aged, generation]; Empty = no snapshot
    saved,   \* per process: the newest commit a save that has returned made
    at,      \* where each caller is
    val,     \* the snapshot a load has, the commit a save made
    gen,     \* the generation a load captured
    due      \* what was saved when the load began

vars == <<db, cache, saved, at, val, gen, due>>

\* No snapshot at all: every process starts, and every save leaves, like this.
Empty == MaxSaves + 1

Commits == 0..MaxSaves
CacheRow == [snap : Commits \cup {Empty}, aged : BOOLEAN, generation : Nat]

-----------------------------------------------------------------------------
(* configCache *)

\* Mutant of Usable: a snapshot is trusted whatever its age.
UsableForever(row) == row.snap # Empty

\* get: a snapshot no older than configCacheTTL.
Usable(row) == row.snap # Empty /\ ~row.aged

Stored(row, v) == [row EXCEPT !.snap = v, !.aged = FALSE]

Invalidated(row) == [row EXCEPT !.snap = Empty, !.generation = @ + 1]

SetCache(p, row) == cache' = [cache EXCEPT ![p] = row]
Goto(c, p)       == at' = [at EXCEPT ![c] = p]

\* A caller that returns takes its locals with it.
Ends(S) ==
    /\ at'  = [c \in Callers |-> IF c \in S THEN "idle" ELSE at[c]]
    /\ val' = [c \in Callers |-> IF c \in S THEN 0 ELSE val[c]]
    /\ gen' = [c \in Callers |-> IF c \in S THEN 0 ELSE gen[c]]
    /\ due' = [c \in Callers |-> IF c \in S THEN 0 ELSE due[c]]

-----------------------------------------------------------------------------
(* LoadConfig *)

Begins(c) == due' = [due EXCEPT ![c] = saved[Home[c]]]

LoadHits(c) ==
    /\ at[c] = "idle" /\ Usable(cache[Home[c]])
    /\ val' = [val EXCEPT ![c] = cache[Home[c]].snap]
    /\ Begins(c)
    /\ Goto(c, "loaded")
    /\ UNCHANGED <<db, cache, saved, gen>>

LoadMisses(c) ==
    /\ at[c] = "idle" /\ ~Usable(cache[Home[c]])
    /\ Begins(c)
    /\ Goto(c, "missed")
    /\ UNCHANGED <<db, cache, saved, val, gen>>

\* Mutant of LoadCaptures: the load takes the generation the next save will make.
CapturesNext(c) ==
    /\ at[c] = "missed"
    /\ gen' = [gen EXCEPT ![c] = cache[Home[c]].generation + 1]
    /\ Goto(c, "captured")
    /\ UNCHANGED <<db, cache, saved, val, due>>

\* begin: before the query, so that a save during the query is noticed.
LoadCaptures(c) ==
    /\ at[c] = "missed"
    /\ gen' = [gen EXCEPT ![c] = cache[Home[c]].generation]
    /\ Goto(c, "captured")
    /\ UNCHANGED <<db, cache, saved, val, due>>

LoadQueries(c) ==
    /\ at[c] = "captured"
    /\ val' = [val EXCEPT ![c] = db]
    /\ Goto(c, "queried")
    /\ UNCHANGED <<db, cache, saved, gen, due>>

LoadFails(c) ==
    /\ at[c] = "captured"
    /\ Ends({c})
    /\ UNCHANGED <<db, cache, saved>>

\* Mutant of Unmoved: the generation is not compared.
AlwaysUnmoved(c) == TRUE

\* put: discard a snapshot that an invalidation overtook.
Unmoved(c) == gen[c] = cache[Home[c]].generation

LoadStores(c) ==
    /\ at[c] = "queried"
    /\ SetCache(Home[c], IF Unmoved(c) THEN Stored(cache[Home[c]], val[c])
                                       ELSE cache[Home[c]])
    /\ Goto(c, "loaded")
    /\ UNCHANGED <<db, saved, val, gen, due>>

LoadReturns(c) ==
    /\ at[c] = "loaded"
    /\ Ends({c})
    /\ UNCHANGED <<db, cache, saved>>

-----------------------------------------------------------------------------
(* SetConfig, SetConfigValues *)

SaveCommits(c) ==
    /\ at[c] = "idle" /\ db < MaxSaves
    /\ db' = db + 1
    /\ val' = [val EXCEPT ![c] = db + 1]
    /\ Goto(c, "committed")
    /\ UNCHANGED <<cache, saved, gen, due>>

\* The commit reached the database and its acknowledgement did not reach the
\* save, which reports an error and invalidates nothing.
SaveLost(c) ==
    /\ at[c] = "idle" /\ db < MaxSaves
    /\ db' = db + 1
    /\ UNCHANGED <<cache, saved, at, val, gen, due>>

SaveInvalidates(c) ==
    /\ at[c] = "committed"
    /\ SetCache(Home[c], Invalidated(cache[Home[c]]))
    /\ saved' = [saved EXCEPT ![Home[c]] = IF val[c] > @ THEN val[c] ELSE @]
    /\ Ends({c})
    /\ UNCHANGED db

-----------------------------------------------------------------------------
(* Time and deploys *)

\* configCacheTTL passes.
Ages(p) ==
    /\ Usable(cache[p])
    /\ SetCache(p, [cache[p] EXCEPT !.aged = TRUE])
    /\ UNCHANGED <<db, saved, at, val, gen, due>>

\* A process ends, with everything it was doing, and another takes its place.
Replaced(p) ==
    /\ SetCache(p, [snap |-> Empty, aged |-> FALSE, generation |-> 0])
    /\ Ends({c \in Callers : Home[c] = p})
    /\ UNCHANGED <<db, saved>>

-----------------------------------------------------------------------------
Init ==
    /\ db = 0
    /\ cache = [p \in Procs |-> [snap |-> Empty, aged |-> FALSE, generation |-> 0]]
    /\ saved = [p \in Procs |-> 0]
    /\ at = [c \in Callers |-> "idle"]
    /\ val = [c \in Callers |-> 0]
    /\ gen = [c \in Callers |-> 0]
    /\ due = [c \in Callers |-> 0]

Load(c) == LoadHits(c) \/ LoadMisses(c) \/ LoadCaptures(c) \/ LoadQueries(c)
           \/ LoadFails(c) \/ LoadStores(c) \/ LoadReturns(c)

Save(c) == SaveCommits(c) \/ SaveLost(c) \/ SaveInvalidates(c)

Next == \/ \E c \in Callers : Load(c) \/ Save(c)
        \/ \E p \in Procs : Ages(p) \/ Replaced(p)

Spec == Init /\ [][Next]_vars

\* A caller that has begun ends, and time passes.
Fairness ==
    /\ \A c \in Callers : WF_vars(at[c] # "idle" /\ (Load(c) \/ Save(c)))
    /\ \A p \in Procs : WF_vars(Ages(p))

FairSpec == Spec /\ Fairness

-----------------------------------------------------------------------------
(* Properties *)

\* The types; a captured generation is never ahead of the cache's.
TypeOK ==
    /\ db \in Commits
    /\ cache \in [Procs -> CacheRow]
    /\ saved \in [Procs -> Commits]
    /\ at \in [Callers -> {"idle", "missed", "captured", "queried", "loaded", "committed"}]
    /\ val \in [Callers -> Commits]
    /\ gen \in [Callers -> Nat]
    /\ due \in [Callers -> Commits]
    /\ \A c \in Callers : at[c] \in {"captured", "queried"} =>
          gen[c] <= cache[Home[c]].generation

\* Settings take effect at once: a load that begins after a save has returned,
\* in the same process, never returns a snapshot older than that save, whatever
\* loads were in flight around it.
LoadSeesSaves == \A c \in Callers : at[c] = "loaded" => val[c] >= due[c]

Lagging(p) == cache[p].snap < db /\ Usable(cache[p])

\* configCacheTTL: once the saves are over, wherever they were made and whether or
\* not they were told so, a process comes to serve them for good, although a slow
\* load of its own may put an old snapshot back after the first expiry.
CatchesUp == \A p \in Procs : <>[](~Lagging(p))
==============================================================================
