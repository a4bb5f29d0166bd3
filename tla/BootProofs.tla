----------------------------- MODULE BootProofs -----------------------------
(***************************************************************************)
(* Proofs about Boot, for any machines, builds, names, passwords, requests *)
(* and bounds: the throttle, the boots beside each other and the sessions  *)
(* across them.                                                            *)
(*                                                                         *)
(* The invariant has one part for each thing a machine finds in the        *)
(* database and then relies on without holding anything: Migrated under    *)
(* the advisory lock, Peopled and Keyed without a lock (hence raced),      *)
(* Saving between the two halves of a request (hence overlapped), and      *)
(* Throttled, which counts the requests in flight of a locked-out machine. *)
(***************************************************************************)
EXTENDS Boot, FiniteSetTheorems, TLAPS

UserType == [id : Machines, name : Names, password : Passwords, required : BOOLEAN]
LoginType == [kind : {"login"}, at : Machines, name : Names, password : Passwords]
SaveType ==
    [kind : {"save"}, at : Machines, user : UserType, name : Names,
     password : (Passwords \ {Default}) \cup {"blank"}]
AllVersions == UNION Builds

Basic ==
    /\ schema \in SUBSET AllVersions
    /\ holder \in Machines \cup {"nobody"}
    /\ users \subseteq UserType
    /\ config \in {"none", "default", "edited"}
    /\ secret \in Nat /\ made \in Nat
    /\ pc \in [Machines -> {"off", "lock", "failed"} \cup Migrating \cup Past]
    /\ build \in [Machines -> Builds \cup {{}}]
    /\ todo \in [Machines -> SUBSET AllVersions]
    /\ key \in [Machines -> Nat]
Limits ==
    /\ failures \in [Machines -> 0 .. MaxFailures - 1]
    /\ locked \in [Machines -> BOOLEAN]
    /\ tried \in [Machines -> Nat]
Flags == raced \in BOOLEAN /\ overlapped \in BOOLEAN /\ edited \in BOOLEAN

\* Who is in flight is at a machine that serves.
Requested ==
    /\ req \in [Requests -> {Idle} \cup LoginType \cup SaveType]
    /\ \A r \in Requests : req[r] # Idle => pc[req[r].at] \in Serving

Fly(p) == {r \in Requests : req[r] # Idle /\ req[r].kind = "login" /\ req[r].at = p}

\* A locked-out machine takes no new login: every wrong password it still
\* looks at leaves one request fewer in flight.
Throttled ==
    \A p \in Machines :
        /\ ~locked[p] => tried[p] <= failures[p]
        /\ locked[p] => tried[p] + Cardinality(Fly(p)) <= MaxFailures - 1 + Cardinality(Requests)

Migrated ==
    \A p \in Machines :
        /\ pc[p] \in Migrating => holder = p
        /\ pc[p] = "apply" => todo[p] \cap schema = {} /\ build[p] \subseteq schema \cup todo[p]
        /\ pc[p] # "failed"
        /\ pc[p] \in Past => build[p] \subseteq schema

OneId == \A u, v \in users : u.id = v.id => u = v

Peopled ==
    /\ OneId
    /\ \A p \in Machines :
         /\ pc[p] = "insert" => \A u \in users : u.id # p
         /\ pc[p] \in {"config", "secret", "generate"} \cup Serving => users # {}
    /\ ~raced =>
         /\ \A u, v \in users : u = v
         /\ \A p \in Machines : pc[p] = "insert" => users = {} /\ \A q \in Machines \ {p} : pc[q] # "insert"
    /\ edited => config = "edited"

Keyed ==
    /\ \A p \in Machines : pc[p] \in Serving => secret # 0 /\ (~raced => key[p] = secret)
    /\ ~raced => \A p \in Machines :
         pc[p] = "generate" => secret = 0 /\ \A q \in Machines \ {p} : pc[q] # "generate"
    /\ cookie # NoCookie =>
         secret # 0 /\ (~raced => cookie.key = secret) /\ \E u \in users : u.id = cookie.id

Saves(r) == req[r] # Idle /\ req[r].kind = "save"
Marked(u) == u.required <=> u.password = Default

Saving ==
    /\ \A r \in Requests : Saves(r) => \E u \in users : u.id = req[r].user.id
    /\ ~overlapped =>
         /\ \A r \in Requests : Saves(r) => req[r].user \in users
         /\ \A r, s \in Requests : Saves(r) /\ Saves(s) => r = s
         /\ \A u \in users : Marked(u)

Typed == Basic /\ Limits /\ Flags /\ Requested

IInv == Typed /\ Throttled /\ Migrated /\ Peopled /\ Keyed /\ Saving
-----------------------------------------------------------------------------
(* Types.                                                                   *)

\* Every step leaves the tables, the machines and the browser typed.
LEMMA BasicStep == Typed /\ [Next]_vars => Basic'
<1> SUFFICES ASSUME Typed, [Next]_vars PROVE Basic'
  OBVIOUS
<1> USE DEF Typed, Basic, Moves, rows, booting, limiter, browser
<1>1. ASSUME NEW p \in Machines, Boots(p) \/ Locks(p) \/ ReadsApplied(p) \/ Unlocks(p) PROVE Basic'
  <2>1. build[p] \subseteq AllVersions
    BY DEF AllVersions
  <2>2. CASE Boots(p)
    BY <2>2 DEF Boots
  <2>3. CASE Locks(p)
    BY <2>3 DEF Locks, Migrating
  <2>4. CASE ReadsApplied(p)
    BY <2>1, <2>4 DEF ReadsApplied, Migrating
  <2>5. CASE Unlocks(p)
    BY <2>5 DEF Unlocks, Past
  <2> QED BY <1>1, <2>2, <2>3, <2>4, <2>5
<1>2. ASSUME NEW p \in Machines, Applies(p) PROVE Basic'
  <2>1. PICK v \in todo[p] :
          \/ Moves(p, "apply", "failed") /\ holder' = "nobody" /\ UNCHANGED <<schema, todo>>
          \/ /\ schema' = schema \cup {v} /\ todo' = [todo EXCEPT ![p] = @ \ {v}]
             /\ UNCHANGED <<pc, holder>>
    BY <1>2 DEF Applies
  <2>2. v \in AllVersions
    OBVIOUS
  <2> QED BY <1>2, <2>1, <2>2 DEF Applies
<1>3. ASSUME NEW p \in Machines, CountsUsers(p) \/ FillsConfig(p) \/ ReadsSecret(p) \/ StoresSecret(p) \/ Drains(p)
      PROVE  Basic'
  <2>1. CASE CountsUsers(p)
    BY <2>1 DEF CountsUsers, Past
  <2>2. CASE FillsConfig(p)
    BY <2>2 DEF FillsConfig, Past
  <2>3. CASE ReadsSecret(p)
    BY <2>3 DEF ReadsSecret, Past, Serving
  <2>4. CASE StoresSecret(p)
    BY <2>4 DEF StoresSecret, Past, Serving
  <2>5. CASE Drains(p)
    BY <2>5 DEF Drains, Past, Serving
  <2> QED BY <1>3, <2>1, <2>2, <2>3, <2>4, <2>5
<1>4. ASSUME NEW p \in Machines, InsertsUser(p) PROVE Basic'
  <2>1. [id |-> p, name |-> Default, password |-> Default, required |-> TRUE] \in UserType
    BY BootAssumption DEF UserType
  <2> QED BY <1>4, <2>1 DEF InsertsUser, Past
<1>5. ASSUME NEW p \in Machines, Dies(p) PROVE Basic'
  BY <1>5 DEF Dies
<1>6. ASSUME NEW p \in Machines, LockoutEnds(p) \/ EditsConfig(p) PROVE Basic'
  BY <1>6 DEF LockoutEnds, EditsConfig
<1>7. ASSUME NEW r \in Requests, LoginStarts(r) \/ LoginEnds(r) \/ SaveStarts(r) \/ RequestFails(r) PROVE Basic'
  <2>1. UNCHANGED <<schema, holder, users, config, secret, pc, build, todo, key, made>>
    BY <1>7 DEF LoginStarts, LoginEnds, SaveStarts, RequestFails
  <2> QED BY <2>1
<1>8. ASSUME NEW r \in Requests, SaveEnds(r) PROVE Basic'
  <2>1. req[r] \in SaveType
    BY <1>8 DEF SaveEnds, Requested, LoginType, Idle
  <2>2. \A u \in users : Credentials(u, req[r]) \in UserType
    <3> SUFFICES ASSUME NEW u \in users PROVE Credentials(u, req[r]) \in UserType
      OBVIOUS
    <3>1. /\ u \in UserType /\ req[r].user \in UserType /\ req[r].name \in Names
          /\ req[r].password \in Passwords \cup {"blank"}
      BY <2>1 DEF SaveType
    <3> DEFINE w == IF req[r].password = "blank" THEN req[r].user.password ELSE req[r].password
    <3>2. w \in Passwords
      BY <3>1 DEF UserType
    <3>3. (u.required /\ req[r].password = "blank") \in BOOLEAN
      OBVIOUS
    <3> HIDE DEF w
    <3>4. [u EXCEPT !.name = req[r].name, !.required = u.required /\ req[r].password = "blank",
                    !.password = w] \in UserType
      BY <3>1, <3>2, <3>3 DEF UserType
    <3> QED BY <3>4 DEF Credentials, w
  <2>3. users' \subseteq UserType
    BY <1>8, <2>2 DEF SaveEnds
  <2>4. UNCHANGED <<schema, holder, config, secret, pc, build, todo, key, made>>
    BY <1>8 DEF SaveEnds
  <2> QED BY <2>3, <2>4
<1>9. ASSUME SignsOut \/ UNCHANGED vars PROVE Basic'
  BY <1>9 DEF SignsOut, vars
<1> QED BY <1>1, <1>2, <1>3, <1>4, <1>5, <1>6, <1>7, <1>8, <1>9 DEF Next, Machine, Handles

\* Every step leaves the throttle's counters within their limits.
LEMMA LimitsStep == Typed /\ [Next]_vars => Limits'
<1> SUFFICES ASSUME Typed, [Next]_vars PROVE Limits'
  OBVIOUS
<1> USE DEF Typed, Limits
<1>1. ASSUME NEW p \in Machines, Dies(p) \/ LockoutEnds(p) PROVE Limits'
  <2>1. 0 \in 0 .. MaxFailures - 1
    BY BootAssumption
  <2>2. CASE Dies(p)
    BY <2>1, <2>2 DEF Dies
  <2>3. CASE LockoutEnds(p)
    BY <2>3 DEF LockoutEnds
  <2> QED BY <1>1, <2>2, <2>3
<1>2. ASSUME NEW r \in Requests, LoginEnds(r) PROVE Limits'
  <2> DEFINE p == req[r].at
  <2>1. p \in Machines
    BY <1>2 DEF LoginEnds, Requested, LoginType, SaveType
  <2>2. CASE /\ failures' = [failures EXCEPT ![p] = 0]
             /\ locked' = [locked EXCEPT ![p] = FALSE]
             /\ tried' = [tried EXCEPT ![p] = 0]
    BY <2>1, <2>2, BootAssumption
  <2>3. CASE Fails(p) /\ tried' = [tried EXCEPT ![p] = @ + 1]
    <3>1. failures[p] \in 0 .. MaxFailures - 1 /\ tried[p] \in Nat /\ locked[p] \in BOOLEAN
      BY <2>1
    <3>2. (IF failures[p] + 1 >= MaxFailures THEN 0 ELSE failures[p] + 1) \in 0 .. MaxFailures - 1
      BY <3>1, BootAssumption
    <3>3. failures' \in [Machines -> 0 .. MaxFailures - 1]
      BY <2>1, <2>3, <3>2 DEF Fails
    <3>4. tried' \in [Machines -> Nat]
      BY <2>1, <2>3, <3>1
    <3>5. locked' \in [Machines -> BOOLEAN]
      BY <2>1, <2>3 DEF Fails
    <3> QED BY <3>3, <3>4, <3>5
  <2> QED BY <1>2, <2>2, <2>3 DEF LoginEnds
<1>3. ASSUME UNCHANGED limiter PROVE Limits'
  BY <1>3 DEF limiter
<1>4. \A p \in Machines : Machine(p) => Dies(p) \/ LockoutEnds(p) \/ UNCHANGED limiter
  BY DEF Machine, Boots, Locks, ReadsApplied, Applies, Unlocks, CountsUsers, InsertsUser, FillsConfig,
     ReadsSecret, StoresSecret, Drains, EditsConfig
<1>5. \A r \in Requests : Handles(r) => LoginEnds(r) \/ UNCHANGED limiter
  BY DEF Handles, LoginStarts, SaveStarts, SaveEnds, RequestFails
<1>6. SignsOut \/ UNCHANGED vars => UNCHANGED limiter
  BY DEF SignsOut, vars
<1> QED BY <1>1, <1>2, <1>3, <1>4, <1>5, <1>6 DEF Next

\* The flags that tell of overlaps stay truth values.
LEMMA FlagsStep == Flags /\ [Next]_vars => Flags'
<1> SUFFICES ASSUME Flags, [Next]_vars PROVE Flags'
  OBVIOUS
<1>1. raced' \in BOOLEAN
  <2>1. \A p \in Machines : Machine(p) => UNCHANGED raced \/ CountsUsers(p) \/ ReadsSecret(p)
    BY DEF Machine, booting, Boots, Locks, ReadsApplied, Applies, Unlocks, InsertsUser, FillsConfig,
       StoresSecret, Drains, Dies, LockoutEnds, EditsConfig
  <2>2. \A p \in Machines : CountsUsers(p) \/ ReadsSecret(p) =>
          UNCHANGED raced \/ raced' = (raced \/ \E q \in Machines \ {p} : pc[q] = "insert")
                          \/ raced' = (raced \/ \E q \in Machines \ {p} : pc[q] = "generate")
    BY DEF CountsUsers, ReadsSecret, Races
  <2>3. \A r \in Requests : Handles(r) => UNCHANGED raced
    BY DEF Handles, booting, LoginStarts, LoginEnds, SaveStarts, SaveEnds, RequestFails
  <2>4. SignsOut \/ UNCHANGED vars => UNCHANGED raced
    BY DEF SignsOut, vars, booting
  <2> QED BY <2>1, <2>2, <2>3, <2>4 DEF Next, Flags
<1>2. overlapped' \in BOOLEAN /\ edited' \in BOOLEAN
  <2>1. \A p \in Machines : Machine(p) => UNCHANGED overlapped /\ (UNCHANGED edited \/ edited' = TRUE)
    BY DEF Machine, browser, Boots, Locks, ReadsApplied, Applies, Unlocks, CountsUsers, InsertsUser, FillsConfig,
       ReadsSecret, StoresSecret, Drains, Dies, LockoutEnds, EditsConfig
  <2>2. \A r \in Requests : Handles(r) =>
          /\ UNCHANGED edited
          /\ \/ UNCHANGED overlapped
             \/ overlapped' = (overlapped \/ \E q \in Requests : req[q] # Idle /\ req[q].kind = "save")
    BY DEF Handles, LoginStarts, LoginEnds, SaveStarts, SaveEnds, RequestFails
  <2>3. SignsOut \/ UNCHANGED vars => UNCHANGED <<overlapped, edited>>
    BY DEF SignsOut, vars, browser
  <2> QED BY <2>1, <2>2, <2>3 DEF Next, Flags
<1> QED BY <1>1, <1>2 DEF Flags

\* What becomes of the requests: one is taken by a machine that serves, one
\* ends, or a machine dies with all of its own.
LEMMA RequestSteps ==
    ASSUME Typed, [Next]_vars
    PROVE  \/ UNCHANGED req
           \/ \E r \in Requests, p \in Machines : \E q \in LoginType \cup SaveType :
                /\ req[r] = Idle /\ req' = [req EXCEPT ![r] = q]
                /\ q.at = p /\ pc[p] = "serve" /\ UNCHANGED <<pc, limiter>>
                /\ q.kind = "login" => ~locked[p]
           \/ \E r \in Requests : req[r] # Idle /\ req' = [req EXCEPT ![r] = Idle] /\ UNCHANGED pc
           \/ \E p \in Machines : Dies(p)
<1>1. \A p \in Machines : Machine(p) => UNCHANGED req \/ Dies(p)
  BY DEF Machine, Boots, Locks, ReadsApplied, Applies, Unlocks, CountsUsers, InsertsUser, FillsConfig,
     ReadsSecret, StoresSecret, Drains, LockoutEnds, EditsConfig, browser
<1>2. ASSUME NEW r \in Requests, LoginStarts(r)
      PROVE  \E p \in Machines : \E q \in LoginType \cup SaveType :
                /\ req[r] = Idle /\ req' = [req EXCEPT ![r] = q]
                /\ q.at = p /\ pc[p] = "serve" /\ UNCHANGED <<pc, limiter>>
                /\ q.kind = "login" => ~locked[p]
  <2>1. PICK p \in Machines, n \in Names, w \in Passwords :
          ~locked[p] /\ Takes(r, [kind |-> "login", at |-> p, name |-> n, password |-> w])
    BY <1>2 DEF LoginStarts
  <2> DEFINE q == [kind |-> "login", at |-> p, name |-> n, password |-> w]
  <2>2. q \in LoginType /\ q.at = p /\ q.kind = "login"
    BY DEF LoginType
  <2>3. req[r] = Idle /\ req' = [req EXCEPT ![r] = q] /\ pc[p] = "serve"
    BY <2>1 DEF Takes
  <2> QED BY <1>2, <2>1, <2>2, <2>3 DEF LoginStarts, booting
<1>3. ASSUME NEW r \in Requests, SaveStarts(r)
      PROVE  \E p \in Machines : \E q \in LoginType \cup SaveType :
                /\ req[r] = Idle /\ req' = [req EXCEPT ![r] = q]
                /\ q.at = p /\ pc[p] = "serve" /\ UNCHANGED <<pc, limiter>>
                /\ q.kind = "login" => ~locked[p]
  <2>1. PICK p \in Machines, u \in users, n \in Names, w \in (Passwords \ {Default}) \cup {"blank"} :
          Takes(r, [kind |-> "save", at |-> p, user |-> u, name |-> n, password |-> w])
    BY <1>3 DEF SaveStarts
  <2> DEFINE q == [kind |-> "save", at |-> p, user |-> u, name |-> n, password |-> w]
  <2>2. q \in SaveType /\ q.at = p /\ q.kind = "save"
    BY DEF SaveType, Typed, Basic
  <2>3. req[r] = Idle /\ req' = [req EXCEPT ![r] = q] /\ pc[p] = "serve"
    BY <2>1 DEF Takes
  <2> QED BY <1>3, <2>2, <2>3 DEF SaveStarts, booting
<1>4. ASSUME NEW r \in Requests, LoginEnds(r) \/ SaveEnds(r) \/ RequestFails(r)
      PROVE  req[r] # Idle /\ req' = [req EXCEPT ![r] = Idle] /\ UNCHANGED pc
  BY <1>4 DEF LoginEnds, SaveEnds, RequestFails, booting
<1>5. SignsOut \/ UNCHANGED vars => UNCHANGED req
  BY DEF SignsOut, vars, browser
<1> QED BY <1>1, <1>2, <1>3, <1>4, <1>5 DEF Next, Handles

\* A request is held only by a machine that serves: a death ends both.
LEMMA RequestedStep == Typed /\ [Next]_vars => Requested'
<1> SUFFICES ASSUME Typed, [Next]_vars PROVE Requested'
  OBVIOUS
<1>1. CASE UNCHANGED req
  <2>1. \A p \in Machines : pc[p] \in Serving => pc'[p] \in Serving \/ Dies(p)
    BY DEF Typed, Basic, Serving, Moves, Next, Machine, Handles, vars, booting, Boots, Locks,
       ReadsApplied, Applies, Unlocks, CountsUsers, InsertsUser, FillsConfig, ReadsSecret, StoresSecret,
       Drains, Dies, LockoutEnds, EditsConfig, LoginStarts, LoginEnds, SaveStarts, SaveEnds,
       RequestFails, SignsOut
  <2>2. \A r \in Requests : req[r] # Idle => req[r].at \in Machines
    BY DEF Typed, Requested, LoginType, SaveType
  <2>3. \A p \in Machines, r \in Requests : Dies(p) /\ req[r] # Idle => req[r].at # p
    BY <1>1 DEF Dies, At, Typed, Requested
  <2> QED BY <1>1, <2>1, <2>2, <2>3 DEF Typed, Requested
<1>2. CASE \E r \in Requests, p \in Machines : \E q \in LoginType \cup SaveType :
                /\ req[r] = Idle /\ req' = [req EXCEPT ![r] = q]
                /\ q.at = p /\ pc[p] = "serve" /\ UNCHANGED <<pc, limiter>>
  BY <1>2 DEF Typed, Requested, Serving
<1>3. CASE \E r \in Requests : req[r] # Idle /\ req' = [req EXCEPT ![r] = Idle] /\ UNCHANGED pc
  BY <1>3 DEF Typed, Requested
<1>4. ASSUME NEW p \in Machines, Dies(p) PROVE Requested'
  <2>1. \A q \in Machines \ {p} : pc'[q] = pc[q]
    BY <1>4 DEF Dies, Typed, Basic
  <2>2. \A r \in Requests : req[r] # Idle => req[r].at \in Machines
    BY DEF Typed, Requested, LoginType, SaveType
  <2>3. req' = [r \in Requests |-> IF At(r, p) THEN Idle ELSE req[r]]
    BY <1>4 DEF Dies
  <2>4. req' \in [Requests -> {Idle} \cup LoginType \cup SaveType]
    BY <2>3 DEF Typed, Requested
  <2>5. \A r \in Requests : req'[r] # Idle => req'[r] = req[r] /\ req[r].at # p
    BY <2>3 DEF At
  <2> QED BY <2>1, <2>2, <2>4, <2>5 DEF Typed, Requested
<1> QED BY <1>1, <1>2, <1>3, <1>4, RequestSteps

-----------------------------------------------------------------------------
(* The throttle.                                                            *)

\* The requests a machine has in flight are finite in number, and some of all.
LEMMA FlyFacts ==
    \A p : IsFiniteSet(Fly(p)) /\ Cardinality(Fly(p)) \in Nat /\ Cardinality(Fly(p)) <= Cardinality(Requests)
<1> TAKE p
<1>1. Fly(p) \in SUBSET Requests
  BY DEF Fly
<1> QED BY <1>1, FS_Subset, FS_CardinalityType, BootAssumption

\* A request fewer in flight, and the others' as they were.
LEMMA FlyShrinks ==
    ASSUME Typed, NEW p, NEW S, S \subseteq Fly(p)
    PROVE  IsFiniteSet(S) /\ Cardinality(S) \in Nat /\ Cardinality(S) <= Cardinality(Fly(p))
BY FlyFacts, FS_Subset, FS_CardinalityType

\* One more wrong password is looked at, one request fewer is in flight.
LEMMA Count ==
    ASSUME NEW t \in Nat, NEW m \in Nat, NEW n \in Nat, NEW f \in Nat, NEW g \in Nat, g <= f - 1, f <= n
    PROVE  /\ t + f <= m - 1 + n => (t + 1) + g <= m - 1 + n
           /\ t <= m - 1 => (t + 1) + g <= m - 1 + n
OBVIOUS

\* Every step keeps the count of wrong passwords, with those in flight, in bounds.
LEMMA ThrottledStep == Typed /\ Throttled /\ [Next]_vars => Throttled'
<1> SUFFICES ASSUME Typed, Throttled, [Next]_vars, NEW p \in Machines
             PROVE  /\ ~locked'[p] => tried'[p] <= failures'[p]
                    /\ locked'[p] => tried'[p] + Cardinality(Fly(p)') <= MaxFailures - 1 + Cardinality(Requests)
  BY DEF Throttled
<1> DEFINE Bound == MaxFailures - 1 + Cardinality(Requests)
<1>0. /\ failures[p] \in Nat /\ failures[p] <= MaxFailures - 1 /\ locked[p] \in BOOLEAN /\ tried[p] \in Nat
      /\ MaxFailures \in Nat \ {0} /\ Cardinality(Requests) \in Nat /\ Cardinality(Fly(p)) \in Nat
      /\ ~locked[p] => tried[p] <= failures[p]
      /\ locked[p] => tried[p] + Cardinality(Fly(p)) <= Bound
  BY BootAssumption, FS_CardinalityType, FlyFacts DEF Typed, Limits, Throttled
<1>1. ASSUME UNCHANGED limiter, Fly(p)' \subseteq Fly(p) \/ ~locked[p]
      PROVE  /\ ~locked'[p] => tried'[p] <= failures'[p]
             /\ locked'[p] => tried'[p] + Cardinality(Fly(p)') <= Bound
  <2>1. CASE ~locked[p]
    BY <1>0, <1>1, <2>1 DEF limiter
  <2>2. CASE Fly(p)' \subseteq Fly(p)
    <3>1. Cardinality(Fly(p)') \in Nat /\ Cardinality(Fly(p)') <= Cardinality(Fly(p))
      BY <2>2, FlyShrinks
    <3> QED BY <1>0, <1>1, <3>1 DEF limiter
  <2> QED BY <1>1, <2>1, <2>2
<1>2. CASE UNCHANGED <<req, limiter>>
  BY <1>1, <1>2 DEF Fly
<1>3. ASSUME NEW r \in Requests, NEW at \in Machines, NEW q \in LoginType \cup SaveType,
             req[r] = Idle, req' = [req EXCEPT ![r] = q], q.at = at, UNCHANGED limiter,
             q.kind = "login" => ~locked[at]
      PROVE  Fly(p)' \subseteq Fly(p) \/ ~locked[p]
  BY <1>3 DEF Fly, Typed, Requested
<1>4. ASSUME NEW r \in Requests, req[r] # Idle, req' = [req EXCEPT ![r] = Idle]
      PROVE  Fly(p)' \subseteq Fly(p) \ {r}
  BY <1>4 DEF Fly, Typed, Requested
<1>5. ASSUME NEW at \in Machines, Dies(at)
      PROVE  /\ ~locked'[p] => tried'[p] <= failures'[p]
             /\ locked'[p] => tried'[p] + Cardinality(Fly(p)') <= Bound
  <2>1. Fly(p)' \subseteq Fly(p)
    BY <1>5 DEF Fly, Dies, Typed, Requested
  <2>2. Cardinality(Fly(p)') \in Nat /\ Cardinality(Fly(p)') <= Cardinality(Fly(p))
    BY <2>1, FlyShrinks
  <2>3. CASE p = at
    BY <1>5, <2>3 DEF Dies, Typed, Limits
  <2>4. CASE p # at
    <3>1. tried'[p] = tried[p] /\ failures'[p] = failures[p] /\ locked'[p] = locked[p]
      BY <1>5, <2>4 DEF Dies, Typed, Limits
    <3> QED BY <1>0, <2>2, <3>1
  <2> QED BY <2>3, <2>4
<1>6. ASSUME NEW at \in Machines, LockoutEnds(at)
      PROVE  /\ ~locked'[p] => tried'[p] <= failures'[p]
             /\ locked'[p] => tried'[p] + Cardinality(Fly(p)') <= Bound
  <2>1. Fly(p)' = Fly(p)
    BY <1>6 DEF Fly, LockoutEnds, browser
  <2>2. CASE p = at
    BY <1>0, <1>6, <2>2 DEF LockoutEnds, Typed, Limits
  <2>3. CASE p # at
    BY <1>0, <1>6, <2>1, <2>3 DEF LockoutEnds, Typed, Limits
  <2> QED BY <2>2, <2>3
<1>7. ASSUME NEW r \in Requests, LoginEnds(r)
      PROVE  /\ ~locked'[p] => tried'[p] <= failures'[p]
             /\ locked'[p] => tried'[p] + Cardinality(Fly(p)') <= Bound
  <2> DEFINE at == req[r].at
  <2>1. at \in Machines /\ req[r].kind = "login"
    BY <1>7 DEF LoginEnds, Typed, Requested, LoginType, SaveType
  <2>2. Fly(p)' \subseteq Fly(p) \ {r}
    BY <1>4, <1>7 DEF LoginEnds
  <2>3. Cardinality(Fly(p)') \in Nat /\ Cardinality(Fly(p)') <= Cardinality(Fly(p))
    BY <2>2, FlyShrinks
  <2>4. CASE p # at
    <3>1. tried'[p] = tried[p] /\ failures'[p] = failures[p] /\ locked'[p] = locked[p]
      BY <1>7, <2>1, <2>4 DEF LoginEnds, Fails, Typed, Limits
    <3> QED BY <1>0, <2>3, <3>1
  <2>5. CASE p = at
    <3>1. Cardinality(Fly(p)') <= Cardinality(Fly(p)) - 1
      <4>1. r \in Fly(p)
        BY <1>7, <2>1, <2>5 DEF Fly, LoginEnds
      <4>2. IsFiniteSet(Fly(p) \ {r}) /\ Cardinality(Fly(p) \ {r}) = Cardinality(Fly(p)) - 1
        BY <4>1, FlyFacts, FS_RemoveElement
      <4>3. Cardinality(Fly(p)') <= Cardinality(Fly(p) \ {r})
        BY <2>2, <4>2, FS_Subset
      <4> QED BY <4>2, <4>3
    <3>2. Cardinality(Fly(p)) <= Cardinality(Requests)
      BY FlyFacts
    <3>3. CASE tried'[p] = 0 /\ failures'[p] = 0 /\ locked'[p] = FALSE
      BY <3>3
    <3>4. CASE /\ failures'[p] = (IF failures[p] + 1 >= MaxFailures THEN 0 ELSE failures[p] + 1)
               /\ locked'[p] = (locked[p] \/ failures[p] + 1 >= MaxFailures)
               /\ tried'[p] = tried[p] + 1
      <4>0. /\ tried[p] + Cardinality(Fly(p)) <= Bound => (tried[p] + 1) + Cardinality(Fly(p)') <= Bound
            /\ tried[p] <= MaxFailures - 1 => (tried[p] + 1) + Cardinality(Fly(p)') <= Bound
        BY <1>0, <2>3, <3>1, <3>2, Count
      <4>1. CASE locked[p]
        BY <1>0, <3>4, <4>0, <4>1
      <4>2. CASE ~locked[p] /\ failures[p] + 1 >= MaxFailures
        <5>1. tried[p] <= MaxFailures - 1
          BY <1>0, <4>2
        <5> QED BY <3>4, <4>0, <4>2, <5>1
      <4>3. CASE ~locked[p] /\ ~(failures[p] + 1 >= MaxFailures)
        BY <1>0, <3>4, <4>3
      <4> QED BY <4>1, <4>2, <4>3
    <3> QED BY <1>7, <2>1, <2>5, <3>3, <3>4 DEF LoginEnds, Fails, Typed, Limits
  <2> QED BY <2>4, <2>5
<1>8. \A at \in Machines : Machine(at) => Dies(at) \/ LockoutEnds(at) \/ UNCHANGED <<req, limiter>>
  BY DEF Machine, Boots, Locks, ReadsApplied, Applies, Unlocks, CountsUsers, InsertsUser, FillsConfig,
     ReadsSecret, StoresSecret, Drains, EditsConfig, browser
<1>9. \A r \in Requests : Handles(r) => LoginEnds(r) \/ UNCHANGED limiter
  BY DEF Handles, LoginStarts, SaveStarts, SaveEnds, RequestFails
<1>10. SignsOut \/ UNCHANGED vars => UNCHANGED limiter
  BY DEF SignsOut, vars
<1>11. CASE UNCHANGED limiter
  <2>1. ASSUME NEW r \in Requests, req[r] # Idle, req' = [req EXCEPT ![r] = Idle]
        PROVE  Fly(p)' \subseteq Fly(p)
    BY <1>4, <2>1
  <2>2. \/ Fly(p)' \subseteq Fly(p) \/ ~locked[p] \/ \E at \in Machines : Dies(at)
    BY RequestSteps, <1>3, <1>11, <2>1 DEF Fly
  <2> QED BY <1>1, <1>5, <1>11, <2>2
<1> QED BY <1>2, <1>5, <1>6, <1>7, <1>8, <1>9, <1>10, <1>11 DEF Next

-----------------------------------------------------------------------------
(* The migrations.                                                          *)

\* Only the holder of the lock moves the schema, on what it has read of it.
LEMMA MigratedStep == Typed /\ Migrated /\ [Next]_vars => Migrated'
<1> SUFFICES ASSUME Typed, Migrated, [Next]_vars PROVE Migrated'
  OBVIOUS
<1>1. Basic
  BY DEF Typed
<1>2. ASSUME UNCHANGED <<schema, holder, pc, build, todo>> PROVE Migrated'
  BY <1>2 DEF Migrated
<1>3. ASSUME NEW p \in Machines, Boots(p) PROVE Migrated'
  BY <1>1, <1>3 DEF Boots, Basic, Migrated, Moves, Migrating, Past, Serving, rows
<1>4. ASSUME NEW p \in Machines, Locks(p) PROVE Migrated'
  <2>1. /\ pc[p] = "lock" /\ pc'[p] = "read" /\ (\A q \in Machines \ {p} : pc'[q] = pc[q])
        /\ UNCHANGED <<schema, build, todo>> /\ holder' = p
    BY <1>1, <1>4 DEF Locks, Basic, Moves
  <2>2. \A q \in Machines : pc[q] \notin Migrating
    BY <1>4, BootAssumption DEF Locks, Migrated
  <2> QED BY <2>1, <2>2 DEF Migrated, Migrating, Past, Serving
<1>5. ASSUME NEW p \in Machines, ReadsApplied(p) PROVE Migrated'
  <2>1. /\ pc[p] = "read" /\ pc'[p] = "apply" /\ (\A q \in Machines \ {p} : pc'[q] = pc[q])
        /\ UNCHANGED <<schema, holder, build>>
        /\ todo'[p] = build[p] \ schema /\ (\A q \in Machines \ {p} : todo'[q] = todo[q])
    BY <1>1, <1>5 DEF ReadsApplied, Basic, Moves, rows
  <2>2. todo'[p] \cap schema' = {} /\ build'[p] \subseteq schema' \cup todo'[p]
    BY <2>1
  <2> QED BY <2>1, <2>2 DEF Migrated, Migrating, Past, Serving
<1>6. ASSUME NEW p \in Machines, Applies(p) PROVE Migrated'
  <2>1. pc[p] = "apply" /\ UNCHANGED build
    BY <1>6 DEF Applies
  <2>2. PICK v \in todo[p] :
          IF v \in schema
            THEN Moves(p, "apply", "failed")
            ELSE /\ schema' = schema \cup {v} /\ todo' = [todo EXCEPT ![p] = @ \ {v}]
                 /\ UNCHANGED <<pc, holder>>
    BY <1>6 DEF Applies
  <2>3. v \notin schema
    BY <2>1 DEF Migrated
  <2>4. \A q \in Machines : pc[q] = "apply" => q = p
    BY <2>1 DEF Migrated, Migrating
  <2> QED BY <1>1, <2>1, <2>2, <2>3, <2>4 DEF Basic, Migrated
<1>7. ASSUME NEW p \in Machines, Unlocks(p) PROVE Migrated'
  <2>1. \A q \in Machines : pc[q] \in Migrating => q = p
    BY <1>7 DEF Unlocks, Moves, Migrated, Migrating
  <2>2. build[p] \subseteq schema
    BY <1>7 DEF Unlocks, Moves, Migrated
  <2> QED BY <1>1, <1>7, <2>1, <2>2 DEF Unlocks, Basic, Migrated, Moves, Migrating, Past, Serving
<1>8. ASSUME NEW p \in Machines, CountsUsers(p) \/ InsertsUser(p) \/ FillsConfig(p) \/ ReadsSecret(p)
                               \/ StoresSecret(p) \/ Drains(p)
      PROVE  Migrated'
  <2>1. UNCHANGED <<schema, holder, build, todo>>
    BY <1>8 DEF CountsUsers, InsertsUser, FillsConfig, ReadsSecret, StoresSecret, Drains, rows
  <2>2. /\ pc[p] \in Past /\ pc'[p] \in Past /\ \A q \in Machines \ {p} : pc'[q] = pc[q]
    BY <1>1, <1>8 DEF CountsUsers, InsertsUser, FillsConfig, ReadsSecret, StoresSecret, Drains,
       Basic, Moves, Past, Serving
  <2> QED BY <2>1, <2>2 DEF Migrated, Past, Serving, Migrating
<1>9. ASSUME NEW p \in Machines, Dies(p) PROVE Migrated'
  <2>1. UNCHANGED schema /\ pc'[p] = "off" /\ \A q \in Machines \ {p} :
          pc'[q] = pc[q] /\ build'[q] = build[q] /\ todo'[q] = todo[q] /\ (holder = q => holder' = q)
    BY <1>1, <1>9 DEF Dies, Basic
  <2> QED BY <2>1 DEF Migrated, Migrating, Past, Serving
<1>10. \A p \in Machines : LockoutEnds(p) \/ EditsConfig(p) => UNCHANGED <<schema, holder, pc, build, todo>>
  BY DEF LockoutEnds, EditsConfig, booting, rows
<1>11. \A r \in Requests : Handles(r) => UNCHANGED <<schema, holder, pc, build, todo>>
  BY DEF Handles, LoginStarts, LoginEnds, SaveStarts, SaveEnds, RequestFails, booting, rows
<1>12. SignsOut \/ UNCHANGED vars => UNCHANGED <<schema, holder, pc, build, todo>>
  BY DEF SignsOut, vars, booting, rows
<1> QED BY <1>2, <1>3, <1>4, <1>5, <1>6, <1>7, <1>8, <1>9, <1>10, <1>11, <1>12 DEF Next, Machine

-----------------------------------------------------------------------------
(* The users.                                                               *)

\* Two first boots that overlapped once stay recorded as such.
LEMMA RacedStays == raced /\ [Next]_vars => raced'
<1> SUFFICES ASSUME raced, [Next]_vars PROVE raced'
  OBVIOUS
<1>1. \A p \in Machines : Machine(p) => UNCHANGED raced \/ CountsUsers(p) \/ ReadsSecret(p)
  BY DEF Machine, booting, Boots, Locks, ReadsApplied, Applies, Unlocks, InsertsUser, FillsConfig,
     StoresSecret, Drains, Dies, LockoutEnds, EditsConfig
<1>2. \A p \in Machines : CountsUsers(p) \/ ReadsSecret(p) => raced'
  BY DEF CountsUsers, ReadsSecret, Races
<1>3. \A r \in Requests : Handles(r) => UNCHANGED raced
  BY DEF Handles, booting, LoginStarts, LoginEnds, SaveStarts, SaveEnds, RequestFails
<1>4. SignsOut \/ UNCHANGED vars => UNCHANGED raced
  BY DEF SignsOut, vars, booting
<1> QED BY <1>1, <1>2, <1>3, <1>4 DEF Next

\* What a change of credentials makes of the users: the ids stay.
LEMMA SavedUsers ==
    ASSUME Typed, OneId, NEW r \in Requests, SaveEnds(r)
    PROVE  /\ \A u \in users' : \E v \in users :
                 v.id = u.id /\ u = IF v.id = req[r].user.id THEN Credentials(v, req[r]) ELSE v
           /\ \A v \in users : \E u \in users' : u.id = v.id
           /\ OneId'
           /\ (\A u, v \in users : u = v) => (\A u, v \in users' : u = v)
           /\ users # {} => users' # {}
<1> DEFINE New(v) == IF v.id = req[r].user.id THEN Credentials(v, req[r]) ELSE v
<1>1. users' = {New(v) : v \in users}
  BY DEF SaveEnds
<1>2. \A v \in users : New(v).id = v.id
  BY DEF Credentials, Typed, Basic, UserType
<1> HIDE DEF New
<1>3. OneId' /\ ((\A u, v \in users : u = v) => (\A u, v \in users' : u = v))
  BY <1>1, <1>2 DEF OneId
<1>4. \A v \in users : \E u \in users' : u.id = v.id
  BY <1>1, <1>2
<1>5. \A u \in users' : \E v \in users : v.id = u.id /\ u = New(v)
  BY <1>1, <1>2
<1> QED BY <1>1, <1>3, <1>4, <1>5 DEF New

Peopling == {"config", "secret", "generate"} \cup Serving

\* Every step keeps the users as one boot made them, unless two overlapped.
LEMMA PeopledStep == Typed /\ Peopled /\ [Next]_vars => Peopled'
<1> SUFFICES ASSUME Typed, Peopled, [Next]_vars PROVE Peopled'
  OBVIOUS
<1>1. Basic /\ Flags
  BY DEF Typed
<1>2. ASSUME UNCHANGED <<users, config, edited>>, raced => raced',
             \A q \in Machines : /\ pc'[q] = "insert" => pc[q] = "insert"
                                 /\ pc'[q] \in Peopling => pc[q] \in Peopling
      PROVE  Peopled'
  BY <1>2 DEF Peopled, OneId, Peopling
<1>3. ASSUME NEW p \in Machines, Boots(p) \/ Locks(p) \/ ReadsApplied(p) \/ Applies(p) \/ Unlocks(p)
                               \/ ReadsSecret(p) \/ StoresSecret(p) \/ Drains(p) \/ Dies(p) \/ LockoutEnds(p)
      PROVE  Peopled'
  <2>1. UNCHANGED <<users, config, edited>>
    BY <1>3 DEF Boots, Locks, ReadsApplied, Applies, Unlocks, ReadsSecret, StoresSecret, Drains, Dies,
       LockoutEnds, rows, browser
  <2>2. \A q \in Machines : /\ pc'[q] = "insert" => pc[q] = "insert"
                            /\ pc'[q] \in Peopling => pc[q] \in Peopling
    <3>1. \/ pc' = pc
          \/ pc' = [pc EXCEPT ![p] = "lock"] \/ pc' = [pc EXCEPT ![p] = "read"]
          \/ pc' = [pc EXCEPT ![p] = "apply"] \/ pc' = [pc EXCEPT ![p] = "failed"]
          \/ pc' = [pc EXCEPT ![p] = "users"] \/ pc' = [pc EXCEPT ![p] = "off"]
          \/ pc[p] \in Peopling /\ \E to \in {"serve", "generate", "drain"} : pc' = [pc EXCEPT ![p] = to]
      BY <1>3 DEF Boots, Locks, ReadsApplied, Applies, Unlocks, ReadsSecret, StoresSecret, Drains, Dies,
         LockoutEnds, booting, Moves, Peopling, Serving
    <3> QED BY <1>1, <3>1 DEF Basic, Peopling, Serving
  <2> QED BY <1>2, <2>1, <2>2, RacedStays
<1>4. ASSUME NEW p \in Machines, CountsUsers(p) PROVE Peopled'
  <2>1. UNCHANGED <<users, config, edited>>
    BY <1>4 DEF CountsUsers, rows, browser
  <2>2. CASE users = {}
    <3>1. /\ pc[p] = "users" /\ pc'[p] = "insert" /\ \A q \in Machines \ {p} : pc'[q] = pc[q]
          /\ raced' = (raced \/ \E q \in Machines \ {p} : pc[q] = "insert")
      BY <1>1, <1>4, <2>2 DEF CountsUsers, Races, Moves, Basic
    <3> QED BY <2>1, <2>2, <3>1 DEF Peopled, OneId, Serving
  <2>3. CASE users # {}
    <3>1. pc'[p] = "config" /\ UNCHANGED raced /\ \A q \in Machines \ {p} : pc'[q] = pc[q]
      BY <1>1, <1>4, <2>3 DEF CountsUsers, Moves, Basic
    <3> QED BY <2>1, <2>3, <3>1 DEF Peopled, OneId
  <2> QED BY <2>2, <2>3
<1>5. ASSUME NEW p \in Machines, InsertsUser(p) PROVE Peopled'
  <2>1. /\ pc[p] = "insert" /\ pc'[p] = "config" /\ (\A q \in Machines \ {p} : pc'[q] = pc[q])
        /\ UNCHANGED <<raced, config, edited>>
    BY <1>1, <1>5 DEF InsertsUser, Moves, Basic, browser
  <2> DEFINE new == [id |-> p, name |-> Default, password |-> Default, required |-> TRUE]
  <2>2. \/ users' = users /\ users # {}
        \/ users' = users \cup {new} /\ users' # {}
    BY <1>5 DEF InsertsUser
  <2>3. new.id = p
    OBVIOUS
  <2> HIDE DEF new
  <2>4. \A u \in users : u.id # p
    BY <2>1 DEF Peopled
  <2>5. OneId' /\ users' # {}
    BY <2>2, <2>3, <2>4 DEF Peopled, OneId
  <2>6. \A q \in Machines : pc'[q] = "insert" => \A u \in users' : u.id # q
    BY <2>1, <2>2, <2>3 DEF Peopled
  <2>7. ~raced' => /\ \A u, v \in users' : u = v
                   /\ \A q \in Machines : pc'[q] # "insert"
    BY <2>1, <2>2 DEF Peopled
  <2> QED BY <2>1, <2>5, <2>6, <2>7 DEF Peopled
<1>6. ASSUME NEW p \in Machines, FillsConfig(p) PROVE Peopled'
  <2>1. /\ pc[p] = "config" /\ pc'[p] = "secret" /\ (\A q \in Machines \ {p} : pc'[q] = pc[q])
        /\ UNCHANGED <<users, raced, edited>> /\ config' = IF config = "none" THEN "default" ELSE config
    BY <1>1, <1>6 DEF FillsConfig, Moves, Basic, browser
  <2>2. edited' => config' = "edited"
    BY <2>1 DEF Peopled
  <2> QED BY <2>1, <2>2 DEF Peopled, OneId, Serving
<1>7. ASSUME NEW p \in Machines, EditsConfig(p) PROVE Peopled'
  BY <1>7 DEF EditsConfig, Peopled, OneId, booting
<1>8. ASSUME NEW r \in Requests, SaveEnds(r) PROVE Peopled'
  <2>1. UNCHANGED <<pc, raced, config, edited>>
    BY <1>8 DEF SaveEnds, booting
  <2>2. \A q \in Machines : pc[q] = "insert" => \A u \in users' : u.id # q
    BY <1>8, SavedUsers DEF Peopled
  <2>3. \A q \in Machines : ~raced => pc[q] # "insert" \/ users' = {}
    BY <1>8 DEF SaveEnds, Peopled
  <2> QED BY <1>8, <2>1, <2>2, <2>3, SavedUsers DEF Peopled
<1>9. ASSUME NEW r \in Requests, LoginStarts(r) \/ LoginEnds(r) \/ SaveStarts(r) \/ RequestFails(r) PROVE Peopled'
  <2>1. UNCHANGED <<users, config, edited, raced, pc>>
    BY <1>9 DEF LoginStarts, LoginEnds, SaveStarts, RequestFails, rows, booting
  <2> QED BY <1>2, <2>1
<1>10. ASSUME SignsOut \/ UNCHANGED vars PROVE Peopled'
  <2>1. UNCHANGED <<users, config, edited, raced, pc>>
    BY <1>10 DEF SignsOut, vars, rows, booting, browser
  <2> QED BY <1>2, <2>1
<1> QED BY <1>3, <1>4, <1>5, <1>6, <1>7, <1>8, <1>9, <1>10 DEF Next, Machine, Handles

-----------------------------------------------------------------------------
(* The secret and the cookie.                                               *)

\* The ids of the users stay.
LEMMA IdsStay ==
    ASSUME Typed, Peopled, [Next]_vars, NEW v \in users
    PROVE  \E u \in users' : u.id = v.id
<1>1. \A p \in Machines : Machine(p) => users \subseteq users'
  BY DEF Machine, rows, Boots, Locks, ReadsApplied, Applies, Unlocks, CountsUsers, InsertsUser, FillsConfig,
     ReadsSecret, StoresSecret, Drains, Dies, LockoutEnds, EditsConfig
<1>2. \A r \in Requests : Handles(r) => SaveEnds(r) \/ UNCHANGED users
  BY DEF Handles, LoginStarts, LoginEnds, SaveStarts, RequestFails, rows
<1>3. SignsOut \/ UNCHANGED vars => UNCHANGED users
  BY DEF SignsOut, vars, rows
<1>4. \A r \in Requests : SaveEnds(r) => \E u \in users' : u.id = v.id
  BY SavedUsers DEF Peopled
<1> QED BY <1>1, <1>2, <1>3, <1>4 DEF Next

\* Every step keeps the machines that sign on the stored key, unless boots overlapped.
LEMMA KeyedStep == Typed /\ Peopled /\ Saving /\ Keyed /\ [Next]_vars => Keyed'
<1> SUFFICES ASSUME Typed, Peopled, Saving, Keyed, [Next]_vars PROVE Keyed'
  OBVIOUS
<1>1. Basic /\ Flags
  BY DEF Typed
<1>2. \A v \in users : \E u \in users' : u.id = v.id
  BY IdsStay
<1>3. ASSUME UNCHANGED <<secret, cookie>>, raced => raced',
             \A q \in Machines : /\ pc'[q] = "generate" => pc[q] = "generate"
                                 /\ pc'[q] \in Serving => pc[q] \in Serving /\ key'[q] = key[q]
      PROVE  Keyed'
  BY <1>2, <1>3 DEF Keyed
<1>4. ASSUME NEW p \in Machines, Boots(p) \/ Locks(p) \/ ReadsApplied(p) \/ Applies(p) \/ Unlocks(p)
                               \/ CountsUsers(p) \/ InsertsUser(p) \/ FillsConfig(p) \/ Drains(p)
                               \/ Dies(p) \/ LockoutEnds(p) \/ EditsConfig(p)
      PROVE  Keyed'
  <2>1. UNCHANGED <<secret, cookie>>
    BY <1>4 DEF Boots, Locks, ReadsApplied, Applies, Unlocks, CountsUsers, InsertsUser, FillsConfig, Drains, Dies,
       LockoutEnds, EditsConfig, rows, browser
  <2>2. /\ \/ pc' = pc
           \/ \E to \in {"lock", "read", "apply", "failed", "users", "insert", "config", "secret", "off"} :
                pc' = [pc EXCEPT ![p] = to]
           \/ pc[p] = "serve" /\ pc' = [pc EXCEPT ![p] = "drain"]
        /\ key' = key \/ (pc' = [pc EXCEPT ![p] = "off"] /\ key' = [key EXCEPT ![p] = 0])
    BY <1>4 DEF Boots, Locks, ReadsApplied, Applies, Unlocks, CountsUsers, InsertsUser, FillsConfig, Drains, Dies,
       LockoutEnds, EditsConfig, booting, Moves
  <2>3. \A q \in Machines : /\ pc'[q] = "generate" => pc[q] = "generate"
                            /\ pc'[q] \in Serving => pc[q] \in Serving
    BY <1>1, <2>2 DEF Basic, Serving
  <2>4. \A q \in Machines : pc'[q] \in Serving => key'[q] = key[q]
    BY <1>1, <2>2 DEF Basic, Serving
  <2> QED BY <1>3, <2>1, <2>3, <2>4, RacedStays
<1>5. ASSUME NEW p \in Machines, ReadsSecret(p) PROVE Keyed'
  <2>1. UNCHANGED <<secret, cookie>>
    BY <1>5 DEF ReadsSecret, rows, browser
  <2>2. CASE secret # 0
    <3>1. /\ pc'[p] = "serve" /\ key'[p] = secret /\ UNCHANGED raced
          /\ \A q \in Machines \ {p} : pc'[q] = pc[q] /\ key'[q] = key[q]
      BY <1>1, <1>5, <2>2 DEF ReadsSecret, Basic, Moves
    <3> QED BY <1>2, <2>1, <2>2, <3>1 DEF Keyed, Serving
  <2>3. CASE secret = 0
    <3>1. /\ pc'[p] = "generate" /\ UNCHANGED key /\ \A q \in Machines \ {p} : pc'[q] = pc[q]
          /\ raced' = (raced \/ \E q \in Machines \ {p} : pc[q] = "generate")
      BY <1>1, <1>5, <2>3 DEF ReadsSecret, Races, Basic, Moves
    <3> QED BY <1>2, <2>1, <2>3, <3>1 DEF Keyed, Serving
  <2> QED BY <2>2, <2>3
<1>6. ASSUME NEW p \in Machines, StoresSecret(p) PROVE Keyed'
  <2>1. PICK s \in {1, made + 1} : secret' = s /\ key' = [key EXCEPT ![p] = s]
    BY <1>6 DEF StoresSecret
  <2>2. s # 0
    BY <1>1 DEF Basic
  <2>3. /\ pc[p] = "generate" /\ pc'[p] = "serve" /\ (\A q \in Machines \ {p} : pc'[q] = pc[q])
        /\ UNCHANGED <<raced, cookie>> /\ key'[p] = s /\ (\A q \in Machines \ {p} : key'[q] = key[q])
    BY <1>1, <1>6, <2>1 DEF StoresSecret, Basic, Moves, browser
  <2>4. ~raced => /\ cookie = NoCookie
                  /\ \A q \in Machines : pc[q] \notin Serving /\ (q # p => pc[q] # "generate")
    BY <2>3 DEF Keyed
  <2>5. cookie' # NoCookie => secret' # 0 /\ (~raced' => cookie'.key = secret') /\ \E u \in users' : u.id = cookie'.id
    BY <1>2, <2>1, <2>2, <2>3, <2>4 DEF Keyed
  <2> QED BY <2>1, <2>2, <2>3, <2>4, <2>5 DEF Keyed, Serving
<1>7. ASSUME NEW p \in Machines, pc[p] \in Serving, NEW v \in users, Issues(p, v.id),
             UNCHANGED <<secret, key, pc, raced>>
      PROVE  Keyed'
  <2>1. cookie'.id = v.id /\ cookie'.key = key[p]
    BY <1>7 DEF Issues
  <2> QED BY <1>2, <1>7, <2>1 DEF Keyed
<1>8. ASSUME NEW r \in Requests, LoginEnds(r) PROVE Keyed'
  <2>1. UNCHANGED <<secret, key, pc, raced>>
    BY <1>8 DEF LoginEnds, rows, booting
  <2>2. req[r].at \in Machines /\ pc[req[r].at] \in Serving
    BY <1>8 DEF LoginEnds, Typed, Requested, LoginType, SaveType
  <2>3. UNCHANGED cookie \/ \E v \in users : Issues(req[r].at, v.id)
    BY <1>8 DEF LoginEnds
  <2> QED BY <1>3, <1>7, <2>1, <2>2, <2>3
<1>9. ASSUME NEW r \in Requests, SaveEnds(r) PROVE Keyed'
  <2>1. UNCHANGED <<secret, key, pc, raced>>
    BY <1>9 DEF SaveEnds, rows, booting
  <2>2. req[r].at \in Machines /\ pc[req[r].at] \in Serving
    BY <1>9 DEF SaveEnds, Typed, Requested, LoginType, SaveType
  <2>3. \E v \in users : v.id = req[r].user.id
    BY <1>9 DEF SaveEnds, Saving, Saves
  <2>4. \E v \in users : Issues(req[r].at, v.id)
    BY <1>9, <2>3 DEF SaveEnds, Issues
  <2> QED BY <1>7, <2>1, <2>2, <2>4
<1>10. ASSUME NEW r \in Requests, LoginStarts(r) \/ SaveStarts(r) \/ RequestFails(r) PROVE Keyed'
  <2>1. UNCHANGED <<secret, cookie, raced, pc, key>>
    BY <1>10 DEF LoginStarts, SaveStarts, RequestFails, rows, booting
  <2> QED BY <1>3, <2>1
<1>11. CASE SignsOut
  BY <1>11 DEF SignsOut, rows, booting, Keyed
<1>12. CASE UNCHANGED vars
  BY <1>12 DEF vars, rows, booting, browser, Keyed
<1> QED BY <1>4, <1>5, <1>6, <1>8, <1>9, <1>10, <1>11, <1>12 DEF Next, Machine, Handles

-----------------------------------------------------------------------------
(* The credentials.                                                         *)

\* One change of credentials at a time leaves the marker right.
LEMMA SavedMarks ==
    ASSUME Typed, OneId, NEW r \in Requests, SaveEnds(r), req[r].user \in users, \A u \in users : Marked(u)
    PROVE  \A u \in users' : Marked(u)
<1>1. req[r] \in SaveType
  BY DEF SaveEnds, Typed, Requested, LoginType, Idle
<1> SUFFICES ASSUME NEW v \in users, v.id = req[r].user.id PROVE Marked(Credentials(v, req[r]))
  BY SavedUsers
<1>2. v = req[r].user /\ v \in UserType /\ Marked(v)
  BY DEF OneId, Typed, Basic
<1>3. CASE req[r].password = "blank"
  <2>1. Credentials(v, req[r]).password = v.password
    BY <1>2, <1>3 DEF Credentials, UserType
  <2>2. Credentials(v, req[r]).required <=> v.required
    BY <1>2, <1>3 DEF Credentials, UserType
  <2> QED BY <1>2, <2>1, <2>2 DEF Marked
<1>4. CASE req[r].password # "blank"
  <2>1. Credentials(v, req[r]).password = req[r].password /\ req[r].password # Default
    BY <1>1, <1>2, <1>4 DEF Credentials, UserType, SaveType
  <2>2. Credentials(v, req[r]).required = FALSE
    BY <1>2, <1>4 DEF Credentials, UserType
  <2> QED BY <2>1, <2>2 DEF Marked
<1> QED BY <1>3, <1>4

\* Every step of another leaves a lone save with the password that is stored.
LEMMA SavingStep == Typed /\ Peopled /\ Saving /\ [Next]_vars => Saving'
<1> SUFFICES ASSUME Typed, Peopled, Saving, [Next]_vars PROVE Saving'
  OBVIOUS
<1>1. \A v \in users : \E u \in users' : u.id = v.id
  BY IdsStay
<1>2. ASSUME UNCHANGED overlapped, users \subseteq users', \A u \in users' \ users : Marked(u),
             \A r \in Requests : Saves(r)' => Saves(r) /\ req'[r] = req[r]
      PROVE  Saving'
  BY <1>2 DEF Saving
<1>3. ASSUME NEW p \in Machines, Machine(p) PROVE Saving'
  <2>1. UNCHANGED overlapped
    BY <1>3 DEF Machine, browser, Boots, Locks, ReadsApplied, Applies, Unlocks, CountsUsers, InsertsUser, FillsConfig,
       ReadsSecret, StoresSecret, Drains, Dies, LockoutEnds, EditsConfig
  <2>2. UNCHANGED users
        \/ users' = users \cup {[id |-> p, name |-> Default, password |-> Default, required |-> TRUE]}
    BY <1>3 DEF Machine, rows, Boots, Locks, ReadsApplied, Applies, Unlocks, CountsUsers, InsertsUser, FillsConfig,
       ReadsSecret, StoresSecret, Drains, Dies, LockoutEnds, EditsConfig
  <2>3. Marked([id |-> p, name |-> Default, password |-> Default, required |-> TRUE])
    BY DEF Marked
  <2>4. UNCHANGED req \/ req' = [r \in Requests |-> IF At(r, p) THEN Idle ELSE req[r]]
    BY <1>3 DEF Machine, browser, Boots, Locks, ReadsApplied, Applies, Unlocks, CountsUsers, InsertsUser, FillsConfig,
       ReadsSecret, StoresSecret, Drains, Dies, LockoutEnds, EditsConfig
  <2>5. \A r \in Requests : Saves(r)' => Saves(r) /\ req'[r] = req[r]
    BY <2>4 DEF Saves
  <2> QED BY <1>2, <2>1, <2>2, <2>3, <2>5
<1>4. ASSUME NEW r \in Requests, LoginStarts(r) PROVE Saving'
  <2>1. UNCHANGED <<overlapped, users>>
    BY <1>4 DEF LoginStarts, rows
  <2>2. \E q : q.kind = "login" /\ req' = [req EXCEPT ![r] = q]
    BY <1>4 DEF LoginStarts, Takes
  <2>3. \A s \in Requests : Saves(s)' => Saves(s) /\ req'[s] = req[s]
    BY <2>2 DEF Saves, Typed, Requested
  <2> QED BY <1>2, <2>1, <2>3
<1>5. ASSUME NEW r \in Requests, LoginEnds(r) \/ RequestFails(r) PROVE Saving'
  <2>1. UNCHANGED <<overlapped, users>> /\ req' = [req EXCEPT ![r] = Idle]
    BY <1>5 DEF LoginEnds, RequestFails, rows
  <2>2. \A s \in Requests : Saves(s)' => Saves(s) /\ req'[s] = req[s]
    BY <2>1 DEF Saves, Typed, Requested
  <2> QED BY <1>2, <2>1, <2>2
<1>6. ASSUME NEW r \in Requests, SaveStarts(r) PROVE Saving'
  <2>1. PICK u \in users : \E q : /\ q.kind = "save" /\ q.user = u /\ req' = [req EXCEPT ![r] = q]
    BY <1>6 DEF SaveStarts, Takes
  <2>2. PICK q : q.user = u /\ req' = [req EXCEPT ![r] = q]
    BY <2>1
  <2>3. req'[r].user = u /\ \A s \in Requests \ {r} : req'[s] = req[s]
    BY <2>2 DEF Typed, Requested
  <2>4. UNCHANGED users /\ req[r] = Idle
    BY <1>6 DEF SaveStarts, Takes, rows
  <2>5. overlapped' = (overlapped \/ \E s \in Requests : Saves(s))
    BY <1>6 DEF SaveStarts, Saves
  <2>6. \A s \in Requests \ {r} : Saves(s)' <=> Saves(s)
    BY <2>3 DEF Saves
  <2>7. \A s \in Requests : Saves(s)' => \E v \in users' : v.id = req'[s].user.id
    BY <2>3, <2>4, <2>6 DEF Saving
  <2>8. ~overlapped' => ~overlapped /\ \A s \in Requests : ~Saves(s)
    BY <2>5
  <2>9. ~overlapped' =>
         /\ \A s \in Requests : Saves(s)' => req'[s].user \in users'
         /\ \A s, t \in Requests : Saves(s)' /\ Saves(t)' => s = t
         /\ \A v \in users' : Marked(v)
    BY <2>3, <2>4, <2>6, <2>8 DEF Saving
  <2> QED BY <2>7, <2>9 DEF Saving
<1>7. ASSUME NEW r \in Requests, SaveEnds(r) PROVE Saving'
  <2>1. UNCHANGED overlapped /\ req' = [req EXCEPT ![r] = Idle] /\ Saves(r)
    BY <1>7 DEF SaveEnds, Saves
  <2>2. \A s \in Requests : Saves(s)' => s # r /\ Saves(s) /\ req'[s] = req[s]
    BY <2>1 DEF Saves, Typed, Requested
  <2>3. \A s \in Requests : Saves(s)' => \E u \in users' : u.id = req'[s].user.id
    BY <1>1, <2>2 DEF Saving
  <2>4. ~overlapped => \A u \in users' : Marked(u)
    BY <1>7, <2>1, SavedMarks DEF Saving, Peopled
  <2>5. ~overlapped => \A s \in Requests : ~Saves(s)'
    BY <2>1, <2>2 DEF Saving
  <2> QED BY <2>1, <2>3, <2>4, <2>5 DEF Saving
<1>8. CASE SignsOut \/ UNCHANGED vars
  <2>1. UNCHANGED <<overlapped, users, req>>
    BY <1>8 DEF SignsOut, vars, rows, browser
  <2> QED BY <2>1 DEF Saving, Saves
<1> QED BY <1>3, <1>4, <1>5, <1>6, <1>7, <1>8 DEF Next, Handles

-----------------------------------------------------------------------------
(* The invariant.                                                           *)

\* The first machine starts from an empty database.
LEMMA IInvInit == Init => IInv
<1> SUFFICES ASSUME Init PROVE IInv
  OBVIOUS
<1>1. Basic /\ Flags
  BY DEF Init, Basic, Flags
<1>2. Limits
  BY BootAssumption DEF Init, Limits
<1>3. Requested /\ \A r \in Requests : ~Saves(r)
  BY DEF Init, Requested, Saves
<1>4. Throttled
  BY DEF Init, Throttled
<1>5. Migrated
  BY DEF Init, Migrated, Migrating, Past, Serving
<1>6. Peopled /\ Keyed
  BY DEF Init, Peopled, OneId, Keyed, Serving
<1>7. Saving
  BY <1>3 DEF Init, Saving
<1> QED BY <1>1, <1>2, <1>3, <1>4, <1>5, <1>6, <1>7 DEF IInv, Typed

\* Every step keeps the inductive invariant: its parts, each by its own lemma.
LEMMA IInvStep == IInv /\ [Next]_vars => IInv'
BY BasicStep, LimitsStep, FlagsStep, RequestedStep, ThrottledStep, MigratedStep, PeopledStep, KeyedStep,
   SavingStep DEF IInv, Typed

\* The inductive invariant holds in every reachable state.
LEMMA Invariant == Spec => []IInv
<1>1. Init => IInv
  BY IInvInit
<1>2. IInv /\ [Next]_vars => IInv'
  BY IInvStep
<1> QED BY <1>1, <1>2, PTL DEF Spec

\* The types, and loginLimiter's promise for any limit and any number of
\* requests at once: a machine looks at no more wrong passwords between two
\* lockouts than the limit, and one fewer than the requests in flight on top.
THEOREM ThrottleHolds == Spec => []TypeOK
<1>1. IInv => TypeOK
  <2> SUFFICES ASSUME IInv PROVE TypeOK
    OBVIOUS
  <2>1. tried \in [Machines -> 0 .. MaxFailures - 1 + Cardinality(Requests)]
    <3> SUFFICES ASSUME NEW p \in Machines PROVE tried[p] \in 0 .. MaxFailures - 1 + Cardinality(Requests)
      BY DEF IInv, Typed, Limits
    <3>1. /\ tried[p] \in Nat /\ failures[p] \in 0 .. MaxFailures - 1 /\ locked[p] \in BOOLEAN
          /\ Cardinality(Requests) \in Nat /\ Cardinality(Fly(p)) \in Nat /\ MaxFailures \in Nat \ {0}
      BY FlyFacts, FS_CardinalityType, BootAssumption DEF IInv, Typed, Limits
    <3>2. CASE locked[p]
      <4>1. tried[p] + Cardinality(Fly(p)) <= MaxFailures - 1 + Cardinality(Requests)
        BY <3>2 DEF IInv, Throttled
      <4> QED BY <3>1, <4>1
    <3>3. CASE ~locked[p]
      <4>1. tried[p] <= failures[p]
        BY <3>3 DEF IInv, Throttled
      <4> QED BY <3>1, <4>1
    <3> QED BY <3>2, <3>3
  <2>2. Basic /\ Limits /\ Flags
    BY DEF IInv, Typed
  <2> QED BY <2>1, <2>2 DEF TypeOK, Basic, Limits, Flags, AllVersions, UserType
<1> QED BY <1>1, Invariant, PTL

\* Migrate and the steps of run() after it, for any number of machines that
\* boot and die at any moment with any builds: no boot fails another, none
\* serves on an unmigrated schema or without an account, and there is one
\* account unless two first boots overlapped.
THEOREM BootsTogetherHolds == Spec => []BootsTogether
<1>1. IInv => BootsTogether
  <2> SUFFICES ASSUME IInv PROVE BootsTogether
    OBVIOUS
  <2>1. ~raced => Cardinality(users) <= 1
    <3> SUFFICES ASSUME ~raced PROVE Cardinality(users) <= 1
      OBVIOUS
    <3>1. \A u, v \in users : u = v
      BY DEF IInv, Peopled
    <3>2. CASE users = {}
      <4>1. Cardinality(users) = 0
        BY <3>2, FS_EmptySet
      <4> QED BY <4>1
    <3>3. CASE users # {}
      <4>1. PICK u : users = {u}
        BY <3>1, <3>3
      <4>2. Cardinality(users) = 1
        BY <4>1, FS_Singleton
      <4> QED BY <4>2
    <3> QED BY <3>2, <3>3
  <2> QED BY <2>1 DEF IInv, Migrated, Peopled, BootsTogether, Past
<1> QED BY <1>1, Invariant, PTL

\* The sessions and the credentials, for any machines and requests: a cookie
\* is signed with the stored secret and is of a user, whichever machine gave
\* it, and the marker of the default password tells what the password is.
THEOREM SessionsAlwaysHold == Spec => []SessionsHold
<1>1. IInv => SessionsHold
  BY DEF IInv, Keyed, Saving, Marked, SessionsHold
<1> QED BY <1>1, Invariant, PTL

=============================================================================
