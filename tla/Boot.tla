-------------------------------- MODULE Boot --------------------------------
(***************************************************************************)
(* How a machine becomes the server, and who may use it: the steps of      *)
(* run() that write the database (migrations under an advisory lock, the   *)
(* default user, configuration defaults, the session secret), then the     *)
(* login, its throttle, the session cookie and the change of credentials.  *)
(*                                                                         *)
(* Several machines share one database and nothing else: a deploy starts   *)
(* the next one while the last one serves. Each may run another build,     *)
(* that knows other migrations. One operator, one browser, one client key; *)
(* a password is a value and its hash is the password.                     *)
(***************************************************************************)
EXTENDS Naturals, FiniteSets

CONSTANTS
    Machines,
    Builds,       \* the sets of migrations a build may know
    Names,        \* the usernames the operator chooses among
    Passwords,    \* the passwords tried and chosen
    Requests,     \* the requests handled at once
    MaxFailures,  \* maxLoginFailures
    MaxBoots,     \* bound on the boots
    MaxPosts      \* bound on the logins and the changes of credentials

Default == "doot"   \* the default name and the default password

ASSUME BootAssumption ==
    /\ Builds \subseteq SUBSET Nat
    /\ Default \in Names /\ Default \in Passwords
    /\ IsFiniteSet(Requests) /\ "nobody" \notin Machines
    /\ MaxFailures \in Nat \ {0}

VARIABLES
    \* the database
    schema,     \* schema_migrations: the versions applied
    holder,     \* who has the advisory lock
    users,      \* the users table
    config,     \* one row of app_config: none, default or edited
    secret,     \* the session.secret row, 0 when there is none
    \* each machine
    pc, build, todo, key,
    failures, locked, tried,
    \* requests in flight, the browser, history
    req, cookie, raced, overlapped, edited,
    made, boots, posts

rows == <<schema, holder, users, config, secret>>
booting == <<pc, build, todo, key, made, boots, raced>>
limiter == <<failures, locked, tried>>
browser == <<req, cookie, overlapped, edited, posts>>
vars == <<rows, booting, limiter, browser>>

Idle == [kind |-> "idle"]
NoCookie == [key |-> 0]
Serving == {"serve", "drain"}
Least(v, S) == \A w \in S : v <= w

Init ==
    /\ schema = {} /\ holder = "nobody" /\ users = {} /\ config = "none" /\ secret = 0
    /\ pc = [p \in Machines |-> "off"] /\ build = [p \in Machines |-> {}]
    /\ todo = [p \in Machines |-> {}] /\ key = [p \in Machines |-> 0]
    /\ failures = [p \in Machines |-> 0] /\ locked = [p \in Machines |-> FALSE]
    /\ tried = [p \in Machines |-> 0]
    /\ req = [r \in Requests |-> Idle] /\ cookie = NoCookie
    /\ raced = FALSE /\ overlapped = FALSE /\ edited = FALSE
    /\ made = 1 /\ boots = 0 /\ posts = 0

Moves(p, from, to) == pc[p] = from /\ pc' = [pc EXCEPT ![p] = to]

---------------------------------------------------------------------------
(* Migrate.                                                                *)

\* A machine starts with some build.
Boots(p) ==
    /\ boots < MaxBoots /\ boots' = boots + 1
    /\ Moves(p, "off", "lock")
    /\ \E b \in Builds : build' = [build EXCEPT ![p] = b]
    /\ UNCHANGED <<rows, todo, key, made, raced, limiter, browser>>

\* Mutant: no advisory lock, or one taken on another connection.
LocksNothing(p) ==
    /\ Moves(p, "lock", "read")
    /\ UNCHANGED <<rows, build, todo, key, made, boots, raced, limiter, browser>>

\* pg_advisory_lock waits for the lock.
Locks(p) ==
    /\ Moves(p, "lock", "read")
    /\ holder = "nobody" /\ holder' = p
    /\ UNCHANGED <<schema, users, config, secret, build, todo, key, made, boots, raced, limiter, browser>>

ReadsApplied(p) ==
    /\ Moves(p, "read", "apply")
    /\ todo' = [todo EXCEPT ![p] = build[p] \ schema]
    /\ UNCHANGED <<rows, build, key, made, boots, raced, limiter, browser>>

\* One version and its row, in one transaction. What is applied already
\* cannot be applied again.
Applies(p) ==
    /\ pc[p] = "apply"
    /\ \E v \in todo[p] :
         /\ Least(v, todo[p])
         /\ IF v \in schema
              THEN /\ Moves(p, "apply", "failed")
                   /\ holder' = "nobody"
                   /\ UNCHANGED <<schema, todo>>
              ELSE /\ schema' = schema \cup {v}
                   /\ todo' = [todo EXCEPT ![p] = @ \ {v}]
                   /\ UNCHANGED <<pc, holder>>
    /\ UNCHANGED <<users, config, secret, build, key, made, boots, raced, limiter, browser>>

Unlocks(p) ==
    /\ Moves(p, "apply", "users") /\ todo[p] = {}
    /\ holder' = "nobody"
    /\ UNCHANGED <<schema, users, config, secret, build, todo, key, made, boots, raced, limiter, browser>>

---------------------------------------------------------------------------
(* The rest of the boot.                                                   *)

\* Two machines between a look at the database and what they store on it.
Races(p, step) == raced' = (raced \/ \E q \in Machines \ {p} : pc[q] = step)

\* BootstrapUser counts the users, hashes the default password, which takes
\* a while, and inserts the default user.
CountsUsers(p) ==
    /\ IF users = {} THEN Moves(p, "users", "insert") /\ Races(p, "insert")
                     ELSE Moves(p, "users", "config") /\ UNCHANGED raced
    /\ UNCHANGED <<rows, build, todo, key, made, boots, limiter, browser>>

\* ON CONFLICT (username) DO NOTHING.
InsertsUser(p) ==
    /\ Moves(p, "insert", "config")
    /\ users' = IF \E u \in users : u.name = Default THEN users
                ELSE users \cup {[id |-> p, name |-> Default, password |-> Default, required |-> TRUE]}
    /\ UNCHANGED <<schema, holder, config, secret, build, todo, key, made, boots, raced, limiter, browser>>

\* EnsureConfigDefaults: ON CONFLICT (key) DO NOTHING.
FillsConfig(p) ==
    /\ Moves(p, "config", "secret")
    /\ config' = IF config = "none" THEN "default" ELSE config
    /\ UNCHANGED <<schema, holder, users, secret, build, todo, key, made, boots, raced, limiter, browser>>

\* Mutant: a secret of its own for every boot.
ReadsNoSecret(p) ==
    /\ Moves(p, "secret", "generate") /\ UNCHANGED <<key, raced>>
    /\ UNCHANGED <<rows, build, todo, made, boots, limiter, browser>>

\* EnsureSessionSecret: the stored secret, read past the cache.
ReadsSecret(p) ==
    /\ IF secret # 0
         THEN Moves(p, "secret", "serve") /\ key' = [key EXCEPT ![p] = secret] /\ UNCHANGED raced
         ELSE Moves(p, "secret", "generate") /\ Races(p, "generate") /\ UNCHANGED key
    /\ UNCHANGED <<rows, build, todo, made, boots, limiter, browser>>

\* Or else the seed of a retired environment variable, or a new one. The
\* upsert overwrites; the machine signs with what it stored.
StoresSecret(p) ==
    /\ Moves(p, "generate", "serve")
    /\ \E s \in {1, made + 1} :
         /\ secret' = s /\ key' = [key EXCEPT ![p] = s]
         /\ made' = IF s = 1 THEN made ELSE s
    /\ UNCHANGED <<schema, holder, users, config, build, todo, boots, raced, limiter, browser>>

\* SIGTERM: no new request is taken.
Drains(p) ==
    /\ Moves(p, "serve", "drain")
    /\ UNCHANGED <<rows, build, todo, key, made, boots, raced, limiter, browser>>

At(r, p) == req[r] # Idle /\ req[r].at = p

\* The process ends: by a crash, on an error of a step of its boot, after
\* the drain or its grace. Its connection takes the lock with it, and what
\* it had in memory is gone.
Dies(p) ==
    /\ pc[p] # "off"
    /\ pc' = [pc EXCEPT ![p] = "off"]
    /\ build' = [build EXCEPT ![p] = {}]
    /\ todo' = [todo EXCEPT ![p] = {}]
    /\ key' = [key EXCEPT ![p] = 0]
    /\ failures' = [failures EXCEPT ![p] = 0]
    /\ locked' = [locked EXCEPT ![p] = FALSE]
    /\ tried' = [tried EXCEPT ![p] = 0]
    /\ holder' = IF holder = p THEN "nobody" ELSE holder
    /\ req' = [r \in Requests |-> IF At(r, p) THEN Idle ELSE req[r]]
    /\ UNCHANGED <<schema, users, config, secret, made, boots, raced, cookie, overlapped, edited, posts>>

---------------------------------------------------------------------------
(* Login, sessions and credentials.                                        *)

\* A cookie the machine accepts: signed with its key, and of a user.
Signed(p) == cookie # NoCookie /\ cookie.key = key[p]
Accepts(p) == Signed(p) /\ \E u \in users : u.id = cookie.id
Issues(p, id) == cookie' = [id |-> id, key |-> key[p]]

Takes(r, request) ==
    /\ req[r] = Idle /\ req' = [req EXCEPT ![r] = request]
    /\ pc[request.at] = "serve"
    /\ posts < MaxPosts /\ posts' = posts + 1

\* handleLogin, up to the look at the lockout: who is locked out is refused.
LoginStarts(r) ==
    /\ \E p \in Machines, n \in Names, w \in Passwords :
         /\ ~locked[p]
         /\ Takes(r, [kind |-> "login", at |-> p, name |-> n, password |-> w])
    /\ UNCHANGED <<rows, booting, limiter, cookie, overlapped, edited>>

\* Mutant: a lockout only when the counter is past its limit.
FailsPast(p) ==
    LET n == failures[p] + 1
    IN  /\ failures' = [failures EXCEPT ![p] = IF n > MaxFailures THEN 0 ELSE n]
        /\ locked' = [locked EXCEPT ![p] = @ \/ n > MaxFailures]

\* loginLimiter.fail.
Fails(p) ==
    LET n == failures[p] + 1
    IN  /\ failures' = [failures EXCEPT ![p] = IF n >= MaxFailures THEN 0 ELSE n]
        /\ locked' = [locked EXCEPT ![p] = @ \/ n >= MaxFailures]

\* handleLogin, from the look at the users: other requests pass the lockout
\* meanwhile, a failed one waits 400 ms.
LoginEnds(r) ==
    /\ req[r] # Idle /\ req[r].kind = "login"
    /\ LET p == req[r].at
           found == {u \in users : u.name = req[r].name /\ u.password = req[r].password}
       IN  IF found # {}
             THEN /\ \E u \in found : Issues(p, u.id)
                  /\ failures' = [failures EXCEPT ![p] = 0]
                  /\ locked' = [locked EXCEPT ![p] = FALSE]
                  /\ tried' = [tried EXCEPT ![p] = 0]
             ELSE /\ Fails(p)
                  /\ tried' = [tried EXCEPT ![p] = @ + 1]
                  /\ UNCHANGED cookie
    /\ req' = [req EXCEPT ![r] = Idle]
    /\ UNCHANGED <<rows, booting, overlapped, edited, posts>>

LockoutEnds(p) ==
    /\ locked[p]
    /\ locked' = [locked EXCEPT ![p] = FALSE]
    /\ tried' = [tried EXCEPT ![p] = 0]
    /\ UNCHANGED <<rows, booting, failures, browser>>

\* handleSaveCredentials: the user as requireAuth read it, and the form. A
\* blank password leaves the password alone; the default one is too short.
SaveStarts(r) ==
    /\ \E p \in Machines, u \in users, n \in Names, w \in (Passwords \ {Default}) \cup {"blank"} :
         /\ Accepts(p) /\ u.id = cookie.id
         /\ Takes(r, [kind |-> "save", at |-> p, user |-> u, name |-> n, password |-> w])
    /\ overlapped' = (overlapped \/ \E q \in Requests : req[q] # Idle /\ req[q].kind = "save")
    /\ UNCHANGED <<rows, booting, limiter, cookie, edited>>

\* UpdateCredentials: a blank password writes the hash that was read.
Credentials(u, s) ==
    [u EXCEPT !.name = s.name, !.required = @ /\ s.password = "blank",
              !.password = IF s.password = "blank" THEN s.user.password ELSE s.password]

SaveEnds(r) ==
    /\ req[r] # Idle /\ req[r].kind = "save"
    /\ ~ \E u \in users : u.id # req[r].user.id /\ u.name = req[r].name
    /\ users' = {IF u.id = req[r].user.id THEN Credentials(u, req[r]) ELSE u : u \in users}
    /\ Issues(req[r].at, req[r].user.id)
    /\ req' = [req EXCEPT ![r] = Idle]
    /\ UNCHANGED <<schema, holder, config, secret, booting, limiter, overlapped, edited, posts>>

\* The name is taken, or the database does not answer.
RequestFails(r) ==
    /\ req[r] # Idle
    /\ req' = [req EXCEPT ![r] = Idle]
    /\ UNCHANGED <<rows, booting, limiter, cookie, overlapped, edited, posts>>

\* The operator saves a setting.
EditsConfig(p) ==
    /\ pc[p] = "serve" /\ Accepts(p)
    /\ config' = "edited" /\ edited' = TRUE
    /\ UNCHANGED <<schema, holder, users, secret, booting, limiter, req, cookie, overlapped, posts>>

\* handleLogout, or the cookie is over its lifetime.
SignsOut ==
    /\ cookie # NoCookie /\ cookie' = NoCookie
    /\ UNCHANGED <<rows, booting, limiter, req, overlapped, edited, posts>>

Machine(p) ==
    \/ Boots(p) \/ Locks(p) \/ ReadsApplied(p) \/ Applies(p) \/ Unlocks(p)
    \/ CountsUsers(p) \/ InsertsUser(p) \/ FillsConfig(p) \/ ReadsSecret(p) \/ StoresSecret(p)
    \/ Drains(p) \/ Dies(p) \/ LockoutEnds(p) \/ EditsConfig(p)

Handles(r) == LoginStarts(r) \/ LoginEnds(r) \/ SaveStarts(r) \/ SaveEnds(r) \/ RequestFails(r)

Next == (\E p \in Machines : Machine(p)) \/ (\E r \in Requests : Handles(r)) \/ SignsOut

Spec == Init /\ [][Next]_vars

---------------------------------------------------------------------------
(* Properties.                                                             *)

Migrating == {"read", "apply"}
Past == {"users", "insert", "config", "secret", "generate"} \cup Serving

\* Types, and the throttle: between two lockouts a machine looks at no more
\* wrong passwords than the limit and the requests in flight beside it.
TypeOK ==
    /\ schema \in SUBSET UNION Builds
    /\ holder \in Machines \cup {"nobody"}
    /\ users \subseteq [id : Machines, name : Names, password : Passwords, required : BOOLEAN]
    /\ config \in {"none", "default", "edited"}
    /\ secret \in Nat /\ made \in Nat
    /\ pc \in [Machines -> {"off", "lock", "failed"} \cup Migrating \cup Past]
    /\ build \in [Machines -> Builds \cup {{}}]
    /\ todo \in [Machines -> SUBSET UNION Builds]
    /\ key \in [Machines -> Nat]
    /\ failures \in [Machines -> 0 .. MaxFailures - 1]
    /\ locked \in [Machines -> BOOLEAN]
    /\ tried \in [Machines -> 0 .. MaxFailures - 1 + Cardinality(Requests)]
    /\ raced \in BOOLEAN /\ overlapped \in BOOLEAN /\ edited \in BOOLEAN

\* Machines that boot at once do not fail each other, whatever their builds
\* and wherever one of them dies: "a process serving requests against an
\* unmigrated schema" never is. There is one account, renamed or not, and an
\* edited setting stays; the account is exempt when two first boots overlap.
BootsTogether ==
    /\ \A p \in Machines : pc[p] # "failed"
    /\ \A p \in Machines : pc[p] \in Past => build[p] \subseteq schema
    /\ \A p \in Machines : pc[p] \in Serving => users # {}
    /\ raced \/ Cardinality(users) <= 1
    /\ edited => config = "edited"

\* "Sessions survive a deploy": every machine accepts the browser's cookie,
\* the ones that boot later too, unless two first boots overlapped. The
\* marker of the default password is there exactly while the password is
\* the default one, unless two changes of credentials overlapped.
SessionsHold ==
    /\ cookie # NoCookie =>
         /\ raced \/ cookie.key = secret
         /\ \E u \in users : u.id = cookie.id
    /\ raced \/ \A p \in Machines : pc[p] \in Serving => key[p] = secret
    /\ overlapped \/ \A u \in users : u.required <=> u.password = Default

\* "Sessions survive a deploy": the browser's cookie is signed with the stored
\* secret, so that the next machine accepts it. It may not be when two first
\* boots overlap (Boot_first.cfg): the one that stores last overwrites the
\* secret with which the other already serves.
CookieSurvives == cookie # NoCookie => cookie.key = secret

\* "Renaming the account while still on the default password must keep the
\* marker": where the password is the default one the marker is there. A rename
\* that overlaps a change of password writes the old hash back without it
\* (Boot_marker.cfg).
DefaultIsMarked == \A u \in users : u.password = Default => u.required
=============================================================================
