------------------------------- MODULE Startup -------------------------------
(***************************************************************************)
(* The life of the server process (backend/cmd/server/main.go and          *)
(* backend/internal/database): connecting with retries and a deadline,     *)
(* migrating, seeding, serving, shutting down, and being launched again by *)
(* its supervisor (docker-compose.yml, restart: unless-stopped).           *)
(*                                                                         *)
(* While it serves, the handlers create and remove records; they are taken *)
(* from VersionedRecords, which IncidentRecords is shown to implement.     *)
(* Edits and moves are left out: a boot only counts and inserts rows.      *)
(* Between two launches an operator may change the environment.            *)
(***************************************************************************)
EXTENDS RecordRows, Settings, Sequences

CONSTANTS
    MaxAttempts,   \* attempts to connect: 20 in the code
    Environments,  \* the environments operators may start the process in
    MaxFaults      \* bound: how often anything outside the code fails

ASSUME StartupAssumption ==
    /\ MaxAttempts \in Nat \ {0}
    /\ \A e \in Environments : IsEnvironment(e)
    /\ MaxFaults \in Nat

VARIABLES
    pc,       \* what the process does next, "down" if there is none
    run,      \* what the process remembers of its settings and its boot
    env,      \* its environment variables
    dbUp, redisUp,
    schema,   \* have the tables been created?
    users,    \* are the users seeded?
    rows,     \* the business tables
    faults    \* the failures still to come

vars == <<pc, run, env, dbUp, redisUp, schema, users, rows, faults>>
\* What outlives the process.
outside == <<env, dbUp, redisUp, schema, users, rows>>

VR == INSTANCE VersionedRecords

\* The order in which Seed visits the tables.
TableOrder == <<"SolarSite", "InverterUnit", "FaultEvent", "MitigationAction">>

Connecting == {"open", "ping", "ping again"}
Booting == Connecting \cup {"load", "wait", "migrate", "users", "count", "insert", "redis"}
Serving == {"serving", "draining"}

\* failed is err of Open, table the position of Seed in TableOrder.
NoSettings == [timeouts |-> <<>>]
FirstRun == [settings |-> NoSettings, attempt |-> 1, elapsed |-> 0,
             expired |-> FALSE, failed |-> FALSE, table |-> 1]

StartupTimeout == run.settings.timeouts["STARTUP_TIMEOUT"]
RedisEnabled == run.settings.redis

Init ==
    /\ pc = "down"
    /\ run = FirstRun
    /\ env \in Environments
    /\ dbUp \in BOOLEAN /\ redisUp \in BOOLEAN
    /\ schema = FALSE
    /\ users = FALSE
    /\ rows = [r \in Records |-> AbsentRow]
    /\ faults = MaxFaults

Goto(place) == pc' = place /\ UNCHANGED <<run, outside, faults>>

\* os.Exit(1), or the end of main.
Exit == pc' = "down" /\ run' = FirstRun

Fails == Exit /\ UNCHANGED <<outside, faults>>

\* A statement that carries the startup context can succeed.
Answers == dbUp /\ ~run.expired

-----------------------------------------------------------------------------
(* config.Load and database.Open. *)

Launch == pc = "down" /\ Goto("load")

LoadSettings ==
    /\ pc = "load"
    /\ LET loaded == Load(env)
       IN \/ ~Valid(loaded) /\ Exit
          \/ /\ Valid(loaded)
             /\ pc' = "open"
             /\ run' = [run EXCEPT !.settings = loaded]
    /\ UNCHANGED <<outside, faults>>

\* gorm.Open pings on its own, without the startup context.
Open ==
    /\ pc = "open"
    /\ pc' = IF dbUp THEN "ping" ELSE "wait"
    /\ run' = [run EXCEPT !.failed = ~dbUp]
    /\ UNCHANGED <<outside, faults>>

Ping ==
    /\ pc = "ping"
    /\ Goto(IF Answers THEN "migrate" ELSE "ping again")

\* The error to report is asked for with a second ping, which may succeed.
PingAgain ==
    /\ pc = "ping again"
    /\ pc' = "wait"
    /\ run' = [run EXCEPT !.failed = ~Answers]
    /\ UNCHANGED <<outside, faults>>

\* Variant: one attempt more than the loop has.
AttemptsLeftInclusive == run.attempt <= MaxAttempts

\* for attempt := 1; attempt <= 20; attempt++
AttemptsLeft == run.attempt < MaxAttempts

\* A second passes, or the deadline does; where both are due, either may win.
\* After the last attempt only err decides.
Wait ==
    /\ pc = "wait"
    /\ LET due == run.elapsed + 1 >= StartupTimeout
           rested == [run EXCEPT !.elapsed = @ + 1, !.expired = due]
       IN \/ (run.expired \/ due) /\ Exit
          \/ /\ ~run.expired /\ AttemptsLeft
             /\ pc' = "open"
             /\ run' = [rested EXCEPT !.attempt = @ + 1]
          \/ ~run.expired /\ ~AttemptsLeft /\ run.failed /\ Exit
          \/ /\ ~run.expired /\ ~AttemptsLeft /\ ~run.failed
             /\ pc' = "migrate"
             /\ run' = rested
    /\ UNCHANGED <<outside, faults>>

\* Variant: the tables are created with no look at what is there.
MigrateOnce ==
    /\ pc = "migrate"
    /\ \/ ~dbUp /\ Fails
       \/ dbUp /\ schema /\ Fails
       \/ /\ dbUp /\ ~schema
          /\ schema' = TRUE
          /\ pc' = "users"
          /\ UNCHANGED <<run, env, dbUp, redisUp, users, rows, faults>>

\* AutoMigrate adds what is missing; it does not see the deadline.
Migrate ==
    /\ pc = "migrate"
    /\ \/ ~dbUp /\ Fails
       \/ /\ dbUp
          /\ schema' = TRUE
          /\ pc' = "users"
          /\ UNCHANGED <<run, env, dbUp, redisUp, users, rows, faults>>

\* Variant: a database that has its users is taken to be seeded.
SeedUsersOrAll ==
    /\ pc = "users"
    /\ \/ ~Answers /\ Fails
       \/ Answers /\ users /\ Goto("redis")
       \/ /\ Answers /\ ~users
          /\ users' = TRUE
          /\ pc' = "count"
          /\ UNCHANGED <<run, env, dbUp, redisUp, schema, rows, faults>>

\* The four users are inserted into an empty table; nothing removes a user.
SeedUsers ==
    /\ pc = "users"
    /\ \/ ~Answers /\ Fails
       \/ /\ Answers
          /\ users' = TRUE
          /\ pc' = "count"
          /\ UNCHANGED <<run, env, dbUp, redisUp, schema, rows, faults>>

Table(t) == {r \in Records : TypeOf[r] = t}
SeedsOf(t) == Seeded \cap Table(t)

\* Seed goes on to the next table, or returns after the last.
NextTable ==
    IF run.table < Len(TableOrder)
    THEN pc' = "count" /\ run' = [run EXCEPT !.table = @ + 1]
    ELSE pc' = "redis" /\ UNCHANGED run

\* The count of a table's rows, removed ones left out.
CountRows ==
    /\ pc = "count"
    /\ \/ ~Answers /\ Exit
       \/ /\ Answers /\ \E r \in Table(TableOrder[run.table]) : Live(rows[r])
          /\ NextTable
       \/ /\ Answers /\ \A r \in Table(TableOrder[run.table]) : ~Live(rows[r])
          /\ pc' = "insert" /\ UNCHANGED run
    /\ UNCHANGED <<outside, faults>>

\* Variant: an existing code is overwritten.
SeedCodesAccepted(t) == TRUE

\* The unique index takes the seeded codes.
SeedCodesFree(t) == \A r \in SeedsOf(t) : CodeFree(rows, t, SeedCode[r])

\* One INSERT of all seeded rows of a table, all or nothing.
InsertSeeds ==
    /\ pc = "insert"
    /\ LET t == TableOrder[run.table]
       IN \/ ~(Answers /\ SeedCodesFree(t)) /\ Exit /\ UNCHANGED rows
          \/ /\ Answers /\ SeedCodesFree(t)
             /\ \E f \in Fields :
                   rows' = [r \in Records |->
                              IF r \in SeedsOf(t) THEN NewRow(SeedStatus[r], f, SeedCode[r])
                                                  ELSE rows[r]]
             /\ NextTable
    /\ UNCHANGED <<env, dbUp, redisUp, schema, users, faults>>

\* One ping, never repeated.
PingRedis ==
    /\ pc = "redis"
    /\ \/ RedisEnabled /\ ~(redisUp /\ ~run.expired) /\ Fails
       \/ (RedisEnabled => redisUp /\ ~run.expired) /\ Goto("serving")

-----------------------------------------------------------------------------
(* main, from ListenAndServe on. *)

\* A handler commits a write; after SIGTERM those under way may still do so.
HandlerWrites ==
    /\ pc \in Serving
    /\ dbUp
    /\ \E r \in Records : VR!Create(r) \/ VR!Remove(r)
    /\ UNCHANGED <<pc, run, env, dbUp, redisUp, schema, users, faults>>

\* SIGINT or SIGTERM.
Stop == pc = "serving" /\ Goto("draining")

\* Shutdown returns, with an error if handlers are still running.
Drained == pc = "draining" /\ Fails

-----------------------------------------------------------------------------
(* What happens to the process and around it. *)

Fault == faults > 0 /\ faults' = faults - 1

\* The process is killed, panics, or cannot listen on its port; a statement of
\* a boot that fails, or loses its acknowledgement, ends the process too.
Crash ==
    /\ pc # "down"
    /\ Fault
    /\ Exit
    /\ UNCHANGED outside

\* The startup context expires while a step hangs: in an attempt to connect to
\* a database that is down, or on a fault.
DeadlinePasses ==
    /\ pc \in Booting \ {"load"} /\ ~run.expired
    /\ (pc \in Connecting /\ ~dbUp /\ UNCHANGED faults) \/ Fault
    /\ run' = [run EXCEPT !.expired = TRUE]
    /\ UNCHANGED <<pc, outside>>

\* The environment of a process never changes; the next one's may.
Reconfigure ==
    /\ pc = "down"
    /\ env' \in Environments
    /\ UNCHANGED <<pc, run, dbUp, redisUp, schema, users, rows, faults>>

DatabaseFails ==
    /\ dbUp /\ dbUp' = FALSE
    /\ Fault
    /\ UNCHANGED <<pc, run, env, redisUp, schema, users, rows>>

DatabaseReturns ==
    /\ ~dbUp /\ dbUp' = TRUE
    /\ UNCHANGED <<pc, run, env, redisUp, schema, users, rows, faults>>

RedisFails ==
    /\ redisUp /\ redisUp' = FALSE
    /\ Fault
    /\ UNCHANGED <<pc, run, env, dbUp, schema, users, rows>>

RedisReturns ==
    /\ ~redisUp /\ redisUp' = TRUE
    /\ UNCHANGED <<pc, run, env, dbUp, schema, users, rows, faults>>

Boot ==
    \/ LoadSettings \/ Open \/ Ping \/ PingAgain \/ Wait
    \/ Migrate \/ SeedUsers \/ CountRows \/ InsertSeeds \/ PingRedis

Next ==
    \/ Launch \/ Boot
    \/ HandlerWrites \/ Stop \/ Drained
    \/ Crash \/ DeadlinePasses \/ Reconfigure
    \/ DatabaseFails \/ DatabaseReturns \/ RedisFails \/ RedisReturns

\* A running process goes on, the supervisor brings the process and the two
\* outside back, and whoever stops the process starts it again.  Nobody has to
\* stop or use the service.
Fairness ==
    /\ WF_vars(Launch) /\ WF_vars(Boot) /\ WF_vars(Drained)
    /\ WF_vars(DatabaseReturns) /\ WF_vars(RedisReturns)

Spec == Init /\ [][Next]_vars
FairSpec == Spec /\ Fairness

-----------------------------------------------------------------------------
(* Properties. *)

Loaded == {NoSettings} \cup {Load(e) : e \in Environments}

TypeOK ==
    /\ pc \in Booting \cup Serving \cup {"down"}
    /\ env \in Environments
    /\ run \in [settings : Loaded,
                attempt : 1..MaxAttempts, elapsed : 0..MaxAttempts,
                expired : BOOLEAN, failed : BOOLEAN, table : 1..Len(TableOrder)]
    /\ dbUp \in BOOLEAN /\ redisUp \in BOOLEAN /\ schema \in BOOLEAN /\ users \in BOOLEAN
    /\ rows \in [Records -> Row]
    /\ faults \in 0..MaxFaults

\* However often a boot was cut short, and wherever, a process that serves has
\* every table, the users, and in each table the seeded rows or what became of
\* them: no boot skips what an earlier one left undone (database.Open, Seed).
ServingIsReady ==
    pc \in Serving => /\ schema /\ users
                      /\ \A r \in Seeded : rows[r] # AbsentRow

\* Whatever the environment says, a process past Load runs with settings that
\* its other parts can work with: the limit of requests, the life of its
\* tokens, each timeout and the key (config.Load, config.Validate).
SettingsUsable ==
    pc \notin {"down", "load"} =>
        LET cfg == run.settings
        IN /\ cfg = Load(env)
           /\ cfg.limit >= 10 /\ cfg.limit <= 100000 /\ cfg.ttl > 0 /\ cfg.key >= 16
           /\ \A name \in Timeouts : cfg.timeouts[name] > 0

\* A boot never changes or revives a record that is there (database.Seed).
BootKeepsRecords ==
    [][pc \notin Serving =>
        \A r \in Records : rows[r] # AbsentRow => rows'[r] = rows[r]]_vars

\* GET /healthz answers 200 (handler Health).
Healthy == pc = "serving" /\ dbUp /\ (RedisEnabled => redisUp)

\* Every row of a table has been removed, seeded ones among them.
Purged(t) ==
    /\ \A r \in Table(t) : ~Live(rows[r])
    /\ \E r \in SeedsOf(t) : rows[r] # AbsentRow

\* Whatever failed, restarted or was written, the service becomes healthy again
\* unless its environment is not valid or a whole table has been removed
\* (main, database.Open).
HealthyUnlessPurged ==
    []<>(Healthy \/ ~Valid(Load(env)) \/ \E t \in EntityTypes : Purged(t))

\* The same without the exception: a service started on a database that any
\* earlier use may have left answers GET /healthz with 200 in the end
\* (runtime_smoke.json, docker-compose.yml).
EventuallyHealthy == []<>Healthy
=============================================================================
