---------------------------- MODULE StartupProofs ----------------------------
(***************************************************************************)
(* A process that serves has everything a boot is for, runs with usable    *)
(* settings, no boot touches a record that is there, and boots end for     *)
(* known reasons only: for any tables, seeds, environments and failures.   *)
(*                                                                         *)
(* The argument: the seeded rows of a table appear together or not at all, *)
(* under their own codes, and until they do no other row of the table can  *)
(* appear, because handlers only run once all of them have.  So a table    *)
(* that is not empty needs no seeds, and a table whose seeds are missing   *)
(* has no row at all that an insert could collide with.                    *)
(***************************************************************************)
EXTENDS Startup, TLAPS

\* The places a process reaches only after the step they are named for.
Migrated == {"users", "count", "insert", "redis"} \cup Serving
Peopled == {"count", "insert", "redis"} \cup Serving
Filled == {"redis"} \cup Serving
\* The places it leaves before it touches the database.
Early == Connecting \cup {"down", "load", "wait"}

Run == [settings : Loaded, attempt : 1..MaxAttempts, elapsed : 0..MaxAttempts,
        expired : BOOLEAN, failed : BOOLEAN, table : 1..4]

\* A second has been waited after each attempt but the current one.
ControlInv ==
    /\ env \in Environments /\ run \in Run
    /\ pc \in Early => run.elapsed < run.attempt
    /\ pc \in Migrated => schema
    /\ IF pc \in Peopled THEN users ELSE run.table = 1

\* Seeds of a table come together, before any other row, with their codes.
SeedsTogether ==
    /\ \A r \in Records, s \in Seeded :
          TypeOf[r] = TypeOf[s] /\ rows[r] # AbsentRow => rows[s] # AbsentRow
    /\ \A s \in Seeded : rows[s] # AbsentRow => rows[s].code = SeedCode[s]

\* The tables Seed has passed are seeded.
Passed ==
    /\ pc \in {"count", "insert"} =>
          \A i \in 1..4, s \in Seeded :
              i < run.table /\ TypeOf[s] = TableOrder[i] => rows[s] # AbsentRow
    /\ pc \in Filled => \A s \in Seeded : rows[s] # AbsentRow

BootInv ==
    /\ rows \in [Records -> Row]
    /\ ControlInv
    /\ SeedsTogether
    /\ Passed

\* A row that was inserted is not an absent one, and carries its code.
LEMMA RowsDiffer ==
    /\ AbsentRow \in Row /\ ~Live(AbsentRow)
    /\ \A st \in AllStatuses, f \in Fields, c \in Codes :
          /\ NewRow(st, f, c) \in Row
          /\ NewRow(st, f, c) # AbsentRow
          /\ NewRow(st, f, c).code = c
BY DEF Row, AbsentRow, NewRow, Live

\* A process starts with a well-typed memory at the first table (database.Open).
LEMMA FirstRunTyped == FirstRun \in Run /\ FirstRun.table = 1 /\ FirstRun.elapsed < FirstRun.attempt
BY StartupAssumption DEF FirstRun, Run, Loaded

\* Nothing is seeded yet and no process runs.
LEMMA BootInit == Init => BootInv
<1> SUFFICES ASSUME Init PROVE BootInv
    OBVIOUS
<1>1. \A r \in Records : rows[r] = AbsentRow
    BY DEF Init
<1>2. rows \in [Records -> Row]
    BY RowsDiffer DEF Init
<1>3. ControlInv
    BY FirstRunTyped DEF ControlInv, Init, Migrated, Peopled, Serving, Connecting, Early
<1>4. SeedsTogether
    BY <1>1, RowsAssumption DEF SeedsTogether
<1>5. Passed
    BY DEF Passed, Init, Filled, Serving
<1>6. QED
    BY <1>2, <1>3, <1>4, <1>5 DEF BootInv

\* What every step that leaves the tables alone and moves the process within
\* one of the phases above keeps.
LEMMA MoveKeepsInv ==
    ASSUME BootInv, UNCHANGED rows,
           env' \in Environments, run' \in Run, run'.table = run.table,
           pc' \in Early => run'.elapsed < run'.attempt,
           pc' \in Migrated => schema',
           IF pc' \in Peopled THEN users' ELSE pc \notin Peopled,
           pc' \in {"count", "insert"} => pc \in {"count", "insert"} \/ run.table = 1,
           pc' \in Filled => pc \in Filled
    PROVE  BootInv'
<1>1. ControlInv'
    BY DEF BootInv, ControlInv
<1>2. SeedsTogether'
    BY DEF BootInv, SeedsTogether
<1>3. Passed'
    <2>1. ASSUME pc' \in {"count", "insert"}, NEW i \in 1..4, NEW s \in Seeded,
                 i < run'.table, TypeOf[s] = TableOrder[i]
          PROVE  rows'[s] # AbsentRow
        BY <2>1 DEF BootInv, Passed
    <2>2. pc' \in Filled => \A s \in Seeded : rows'[s] # AbsentRow
        BY DEF BootInv, Passed
    <2>3. QED
        BY <2>1, <2>2 DEF Passed
<1>4. QED
    BY <1>1, <1>2, <1>3 DEF BootInv

\* The process ends: nothing is owed by a process that is down.
LEMMA ExitKeepsInv ==
    ASSUME BootInv, UNCHANGED <<rows, env>>, Exit
    PROVE  BootInv'
<1>1. /\ pc' = "down" /\ run' \in Run /\ run'.table = 1
      /\ run'.elapsed < run'.attempt
    BY FirstRunTyped DEF Exit
<1>2. ControlInv' /\ Passed'
    BY <1>1 DEF BootInv, ControlInv, Passed, Migrated, Peopled, Filled, Serving, Connecting, Early
<1>3. SeedsTogether'
    BY DEF BootInv, SeedsTogether
<1>4. QED
    BY <1>2, <1>3 DEF BootInv

\* Seed visits the table of every seeded row (database.Seed).
LEMMA SeedsInOrder ==
    \A s \in Seeded : \E i \in 1..4 : TypeOf[s] = TableOrder[i]
<1>1. \A s \in Seeded : TypeOf[s] \in EntityTypes
    BY RowsAssumption
<1>2. \A t \in EntityTypes : \E i \in 1..4 : t = TableOrder[i]
    BY DEF EntityTypes, TableOrder
<1>3. QED
    BY <1>1, <1>2

\* Seed goes on once the seeds of the table it is at are there.
LEMMA NextTableKeepsInv ==
    ASSUME BootInv, pc \in {"count", "insert"}, NextTable,
           rows' \in [Records -> Row], SeedsTogether', UNCHANGED <<env, schema, users>>,
           \A r \in Records : rows[r] # AbsentRow => rows'[r] # AbsentRow,
           \A s \in Seeded : TypeOf[s] = TableOrder[run.table] => rows'[s] # AbsentRow
    PROVE  BootInv'
<1>1. run.table \in 1..4 /\ schema /\ users /\ Seeded \subseteq Records /\ Len(TableOrder) = 4
    BY RowsAssumption DEF BootInv, ControlInv, Run, Migrated, Peopled, TableOrder
<1>2. \A i \in 1..4, s \in Seeded :
          i <= run.table /\ TypeOf[s] = TableOrder[i] => rows'[s] # AbsentRow
    BY <1>1 DEF BootInv, Passed
<1>3. CASE run.table < 4
    <2>1. pc' = "count" /\ run' \in Run /\ run'.table = run.table + 1
        BY <1>1, <1>3 DEF NextTable, BootInv, ControlInv, Run
    <2>2. ControlInv'
        BY <1>1, <2>1 DEF BootInv, ControlInv, Peopled, Connecting, Early
    <2>3. Passed'
        BY <1>1, <1>2, <2>1 DEF Passed, Filled, Serving
    <2>4. QED
        BY <2>2, <2>3 DEF BootInv
<1>4. CASE run.table = 4
    <2>1. pc' = "redis" /\ run' = run /\ run \in Run
        BY <1>1, <1>4 DEF NextTable, BootInv, ControlInv
    <2>2. ControlInv'
        BY <1>1, <2>1 DEF BootInv, ControlInv, Peopled, Connecting, Early
    <2>3. \A s \in Seeded : rows'[s] # AbsentRow
        BY <1>2, <1>4, SeedsInOrder
    <2>4. Passed'
        BY <2>1, <2>3 DEF Passed
    <2>5. QED
        BY <2>2, <2>4 DEF BootInv
<1>5. QED
    BY <1>1, <1>3, <1>4

\* The seeds of a table come into a table without rows only: any row of it
\* would mean that they are there already, under the codes of the insert.
LEMMA SeedsAreMissing ==
    ASSUME BootInv, NEW t, SeedCodesFree(t), NEW s \in Seeded, TypeOf[s] = t,
           NEW r \in Records, TypeOf[r] = t
    PROVE  rows[r] = AbsentRow
<1>1. s \in SeedsOf(t)
    BY RowsAssumption DEF SeedsOf, Table
<1>2. rows[s].code # SeedCode[s]
    BY <1>1, RowsAssumption DEF SeedCodesFree, CodeFree
<1>3. QED
    BY <1>2 DEF BootInv, SeedsTogether

\* The tables once the seeds of t are inserted.
WithSeeds(t, f) ==
    [r \in Records |->
        IF r \in SeedsOf(t) THEN NewRow(SeedStatus[r], f, SeedCode[r]) ELSE rows[r]]

\* One INSERT fills a table that lacked its seeds and touches no row that was
\* there (database.seedSolarSite and its likes).
LEMMA SeedsInserted ==
    ASSUME BootInv, NEW t, SeedCodesFree(t), NEW f \in Fields, rows' = WithSeeds(t, f)
    PROVE  /\ rows' \in [Records -> Row]
           /\ SeedsTogether'
           /\ \A r \in Records : rows[r] # AbsentRow => rows'[r] = rows[r]
           /\ \A s \in Seeded : TypeOf[s] = t => rows'[s] # AbsentRow
<1>1. \A r \in Records : r \notin SeedsOf(t) => rows'[r] = rows[r]
    BY DEF WithSeeds
<1>2. \A s \in SeedsOf(t) :
          /\ rows'[s] \in Row /\ rows'[s] # AbsentRow
          /\ rows'[s].code = SeedCode[s]
    <2>1. TAKE s \in SeedsOf(t)
    <2>2. s \in Records /\ SeedStatus[s] \in AllStatuses /\ SeedCode[s] \in Codes
        BY RowsAssumption DEF SeedsOf, Table
    <2>3. rows'[s] = NewRow(SeedStatus[s], f, SeedCode[s])
        BY <2>2 DEF WithSeeds
    <2>4. QED
        BY <2>2, <2>3, RowsDiffer
<1>3. /\ \A s \in Seeded : s \in Records /\ (s \in SeedsOf(t) <=> TypeOf[s] = t)
      /\ \A s \in SeedsOf(t) : s \in Seeded
    BY RowsAssumption DEF SeedsOf, Table
<1>4. rows' \in [Records -> Row]
    <2>1. \A r \in Records : rows'[r] \in Row
        BY <1>1, <1>2 DEF BootInv
    <2>2. QED
        BY <2>1 DEF WithSeeds
<1>5. \A r \in Records : rows[r] # AbsentRow => rows'[r] = rows[r]
    BY <1>1, SeedsAreMissing, RowsAssumption DEF SeedsOf, Table
<1>6. SeedsTogether'
    <2>1. ASSUME NEW r \in Records, NEW s \in Seeded,
                 TypeOf[r] = TypeOf[s], rows'[r] # AbsentRow
          PROVE  rows'[s] # AbsentRow
        <3>1. CASE s \in SeedsOf(t)
            BY <3>1, <1>2
        <3>2. CASE s \notin SeedsOf(t)
            <4>1. r \notin SeedsOf(t)
                BY <2>1, <3>2, <1>3
            <4>2. rows[s] # AbsentRow
                BY <2>1, <4>1, <1>1 DEF BootInv, SeedsTogether
            <4>3. QED
                BY <3>2, <4>2, <1>1, <1>3
        <3>3. QED
            BY <3>1, <3>2
    <2>2. \A s \in Seeded : rows'[s] # AbsentRow => rows'[s].code = SeedCode[s]
        BY <1>1, <1>2, RowsAssumption DEF BootInv, SeedsTogether
    <2>3. QED
        BY <2>1, <2>2 DEF SeedsTogether
<1>7. QED
    BY <1>2, <1>3, <1>4, <1>5, <1>6

\* A handler writes when no seed is missing, and leaves seeded codes alone.
LEMMA WritesKeepInv ==
    ASSUME BootInv, HandlerWrites
    PROVE  BootInv'
<1>1. /\ pc' = pc /\ run' = run /\ env' = env /\ schema' = schema /\ users' = users
      /\ \A s \in Seeded : rows[s] # AbsentRow
      /\ Seeded \subseteq Records
    BY RowsAssumption DEF HandlerWrites, BootInv, Passed, Filled
<1>2. ControlInv'
    BY <1>1 DEF BootInv, ControlInv
<1>3. PICK r \in Records : VR!Create(r) \/ VR!Remove(r)
    BY DEF HandlerWrites
<1>4. /\ rows' \in [Records -> Row]
      /\ \A s \in Seeded : rows'[s] # AbsentRow /\ rows'[s].code = rows[s].code
    <2>1. CASE VR!Create(r)
        <3>1. PICK f \in Fields, c \in Codes :
                  rows' = [rows EXCEPT ![r] = VR!NewRow(VR!InitialStatus[TypeOf[r]], f, c)]
            BY <2>1 DEF VR!Create
        <3>2. rows[r] = AbsentRow
            BY <2>1 DEF VR!Create, VR!AbsentRow, AbsentRow, VR!NoStatus, NoStatus,
                        VR!NoField, NoField, VR!NoCode, NoCode
        <3>3. VR!InitialStatus[TypeOf[r]] \in AllStatuses
            <4>1. TypeOf[r] \in EntityTypes
                BY RowsAssumption
            <4>2. QED
                BY <4>1 DEF VR!InitialStatus, EntityTypes, AllStatuses, StatusesOf, Transitions,
                            SolarSiteTransitions, InverterUnitTransitions,
                            FaultEventTransitions, MitigationActionTransitions
        <3>4. VR!NewRow(VR!InitialStatus[TypeOf[r]], f, c) \in Row
            BY <3>3 DEF VR!NewRow, Row
        <3>5. QED
            BY <1>1, <3>1, <3>2, <3>4 DEF BootInv
    <2>2. CASE VR!Remove(r)
        <3>1. rows' = [rows EXCEPT ![r] = [rows[r] EXCEPT !.phase = "deleted"]]
            BY <2>2 DEF VR!Remove
        <3>2. rows[r] \in Row
            BY DEF BootInv
        <3>3. /\ [rows[r] EXCEPT !.phase = "deleted"] \in Row
              /\ [rows[r] EXCEPT !.phase = "deleted"] # AbsentRow
              /\ [rows[r] EXCEPT !.phase = "deleted"].code = rows[r].code
            BY <3>2 DEF Row, AbsentRow
        <3>4. QED
            BY <1>1, <3>1, <3>3 DEF BootInv
    <2>3. QED
        BY <1>3, <2>1, <2>2
<1>5. SeedsTogether'
    BY <1>1, <1>4 DEF BootInv, SeedsTogether
<1>6. Passed'
    BY <1>4 DEF Passed, HandlerWrites, Filled, Serving, BootInv
<1>7. QED
    BY <1>2, <1>4, <1>5, <1>6 DEF BootInv

\* Connecting touches neither the tables nor the position of Seed.
LEMMA ConnectingKeepsInv ==
    ASSUME BootInv, Open \/ Ping \/ PingAgain \/ Wait
    PROVE  BootInv'
<1>1. /\ run \in Run /\ env \in Environments /\ UNCHANGED <<env, rows, schema, users>>
      /\ pc \in Early => run.elapsed < run.attempt
    BY DEF BootInv, ControlInv, Open, Ping, PingAgain, Wait, Goto, outside
<1>2. CASE Exit
    BY <1>1, <1>2, ExitKeepsInv
<1>3. CASE ~Exit
    <2>1. /\ pc \in {"open", "ping", "ping again", "wait"}
          /\ pc' \in {"ping", "wait", "migrate", "ping again", "open"}
        BY <1>3 DEF Open, Ping, PingAgain, Wait, Goto
    <2>2. /\ run' \in Run /\ run'.table = run.table
          /\ pc' \in Early => run'.elapsed < run'.attempt
        <3>1. CASE Open
            BY <3>1, <1>1 DEF Open, Run, Connecting, Early
        <3>2. CASE Ping
            BY <3>2, <1>1 DEF Ping, Goto, Connecting, Early
        <3>3. CASE PingAgain
            BY <3>3, <1>1 DEF PingAgain, Run, Answers, Connecting, Early
        <3>4. CASE Wait
            <4>1. /\ run.attempt \in 1..MaxAttempts /\ run.elapsed \in 0..MaxAttempts
                  /\ run.elapsed < run.attempt
                BY <3>4, <1>1 DEF Wait, Run, Early
            <4> DEFINE due == run.elapsed + 1 >= StartupTimeout
                       rested == [run EXCEPT !.elapsed = run.elapsed + 1, !.expired = due]
            <4>2. \/ run' = rested /\ pc' = "migrate"
                  \/ run.attempt < MaxAttempts /\ run' = [rested EXCEPT !.attempt = rested.attempt + 1]
                BY <3>4, <1>3 DEF Wait, AttemptsLeft
            <4>3. /\ rested \in Run /\ rested.table = run.table
                  /\ rested.attempt = run.attempt /\ rested.elapsed = run.elapsed + 1
                <5>1. due \in BOOLEAN /\ run.elapsed + 1 \in 0..MaxAttempts
                    BY <4>1, StartupAssumption
                <5> HIDE DEF due
                <5>2. QED
                    BY <5>1, <1>1 DEF Run
            <4> HIDE DEF rested
            <4>4. run.attempt < MaxAttempts => run.attempt + 1 \in 1..MaxAttempts
                BY <4>1, StartupAssumption
            <4>5. CASE run' = rested /\ pc' = "migrate"
                BY <4>3, <4>5 DEF Connecting, Early
            <4>6. CASE /\ run.attempt < MaxAttempts
                       /\ run' = [rested EXCEPT !.attempt = rested.attempt + 1]
                BY <4>1, <4>3, <4>4, <4>6 DEF Run
            <4>7. QED
                BY <4>2, <4>5, <4>6
        <3>5. QED
            BY <3>1, <3>2, <3>3, <3>4
    <2>3. QED
        BY <1>1, <2>1, <2>2, MoveKeepsInv DEF Migrated, Peopled, Filled, Serving
<1>4. QED
    BY <1>2, <1>3

\* Load takes the settings of the environment or ends the process.
LEMMA LoadKeepsInv ==
    ASSUME BootInv, LoadSettings
    PROVE  BootInv'
<1>1. pc = "load" /\ env \in Environments /\ UNCHANGED <<env, rows, schema, users>>
    BY DEF LoadSettings, outside, BootInv, ControlInv
<1>2. CASE Exit
    BY <1>1, <1>2, ExitKeepsInv
<1>3. CASE pc' = "open" /\ run' = [run EXCEPT !.settings = Load(env)]
    <2>1. Load(env) \in Loaded
        BY <1>1 DEF Loaded
    <2>2. run \in Run /\ run.table = 1 /\ run.elapsed < run.attempt
        BY <1>1 DEF BootInv, ControlInv, Peopled, Serving, Early
    <2>3. run' \in Run /\ run'.table = 1 /\ run'.elapsed = run.elapsed /\ run'.attempt = run.attempt
        BY <1>3, <2>1, <2>2 DEF Run
    <2>4. QED
        BY <1>1, <1>3, <2>2, <2>3, MoveKeepsInv DEF Migrated, Peopled, Filled, Serving, Connecting, Early
<1>4. QED
    BY <1>2, <1>3 DEF LoadSettings

\* The invariant survives every step, whatever fails.
LEMMA BootStep == BootInv /\ [Next]_vars => BootInv'
<1> SUFFICES ASSUME BootInv, [Next]_vars PROVE BootInv'
    OBVIOUS
<1>1. /\ run \in Run /\ env \in Environments
      /\ pc \in Migrated => schema
      /\ IF pc \in Peopled THEN users ELSE run.table = 1
      /\ pc \in Early => run.elapsed < run.attempt
    BY DEF BootInv, ControlInv
<1>2. CASE Fails
    BY <1>2, ExitKeepsInv DEF Fails, outside
<1>3. CASE Launch
    BY <1>1, <1>3, MoveKeepsInv DEF Launch, Goto, outside, Migrated, Peopled, Filled, Serving, Connecting, Early
<1>4. CASE LoadSettings \/ Open \/ Ping \/ PingAgain \/ Wait
    BY <1>4, LoadKeepsInv, ConnectingKeepsInv
<1>5. CASE Migrate
    BY <1>1, <1>2, <1>5, MoveKeepsInv DEF Migrate, Migrated, Peopled, Filled, Serving, Connecting, Early
<1>6. CASE SeedUsers
    BY <1>1, <1>2, <1>6, MoveKeepsInv DEF SeedUsers, Migrated, Peopled, Filled, Serving, Connecting, Early
<1>7. CASE CountRows
    <2> DEFINE t == TableOrder[run.table]
    <2>1. /\ pc = "count" /\ UNCHANGED <<env, rows, schema, users>>
        BY <1>7 DEF CountRows, outside
    <2>2. CASE Exit
        BY <2>1, <2>2, ExitKeepsInv
    <2>3. CASE pc' = "insert" /\ UNCHANGED run
        BY <2>1, <2>3, <1>1, MoveKeepsInv DEF Migrated, Peopled, Filled, Serving, Connecting, Early
    <2>4. CASE NextTable /\ \E r \in Table(t) : Live(rows[r])
        <3>1. PICK r \in Records : TypeOf[r] = t /\ rows[r] # AbsentRow
            BY <2>4, RowsDiffer DEF Table
        <3>2. \A s \in Seeded : TypeOf[s] = t => rows[s] # AbsentRow
            BY <3>1 DEF BootInv, SeedsTogether
        <3>3. SeedsTogether' /\ rows' \in [Records -> Row]
            BY <2>1 DEF BootInv, SeedsTogether
        <3>4. QED
            BY <2>1, <2>4, <3>2, <3>3, NextTableKeepsInv
    <2>5. QED
        BY <1>7, <2>2, <2>3, <2>4 DEF CountRows
<1>8. CASE InsertSeeds
    <2> DEFINE t == TableOrder[run.table]
    <2>1. pc = "insert" /\ UNCHANGED <<env, schema, users>>
        BY <1>8 DEF InsertSeeds
    <2>2. CASE Exit /\ UNCHANGED rows
        BY <2>1, <2>2, ExitKeepsInv
    <2>3. CASE NextTable /\ SeedCodesFree(t) /\ \E f \in Fields : rows' = WithSeeds(t, f)
        <3>1. PICK f \in Fields : rows' = WithSeeds(t, f)
            BY <2>3
        <3>2. /\ rows' \in [Records -> Row] /\ SeedsTogether'
              /\ \A r \in Records : rows[r] # AbsentRow => rows'[r] = rows[r]
              /\ \A s \in Seeded : TypeOf[s] = t => rows'[s] # AbsentRow
            BY <2>3, <3>1, SeedsInserted
        <3>3. QED
            BY <2>1, <2>3, <3>2, NextTableKeepsInv
    <2>4. QED
        BY <1>8, <2>2, <2>3 DEF InsertSeeds, WithSeeds
<1>9. CASE PingRedis
    <2>1. pc = "redis" /\ (Fails \/ Goto("serving"))
        BY <1>9 DEF PingRedis
    <2>2. CASE Goto("serving")
        <3>1. /\ pc = "redis" /\ pc' = "serving"
              /\ UNCHANGED <<run, env, rows, schema, users>>
            BY <2>1, <2>2 DEF Goto, outside
        <3>2. QED
            BY <1>1, <3>1, MoveKeepsInv DEF Migrated, Peopled, Filled, Serving, Connecting, Early
    <2>3. QED
        BY <1>2, <2>1, <2>2
<1>10. CASE HandlerWrites
    BY <1>10, WritesKeepInv
<1>11. CASE Stop
    BY <1>1, <1>11, MoveKeepsInv DEF Stop, Goto, outside, Migrated, Peopled, Filled, Serving, Connecting, Early
<1>12. CASE Drained
    BY <1>2, <1>12 DEF Drained
<1>13. CASE Crash
    BY <1>13, ExitKeepsInv DEF Crash, outside
<1>14. CASE DeadlinePasses
    <2>1. /\ run' = [run EXCEPT !.expired = TRUE]
          /\ UNCHANGED <<pc, env, rows, schema, users>>
        BY <1>14 DEF DeadlinePasses, outside
    <2>2. /\ run' \in Run /\ run'.table = run.table
          /\ run'.elapsed = run.elapsed /\ run'.attempt = run.attempt
        BY <1>1, <2>1 DEF Run
    <2>3. QED
        BY <1>1, <2>1, <2>2, MoveKeepsInv
<1>15. CASE Reconfigure \/ DatabaseFails \/ DatabaseReturns \/ RedisFails \/ RedisReturns
    <2>1. env' \in Environments /\ UNCHANGED <<pc, run, schema, users, rows>>
        BY <1>1, <1>15 DEF Reconfigure, DatabaseFails, DatabaseReturns, RedisFails, RedisReturns
    <2>2. QED
        BY <1>1, <2>1, MoveKeepsInv
<1>16. CASE UNCHANGED vars
    BY <1>1, <1>16, MoveKeepsInv DEF vars
<1>17. QED
    BY <1>3, <1>4, <1>5, <1>6, <1>7, <1>8, <1>9, <1>10, <1>11, <1>12, <1>13, <1>14, <1>15, <1>16
    DEF Next, Boot

\* However often a boot was cut short, a process that serves has its schema,
\* its users and the seeds of every table (database.Open, Seed).
THEOREM ServingHasAll == Spec => []ServingIsReady
<1>1. BootInv => ServingIsReady
    BY DEF BootInv, ControlInv, Passed, ServingIsReady, Migrated, Peopled, Filled
<1>2. QED
    BY BootInit, BootStep, <1>1, PTL DEF Spec

\* A boot inserts rows where there are none and changes nothing else, so no
\* restart touches what users made or removed (database.Seed).
THEOREM BootsAddOnly == Spec => BootKeepsRecords
<1> DEFINE Kept == pc \notin Serving =>
                       \A r \in Records : rows[r] # AbsentRow => rows'[r] = rows[r]
<1>1. BootInv /\ [Next]_vars => [Kept]_vars
    <2> SUFFICES ASSUME BootInv, Next, pc \notin Serving
                 PROVE  \A r \in Records : rows[r] # AbsentRow => rows'[r] = rows[r]
        OBVIOUS
    <2>1. CASE InsertSeeds
        <3> DEFINE t == TableOrder[run.table]
        <3>1. \/ UNCHANGED rows
              \/ SeedCodesFree(t) /\ \E f \in Fields : rows' = WithSeeds(t, f)
            BY <2>1 DEF InsertSeeds, WithSeeds
        <3>2. QED
            BY <3>1, SeedsInserted
    <2>2. CASE ~InsertSeeds
        <3>1. ~HandlerWrites
            BY DEF HandlerWrites
        <3>2. UNCHANGED rows
            BY <2>2, <3>1 DEF Next, Boot, Launch, LoadSettings, Reconfigure, Open, Ping, PingAgain, Wait, Migrate, SeedUsers,
               CountRows, PingRedis, Stop, Drained, Crash, DeadlinePasses, DatabaseFails,
               DatabaseReturns, RedisFails, RedisReturns, Fails, Goto, outside
        <3>3. QED
            BY <3>2
    <2>3. QED
        BY <2>1, <2>2
<1>2. QED
    BY BootInit, BootStep, <1>1, PTL DEF Spec, BootKeepsRecords

-----------------------------------------------------------------------------
(* Types and settings. *)

Places == Booting \cup Serving \cup {"down"}

\* What BootInv does not say of the types.
WorldTyped ==
    /\ pc \in Places
    /\ dbUp \in BOOLEAN /\ redisUp \in BOOLEAN /\ schema \in BOOLEAN /\ users \in BOOLEAN
    /\ faults \in 0..MaxFaults

\* A process past Load keeps the valid settings it loaded.
Settled == pc \notin {"down", "load"} => run.settings = Load(env) /\ Valid(run.settings)

\* Everything starts with its type (main).
LEMMA WorldInit == Init => WorldTyped
<1>1. MaxFaults \in 0..MaxFaults
    BY StartupAssumption
<1>2. "down" \in Places
    BY DEF Places
<1>3. QED
    BY <1>1, <1>2 DEF Init, WorldTyped

\* Every step of a boot leads to one of the places.
LEMMA BootStaysTyped ==
    ASSUME WorldTyped, Boot
    PROVE  WorldTyped'
<1>1. /\ "users" \in Places /\ "count" \in Places /\ "insert" \in Places /\ "redis" \in Places
      /\ "open" \in Places /\ "ping" \in Places /\ "ping again" \in Places /\ "wait" \in Places
      /\ "migrate" \in Places /\ "serving" \in Places /\ "down" \in Places
    BY DEF Places, Booting, Connecting, Serving
<1>2. UNCHANGED <<dbUp, redisUp, faults>>
    BY DEF Boot, LoadSettings, Open, Ping, PingAgain, Wait, Migrate, SeedUsers, CountRows,
           InsertSeeds, PingRedis, Fails, Goto, outside
<1>3. pc' \in Places
    <2>1. CASE LoadSettings \/ Open \/ Ping \/ PingAgain \/ Wait
        BY <1>1, <2>1 DEF LoadSettings, Open, Ping, PingAgain, Wait, Goto, Exit
    <2>2. CASE Migrate \/ SeedUsers \/ PingRedis
        BY <1>1, <2>2 DEF Migrate, SeedUsers, PingRedis, Fails, Goto, Exit
    <2>3. CASE CountRows \/ InsertSeeds
        BY <1>1, <2>3 DEF CountRows, InsertSeeds, NextTable, Exit
    <2>4. QED
        BY <2>1, <2>2, <2>3 DEF Boot
<1>4. (schema' = schema \/ schema' = TRUE) /\ (users' = users \/ users' = TRUE)
    BY DEF Boot, LoadSettings, Open, Ping, PingAgain, Wait, Migrate, SeedUsers, CountRows,
           InsertSeeds, PingRedis, Fails, Goto, outside
<1>5. QED
    BY <1>2, <1>3, <1>4 DEF WorldTyped

\* So does every other step, and what happens around the process.
LEMMA WorldStaysTyped == WorldTyped /\ [Next]_vars => WorldTyped'
<1> SUFFICES ASSUME WorldTyped, [Next]_vars PROVE WorldTyped'
    OBVIOUS
<1>1. "load" \in Places /\ "draining" \in Places /\ "down" \in Places
    BY DEF Places, Booting, Connecting, Serving
<1>2. CASE Boot
    BY <1>2, BootStaysTyped
<1>3. CASE Launch \/ Stop \/ Drained
    BY <1>1, <1>3 DEF Launch, Stop, Drained, Fails, Exit, Goto, outside, WorldTyped
<1>4. CASE HandlerWrites \/ Reconfigure \/ UNCHANGED vars
    BY <1>4 DEF HandlerWrites, Reconfigure, vars, WorldTyped
<1>5. ASSUME Fault
      PROVE  faults' \in 0..MaxFaults
    BY <1>5, StartupAssumption DEF Fault, WorldTyped
<1>6. CASE Crash \/ DeadlinePasses
    <2>1. faults' \in 0..MaxFaults /\ pc' \in Places
        BY <1>1, <1>5, <1>6 DEF Crash, DeadlinePasses, Exit, WorldTyped
    <2>2. UNCHANGED <<dbUp, redisUp, schema, users>>
        BY <1>6 DEF Crash, DeadlinePasses, outside
    <2>3. QED
        BY <2>1, <2>2 DEF WorldTyped
<1>7. CASE DatabaseFails \/ DatabaseReturns \/ RedisFails \/ RedisReturns
    <2>1. faults' \in 0..MaxFaults /\ UNCHANGED <<pc, schema, users>>
        BY <1>5, <1>7 DEF DatabaseFails, DatabaseReturns, RedisFails, RedisReturns, WorldTyped
    <2>2. /\ dbUp' = dbUp \/ dbUp' = TRUE \/ dbUp' = FALSE
          /\ redisUp' = redisUp \/ redisUp' = TRUE \/ redisUp' = FALSE
        BY <1>7 DEF DatabaseFails, DatabaseReturns, RedisFails, RedisReturns
    <2>3. QED
        BY <2>1, <2>2 DEF WorldTyped
<1>8. QED
    BY <1>2, <1>3, <1>4, <1>6, <1>7 DEF Next

\* The variables keep their types; the position of Seed stays inside its order
\* of the tables (database.Open, database.Seed).
THEOREM StartupTyped == Spec => []TypeOK
<1>1. Init => WorldTyped
    BY WorldInit
<1>2. BootInv /\ WorldTyped => TypeOK
    BY DEF BootInv, ControlInv, Run, WorldTyped, Places, TypeOK, TableOrder
<1>3. QED
    BY <1>1, <1>2, BootInit, BootStep, WorldStaysTyped, PTL DEF Spec

\* Only Load writes the settings, and the environment stands still meanwhile.
LEMMA SettingsStay == BootInv /\ Settled /\ [Next]_vars => Settled'
<1> SUFFICES ASSUME BootInv, Settled, [Next]_vars PROVE Settled'
    OBVIOUS
<1>1. run \in Run
    BY DEF BootInv, ControlInv
<1>2. ASSUME env' = env, run'.settings = run.settings, pc \notin {"down", "load"}
      PROVE  Settled'
    BY <1>2 DEF Settled
<1>3. CASE Exit \/ Launch
    BY <1>3 DEF Exit, Launch, Goto, Settled
<1>4. CASE LoadSettings
    <2>1. CASE Valid(Load(env)) /\ run' = [run EXCEPT !.settings = Load(env)]
        <3>1. run'.settings = Load(env) /\ env' = env
            BY <1>1, <1>4, <2>1 DEF Run, LoadSettings, outside
        <3>2. QED
            BY <2>1, <3>1 DEF Settled
    <2>2. QED
        BY <1>3, <1>4, <2>1 DEF LoadSettings
<1>5. CASE Open \/ Ping \/ PingAgain \/ Wait
    <2>1. Exit \/ run'.settings = run.settings
        BY <1>1, <1>5 DEF Open, Ping, PingAgain, Wait, Goto, Run
    <2>2. env' = env /\ pc \notin {"down", "load"}
        BY <1>5 DEF Open, Ping, PingAgain, Wait, Goto, outside
    <2>3. QED
        BY <1>2, <1>3, <2>1, <2>2
<1>6. CASE Migrate \/ SeedUsers \/ CountRows \/ InsertSeeds \/ PingRedis
    <2>1. Exit \/ run'.settings = run.settings
        BY <1>1, <1>6 DEF Migrate, SeedUsers, CountRows, InsertSeeds, PingRedis, Fails, Goto,
                          NextTable, Run
    <2>2. env' = env /\ pc \notin {"down", "load"}
        BY <1>6 DEF Migrate, SeedUsers, CountRows, InsertSeeds, PingRedis, Fails, Goto, outside
    <2>3. QED
        BY <1>2, <1>3, <2>1, <2>2
<1>7. CASE HandlerWrites \/ Stop \/ Drained \/ Crash
    BY <1>2, <1>3, <1>7 DEF HandlerWrites, Serving, Stop, Drained, Crash, Fails, Goto, outside
<1>8. CASE DeadlinePasses
    <2>1. run'.settings = run.settings /\ env' = env /\ pc \notin {"down", "load"}
        BY <1>1, <1>8 DEF DeadlinePasses, Run, outside, Booting, Connecting
    <2>2. QED
        BY <1>2, <2>1
<1>9. CASE Reconfigure
    BY <1>9 DEF Reconfigure, Settled
<1>10. CASE DatabaseFails \/ DatabaseReturns \/ RedisFails \/ RedisReturns \/ UNCHANGED vars
    <2>1. UNCHANGED <<pc, run, env>>
        BY <1>10 DEF DatabaseFails, DatabaseReturns, RedisFails, RedisReturns, vars
    <2>2. QED
        BY <2>1 DEF Settled
<1>11. QED
    BY <1>3, <1>4, <1>5, <1>6, <1>7, <1>8, <1>9, <1>10 DEF Next, Boot

\* In whatever environment it is started, a process past Load has settings the
\* other parts can work with.  That the life of its tokens is positive is the
\* doing of the defaults alone: Validate does not look at it (config.Load).
THEOREM SettingsStayUsable == Spec => []SettingsUsable
<1>1. Init => Settled
    BY DEF Init, Settled
<1>2. Settled => SettingsUsable
    <2>1. PositiveNumber(env, "TOKEN_TTL", 8 * 60 * 60) > 0
        BY DEF PositiveNumber
    <2>2. Load(env).ttl > 0
        BY <2>1 DEF Load
    <2>3. QED
        BY <2>2 DEF Settled, Valid, SettingsUsable
<1>3. QED
    BY <1>1, <1>2, BootInit, BootStep, SettingsStay, PTL DEF Spec
-----------------------------------------------------------------------------
(* Why boots end, and when none succeeds any more. *)

\* What a boot runs into where it stands: settings that are refused, a database
\* it had to wait for or that does not answer in time, a Redis that does not, or
\* a table that was removed as a whole.
Obstructed ==
    \/ pc = "load" /\ ~Valid(Load(env))
    \/ pc = "wait"
    \/ pc = "migrate" /\ ~dbUp
    \/ pc \in {"users", "count", "insert"} /\ ~Answers
    \/ pc = "insert" /\ Purged(TableOrder[run.table])
    \/ pc = "redis" /\ RedisEnabled /\ ~(redisUp /\ ~run.expired)

\* A boot that no fault ends has run into one of these.  Nothing an earlier boot
\* left half done is among them, nor what handlers wrote, short of removing all
\* of a table.
BootEndsExplained ==
    [][pc' = "down" /\ pc \in Booting => faults' < faults \/ Obstructed]_vars

\* Once a whole table is removed and the process has ended, none serves again.
PurgesLast ==
    [][\A t \in EntityTypes : Purged(t) /\ pc \notin Serving =>
          Purged(t)' /\ pc' \notin Serving]_vars

\* What Seed knows of the tables it has passed, and of the one it is about to
\* fill.
Unpurged ==
    /\ pc \in {"count", "insert"} =>
          \A i \in 1..4 : i < run.table => ~Purged(TableOrder[i])
    /\ pc = "insert" => \A r \in Table(TableOrder[run.table]) : ~Live(rows[r])
    /\ pc = "redis" => \A t \in EntityTypes : ~Purged(t)

\* Each table has one place in the order, and each place a table.
LEMMA OrderOfTables ==
    /\ \A i \in 1..4 : TableOrder[i] \in EntityTypes
    /\ \A t \in EntityTypes : \E i \in 1..4 : t = TableOrder[i]
    /\ \A i, j \in 1..4 : TableOrder[i] = TableOrder[j] => i = j
    /\ Len(TableOrder) = 4
BY DEF EntityTypes, TableOrder

\* Seed leaves no purged table behind when it goes on.
LEMMA NextTableUnpurged ==
    ASSUME BootInv, Unpurged, pc \in {"count", "insert"}, NextTable,
           \A i \in 1..4 : i <= run.table => ~Purged(TableOrder[i])'
    PROVE  Unpurged'
<1>1. run \in Run /\ run.table \in 1..4
    BY DEF BootInv, ControlInv, Run
<1>2. CASE run.table < 4
    <2>1. pc' = "count" /\ run'.table = run.table + 1
        BY <1>1, <1>2, OrderOfTables DEF NextTable, Run
    <2>2. QED
        BY <1>1, <2>1 DEF Unpurged
<1>3. CASE run.table = 4
    <2>1. pc' = "redis"
        BY <1>3, OrderOfTables DEF NextTable
    <2>2. \A t \in EntityTypes : ~Purged(t)'
        BY <1>3, OrderOfTables
    <2>3. QED
        BY <2>1, <2>2 DEF Unpurged
<1>4. QED
    BY <1>1, <1>2, <1>3

\* An INSERT of seeds touches no other table, and none of its own is purged
\* after it.
LEMMA SeedsUnpurge ==
    ASSUME BootInv, NEW t, SeedCodesFree(t), NEW f \in Fields, rows' = WithSeeds(t, f)
    PROVE  /\ ~Purged(t)'
           /\ \A u : u # t /\ ~Purged(u) => ~Purged(u)'
<1>1. /\ \A u : Table(u)' = Table(u) /\ SeedsOf(u)' = SeedsOf(u)
      /\ \A u : SeedsOf(u) \subseteq Table(u) /\ Table(u) \subseteq Records
    BY DEF Table, SeedsOf
<1>2. ASSUME NEW s \in SeedsOf(t)
      PROVE  Live(rows'[s])
    BY <1>1 DEF WithSeeds, NewRow, Live
<1>3. ~Purged(t)'
    BY <1>1, <1>2 DEF Purged
<1>4. ASSUME NEW u, u # t, NEW r \in Table(u)
      PROVE  rows'[r] = rows[r]
    BY <1>4 DEF WithSeeds, SeedsOf, Table
<1>5. ASSUME NEW u, u # t, Purged(u)'
      PROVE  Purged(u)
    BY <1>1, <1>4, <1>5 DEF Purged
<1>6. QED
    BY <1>3, <1>5

\* No step of a boot leaves a purged table behind, and no handler runs beside it.
LEMMA UnpurgedStep == BootInv /\ Unpurged /\ [Next]_vars => Unpurged'
<1> SUFFICES ASSUME BootInv, Unpurged, [Next]_vars PROVE Unpurged'
    OBVIOUS
<1>1. run \in Run /\ (pc \notin Peopled => run.table = 1)
    BY DEF BootInv, ControlInv
<1>2. ASSUME rows' = rows
      PROVE  \A t : Purged(t)' = Purged(t)
    BY <1>2 DEF Purged, Table, SeedsOf
<1>3. ASSUME pc' \notin {"count", "insert", "redis"}
      PROVE  Unpurged'
    BY <1>3 DEF Unpurged
<1>4. ASSUME pc' = pc, rows' = rows, run'.table = run.table
      PROVE  Unpurged'
    BY <1>2, <1>4 DEF Unpurged, Table
<1>5. CASE SeedUsers
    <2>1. CASE pc' = "count"
        <3>1. pc = "users" /\ run' = run
            BY <1>5, <2>1 DEF SeedUsers, Fails, Exit
        <3>2. run'.table = 1
            BY <1>1, <3>1 DEF Peopled, Serving
        <3>3. QED
            BY <2>1, <3>2 DEF Unpurged
    <2>2. QED
        BY <1>3, <1>5, <2>1 DEF SeedUsers, Fails, Exit
<1>6. CASE CountRows
    <2> DEFINE t == TableOrder[run.table]
    <2>1. pc = "count" /\ rows' = rows
        BY <1>6 DEF CountRows, outside
    <2>2. CASE Exit
        BY <1>3, <2>2 DEF Exit
    <2>3. CASE (\E r \in Table(t) : Live(rows[r])) /\ NextTable
        <3>1. ~Purged(t)
            BY <2>3 DEF Purged
        <3>2. run.table \in 1..4
            BY <1>1 DEF Run
        <3>3. \A i \in 1..4 : i <= run.table => ~Purged(TableOrder[i])
            BY <2>1, <3>1, <3>2 DEF Unpurged
        <3>4. \A i \in 1..4 : i <= run.table => ~Purged(TableOrder[i])'
            BY <1>2, <2>1, <3>3
        <3>5. QED
            BY <2>1, <2>3, <3>4, NextTableUnpurged
    <2>4. CASE (\A r \in Table(t) : ~Live(rows[r])) /\ pc' = "insert" /\ run' = run
        BY <1>2, <2>1, <2>4 DEF Unpurged, Table
    <2>5. QED
        BY <1>6, <2>2, <2>3, <2>4 DEF CountRows
<1>7. CASE InsertSeeds
    <2> DEFINE t == TableOrder[run.table]
    <2>1. pc = "insert"
        BY <1>7 DEF InsertSeeds
    <2>2. CASE Exit
        BY <1>3, <2>2 DEF Exit
    <2>3. CASE NextTable /\ SeedCodesFree(t) /\ \E f \in Fields : rows' = WithSeeds(t, f)
        <3>1. PICK own : own = t
            OBVIOUS
        <3>2. /\ ~Purged(own)'
              /\ \A u : u # own /\ ~Purged(u) => ~Purged(u)'
            BY <2>3, <3>1, SeedsUnpurge
        <3>3. run.table \in 1..4
            BY <1>1 DEF Run
        <3>4. ASSUME NEW i \in 1..4, i <= run.table
              PROVE  ~Purged(TableOrder[i])'
            <4>1. CASE i = run.table
                <5>1. TableOrder[i] = own
                    BY <3>1, <4>1
                <5>2. QED
                    BY <3>2, <5>1 DEF Purged, Table, SeedsOf
            <4>2. CASE i < run.table
                <5>1. TableOrder[i] # own /\ ~Purged(TableOrder[i])
                    BY <2>1, <3>1, <3>3, <4>2, OrderOfTables DEF Unpurged
                <5>2. PICK u : u = TableOrder[i]
                    OBVIOUS
                <5>3. ~Purged(u)'
                    BY <3>2, <5>1, <5>2
                <5>4. QED
                    BY <5>2, <5>3 DEF Purged, Table, SeedsOf
            <4>3. QED
                BY <3>3, <3>4, <4>1, <4>2
        <3>5. QED
            BY <2>1, <2>3, <3>4, NextTableUnpurged
    <2>4. QED
        BY <1>7, <2>2, <2>3 DEF InsertSeeds, WithSeeds
<1>8. CASE Launch \/ LoadSettings \/ Open \/ Ping \/ PingAgain \/ Wait \/ Migrate \/ PingRedis
    <2>1. pc' \notin {"count", "insert", "redis"}
        BY <1>8 DEF Launch, LoadSettings, Open, Ping, PingAgain, Wait, Migrate, PingRedis,
                    Fails, Exit, Goto
    <2>2. QED
        BY <1>3, <2>1
<1>9. CASE HandlerWrites \/ Stop \/ Drained \/ Crash
    <2>1. pc' \notin {"count", "insert", "redis"}
        BY <1>9 DEF HandlerWrites, Stop, Drained, Crash, Serving, Fails, Exit, Goto
    <2>2. QED
        BY <1>3, <2>1
<1>10. CASE \/ DeadlinePasses \/ Reconfigure \/ DatabaseFails \/ DatabaseReturns
            \/ RedisFails \/ RedisReturns \/ UNCHANGED vars
    <2>1. pc' = pc /\ rows' = rows /\ run'.table = run.table
        BY <1>1, <1>10 DEF DeadlinePasses, Reconfigure, DatabaseFails, DatabaseReturns,
                           RedisFails, RedisReturns, vars, outside, Run
    <2>2. QED
        BY <1>4, <2>1
<1>11. QED
    BY <1>5, <1>6, <1>7, <1>8, <1>9, <1>10 DEF Next, Boot

\* No process runs at first.
LEMMA UnpurgedInit == Init => Unpurged
BY DEF Init, Unpurged

\* A collision of the seeds with the unique index means that the table was
\* removed as a whole: its seeds are there, and the boot has found no live row.
LEMMA CollisionIsPurge ==
    ASSUME BootInv, Unpurged, pc = "insert", ~SeedCodesFree(TableOrder[run.table])
    PROVE  Purged(TableOrder[run.table])
<1> DEFINE t == TableOrder[run.table]
<1>1. PICK s \in SeedsOf(t), r \in Records : TypeOf[r] = t /\ rows[r].code = SeedCode[s]
    BY DEF SeedCodesFree, CodeFree
<1>2. s \in Seeded /\ TypeOf[s] = t /\ SeedCode[s] # NoCode
    BY RowsAssumption DEF SeedsOf, Table
<1>3. rows[r] # AbsentRow
    BY <1>1, <1>2 DEF AbsentRow
<1>4. rows[s] # AbsentRow
    BY <1>1, <1>2, <1>3 DEF BootInv, SeedsTogether
<1>5. QED
    BY <1>1, <1>4 DEF Unpurged, Purged

\* A boot that no fault cuts short ends for one of the reasons in Obstructed: a
\* seeding an earlier boot left undone, or rows that users created, never stop
\* one, since the seeds only collide with a table that was removed as a whole
\* (main, database.Open, database.Seed).
THEOREM BootEndsAreExplained == Spec => BootEndsExplained
<1> DEFINE Explained == pc' = "down" /\ pc \in Booting => faults' < faults \/ Obstructed
<1>1. ASSUME BootInv, WorldTyped, Unpurged, Next, pc' = "down", pc \in Booting
      PROVE  faults' < faults \/ Obstructed
    <2>1. pc # "down" /\ pc \notin Serving
        BY <1>1 DEF Booting, Connecting, Serving
    <2>2. CASE Boot
        <3>1. CASE LoadSettings \/ Open \/ Ping \/ PingAgain \/ Wait
            BY <1>1, <3>1 DEF LoadSettings, Open, Ping, PingAgain, Wait, Goto, Obstructed
        <3>2. CASE Migrate \/ SeedUsers \/ PingRedis
            BY <1>1, <3>2 DEF Migrate, SeedUsers, PingRedis, Goto, Obstructed
        <3>3. CASE CountRows
            BY <1>1, <3>3 DEF CountRows, NextTable, Obstructed
        <3>4. CASE InsertSeeds
            <4>1. pc = "insert" /\ ~(Answers /\ SeedCodesFree(TableOrder[run.table]))
                BY <1>1, <3>4 DEF InsertSeeds, NextTable
            <4>2. QED
                BY <1>1, <4>1, CollisionIsPurge DEF Obstructed
        <3>5. QED
            BY <2>2, <3>1, <3>2, <3>3, <3>4 DEF Boot
    <2>3. CASE Crash
        BY <1>1, <2>3 DEF Crash, Fault, WorldTyped
    <2>4. CASE Launch \/ HandlerWrites \/ Stop \/ Drained
        BY <1>1, <2>1, <2>4 DEF Launch, HandlerWrites, Stop, Drained, Goto, Serving
    <2>5. CASE \/ DeadlinePasses \/ Reconfigure \/ DatabaseFails \/ DatabaseReturns
               \/ RedisFails \/ RedisReturns
        BY <1>1, <2>1, <2>5 DEF DeadlinePasses, Reconfigure, DatabaseFails, DatabaseReturns,
                                RedisFails, RedisReturns
    <2>6. QED
        BY <1>1, <2>2, <2>3, <2>4, <2>5 DEF Next
<1>2. BootInv /\ WorldTyped /\ Unpurged /\ [Next]_vars => [Explained]_vars
    BY <1>1
<1>3. Init => WorldTyped
    BY WorldInit
<1>4. QED
    BY <1>2, <1>3, BootInit, BootStep, WorldStaysTyped, UnpurgedInit, UnpurgedStep, PTL
    DEF Spec, BootEndsExplained

\* After the last row of a table is removed, the process that ends is the last
\* one to have served: the removed seeds keep their codes, every later boot finds
\* no live row, tries to insert them again and ends (database.Seed).
THEOREM PurgesDoLast == Spec => PurgesLast
<1> DEFINE Final == \A t \in EntityTypes :
                       Purged(t) /\ pc \notin Serving => Purged(t)' /\ pc' \notin Serving
<1>1. ASSUME BootInv, Unpurged, Next, NEW t \in EntityTypes, Purged(t), pc \notin Serving
      PROVE  Purged(t)' /\ pc' \notin Serving
    <2>1. PICK s \in SeedsOf(t) : rows[s] # AbsentRow
        BY <1>1 DEF Purged
    <2>2. s \in Seeded /\ s \in Records /\ TypeOf[s] = t
        BY <2>1, RowsAssumption DEF SeedsOf, Table
    <2>3. ~SeedCodesFree(t)
        BY <1>1, <2>1, <2>2 DEF SeedCodesFree, CodeFree, BootInv, SeedsTogether
    <2>4. CASE InsertSeeds
        <3> DEFINE u == TableOrder[run.table]
        <3>1. pc = "insert" /\ (pc' = "down" \/ NextTable)
            BY <2>4 DEF InsertSeeds, Exit
        <3>2. pc' \notin Serving
            BY <3>1 DEF NextTable, Serving
        <3>3. CASE rows' = rows
            BY <1>1, <3>2, <3>3 DEF Purged, Table, SeedsOf
        <3>4. CASE SeedCodesFree(u) /\ \E f \in Fields : rows' = WithSeeds(u, f)
            <4>1. u # t
                BY <2>3, <3>4
            <4>2. \A r \in Table(t) : rows'[r] = rows[r]
                BY <3>4, <4>1 DEF WithSeeds, SeedsOf, Table
            <4>3. SeedsOf(t) \subseteq Table(t)
                BY DEF SeedsOf
            <4>4. Purged(t)'
                BY <1>1, <4>2, <4>3 DEF Purged, Table, SeedsOf
            <4>5. QED
                BY <3>2, <4>4
        <3>5. QED
            BY <2>4, <3>3, <3>4 DEF InsertSeeds, WithSeeds
    <2>5. CASE ~InsertSeeds
        <3>1. ~HandlerWrites /\ pc # "redis"
            BY <1>1 DEF HandlerWrites, Unpurged
        <3>2. UNCHANGED rows
            BY <1>1, <2>5, <3>1 DEF Next, Boot, Launch, LoadSettings, Reconfigure, Open, Ping,
               PingAgain, Wait, Migrate, SeedUsers, CountRows, PingRedis, Stop, Drained, Crash,
               DeadlinePasses, DatabaseFails, DatabaseReturns, RedisFails, RedisReturns, Fails,
               Goto, outside
        <3>3. pc' \notin Serving
            <4>1. CASE LoadSettings \/ Open \/ Ping \/ PingAgain \/ Wait \/ Launch
                BY <4>1 DEF LoadSettings, Open, Ping, PingAgain, Wait, Launch, Goto, Exit, Serving
            <4>2. CASE Migrate \/ SeedUsers \/ CountRows
                BY <4>2 DEF Migrate, SeedUsers, CountRows, NextTable, Fails, Goto, Exit, Serving
            <4>3. CASE Drained \/ Crash
                BY <4>3 DEF Drained, Crash, Fails, Exit, Serving
            <4>4. CASE \/ DeadlinePasses \/ Reconfigure \/ DatabaseFails \/ DatabaseReturns
                       \/ RedisFails \/ RedisReturns
                BY <1>1, <4>4 DEF DeadlinePasses, Reconfigure, DatabaseFails, DatabaseReturns,
                                  RedisFails, RedisReturns
            <4>5. ~Stop /\ ~PingRedis
                BY <1>1, <3>1 DEF Stop, PingRedis, Serving
            <4>6. QED
                BY <1>1, <2>5, <3>1, <4>1, <4>2, <4>3, <4>4, <4>5 DEF Next, Boot
        <3>4. QED
            BY <1>1, <3>2, <3>3 DEF Purged, Table, SeedsOf
    <2>6. QED
        BY <2>4, <2>5
<1>2. BootInv /\ Unpurged /\ [Next]_vars => [Final]_vars
    BY <1>1
<1>3. QED
    BY <1>2, BootInit, BootStep, UnpurgedInit, UnpurgedStep, PTL DEF Spec, PurgesLast
=============================================================================
