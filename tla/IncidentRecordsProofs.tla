----------------------- MODULE IncidentRecordsProofs -----------------------
(***************************************************************************)
(* Theorems about IncidentRecords, for every number of handlers, records,  *)
(* codes, field values and versions.                                       *)
(***************************************************************************)
EXTENDS IncidentRecords, TLAPS

-----------------------------------------------------------------------------
(* The status tables. *)

\* The targets of a table's transitions are statuses of that table, so a
\* checked transition never leaves the table (constants/status.go).
LEMMA GraphClosed ==
    ASSUME NEW t \in EntityTypes, NEW from, NEW to,
           CanTransition(Transitions[t], from, to)
    PROVE  from \in StatusesOf(t) /\ to \in StatusesOf(t)
<1>1. CASE t = "SolarSite"
    BY <1>1 DEF CanTransition, Transitions, EntityTypes, StatusesOf, SolarSiteTransitions
<1>2. CASE t = "InverterUnit"
    BY <1>2 DEF CanTransition, Transitions, EntityTypes, StatusesOf, InverterUnitTransitions
<1>3. CASE t = "FaultEvent"
    BY <1>3 DEF CanTransition, Transitions, EntityTypes, StatusesOf, FaultEventTransitions
<1>4. CASE t = "MitigationAction"
    BY <1>4 DEF CanTransition, Transitions, EntityTypes, StatusesOf, MitigationActionTransitions
<1>5. QED
    BY <1>1, <1>2, <1>3, <1>4 DEF EntityTypes

\* The initial and the seeded statuses of a table are statuses of that table
\* (model, database.Seed).
LEMMA FirstStatuses ==
    ASSUME NEW t \in EntityTypes
    PROVE  /\ InitialStatus[t] \in StatusesOf(t)
           /\ SeedStatuses[t] \subseteq StatusesOf(t)
<1>1. CASE t = "SolarSite"
    BY <1>1 DEF InitialStatus, SeedStatuses, Transitions, EntityTypes, StatusesOf, SolarSiteTransitions
<1>2. CASE t = "InverterUnit"
    BY <1>2 DEF InitialStatus, SeedStatuses, Transitions, EntityTypes, StatusesOf, InverterUnitTransitions
<1>3. CASE t = "FaultEvent"
    BY <1>3 DEF InitialStatus, SeedStatuses, Transitions, EntityTypes, StatusesOf, FaultEventTransitions
<1>4. CASE t = "MitigationAction"
    BY <1>4 DEF InitialStatus, SeedStatuses, Transitions, EntityTypes, StatusesOf, MitigationActionTransitions
<1>5. QED
    BY <1>1, <1>2, <1>3, <1>4 DEF EntityTypes

\* The statuses of one table are among all statuses (constants/status.go).
LEMMA StatusesAreKnown ==
    ASSUME NEW t \in EntityTypes
    PROVE  StatusesOf(t) \subseteq AllStatuses
BY DEF AllStatuses

-----------------------------------------------------------------------------
(* Type correctness.  TypeOK is not inductive: what a statement writes is   *)
(* built from the input and the snapshot of its handler, so the invariant   *)
(* also has to say what those are at each statement.                        *)

TablesOK ==
    /\ rows \in [Records -> Row]
    /\ \A r \in Records : rows[r] = AbsentRow \/ UsableRow(r, rows[r])

HandlersTyped ==
    /\ pc \in [Requests -> Answers \cup Statements]
    /\ input \in [Requests -> Input \cup {NoInput}]
    /\ current \in [Requests -> Row]

\* What a handler holds when it is about to run the given statement.
Ready(statement, in, row) ==
    /\ in \in Input
    /\ statement = "insert" => in.op = "create" /\ in.fields \in Fields /\ in.code \in Codes
    /\ statement = "get" => in.op \in {"update", "transition", "delete"}
    /\ statement = "store" => in.op \in Conditional
    /\ statement = "remove" => in.op = "delete"
    /\ statement = "reread" => in.op \in Conditional
    /\ statement \in {"store", "remove", "audit"} =>
          UsableRow(in.rec, row) /\ Live(row) /\ Allowed(in, row)

HandlersReady ==
    \A q \in Requests : pc[q] \in Statements => Ready(pc[q], input[q], current[q])

LogsTyped == audits \in Seq(Entry) /\ ledger \subseteq Entry

TypeInv == TablesOK /\ HandlersTyped /\ HandlersReady /\ LogsTyped

\* The null values have their types and belong to no code, field or status.
LEMMA NullsTyped ==
    AbsentRow \in Row /\ NoInput \notin Input /\ Answers \cap Statements = {}
<1>1. AbsentRow \in Row
    BY DEF AbsentRow, Row
<1>2. NoInput \notin Input
    BY DEF NoInput, Input, Operations
<1>3. Answers \cap Statements = {}
    BY DEF Answers, Statements
<1>4. QED
    BY <1>1, <1>2, <1>3

\* A row a first insert makes is usable (service Create, database.Seed).
LEMMA NewRowUsable ==
    ASSUME NEW r, TypeOf[r] \in EntityTypes, NEW f \in Fields, NEW c \in Codes,
           NEW s \in StatusesOf(TypeOf[r])
    PROVE  UsableRow(r, NewRow(s, f, c)) /\ Live(NewRow(s, f, c))
<1>1. s \in AllStatuses
    BY StatusesAreKnown
<1>2. QED
    BY <1>1 DEF UsableRow, NewRow, Row, Live

\* The first boot leaves usable rows and idle handlers (database.Seed).
THEOREM TypeInit == Init => TypeInv
<1> SUFFICES ASSUME Init PROVE TypeInv
    OBVIOUS
<1>1. TablesOK
    <2>1. ASSUME NEW r \in Records
          PROVE  rows[r] \in Row /\ (rows[r] = AbsentRow \/ UsableRow(r, rows[r]))
        <3>1. rows[r] \in FirstRows(r)
            BY DEF Init, InitialTables
        <3>2. CASE r \in Seeded
            <4>1. PICK f \in Fields : rows[r] = NewRow(SeedStatus[r], f, SeedCode[r])
                BY <3>1, <3>2 DEF FirstRows
            <4>2. SeedStatus[r] \in StatusesOf(TypeOf[r])
                BY <3>2, FirstStatuses, RowsAssumption
            <4>3. UsableRow(r, rows[r])
                BY <3>2, <4>1, <4>2, NewRowUsable, RowsAssumption
            <4>4. QED
                BY <4>3 DEF UsableRow
        <3>3. CASE r \notin Seeded
            BY <3>1, <3>3, NullsTyped DEF FirstRows
        <3>4. QED
            BY <3>2, <3>3
    <2>2. rows = [r \in Records |-> rows[r]]
        BY DEF Init, InitialTables
    <2>3. QED
        BY <2>1, <2>2 DEF TablesOK
<1>2. HandlersTyped
    BY NullsTyped DEF Init, HandlersTyped, Answers
<1>3. HandlersReady
    BY DEF Init, HandlersReady, Statements
<1>4. LogsTyped
    BY DEF Init, LogsTyped
<1>5. QED
    BY <1>1, <1>2, <1>3, <1>4 DEF TypeInv

\* A handler that returns leaves the others as they were and is idle.
LEMMA AnswerKeepsHandlers ==
    ASSUME HandlersTyped, HandlersReady, NEW q \in Requests, NEW reply \in Answers,
           Answer(q, reply)
    PROVE  HandlersTyped' /\ HandlersReady'
<1>1. HandlersTyped'
    BY NullsTyped DEF HandlersTyped, Answer
<1>2. ASSUME NEW p \in Requests, pc'[p] \in Statements
      PROVE  Ready(pc'[p], input'[p], current'[p])
    <2>1. p # q
        BY <1>2, NullsTyped DEF Answer, HandlersTyped
    <2>2. pc'[p] = pc[p] /\ input'[p] = input[p] /\ current'[p] = current[p]
        BY <2>1 DEF Answer, HandlersTyped
    <2>3. QED
        BY <1>2, <2>2 DEF HandlersReady
<1>3. QED
    BY <1>1, <1>2 DEF HandlersReady

\* A handler that goes on to a statement it is ready for.
LEMMA StepKeepsHandlers ==
    ASSUME HandlersTyped, HandlersReady, NEW q \in Requests, NEW s \in Statements,
           NEW in, NEW row \in Row, Ready(s, in, row),
           pc' = [pc EXCEPT ![q] = s],
           input' = [input EXCEPT ![q] = in],
           current' = [current EXCEPT ![q] = row]
    PROVE  HandlersTyped' /\ HandlersReady'
<1>1. in \in Input
    BY DEF Ready
<1>2. HandlersTyped'
    BY <1>1 DEF HandlersTyped
<1>3. ASSUME NEW p \in Requests, pc'[p] \in Statements
      PROVE  Ready(pc'[p], input'[p], current'[p])
    <2>1. CASE p = q
        <3>1. pc'[p] = s /\ input'[p] = in /\ current'[p] = row
            BY <2>1 DEF HandlersTyped
        <3>2. QED
            BY <3>1
    <2>2. CASE p # q
        <3>1. pc'[p] = pc[p] /\ input'[p] = input[p] /\ current'[p] = current[p]
            BY <2>2 DEF HandlersTyped
        <3>2. QED
            BY <1>3, <3>1 DEF HandlersReady
    <2>3. QED
        BY <2>1, <2>2
<1>4. QED
    BY <1>2, <1>3 DEF HandlersReady

\* UNCHANGED written as an update with the old value, for StepKeepsHandlers.
LEMMA SameAt ==
    ASSUME HandlersTyped, NEW q \in Requests
    PROVE  /\ input = [input EXCEPT ![q] = input[q]]
           /\ current = [current EXCEPT ![q] = current[q]]
BY DEF HandlersTyped

\* A row that replaces the row of one record.
LEMMA WriteKeepsTables ==
    ASSUME TablesOK, NEW r \in Records, NEW row, UsableRow(r, row),
           rows' = [rows EXCEPT ![r] = row]
    PROVE  TablesOK'
BY DEF TablesOK, UsableRow

\* A request and its checks before the first statement.
LEMMA ArrivalKeepsTypes ==
    ASSUME TypeInv, NEW q \in Requests, NEW t \in EntityTypes, Arrives(q, t)
    PROVE  TypeInv'
<1> USE DEF TypeInv
<1>1. PICK r \in Table(t) :
        \/ \E raw \in RawCodes, f \in Fields \cup {NoField} : CreateArrives(q, r, raw, f)
        \/ \E v \in 1..MaxVersion, f \in Fields \cup {NoField} : UpdateArrives(q, r, v, f)
        \/ \E v \in 1..MaxVersion, s \in Targets, c \in BOOLEAN : TransitionArrives(q, r, v, s, c)
        \/ DeleteArrives(q, r)
    BY DEF Arrives
<1>2. r \in Records
    BY DEF Table
<1>3. UNCHANGED <<rows, audits, ledger>>
    BY <1>1 DEF CreateArrives, UpdateArrives, TransitionArrives, DeleteArrives
<1>4. TablesOK' /\ LogsTyped'
    BY <1>3 DEF TablesOK, LogsTyped
<1>5. \/ Answer(q, "business_rule")
      \/ \E s \in {"insert", "get"}, in \in Input :
            Accept(q, s, in) /\ \A row : Ready(s, in, row)
    <2>1. ASSUME NEW raw \in RawCodes, NEW f \in Fields \cup {NoField}, CreateArrives(q, r, raw, f)
          PROVE  <1>5
        <3> DEFINE in == [NoInput EXCEPT !.op = "create", !.rec = r, !.fields = f,
                                         !.code = Canonical[raw]]
        <3>1. CASE Answer(q, "business_rule")
            BY <3>1
        <3>2. CASE Canonical[raw] # NoCode /\ f # NoField /\ Accept(q, "insert", in)
            <4>1. in \in Input /\ in.op = "create" /\ in.fields \in Fields /\ in.code \in Codes
                BY <1>2, <3>2, RequestsAssumption DEF NoInput, Input, Operations
            <4>2. \A row : Ready("insert", in, row)
                BY <4>1 DEF Ready
            <4>3. QED
                BY <3>2, <4>1, <4>2
        <3>3. QED
            BY <2>1, <3>1, <3>2 DEF CreateArrives
    <2>2. ASSUME NEW v \in 1..MaxVersion, NEW f \in Fields \cup {NoField}, UpdateArrives(q, r, v, f)
          PROVE  <1>5
        <3> DEFINE in == [NoInput EXCEPT !.op = "update", !.rec = r, !.expected = v, !.fields = f]
        <3>0. v \in Nat
            BY RequestsAssumption
        <3>1. in \in Input /\ in.op = "update"
            BY <1>2, <3>0, RequestsAssumption DEF NoInput, Input, Operations
        <3>2. \A row : Ready("get", in, row)
            BY <3>1 DEF Ready
        <3>3. QED
            BY <2>2, <3>1, <3>2 DEF UpdateArrives
    <2>3. ASSUME NEW v \in 1..MaxVersion, NEW s \in Targets, NEW c \in BOOLEAN,
                 TransitionArrives(q, r, v, s, c)
          PROVE  <1>5
        <3> DEFINE in == [NoInput EXCEPT !.op = "transition", !.rec = r, !.expected = v, !.target = s]
        <3>0. v \in Nat
            BY RequestsAssumption
        <3>1. in \in Input /\ in.op = "transition"
            BY <1>2, <3>0, RequestsAssumption DEF NoInput, Input, Operations
        <3>2. \A row : Ready("get", in, row)
            BY <3>1 DEF Ready
        <3>3. QED
            BY <2>3, <3>1, <3>2 DEF TransitionArrives
    <2>4. ASSUME DeleteArrives(q, r)
          PROVE  <1>5
        <3> DEFINE in == [NoInput EXCEPT !.op = "delete", !.rec = r]
        <3>1. in \in Input /\ in.op = "delete"
            BY <1>2 DEF NoInput, Input, Operations
        <3>2. \A row : Ready("get", in, row)
            BY <3>1 DEF Ready
        <3>3. QED
            BY <2>4, <3>1, <3>2 DEF DeleteArrives
    <2>5. QED
        BY <1>1, <2>1, <2>2, <2>3, <2>4
<1>6. CASE Answer(q, "business_rule")
    BY <1>4, <1>6, AnswerKeepsHandlers DEF Answers
<1>7. ASSUME NEW s \in {"insert", "get"}, NEW in \in Input, Accept(q, s, in),
             \A row : Ready(s, in, row)
      PROVE  TypeInv'
    <2>1. current[q] \in Row /\ s \in Statements
        BY DEF HandlersTyped, Statements
    <2>2. HandlersTyped' /\ HandlersReady'
        BY <1>7, <2>1, SameAt, StepKeepsHandlers DEF Accept
    <2>3. QED
        BY <1>4, <2>2
<1>8. QED
    BY <1>5, <1>6, <1>7


\* The two rows the services build on a snapshot stay usable.
LEMMA EditedRowUsable ==
    ASSUME NEW r, NEW row, UsableRow(r, row), NEW f \in Fields, NEW v \in Nat, v > 0
    PROVE  UsableRow(r, [row EXCEPT !.fields = f, !.version = v])
BY DEF UsableRow, Row

\* A status of the row's own table keeps the row usable (service Transition).
LEMMA MovedRowUsable ==
    ASSUME NEW r, TypeOf[r] \in EntityTypes, NEW row, UsableRow(r, row),
           NEW s \in StatusesOf(TypeOf[r]), NEW v \in Nat, v > 0
    PROVE  UsableRow(r, [row EXCEPT !.status = s, !.version = v])
<1>1. s \in AllStatuses
    BY StatusesAreKnown
<1>2. QED
    BY <1>1 DEF UsableRow, Row

\* A statement that fails ends its handler and no other.
LEMMA BreaksKeepsHandlers ==
    ASSUME HandlersTyped, HandlersReady, NEW q \in Requests, Breaks(q)
    PROVE  HandlersTyped' /\ HandlersReady'
BY AnswerKeepsHandlers DEF Breaks, Answers

\* A logged entry about the record of a working handler is well typed.
LEMMA EntryTyped ==
    ASSUME NEW q \in Requests, input[q] \in Input,
           NEW before \in AllStatuses \cup {NoStatus}, NEW after \in AllStatuses \cup {Removed},
           NEW version \in Nat
    PROVE  EntryOf(q, before, after, version) \in Entry
BY DEF EntryOf, Entry, Input

\* repository Create keeps the type invariant.
LEMMA InsertKeepsTypes ==
    ASSUME TypeInv, NEW q \in Requests, Insert(q)
    PROVE  TypeInv'
<1> USE DEF TypeInv
<1> DEFINE r == input[q].rec
           item == NewRow(InitialStatus[TypeOf[r]], input[q].fields, input[q].code)
<1>1. pc[q] = "insert" /\ Ready("insert", input[q], current[q])
    BY DEF Insert, HandlersReady, Statements
<1>2. r \in Records /\ input[q] \in Input /\ TypeOf[r] \in EntityTypes
    BY <1>1, RowsAssumption DEF Ready, Input
<1>3. UsableRow(r, item) /\ Live(item) /\ item \in Row
    BY <1>1, <1>2, NewRowUsable, FirstStatuses DEF Ready, UsableRow
<1>4. item.status \in AllStatuses
    BY <1>2, <1>3, StatusesAreKnown DEF UsableRow
<1>5. CASE /\ rows' = [rows EXCEPT ![r] = item]
           /\ ledger' = ledger \cup {EntryOf(q, NoStatus, item.status, 1)}
           /\ \/ /\ pc' = [pc EXCEPT ![q] = "audit"]
                 /\ current' = [current EXCEPT ![q] = item]
                 /\ UNCHANGED input
              \/ Breaks(q)
    <2>1. TablesOK'
        BY <1>2, <1>3, <1>5, WriteKeepsTables
    <2>2. LogsTyped'
        <3>1. EntryOf(q, NoStatus, item.status, 1) \in Entry
            BY <1>2, <1>4, EntryTyped
        <3>2. QED
            BY <1>5, <3>1 DEF LogsTyped, Insert
    <2>3. CASE Breaks(q)
        BY <2>1, <2>2, <2>3, BreaksKeepsHandlers
    <2>4. CASE /\ pc' = [pc EXCEPT ![q] = "audit"]
               /\ current' = [current EXCEPT ![q] = item]
               /\ UNCHANGED input
        <3>1. Ready("audit", input[q], item)
            BY <1>1, <1>3 DEF Ready, Allowed
        <3>2. HandlersTyped' /\ HandlersReady'
            BY <1>3, <2>4, <3>1, SameAt, StepKeepsHandlers DEF Statements
        <3>3. QED
            BY <2>1, <2>2, <3>2
    <2>5. QED
        BY <1>5, <2>3, <2>4
<1>6. CASE UNCHANGED <<rows, ledger>> /\ (Answer(q, "internal_error") \/ Breaks(q))
    <2>1. TablesOK' /\ LogsTyped'
        BY <1>6 DEF TablesOK, LogsTyped, Insert
    <2>2. Answer(q, "internal_error") => TypeInv'
        BY <2>1, AnswerKeepsHandlers DEF Answers
    <2>3. QED
        BY <1>6, <2>2 DEF Breaks
<1>7. QED
    BY <1>5, <1>6 DEF Insert


\* repository Get and the checks on its row keep the type invariant.
LEMMA GetKeepsTypes ==
    ASSUME TypeInv, NEW q \in Requests, Get(q)
    PROVE  TypeInv'
<1> USE DEF TypeInv
<1> DEFINE in == input[q]
           row == rows[in.rec]
           next == IF in.op = "delete" THEN "remove" ELSE "store"
<1>1. pc[q] = "get" /\ Ready("get", in, current[q])
    BY DEF Get, HandlersReady, Statements
<1>2. in \in Input /\ in.rec \in Records
    BY <1>1 DEF Ready, Input
<1>3. TablesOK' /\ LogsTyped'
    BY DEF TablesOK, LogsTyped, Get
<1>4. CASE \E reply \in Answers : Answer(q, reply)
    BY <1>3, <1>4, AnswerKeepsHandlers
<1>5. CASE /\ Live(row) /\ Allowed(in, row)
           /\ pc' = [pc EXCEPT ![q] = next]
           /\ current' = [current EXCEPT ![q] = row]
           /\ UNCHANGED input
    <2>1. row \in Row /\ UsableRow(in.rec, row)
        BY <1>2, <1>5 DEF TablesOK, Live, AbsentRow
    <2>2. next \in Statements
        BY DEF Statements
    <2>3. Ready(next, in, row)
        BY <1>1, <1>5, <2>1 DEF Ready, Conditional
    <2>4. HandlersTyped' /\ HandlersReady'
        BY <1>5, <2>1, <2>2, <2>3, SameAt, StepKeepsHandlers
    <2>5. QED
        BY <1>3, <2>4
<1>6. QED
    BY <1>4, <1>5 DEF Get, Breaks, Answers

\* repository Update writes a usable row.
LEMMA StoreKeepsTypes ==
    ASSUME TypeInv, NEW q \in Requests, Store(q)
    PROVE  TypeInv'
<1> USE DEF TypeInv
<1> DEFINE r == input[q].rec
           row == rows[r]
           item == Written(q)
           new == [item EXCEPT !.code = row.code, !.phase = row.phase]
<1>1. pc[q] = "store" /\ Ready("store", input[q], current[q])
    BY DEF Store, HandlersReady, Statements
<1>2. r \in Records /\ input[q] \in Input /\ TypeOf[r] \in EntityTypes /\ row \in Row
    BY <1>1, RowsAssumption DEF Ready, Input, TablesOK
<1>3. CASE /\ Matches(row, input[q].expected)
           /\ rows' = [rows EXCEPT ![r] = new]
           /\ ledger' = ledger \cup {EntryOf(q, row.status, item.status, item.version)}
           /\ Continue(q, "audit") \/ Breaks(q)
    <2>1. UsableRow(r, row) /\ Live(row)
        BY <1>2, <1>3 DEF TablesOK, Matches, Live, AbsentRow
    <2>2. UsableRow(r, item)
        <3>0. UsableRow(r, current[q]) /\ Allowed(input[q], current[q])
            BY <1>1 DEF Ready
        <3>v. input[q].expected + 1 \in Nat /\ input[q].expected + 1 > 0
            <4>1. input[q].expected \in Nat
                BY <1>2 DEF Input
            <4>2. QED
                BY <4>1
        <3>1. CASE input[q].op = "update"
            <4>1. input[q].fields \in Fields
                BY <1>2, <3>0, <3>1 DEF Input, Allowed
            <4>2. item = [current[q] EXCEPT !.fields = input[q].fields, !.version = input[q].expected + 1]
                BY <3>1 DEF Written
            <4>3. UsableRow(r, [current[q] EXCEPT !.fields = input[q].fields, !.version = input[q].expected + 1])
                BY <3>0, <3>v, <4>1, EditedRowUsable
            <4>4. QED
                BY <4>2, <4>3
        <3>2. CASE input[q].op = "transition"
            <4>1. CanTransition(Transitions[TypeOf[r]], current[q].status, input[q].target)
                BY <3>0, <3>2 DEF Allowed
            <4>2. input[q].target \in StatusesOf(TypeOf[r])
                BY <1>2, <4>1, GraphClosed
            <4>3. item = [current[q] EXCEPT !.status = input[q].target, !.version = input[q].expected + 1]
                BY <3>2 DEF Written
            <4>4. UsableRow(r, [current[q] EXCEPT !.status = input[q].target, !.version = input[q].expected + 1])
                BY <1>2, <3>0, <3>v, <4>2, MovedRowUsable
            <4>5. QED
                BY <4>3, <4>4
        <3>3. QED
            BY <1>1, <3>1, <3>2 DEF Ready, Conditional
    <2>3. UsableRow(r, new)
        BY <2>1, <2>2 DEF UsableRow, Row
    <2>4. TablesOK'
        BY <1>2, <1>3, <2>3, WriteKeepsTables
    <2>5. row.status \in AllStatuses /\ item.status \in AllStatuses /\ item.version \in Nat
        BY <1>2, <2>1, <2>2, StatusesAreKnown DEF UsableRow, Row
    <2>6. LogsTyped'
        <3>1. EntryOf(q, row.status, item.status, item.version) \in Entry
            BY <1>2, <2>5, EntryTyped
        <3>2. QED
            BY <1>3, <3>1 DEF LogsTyped, Store
    <2>7. CASE Continue(q, "audit")
        <3>1. Ready("audit", input[q], current[q])
            BY <1>1 DEF Ready
        <3>2. current[q] \in Row /\ "audit" \in Statements
            BY DEF HandlersTyped, Statements
        <3>3. HandlersTyped' /\ HandlersReady'
            BY <2>7, <3>1, <3>2, SameAt, StepKeepsHandlers DEF Continue
        <3>4. QED
            BY <2>4, <2>6, <3>3
    <2>8. QED
        BY <1>3, <2>4, <2>6, <2>7, BreaksKeepsHandlers
<1>4. CASE UNCHANGED <<rows, ledger>> /\ (Answer(q, "version_conflict") \/ Breaks(q))
    <2>1. TablesOK' /\ LogsTyped'
        BY <1>4 DEF TablesOK, LogsTyped, Store
    <2>2. QED
        BY <1>4, <2>1, AnswerKeepsHandlers, BreaksKeepsHandlers DEF Answers
<1>5. QED
    BY <1>3, <1>4 DEF Store


\* repository Delete leaves a usable, removed row.
LEMMA RemoveKeepsTypes ==
    ASSUME TypeInv, NEW q \in Requests, Remove(q)
    PROVE  TypeInv'
<1> USE DEF TypeInv
<1> DEFINE r == input[q].rec
           row == rows[r]
           new == [row EXCEPT !.phase = "deleted"]
<1>1. pc[q] = "remove" /\ Ready("remove", input[q], current[q])
    BY DEF Remove, HandlersReady, Statements
<1>2. r \in Records /\ input[q] \in Input /\ TypeOf[r] \in EntityTypes /\ row \in Row
    BY <1>1, RowsAssumption DEF Ready, Input, TablesOK
<1>3. CASE /\ Live(row)
           /\ rows' = [rows EXCEPT ![r].phase = "deleted"]
           /\ ledger' = ledger \cup {EntryOf(q, row.status, Removed, row.version)}
           /\ Continue(q, "audit") \/ Breaks(q)
    <2>1. UsableRow(r, row)
        BY <1>2, <1>3 DEF TablesOK, Live, AbsentRow
    <2>2. UsableRow(r, new)
        BY <2>1 DEF UsableRow, Row
    <2>3. rows' = [rows EXCEPT ![r] = new]
        BY <1>3
    <2>4. TablesOK'
        BY <1>2, <2>2, <2>3, WriteKeepsTables
    <2>5. row.status \in AllStatuses /\ row.version \in Nat
        BY <1>2, <2>1, StatusesAreKnown DEF UsableRow, Row
    <2>6. LogsTyped'
        <3>1. EntryOf(q, row.status, Removed, row.version) \in Entry
            BY <1>2, <2>5, EntryTyped
        <3>2. QED
            BY <1>3, <3>1 DEF LogsTyped, Remove
    <2>7. CASE Continue(q, "audit")
        <3>1. Ready("audit", input[q], current[q])
            BY <1>1 DEF Ready
        <3>2. current[q] \in Row /\ "audit" \in Statements
            BY DEF HandlersTyped, Statements
        <3>3. HandlersTyped' /\ HandlersReady'
            BY <2>7, <3>1, <3>2, SameAt, StepKeepsHandlers DEF Continue
        <3>4. QED
            BY <2>4, <2>6, <3>3
    <2>8. QED
        BY <1>3, <2>4, <2>6, <2>7, BreaksKeepsHandlers
<1>4. CASE UNCHANGED <<rows, ledger>> /\ (Answer(q, "not_found") \/ Breaks(q))
    <2>1. TablesOK' /\ LogsTyped'
        BY <1>4 DEF TablesOK, LogsTyped, Remove
    <2>2. QED
        BY <1>4, <2>1, AnswerKeepsHandlers, BreaksKeepsHandlers DEF Answers
<1>5. QED
    BY <1>3, <1>4 DEF Remove

\* The row the audit call inserts is well typed.
LEMMA AuditEntryTyped ==
    ASSUME TypeInv, NEW q \in Requests, pc[q] = "audit"
    PROVE  AuditEntry(q) \in Entry
<1> DEFINE in == input[q]
           row == current[q]
<1>1. in \in Input /\ UsableRow(in.rec, row)
    BY DEF TypeInv, HandlersReady, Ready, Statements
<1>2. in.op \in Operations /\ in.expected \in Nat
      /\ in.target \in AllStatuses \cup {NoStatus} /\ TypeOf[in.rec] \in EntityTypes
    BY <1>1, RowsAssumption DEF Input
<1>3. row.status \in AllStatuses /\ row.version \in Nat
    BY <1>1, <1>2, StatusesAreKnown DEF UsableRow, Row
<1>4. in.op = "transition" => in.target \in AllStatuses
    <2>1. SUFFICES ASSUME in.op = "transition"
                   PROVE  in.target \in AllStatuses
        OBVIOUS
    <2>2. CanTransition(Transitions[TypeOf[in.rec]], row.status, in.target)
        BY <2>1 DEF TypeInv, HandlersReady, Ready, Statements, Allowed
    <2>3. QED
        BY <1>2, <2>2, GraphClosed, StatusesAreKnown
<1> DEFINE before == IF in.op = "create" THEN NoStatus ELSE row.status
           after == IF in.op = "transition" THEN in.target
                    ELSE IF in.op = "delete" THEN Removed ELSE row.status
           version == IF in.op \in Conditional THEN in.expected + 1 ELSE row.version
<1>5. before \in AllStatuses \cup {NoStatus} /\ after \in AllStatuses \cup {Removed}
    BY <1>3, <1>4
<1>6. version \in Nat
    BY <1>2, <1>3
<1>7. EntryOf(q, before, after, version) \in Entry
    BY <1>1, <1>5, <1>6, EntryTyped
<1>8. QED
    BY <1>7 DEF AuditEntry

\* security Audit keeps the type invariant.
LEMMA AuditKeepsTypes ==
    ASSUME TypeInv, NEW q \in Requests, Audit(q)
    PROVE  TypeInv'
<1> USE DEF TypeInv
<1>1. pc[q] = "audit" /\ Ready("audit", input[q], current[q])
    BY DEF Audit, HandlersReady, Statements
<1>2. TablesOK'
    BY DEF TablesOK, Audit
<1>3. LogsTyped'
    <2>1. AuditEntry(q) \in Entry
        BY <1>1, AuditEntryTyped
    <2>2. audits' = Append(audits, AuditEntry(q)) \/ audits' = audits
        BY DEF Audit
    <2>3. audits' \in Seq(Entry)
        BY <2>1, <2>2 DEF LogsTyped
    <2>4. QED
        BY <2>3 DEF LogsTyped, Audit
<1>4. ASSUME NEW reply \in Answers, Answer(q, reply)
      PROVE  TypeInv'
    BY <1>2, <1>3, <1>4, AnswerKeepsHandlers
<1>5. CASE input[q].op \in Conditional /\ Continue(q, "reread")
    <2>1. Ready("reread", input[q], current[q])
        BY <1>1, <1>5 DEF Ready
    <2>2. current[q] \in Row /\ "reread" \in Statements
        BY DEF HandlersTyped, Statements
    <2>3. HandlersTyped' /\ HandlersReady'
        BY <1>5, <2>1, <2>2, SameAt, StepKeepsHandlers DEF Continue
    <2>4. QED
        BY <1>2, <1>3, <2>3
<1>6. Proceed(q) => TypeInv'
    BY <1>4, <1>5 DEF Proceed, Answers
<1>7. AuditFails(q) => TypeInv'
    BY <1>4, <1>6 DEF AuditFails, Answers
<1>8. QED
    BY <1>6, <1>7 DEF Audit

\* The final Get keeps the type invariant.
LEMMA RereadKeepsTypes ==
    ASSUME TypeInv, NEW q \in Requests, Reread(q)
    PROVE  TypeInv'
<1>1. TablesOK' /\ LogsTyped'
    BY DEF TypeInv, TablesOK, LogsTyped, Reread
<1>2. \E reply \in Answers : Answer(q, reply)
    BY DEF Reread, Breaks, Answers
<1>3. QED
    BY <1>1, <1>2, AnswerKeepsHandlers DEF TypeInv

\* The death of the process keeps the type invariant.
LEMMA CrashKeepsTypes ==
    ASSUME TypeInv, Crash
    PROVE  TypeInv'
<1>1. TablesOK' /\ LogsTyped'
    BY DEF TypeInv, TablesOK, LogsTyped, Crash
<1>2. HandlersTyped' /\ HandlersReady'
    BY NullsTyped DEF Crash, HandlersTyped, HandlersReady, Answers, Statements
<1>3. QED
    BY <1>1, <1>2 DEF TypeInv

\* The handler answers what it cannot pass on to its service (handler).
LEMMA RejectionKeepsTypes ==
    ASSUME TypeInv, NEW q \in Requests, Rejects(q)
    PROVE  TypeInv'
<1>1. TablesOK' /\ LogsTyped'
    BY DEF TypeInv, TablesOK, LogsTyped, Rejects
<1>2. HandlersTyped' /\ HandlersReady'
    BY AnswerKeepsHandlers DEF TypeInv, Rejects, Answers
<1>3. QED
    BY <1>1, <1>2 DEF TypeInv

\* A handler rejects its request or passes it on to the service of its table.
LEMMA HandlersServe ==
    ASSUME NEW q,
           \/ SolarSiteHandler(q) \/ InverterUnitHandler(q)
           \/ FaultEventHandler(q) \/ MitigationActionHandler(q)
    PROVE  Rejects(q) \/ \E t \in EntityTypes : Arrives(q, t)
BY DEF SolarSiteHandler, InverterUnitHandler, FaultEventHandler, MitigationActionHandler,
       SolarSiteRequest, InverterUnitRequest, FaultEventRequest, MitigationActionRequest,
       EntityTypes

\* Every step of the specification keeps the type invariant.
THEOREM TypeStep == TypeInv /\ [Next]_vars => TypeInv'
<1> SUFFICES ASSUME TypeInv, [Next]_vars
             PROVE  TypeInv'
    OBVIOUS
<1>1. ASSUME NEW q \in Requests, NEW t \in EntityTypes, Arrives(q, t)
      PROVE  TypeInv'
    BY <1>1, ArrivalKeepsTypes
<1>2. ASSUME NEW q \in Requests,
             \/ SolarSiteHandler(q) \/ InverterUnitHandler(q)
             \/ FaultEventHandler(q) \/ MitigationActionHandler(q)
      PROVE  TypeInv'
    BY <1>1, <1>2, RejectionKeepsTypes, HandlersServe DEF EntityTypes
<1>3. ASSUME NEW q \in Requests, Insert(q)
      PROVE  TypeInv'
    BY <1>3, InsertKeepsTypes
<1>4. ASSUME NEW q \in Requests, Get(q)
      PROVE  TypeInv'
    BY <1>4, GetKeepsTypes
<1>5. ASSUME NEW q \in Requests, Store(q)
      PROVE  TypeInv'
    BY <1>5, StoreKeepsTypes
<1>6. ASSUME NEW q \in Requests, Remove(q)
      PROVE  TypeInv'
    BY <1>6, RemoveKeepsTypes
<1>7. ASSUME NEW q \in Requests, Audit(q)
      PROVE  TypeInv'
    BY <1>7, AuditKeepsTypes
<1>8. ASSUME NEW q \in Requests, Reread(q)
      PROVE  TypeInv'
    BY <1>8, RereadKeepsTypes
<1>9. CASE Crash
    BY <1>9, CrashKeepsTypes
<1>10. CASE UNCHANGED vars
    BY <1>10 DEF vars, TypeInv, TablesOK, HandlersTyped, HandlersReady, LogsTyped
<1>11. QED
    BY <1>2, <1>3, <1>4, <1>5, <1>6, <1>7, <1>8, <1>9, <1>10 DEF Next

\* Whatever the handlers, the failures and the clients do, the tables hold
\* usable rows only: no write of the services puts a record into a status its
\* table does not know, or leaves it without fields or code.
THEOREM TypeCorrect == Spec => []TypeOK
<1>1. TypeInv => TypeOK
    BY DEF TypeInv, TablesOK, HandlersTyped, LogsTyped, TypeOK
<1>2. QED
    BY TypeInit, TypeStep, <1>1, PTL DEF Spec

-----------------------------------------------------------------------------
(* Codes. *)

\* The tables of Init hold the seeded codes, which differ within a table.
LEMMA CodesInit == Init => CodesUnique
<1> SUFFICES ASSUME Init, NEW r \in Records, NEW s \in Records, r # s, TypeOf[r] = TypeOf[s],
                    rows[r] # AbsentRow, rows[s] # AbsentRow
             PROVE  rows[r].code # rows[s].code
    BY DEF CodesUnique
<1>1. ASSUME NEW x \in Records, rows[x] # AbsentRow
      PROVE  x \in Seeded /\ rows[x].code = SeedCode[x]
    <2>1. rows[x] \in FirstRows(x)
        BY DEF Init, InitialTables
    <2>2. QED
        BY <1>1, <2>1 DEF FirstRows, NewRow
<1>2. QED
    BY <1>1, RowsAssumption

\* A step that leaves the codes of the existing rows alone keeps them apart.
LEMMA CodesKept ==
    ASSUME CodesUnique,
           \A r \in Records : rows'[r].code = rows[r].code /\ (rows[r] = AbsentRow => rows'[r] = AbsentRow)
    PROVE  CodesUnique'
BY DEF CodesUnique

\* Every step keeps the codes of a table apart (unique index of BaseModel.Code).
LEMMA CodesStep == TypeInv /\ CodesUnique /\ [Next]_vars => CodesUnique'
<1> SUFFICES ASSUME TypeInv, CodesUnique, [Next]_vars
             PROVE  CodesUnique'
    OBVIOUS
<1>1. rows \in [Records -> Row]
    BY DEF TypeInv, TablesOK
<1>2. CASE rows' = rows
    BY <1>2 DEF CodesUnique
<1>3. ASSUME NEW q \in Requests, Insert(q)
      PROVE  CodesUnique'
    <2> DEFINE r == input[q].rec
               c == input[q].code
               item == NewRow(InitialStatus[TypeOf[r]], input[q].fields, c)
    <2>1. r \in Records
        BY <1>3 DEF Insert, TypeInv, HandlersReady, Ready, Input, Statements
    <2>2. CASE CodeFree(rows, TypeOf[r], c) /\ rows' = [rows EXCEPT ![r] = item]
        <3>1. rows'[r].code = c /\ \A s \in Records \ {r} : rows'[s] = rows[s]
            BY <1>1, <2>1, <2>2 DEF NewRow
        <3>2. \A s \in Records : TypeOf[s] = TypeOf[r] => rows[s].code # c
            BY <2>2 DEF CodeFree
        <3>3. QED
            BY <3>1, <3>2 DEF CodesUnique
    <2>3. QED
        BY <1>2, <1>3, <2>2 DEF Insert
<1>4. ASSUME NEW q \in Requests, Store(q)
      PROVE  CodesUnique'
    <2> DEFINE r == input[q].rec
               row == rows[r]
               new == [Written(q) EXCEPT !.code = row.code, !.phase = row.phase]
    <2>1. r \in Records /\ current[q] \in Row /\ input[q].op \in Conditional
        BY <1>4 DEF Store, TypeInv, HandlersTyped, HandlersReady, Ready, Input, Statements
    <2>2. CASE Live(row) /\ rows' = [rows EXCEPT ![r] = new]
        <3>1. new.code = row.code
            BY <2>1 DEF Written, Row, Conditional
        <3>2. row # AbsentRow
            BY <2>2 DEF Live, AbsentRow
        <3>3. QED
            BY <1>1, <2>1, <2>2, <3>1, <3>2, CodesKept
    <2>3. QED
        BY <1>2, <1>4, <2>2 DEF Store, Matches
<1>5. ASSUME NEW q \in Requests, Remove(q)
      PROVE  CodesUnique'
    <2> DEFINE r == input[q].rec
               row == rows[r]
    <2>1. r \in Records
        BY <1>5 DEF Remove, TypeInv, HandlersReady, Ready, Input, Statements
    <2>2. CASE Live(row) /\ rows' = [rows EXCEPT ![r].phase = "deleted"]
        <3>1. row # AbsentRow /\ rows'[r].code = row.code
            BY <1>1, <2>1, <2>2 DEF Live, AbsentRow, Row
        <3>2. QED
            BY <1>1, <2>1, <2>2, <3>1, CodesKept
    <2>3. QED
        BY <1>2, <1>5, <2>2 DEF Remove
<1>6. ASSUME NEW q \in Requests,
             \/ SolarSiteHandler(q) \/ InverterUnitHandler(q)
             \/ FaultEventHandler(q) \/ MitigationActionHandler(q)
             \/ Get(q) \/ Audit(q) \/ Reread(q)
      PROVE  rows' = rows
    <2>1. ASSUME NEW t, Arrives(q, t)
          PROVE  rows' = rows
        BY <2>1 DEF Arrives, CreateArrives, UpdateArrives, TransitionArrives, DeleteArrives
    <2>2. QED
        BY <1>6, <2>1, HandlersServe DEF Rejects, Get, Audit, Reread
<1>7. QED
    BY <1>2, <1>3, <1>4, <1>5, <1>6 DEF Next, Crash, vars

\* Whatever creations race and whatever was removed before, two rows of one
\* table never share a code (model BaseModel.Code).
THEOREM CodesStayUnique == Spec => []CodesUnique
BY TypeInit, TypeStep, CodesInit, CodesStep, PTL DEF Spec
=============================================================================
