--------------------------- MODULE WorkbenchProofs ---------------------------
(***************************************************************************)
(* Theorems about Workbench, for every page, number of records, calls and  *)
(* searches, with and without failing requests.                            *)
(***************************************************************************)
EXTENDS Workbench, TLAPS

-----------------------------------------------------------------------------
(* The inductive invariant. *)

\* A copy of a row, wherever it is kept, is not newer than the row, and is the
\* row itself as long as the row lives and carries the version of the copy.
Copy(x, r) ==
    Live(x) => /\ x.version <= rows[r].version
               /\ Live(rows[r]) /\ x.version = rows[r].version => x = rows[r]

\* A move a dialog was opened for.
ShownMove(m) ==
    /\ m \in Move
    /\ Live(m.item) /\ Copy(m.item, m.rec)
    /\ Follows(m.item.status, m.target)

PageCoherent ==
    /\ \A r \in Records : Copy(items[r], r)
    /\ pending # Nothing => ShownMove(pending)

CallCoherent(call) ==
    /\ \A r \in Records : Copy(call.list[r], r)
    /\ call.at \in {"move", "moved"} => call.goal = "move"
    /\ call.at = "move" => call.answer = "none"
    /\ call.at \in {"create", "created"} => call.goal = "create"
    /\ call.goal = "move" => ShownMove(call.what)

\* A move that was answered with success is in the table, and in the list that
\* was asked for after it.
MoveIsDone(call) ==
    LET move == call.what
    IN call.goal = "move" =>
        /\ (call.at = "moved" /\ call.answer = "ok") \/ call.at \in {"list", "listed"} =>
              rows[move.rec].version > move.item.version
        /\ call.at = "listed" /\ call.answer = "ok" /\ Live(call.list[move.rec]) =>
              call.list[move.rec].version > move.item.version

\* A list that was asked for after the one on the page was shown is not older.
FreshIsNewer(call) ==
    call.at = "listed" /\ call.answer = "ok" /\ call.fresh =>
        \A r \in Records :
            Live(items[r]) /\ Live(call.list[r]) => call.list[r].version >= items[r].version

Good(call) == CallCoherent(call) /\ MoveIsDone(call) /\ FreshIsNewer(call)

CallsCoherent == \A c \in Calls : calls[c] # Free => Good(calls[c])

PageInv == TypeOK /\ PageCoherent /\ CallsCoherent

-----------------------------------------------------------------------------
(* Rows and null values. *)

\* The null values are no moves and no calls.
LEMMA NullsApart == Nothing \notin Move /\ Free \notin Call
<1>1. Nothing \notin Move
    BY DEF Nothing, Move
<1>2. Free \notin Call
    BY DEF Free, Call
<1>3. QED
    BY <1>1, <1>2

\* The null row has its type, and shows nothing.
LEMMA AbsentTyped == AbsentRow \in Row /\ ~Live(AbsentRow) /\ AbsentRow.version = 0
BY DEF AbsentRow, Row, Live

\* Every table has its statuses among all statuses (constants/status.go).
LEMMA InitialKnown ==
    ASSUME NEW t \in EntityTypes
    PROVE  InitialStatus[t] \in AllStatuses
<1>1. InitialStatus[t] \in StatusesOf(t)
    <2>1. CASE t = "SolarSite"
        BY <2>1 DEF InitialStatus, Transitions, EntityTypes, StatusesOf, SolarSiteTransitions
    <2>2. CASE t = "InverterUnit"
        BY <2>2 DEF InitialStatus, Transitions, EntityTypes, StatusesOf, InverterUnitTransitions
    <2>3. CASE t = "FaultEvent"
        BY <2>3 DEF InitialStatus, Transitions, EntityTypes, StatusesOf, FaultEventTransitions
    <2>4. CASE t = "MitigationAction"
        BY <2>4 DEF InitialStatus, Transitions, EntityTypes, StatusesOf, MitigationActionTransitions
    <2>5. QED
        BY <2>1, <2>2, <2>3, <2>4 DEF EntityTypes
<1>2. QED
    BY <1>1 DEF AllStatuses

\* The first insert of a row makes a row (model BeforeCreate).
LEMMA NewRowTyped ==
    ASSUME NEW s \in AllStatuses, NEW f \in Fields, NEW c \in Codes
    PROVE  NewRow(s, f, c) \in Row /\ NewRow(s, f, c).version = 1 /\ Live(NewRow(s, f, c))
BY DEF NewRow, Row, Live

\* The first boot leaves rows (database.Seed).
LEMMA FirstRowsTyped ==
    ASSUME NEW t \in InitialTables
    PROVE  t \in [Records -> Row]
<1>1. ASSUME NEW r \in Records
      PROVE  t[r] \in Row
    <2>1. t[r] \in FirstRows(r)
        BY DEF InitialTables
    <2>2. CASE r \in Seeded
        <3>1. PICK f \in Fields : t[r] = NewRow(SeedStatus[r], f, SeedCode[r])
            BY <2>1, <2>2 DEF FirstRows
        <3>2. SeedStatus[r] \in AllStatuses /\ SeedCode[r] \in Codes
            BY <2>2, RowsAssumption
        <3>3. QED
            BY <3>1, <3>2, NewRowTyped
    <2>3. CASE r \notin Seeded
        BY <2>1, <2>3, AbsentTyped DEF FirstRows
    <2>4. QED
        BY <2>2, <2>3
<1>2. DOMAIN t = Records /\ t = [r \in Records |-> t[r]]
    BY DEF InitialTables
<1>3. QED
    BY <1>1, <1>2

\* The status the button of a row leads to can be entered from the status of
\* the row (types/status.ts, constants/status.go).
LEMMA ListedAreEdges ==
    ASSUME NEW s, NEW n, Follows(s, n)
    PROVE  CanTransition(Transitions[Page], s, n)
<1>1. PICK i \in 1..(Len(ListedStatuses[Page]) - 1) :
          ListedStatuses[Page][i] = s /\ ListedStatuses[Page][i + 1] = n
    BY DEF Follows
<1>2. CASE Page = "SolarSite"
    <2>1. ListedStatuses[Page] = <<"online", "limited", "offline", "maintenance">>
        BY <1>2 DEF ListedStatuses
    <2>2. i = 1 \/ i = 2 \/ i = 3
        BY <1>1, <2>1
    <2>3. QED
        BY <1>1, <1>2, <2>1, <2>2 DEF CanTransition, Transitions, SolarSiteTransitions
<1>3. CASE Page = "InverterUnit"
    <2>1. ListedStatuses[Page] = <<"online", "warning", "tripped", "isolated">>
        BY <1>3 DEF ListedStatuses
    <2>2. i = 1 \/ i = 2 \/ i = 3
        BY <1>1, <2>1
    <2>3. QED
        BY <1>1, <1>3, <2>1, <2>2 DEF CanTransition, Transitions, InverterUnitTransitions
<1>4. CASE Page = "FaultEvent"
    <2>1. ListedStatuses[Page] = <<"open", "acknowledged", "mitigated", "closed">>
        BY <1>4 DEF ListedStatuses
    <2>2. i = 1 \/ i = 2 \/ i = 3
        BY <1>1, <2>1
    <2>3. QED
        BY <1>1, <1>4, <2>1, <2>2 DEF CanTransition, Transitions, FaultEventTransitions
<1>5. CASE Page = "MitigationAction"
    <2>1. ListedStatuses[Page] = <<"draft", "confirmed", "executing", "completed", "failed">>
        BY <1>5 DEF ListedStatuses
    <2>2. i = 1 \/ i = 2 \/ i = 3 \/ i = 4
        BY <1>1, <2>1
    <2>3. QED
        BY <1>1, <1>5, <2>1, <2>2 DEF CanTransition, Transitions, MitigationActionTransitions
<1>6. QED
    BY <1>2, <1>3, <1>4, <1>5, WorkbenchAssumption DEF EntityTypes

-----------------------------------------------------------------------------
(* What a step does to the rows. *)

\* A row is what it was, or newer, or hidden.
Later(r) ==
    \/ rows'[r] = rows[r]
    \/ rows'[r].version > rows[r].version
    \/ rows'[r].version = rows[r].version /\ ~Live(rows'[r])

RowsGoOn == rows' \in [Records -> Row] /\ \A r \in Records : Later(r)

\* The words of VersionedRecords mean what they mean here.
LEMMA SameWords ==
    /\ Tables!AbsentRow = AbsentRow
    /\ Tables!AllStatuses = AllStatuses
    /\ Tables!InitialStatus = InitialStatus
    /\ Tables!Transitions = Transitions
    /\ \A row : Tables!Live(row) <=> Live(row)
    /\ \A s, f, c : Tables!NewRow(s, f, c) = NewRow(s, f, c)
    /\ \A g, a, b : Tables!CanTransition(g, a, b) <=> CanTransition(g, a, b)
    /\ Tables!InitialTables = InitialTables
<1>1. Tables!AbsentRow = AbsentRow
    BY DEF Tables!AbsentRow, AbsentRow, Tables!NoStatus, NoStatus, Tables!NoField, NoField,
           Tables!NoCode, NoCode
<1>2. Tables!Transitions = Transitions
    BY DEF Tables!Transitions, Transitions, Tables!SolarSiteTransitions, SolarSiteTransitions,
           Tables!InverterUnitTransitions, InverterUnitTransitions,
           Tables!FaultEventTransitions, FaultEventTransitions,
           Tables!MitigationActionTransitions, MitigationActionTransitions
<1>3. Tables!AllStatuses = AllStatuses
    BY <1>2 DEF Tables!AllStatuses, AllStatuses, Tables!EntityTypes, EntityTypes,
                Tables!StatusesOf, StatusesOf
<1>4. Tables!InitialStatus = InitialStatus
    BY DEF Tables!InitialStatus, InitialStatus
<1>5. \A row : Tables!Live(row) <=> Live(row)
    BY DEF Tables!Live, Live
<1>6. \A s, f, c : Tables!NewRow(s, f, c) = NewRow(s, f, c)
    BY DEF Tables!NewRow, NewRow
<1>7. \A g, a, b : Tables!CanTransition(g, a, b) <=> CanTransition(g, a, b)
    BY DEF Tables!CanTransition, CanTransition
<1>8. Tables!InitialTables = InitialTables
    <2>1. ASSUME NEW r
          PROVE  Tables!FirstRows(r) = FirstRows(r)
        BY <1>1, <1>6 DEF Tables!FirstRows, FirstRows
    <2>2. UNION {Tables!FirstRows(r) : r \in Records} = UNION {FirstRows(r) : r \in Records}
        BY <2>1
    <2>3. QED
        BY <2>1, <2>2 DEF Tables!InitialTables, InitialTables
<1>9. QED
    BY <1>1, <1>2, <1>3, <1>4, <1>5, <1>6, <1>7, <1>8

\* One row is replaced by a row that is newer or hidden.
LEMMA ReplacedGoesOn ==
    ASSUME rows \in [Records -> Row], NEW r \in Records, NEW new \in Row,
           rows' = [rows EXCEPT ![r] = new],
           \/ new.version > rows[r].version
           \/ new.version = rows[r].version /\ ~Live(new)
    PROVE  RowsGoOn
BY DEF RowsGoOn, Later

\* An edit makes the row newer.
LEMMA EditGoesOn ==
    ASSUME rows \in [Records -> Row], NEW r \in Records, NEW f \in Fields,
           rows' = [rows EXCEPT ![r].fields = f, ![r].version = @ + 1]
    PROVE  RowsGoOn
<1>1. DOMAIN rows' = Records /\ \A k \in Records \ {r} : rows'[k] = rows[k]
    BY DEF Row
<1>2. rows'[r] \in Row /\ rows'[r].version = rows[r].version + 1 /\ rows[r].version \in Nat
    BY DEF Row
<1>3. QED
    BY <1>1, <1>2 DEF RowsGoOn, Later

\* A move makes the row newer.
LEMMA MoveGoesOn ==
    ASSUME rows \in [Records -> Row], NEW r \in Records, NEW s \in AllStatuses,
           rows' = [rows EXCEPT ![r].status = s, ![r].version = @ + 1]
    PROVE  RowsGoOn
<1>1. DOMAIN rows' = Records /\ \A k \in Records \ {r} : rows'[k] = rows[k]
    BY DEF Row
<1>2. rows'[r] \in Row /\ rows'[r].version = rows[r].version + 1 /\ rows[r].version \in Nat
    BY DEF Row
<1>3. QED
    BY <1>1, <1>2 DEF RowsGoOn, Later

\* A removal hides the row.
LEMMA RemovalGoesOn ==
    ASSUME rows \in [Records -> Row], NEW r \in Records,
           rows' = [rows EXCEPT ![r].phase = "deleted"]
    PROVE  RowsGoOn
<1>1. DOMAIN rows' = Records /\ \A k \in Records \ {r} : rows'[k] = rows[k]
    BY DEF Row
<1>2. rows'[r] \in Row /\ rows'[r].version = rows[r].version /\ ~Live(rows'[r])
    BY DEF Row, Live
<1>3. QED
    BY <1>1, <1>2 DEF RowsGoOn, Later

\* A write of VersionedRecords takes the rows on.
LEMMA WritesGoOn ==
    ASSUME rows \in [Records -> Row], NEW r \in Records,
           Tables!Create(r) \/ Tables!Edit(r) \/ Tables!Move(r) \/ Tables!Remove(r)
    PROVE  RowsGoOn
<1> DEFINE row == rows[r]
<1>1. row \in Row /\ row.version \in Nat
    BY DEF Row
<1>2. CASE Tables!Create(r)
    <2>1. PICK f \in Fields, c \in Codes :
              rows' = [rows EXCEPT ![r] = NewRow(InitialStatus[TypeOf[r]], f, c)]
        BY <1>2, SameWords DEF Tables!Create
    <2>2. row.version = 0
        BY <1>2, AbsentTyped, SameWords DEF Tables!Create
    <2>3. InitialStatus[TypeOf[r]] \in AllStatuses
        BY InitialKnown, RowsAssumption
    <2>4. NewRow(InitialStatus[TypeOf[r]], f, c) \in Row
          /\ NewRow(InitialStatus[TypeOf[r]], f, c).version > row.version
        BY <2>2, <2>3, NewRowTyped
    <2>5. QED
        BY <2>1, <2>4, ReplacedGoesOn
<1>3. CASE Tables!Edit(r)
    BY <1>3, EditGoesOn DEF Tables!Edit
<1>4. CASE Tables!Move(r)
    BY <1>4, MoveGoesOn, SameWords DEF Tables!Move
<1>5. CASE Tables!Remove(r)
    BY <1>5, RemovalGoesOn DEF Tables!Remove
<1>6. QED
    BY <1>2, <1>3, <1>4, <1>5

\* A move that is served changes the rows as a move of VersionedRecords does,
\* or not at all, and it does so only if the row is what the dialog showed.
LEMMA ServedMove ==
    ASSUME PageInv, NEW c \in Calls, ServeMove(c)
    PROVE  \/ rows' = rows
           \/ /\ Tables!Move(calls[c].what.rec)
              /\ calls[c].what.rec \in Records
              /\ rows[calls[c].what.rec] = calls[c].what.item
              /\ rows' = [rows EXCEPT ![calls[c].what.rec].status = calls[c].what.target,
                                      ![calls[c].what.rec].version = calls[c].what.item.version + 1]
<1> DEFINE move == calls[c].what
           r == move.rec
<1>1. calls[c] # Free
    BY DEF ServeMove, Free
<1>2. ShownMove(move)
    BY <1>1 DEF PageInv, CallsCoherent, Good, CallCoherent, ServeMove
<1>3. r \in Records /\ move.target \in AllStatuses /\ move.item \in Row
    BY <1>2 DEF ShownMove, Move
<1>4. CASE Accepts(rows[r], move)
           /\ rows' = [rows EXCEPT ![r].status = move.target,
                                   ![r].version = move.item.version + 1]
    <2>1. Live(rows[r]) /\ rows[r].version = move.item.version
          /\ CanTransition(Transitions[Page], rows[r].status, move.target)
        BY <1>4 DEF Accepts
    <2>2. rows[r] = move.item
        BY <1>2, <2>1 DEF ShownMove, Copy
    <2>3. TypeOf[r] = Page
        BY <1>3, WorkbenchAssumption
    <2>4. rows' = [rows EXCEPT ![r].status = move.target, ![r].version = @ + 1]
        BY <1>4, <2>1
    <2>5. Tables!Move(r)
        BY <1>3, <2>1, <2>3, <2>4, SameWords DEF Tables!Move
    <2>6. QED
        BY <1>3, <1>4, <2>2, <2>5
<1>5. CASE rows' = rows
    BY <1>5
<1>6. QED
    BY <1>4, <1>5 DEF ServeMove

\* Every step takes the rows on.
LEMMA StepsGoOn ==
    ASSUME PageInv, [Next]_vars
    PROVE  RowsGoOn
<1>1. rows \in [Records -> Row]
    BY DEF PageInv, TypeOK
<1>2. ASSUME rows' = rows
      PROVE  RowsGoOn
    BY <1>1, <1>2 DEF RowsGoOn, Later
<1>3. ASSUME NEW c \in Calls, ServeMove(c)
      PROVE  RowsGoOn
    BY <1>1, <1>2, <1>3, ServedMove, WritesGoOn
<1>4. ASSUME NEW c \in Calls, ServeCreate(c)
      PROVE  RowsGoOn
    BY <1>1, <1>2, <1>4, WritesGoOn DEF ServeCreate
<1>5. ASSUME NEW r \in Records, OthersWrite(r)
      PROVE  RowsGoOn
    BY <1>1, <1>5, WritesGoOn DEF OthersWrite
<1>6. ASSUME NEW c \in Calls, NEW search \in Searches, Load(c, search)
      PROVE  rows' = rows
    BY <1>6 DEF Load
<1>7. ASSUME NEW c \in Calls,
             Revisit(c) \/ Confirm(c) \/ Execute(c) \/ CreateDemo(c)
             \/ ServeList(c) \/ Listed(c) \/ Continue(c)
      PROVE  rows' = rows
    BY <1>7 DEF Revisit, Confirm, Execute, CreateDemo, ServeList, Listed, Continue
<1>8. ASSUME NEW r \in Records, Open(r)
      PROVE  rows' = rows
    BY <1>8 DEF Open
<1>9. ASSUME Cancel \/ Check \/ Back \/ (\E show \in BOOLEAN : ShowCreate(show))
      PROVE  rows' = rows
    BY <1>9 DEF Cancel, Check, Back, ShowCreate
<1>10. ASSUME UNCHANGED vars
       PROVE  rows' = rows
    BY <1>10 DEF vars
<1>11. QED
    BY <1>2, <1>3, <1>4, <1>5, <1>6, <1>7, <1>8, <1>9, <1>10 DEF Next, Serve

\* A copy stays a copy while the rows go on.
LEMMA CopyKept ==
    ASSUME rows \in [Records -> Row], RowsGoOn, NEW r \in Records, NEW x \in Row, Copy(x, r)
    PROVE  Live(x) => /\ x.version <= rows'[r].version
                      /\ Live(rows'[r]) /\ x.version = rows'[r].version => x = rows'[r]
<1>1. x.version \in Nat /\ rows[r].version \in Nat /\ rows'[r].version \in Nat
    BY DEF RowsGoOn, Row
<1>2. QED
    BY <1>1 DEF Copy, RowsGoOn, Later

\* A move a dialog was opened for keeps being one.
LEMMA ShownKept ==
    ASSUME rows \in [Records -> Row], RowsGoOn, NEW CONSTANT m, ShownMove(m)
    PROVE  ShownMove(m)'
<1>1. m \in Move /\ m.rec \in Records /\ m.item \in Row
    BY DEF ShownMove, Move
<1>2. Copy(m.item, m.rec)'
    BY <1>1, CopyKept DEF ShownMove, Copy
<1>3. QED
    BY <1>1, <1>2 DEF ShownMove

\* What is on the page stays coherent while the rows go on.
LEMMA PageKept ==
    ASSUME PageInv, RowsGoOn, items' = items, pending' = pending
    PROVE  PageCoherent'
<1>1. rows \in [Records -> Row] /\ items \in [Records -> Row]
    BY DEF PageInv, TypeOK
<1>2. ASSUME NEW r \in Records
      PROVE  Copy(items[r], r)'
    <2>1. items[r] \in Row /\ Copy(items[r], r)
        BY <1>1 DEF PageInv, PageCoherent
    <2>2. QED
        BY <1>1, <2>1, CopyKept DEF Copy
<1>3. ASSUME pending # Nothing
      PROVE  ShownMove(pending)'
    <2>1. PICK m : m = pending
        OBVIOUS
    <2>2. ShownMove(m)'
        BY <1>1, <1>3, <2>1, ShownKept DEF PageInv, PageCoherent
    <2>3. QED
        BY <2>1, <2>2
<1>4. QED
    BY <1>2, <1>3 DEF PageCoherent

\* A call that is left alone stays good while the rows go on.
LEMMA GoodKept ==
    ASSUME PageInv, RowsGoOn, items' = items, NEW CONSTANT x \in Call, Good(x)
    PROVE  Good(x)'
<1>1. rows \in [Records -> Row] /\ x.list \in [Records -> Row]
    BY DEF PageInv, TypeOK, Call
<1>2. ASSUME NEW r \in Records
      PROVE  Copy(x.list[r], r)'
    <2>1. x.list[r] \in Row /\ Copy(x.list[r], r)
        BY <1>1 DEF Good, CallCoherent
    <2>2. QED
        BY <1>1, <2>1, CopyKept DEF Copy
<1>3. x.goal = "move" => ShownMove(x.what)'
    BY <1>1, ShownKept DEF Good, CallCoherent
<1>4. CallCoherent(x)'
    BY <1>2, <1>3 DEF Good, CallCoherent
<1>5. MoveIsDone(x)'
    <2>1. SUFFICES ASSUME x.goal = "move",
                          (x.at = "moved" /\ x.answer = "ok") \/ x.at \in {"list", "listed"}
                   PROVE  rows'[x.what.rec].version > x.what.item.version
        BY DEF Good, MoveIsDone
    <2>2. rows[x.what.rec].version > x.what.item.version
        BY <2>1 DEF Good, MoveIsDone
    <2>3. x.what.rec \in Records /\ x.what.item.version \in Nat
        BY <2>1 DEF Good, CallCoherent, ShownMove, Move, Row
    <2>4. rows[x.what.rec].version \in Nat /\ rows'[x.what.rec].version \in Nat
        BY <1>1, <2>3 DEF RowsGoOn, Row
    <2>5. QED
        BY <2>2, <2>3, <2>4 DEF RowsGoOn, Later
<1>6. FreshIsNewer(x)'
    BY DEF Good, FreshIsNewer
<1>7. QED
    BY <1>4, <1>5, <1>6 DEF Good

\* The same for a call in its place.
LEMMA CallKept ==
    ASSUME PageInv, RowsGoOn, items' = items, NEW c \in Calls, calls'[c] = calls[c],
           calls[c] # Free
    PROVE  Good(calls[c])'
<1>1. PICK x : x = calls[c]
    OBVIOUS
<1>2. x \in Call /\ Good(x)
    BY <1>1 DEF PageInv, TypeOK, CallsCoherent
<1>3. Good(x)'
    BY <1>2, GoodKept
<1>4. QED
    BY <1>1, <1>3

\* A request that is sent is a good call.
LEMMA RequestGood ==
    ASSUME NEW CONSTANT at, NEW CONSTANT goal, NEW CONSTANT what, NEW CONSTANT search,
           search \in SUBSET Records,
           \/ at = "list" /\ goal = "load" /\ what = Nothing
           \/ at = "create" /\ goal = "create" /\ what = Nothing
           \/ at = "move" /\ goal = "move" /\ ShownMove(what)
    PROVE  Request(at, goal, what, search) \in Call /\ Good(Request(at, goal, what, search))
<1> DEFINE x == Request(at, goal, what, search)
<1>1. /\ x.at = at /\ x.goal = goal /\ x.what = what /\ x.answer = "none"
      /\ x.list = Empty
    BY DEF Request
<1>2. what \in Move \cup {Nothing}
    BY DEF ShownMove
<1>3. Empty \in [Records -> Row]
    BY AbsentTyped DEF Empty
<1>4. x \in Call
    BY <1>2, <1>3 DEF Request, Call
<1>5. \A r \in Records : Copy(x.list[r], r)
    BY <1>1, AbsentTyped DEF Empty, Copy
<1>6. CallCoherent(x)
    BY <1>1, <1>5 DEF CallCoherent
<1>7. MoveIsDone(x) /\ FreshIsNewer(x)
    BY <1>1 DEF MoveIsDone, FreshIsNewer
<1>8. QED
    BY <1>4, <1>6, <1>7 DEF Good

\* Whether its page is still shown does not matter to a call.
LEMMA HereAside ==
    ASSUME NEW CONSTANT x \in Call, Good(x)
    PROVE  [x EXCEPT !.here = FALSE] \in Call /\ Good([x EXCEPT !.here = FALSE])
<1> DEFINE y == [x EXCEPT !.here = FALSE]
<1>1. y \in Call
    BY DEF Call
<1>2. /\ y.at = x.at /\ y.goal = x.goal /\ y.what = x.what /\ y.answer = x.answer
      /\ y.list = x.list /\ y.fresh = x.fresh
    BY DEF Call
<1>3. CallCoherent(y)
    BY <1>2 DEF Good, CallCoherent
<1>4. MoveIsDone(y) /\ FreshIsNewer(y)
    BY <1>2 DEF Good, MoveIsDone, FreshIsNewer
<1>5. QED
    BY <1>1, <1>3, <1>4 DEF Good

\* A call that is not fresh any more is good whatever the page shows.
LEMMA FreshAside ==
    ASSUME rows' = rows, NEW CONSTANT x \in Call, Good(x)
    PROVE  [x EXCEPT !.fresh = FALSE] \in Call /\ Good([x EXCEPT !.fresh = FALSE])'
<1>1. PICK y : y = [x EXCEPT !.fresh = FALSE]
    OBVIOUS
<1>2. /\ y \in Call /\ y.fresh = FALSE
      /\ y.at = x.at /\ y.goal = x.goal /\ y.what = x.what /\ y.answer = x.answer
      /\ y.list = x.list
    BY <1>1 DEF Call
<1>3. CallCoherent(y)'
    BY <1>2 DEF Good, CallCoherent, Copy, ShownMove
<1>4. MoveIsDone(y)'
    BY <1>2 DEF Good, MoveIsDone
<1>5. FreshIsNewer(y)'
    BY <1>2 DEF FreshIsNewer
<1>6. Good(y)'
    BY <1>3, <1>4, <1>5 DEF Good
<1>7. QED
    BY <1>1, <1>2, <1>6

-----------------------------------------------------------------------------
(* The steps that start, answer and continue a call. *)

\* A call of its type takes the place of another, and the rest is left alone.
LEMMA OneCall ==
    ASSUME PageInv, RowsGoOn, items' = items, NEW c \in Calls,
           NEW CONSTANT x \in Call \cup {Free},
           calls' = [calls EXCEPT ![c] = x], x # Free => Good(x)'
    PROVE  calls' \in [Calls -> Call \cup {Free}] /\ CallsCoherent'
<1>1. calls \in [Calls -> Call \cup {Free}]
    BY DEF PageInv, TypeOK
<1>2. ASSUME NEW k \in Calls, calls'[k] # Free
      PROVE  Good(calls[k])'
    <2>1. CASE k = c
        <3>1. calls'[k] = x
            BY <1>1, <2>1
        <3>2. QED
            BY <1>2, <3>1
    <2>2. CASE k # c
        <3>1. calls'[k] = calls[k]
            BY <1>1, <2>2
        <3>2. QED
            BY <1>2, <3>1, CallKept
    <2>3. QED
        BY <2>1, <2>2
<1>3. QED
    BY <1>1, <1>2 DEF CallsCoherent

\* A request is sent.
LEMMA StartStep ==
    ASSUME PageInv, rows' = rows, NEW c \in Calls,
           NEW CONSTANT at, NEW CONSTANT goal, NEW CONSTANT what, NEW CONSTANT search,
           Start(c, Request(at, goal, what, search)),
           search \in SUBSET Records,
           \/ at = "list" /\ goal = "load" /\ what = Nothing
           \/ at = "create" /\ goal = "create" /\ what = Nothing
           \/ at = "move" /\ goal = "move" /\ ShownMove(what)
    PROVE  /\ calls' \in [Calls -> Call \cup {Free}] /\ CallsCoherent'
           /\ items' = items /\ loading' \in BOOLEAN
<1>1. PICK x : x = Request(at, goal, what, search)
    OBVIOUS
<1>2. x \in Call /\ Good(x)
    BY <1>1, RequestGood
<1>3. RowsGoOn /\ items' = items
    BY DEF RowsGoOn, Later, PageInv, TypeOK, Start
<1>4. Good(x)'
    BY <1>2, <1>3, GoodKept
<1>5. calls' = [calls EXCEPT ![c] = x]
    BY <1>1 DEF Start
<1>6. QED
    BY <1>2, <1>3, <1>4, <1>5, OneCall DEF Start

\* A call is answered: a move with success only if the row is past it.
LEMMA AnswerStep ==
    ASSUME PageInv, RowsGoOn, items' = items, NEW c \in Calls, NEW CONSTANT answer,
           \/ /\ calls[c].at = "move" /\ Answered(c, "moved", answer)
              /\ answer \in {"ok", "refused", "failed"}
              /\ answer = "ok" =>
                    rows'[calls[c].what.rec].version > calls[c].what.item.version
           \/ /\ calls[c].at = "create" /\ Answered(c, "created", answer)
              /\ answer \in {"ok", "failed"}
           \/ /\ calls[c].at = "list" /\ Answered(c, "listed", answer)
              /\ answer = "failed"
    PROVE  calls' \in [Calls -> Call \cup {Free}] /\ CallsCoherent'
<1>1. PICK at \in {"moved", "created", "listed"} : Answered(c, at, answer) /\
          \/ at = "moved" /\ calls[c].at = "move"
          \/ at = "created" /\ calls[c].at = "create"
          \/ at = "listed" /\ calls[c].at = "list" /\ answer = "failed"
    OBVIOUS
<1>2. PICK x : x = calls[c]
    OBVIOUS
<1>3. calls \in [Calls -> Call \cup {Free}] /\ x # Free
    BY <1>1, <1>2 DEF PageInv, TypeOK, Free
<1>4. x \in Call /\ Good(x)
    BY <1>2, <1>3 DEF PageInv, CallsCoherent
<1>5. PICK y : y = [x EXCEPT !.at = at, !.answer = answer]
    OBVIOUS
<1>6. /\ y \in Call /\ y.at = at /\ y.answer = answer
      /\ y.goal = x.goal /\ y.what = x.what /\ y.list = x.list
    BY <1>1, <1>4, <1>5 DEF Call
<1>7. Good(x)'
    BY <1>4, GoodKept
<1>8. CallCoherent(y)'
    BY <1>1, <1>2, <1>6, <1>7 DEF Good, CallCoherent
<1>9. MoveIsDone(y)'
    <2>1. CASE at = "moved"
        BY <1>1, <1>2, <1>6, <2>1 DEF MoveIsDone, Answered
    <2>2. CASE at = "created"
        BY <1>6, <2>2 DEF MoveIsDone
    <2>3. CASE at = "listed"
        BY <1>1, <1>2, <1>6, <1>7, <2>3 DEF Good, MoveIsDone
    <2>4. QED
        BY <2>1, <2>2, <2>3
<1>10. FreshIsNewer(y)'
    BY <1>1, <1>6 DEF FreshIsNewer
<1>11. calls' = [calls EXCEPT ![c] = y]
    BY <1>1, <1>2, <1>3, <1>5 DEF Answered
<1>12. QED
    BY <1>6, <1>8, <1>9, <1>10, <1>11, OneCall DEF Good

\* The list is made from the rows as they are.
LEMMA ListStep ==
    ASSUME PageInv, NEW c \in Calls, ServeList(c)
    PROVE  calls' \in [Calls -> Call \cup {Free}] /\ CallsCoherent'
<1>1. RowsGoOn /\ items' = items /\ rows' = rows
    BY DEF RowsGoOn, Later, PageInv, TypeOK, ServeList, store
<1>2. CASE Answered(c, "listed", "failed")
    BY <1>1, <1>2, AnswerStep DEF ServeList
<1>3. CASE calls' = [calls EXCEPT ![c].at = "listed", ![c].answer = "ok",
                                  ![c].list = Listing(calls[c].search)]
    <2>1. PICK x : x = calls[c]
        OBVIOUS
    <2>2. calls \in [Calls -> Call \cup {Free}] /\ x # Free /\ x.at = "list"
        BY <2>1 DEF PageInv, TypeOK, Free, ServeList
    <2>3. x \in Call /\ Good(x)
        BY <2>1, <2>2 DEF PageInv, CallsCoherent
    <2>4. PICK list : list = Listing(x.search)
        OBVIOUS
    <2>5. PICK y : y = [x EXCEPT !.at = "listed", !.answer = "ok", !.list = list]
        OBVIOUS
    <2>6. list \in [Records -> Row]
        BY <2>4, AbsentTyped DEF Listing, PageInv, TypeOK
    <2>7. /\ y \in Call /\ y.at = "listed" /\ y.answer = "ok" /\ y.list = list
          /\ y.goal = x.goal /\ y.what = x.what /\ y.fresh = x.fresh
        BY <2>3, <2>5, <2>6 DEF Call
    <2>8. \A r \in Records : Live(list[r]) => list[r] = rows[r]
        BY <2>4, AbsentTyped DEF Listing
    <2>9. \A r \in Records : rows[r].version \in Nat
        BY DEF PageInv, TypeOK, Row
    <2>10. CallCoherent(y)
        <3>1. \A r \in Records : Copy(y.list[r], r)
            BY <2>7, <2>8, <2>9 DEF Copy
        <3>2. QED
            BY <2>2, <2>3, <2>7, <3>1 DEF Good, CallCoherent
    <2>11. MoveIsDone(y)
        <3>1. SUFFICES ASSUME y.goal = "move"
                       PROVE  /\ rows[y.what.rec].version > y.what.item.version
                              /\ y.what.rec \in Records
            BY <2>7, <2>8 DEF MoveIsDone
        <3>2. QED
            BY <2>2, <2>3, <2>7, <3>1 DEF Good, MoveIsDone, CallCoherent, ShownMove, Move
    <2>12. FreshIsNewer(y)
        <3>1. SUFFICES ASSUME NEW r \in Records, Live(items[r]), Live(list[r])
                       PROVE  list[r].version >= items[r].version
            BY <2>7 DEF FreshIsNewer
        <3>2. items[r].version <= rows[r].version /\ items[r].version \in Nat
            BY <3>1 DEF PageInv, PageCoherent, Copy, TypeOK, Row
        <3>3. QED
            BY <2>8, <2>9, <3>1, <3>2
    <2>13. Good(y)'
        BY <1>1, <2>7, <2>10, <2>11, <2>12, GoodKept DEF Good
    <2>14. calls' = [calls EXCEPT ![c] = y]
        BY <1>3, <2>1, <2>2, <2>4, <2>5
    <2>15. QED
        BY <1>1, <2>7, <2>13, <2>14, OneCall
<1>4. QED
    BY <1>2, <1>3 DEF ServeList

\* A list is shown: every other call that asked for one is fresh no longer.
LEMMA ListedStep ==
    ASSUME PageInv, NEW c \in Calls, Listed(c)
    PROVE  /\ calls' \in [Calls -> Call \cup {Free}] /\ CallsCoherent'
           /\ items' \in [Records -> Row] /\ loading' \in BOOLEAN
           /\ \A r \in Records : Copy(items[r], r)'
<1>1. rows' = rows /\ RowsGoOn
    BY DEF RowsGoOn, Later, PageInv, TypeOK, Listed
<1>2. /\ items \in [Records -> Row] /\ calls \in [Calls -> Call \cup {Free}]
      /\ calls[c] # Free
    BY DEF PageInv, TypeOK, Free, Listed
<1>3. CASE Fail /\ calls' = [calls EXCEPT ![c] = Free]
    <2>1. calls' \in [Calls -> Call \cup {Free}] /\ CallsCoherent'
        BY <1>1, <1>3, OneCall DEF Fail
    <2>2. \A r \in Records : Copy(items[r], r)'
        BY <1>1, <1>3 DEF Fail, PageInv, PageCoherent, Copy
    <2>3. QED
        BY <1>2, <1>3, <2>1, <2>2 DEF Fail
<1>4. CASE /\ items' = calls[c].list /\ loading' = FALSE
           /\ calls' = [k \in Calls |-> IF k = c \/ calls[k] = Free THEN Free
                                        ELSE [calls[k] EXCEPT !.fresh = FALSE]]
    <2>1. calls[c] \in Call /\ Good(calls[c])
        BY <1>2 DEF PageInv, CallsCoherent
    <2>2. items' \in [Records -> Row]
        BY <1>4, <2>1 DEF Call
    <2>3. \A r \in Records : Copy(items[r], r)'
        BY <1>1, <1>4, <2>1 DEF Good, CallCoherent, Copy
    <2>4. ASSUME NEW k \in Calls
          PROVE  calls'[k] \in Call \cup {Free} /\ (calls'[k] # Free => Good(calls[k])')
        <3>1. CASE k = c \/ calls[k] = Free
            BY <1>4, <3>1
        <3>2. CASE k # c /\ calls[k] # Free
            <4>1. PICK x : x = calls[k]
                OBVIOUS
            <4>2. x \in Call /\ Good(x)
                BY <1>2, <3>2, <4>1 DEF PageInv, CallsCoherent
            <4>3. calls'[k] = [x EXCEPT !.fresh = FALSE]
                BY <1>4, <3>2, <4>1
            <4>4. QED
                BY <1>1, <4>2, <4>3, FreshAside
        <3>3. QED
            BY <3>1, <3>2
    <2>5. calls' \in [Calls -> Call \cup {Free}] /\ CallsCoherent'
        BY <1>4, <2>4 DEF CallsCoherent
    <2>6. QED
        BY <1>4, <2>2, <2>3, <2>5
<1>5. QED
    BY <1>3, <1>4 DEF Listed

\* A move or a creation goes on to ask for the list, or ends.
LEMMA ContinueStep ==
    ASSUME PageInv, NEW c \in Calls, Continue(c)
    PROVE  /\ calls' \in [Calls -> Call \cup {Free}] /\ CallsCoherent'
           /\ items' = items /\ rows' = rows /\ loading' \in BOOLEAN
<1>1. RowsGoOn /\ items' = items /\ rows' = rows /\ loading' \in BOOLEAN
    BY DEF RowsGoOn, Later, PageInv, TypeOK, Continue, Refresh, Fail
<1>2. CASE calls' = [calls EXCEPT ![c] = Free]
    BY <1>1, <1>2, OneCall
<1>3. CASE calls[c].answer = "ok" /\ Refresh(c)
    <2>1. PICK x : x = calls[c]
        OBVIOUS
    <2>2. calls \in [Calls -> Call \cup {Free}] /\ x # Free /\ x.at \in {"moved", "created"}
        BY <2>1 DEF PageInv, TypeOK, Free, Continue
    <2>3. x \in Call /\ Good(x)
        BY <2>1, <2>2 DEF PageInv, CallsCoherent
    <2>4. PICK y : y = [x EXCEPT !.at = "list", !.answer = "none", !.fresh = TRUE]
        OBVIOUS
    <2>5. /\ y \in Call /\ y.at = "list" /\ y.answer = "none"
          /\ y.goal = x.goal /\ y.what = x.what /\ y.list = x.list
        BY <2>3, <2>4 DEF Call
    <2>6. CallCoherent(y) /\ FreshIsNewer(y)
        BY <2>3, <2>5 DEF Good, CallCoherent, FreshIsNewer
    <2>7. MoveIsDone(y)
        BY <1>3, <2>1, <2>2, <2>3, <2>5 DEF Good, CallCoherent, MoveIsDone
    <2>8. Good(y)'
        BY <1>1, <2>5, <2>6, <2>7, GoodKept DEF Good
    <2>9. calls' = [calls EXCEPT ![c] = y]
        BY <1>3, <2>1, <2>2, <2>4 DEF Refresh
    <2>10. QED
        BY <1>1, <2>5, <2>8, <2>9, OneCall
<1>4. QED
    BY <1>2, <1>3 DEF Continue

\* The page is visited again: the calls it made go on without it.
LEMMA RevisitStep ==
    ASSUME PageInv, NEW c \in Calls, Revisit(c)
    PROVE  calls' \in [Calls -> Call \cup {Free}] /\ CallsCoherent'
<1>1. RowsGoOn /\ items' = items /\ rows' = rows
    BY DEF RowsGoOn, Later, PageInv, TypeOK, Revisit
<1>2. PICK new : new = Request("list", "load", Nothing, Records)
    OBVIOUS
<1>3. new \in Call /\ Good(new)
    BY <1>2, RequestGood
<1>4. Good(new)'
    BY <1>1, <1>3, GoodKept
<1>5. calls \in [Calls -> Call \cup {Free}]
    BY DEF PageInv, TypeOK
<1>6. ASSUME NEW k \in Calls
      PROVE  calls'[k] \in Call \cup {Free} /\ (calls'[k] # Free => Good(calls[k])')
    <2>1. CASE k = c
        BY <1>2, <1>3, <1>4, <2>1 DEF Revisit
    <2>2. CASE k # c /\ calls[k] = Free
        BY <2>2 DEF Revisit
    <2>3. CASE k # c /\ calls[k] # Free
        <3>1. PICK x : x = calls[k]
            OBVIOUS
        <3>2. PICK y : y = [x EXCEPT !.here = FALSE]
            OBVIOUS
        <3>3. x \in Call /\ Good(x)
            BY <1>5, <2>3, <3>1 DEF PageInv, CallsCoherent
        <3>4. y \in Call /\ Good(y)
            BY <3>2, <3>3, HereAside
        <3>5. Good(y)'
            BY <1>1, <3>4, GoodKept
        <3>6. calls'[k] = y
            BY <2>3, <3>1, <3>2 DEF Revisit
        <3>7. QED
            BY <3>4, <3>5, <3>6
    <2>4. QED
        BY <2>1, <2>2, <2>3
<1>7. calls' = [k \in Calls |-> calls'[k]]
    BY DEF Revisit
<1>8. QED
    BY <1>6, <1>7 DEF CallsCoherent

-----------------------------------------------------------------------------
(* The invariant. *)

\* The page is opened with nothing on it (EntityPage, createEntityStore).
LEMMA PageInit == Init => PageInv
<1> SUFFICES ASSUME Init PROVE PageInv
    OBVIOUS
<1>1. rows \in [Records -> Row] /\ Empty \in [Records -> Row]
    BY FirstRowsTyped, AbsentTyped DEF Init, Empty
<1>2. TypeOK
    BY <1>1 DEF Init, TypeOK
<1>3. PageCoherent
    BY AbsentTyped DEF Init, PageCoherent, Copy, Empty
<1>4. CallsCoherent
    BY DEF Init, CallsCoherent
<1>5. QED
    BY <1>2, <1>3, <1>4 DEF PageInv

\* A step that leaves calls and list alone and keeps the dialog or closes it.
LEMMA DialogStep ==
    ASSUME PageInv, RowsGoOn, items' = items, pending' = pending \/ pending' = Nothing
    PROVE  PageCoherent'
<1>1. CASE pending' = pending
    BY <1>1, PageKept
<1>2. CASE pending' = Nothing
    <2>1. rows \in [Records -> Row] /\ items \in [Records -> Row]
        BY DEF PageInv, TypeOK
    <2>2. ASSUME NEW r \in Records
          PROVE  Copy(items[r], r)'
        BY <2>1, CopyKept DEF PageInv, PageCoherent, Copy
    <2>3. QED
        BY <1>2, <2>2 DEF PageCoherent
<1>3. QED
    BY <1>1, <1>2

\* The server and the other clients leave the page alone.
LEMMA ServerStep ==
    ASSUME PageInv, RowsGoOn, UNCHANGED <<store, page>>,
           calls' \in [Calls -> Call \cup {Free}], CallsCoherent'
    PROVE  PageInv'
<1>1. TypeOK'
    BY DEF PageInv, TypeOK, RowsGoOn, store, page
<1>2. PageCoherent'
    BY DialogStep DEF store, page
<1>3. QED
    BY <1>1, <1>2 DEF PageInv

\* The calls are left alone while the rows go on.
LEMMA CallsKept ==
    ASSUME PageInv, RowsGoOn, items' = items, calls' = calls
    PROVE  calls' \in [Calls -> Call \cup {Free}] /\ CallsCoherent'
BY CallKept DEF PageInv, TypeOK, CallsCoherent

CallsGoOn ==
    calls' \in [Calls -> Call \cup {Free}] /\ CallsCoherent' /\ loading' \in BOOLEAN

\* The dialog is kept, confirmed further, or closed.
PageGoesOn ==
    /\ creating' \in BOOLEAN
    /\ reviewed' = reviewed \/ reviewed' = pending \/ reviewed' = Nothing
    /\ \/ pending' = pending /\ drawer' = drawer
       \/ pending' = pending /\ pending # Nothing /\ drawer' \in {"open", "checked"}
       \/ (pending' = pending \/ pending' = Nothing) /\ drawer' = "closed"

\* What the user does, but for the button of a row.
LEMMA UserStep ==
    ASSUME PageInv, rows' = rows, items' = items, CallsGoOn, PageGoesOn
    PROVE  PageInv'
<1>1. RowsGoOn
    BY DEF RowsGoOn, Later, PageInv, TypeOK
<1>2. TypeOK'
    BY DEF PageInv, TypeOK, CallsGoOn, PageGoesOn
<1>3. PageCoherent'
    BY <1>1, DialogStep DEF PageGoesOn
<1>4. QED
    BY <1>2, <1>3 DEF PageInv, CallsGoOn

\* Every step keeps the invariant.
LEMMA PageStep == PageInv /\ [Next]_vars => PageInv'
<1> SUFFICES ASSUME PageInv, [Next]_vars PROVE PageInv'
    OBVIOUS
<1>1. RowsGoOn
    BY StepsGoOn
<1>2. loading \in BOOLEAN /\ creating \in BOOLEAN /\ items \in [Records -> Row]
    BY DEF PageInv, TypeOK
<1>3. ASSUME NEW c \in Calls, NEW search \in Searches, Load(c, search)
      PROVE  PageInv'
    <2>1. rows' = rows /\ search \in SUBSET Records
        BY <1>3, WorkbenchAssumption DEF Load
    <2>2. Start(c, Request("list", "load", Nothing, search))
        BY <1>3 DEF Load
    <2>3. calls' \in [Calls -> Call \cup {Free}] /\ CallsCoherent' /\ items' = items
          /\ loading' \in BOOLEAN
        BY <2>1, <2>2, StartStep
    <2>4. PageGoesOn
        BY <1>2, <1>3 DEF Load, page, PageGoesOn
    <2>5. QED
        BY <2>1, <2>3, <2>4, UserStep DEF CallsGoOn
<1>4. ASSUME NEW c \in Calls, Revisit(c)
      PROVE  PageInv'
    <2>1. PageGoesOn
        BY <1>4 DEF Revisit, CloseDrawer, PageGoesOn
    <2>2. rows' = rows /\ items' = items /\ CallsGoOn
        BY <1>4, RevisitStep DEF Revisit, CallsGoOn
    <2>3. QED
        BY <2>1, <2>2, UserStep
<1>5. ASSUME NEW c \in Calls, Send(c), pending # Nothing, rows' = rows
      PROVE  CallsGoOn /\ items' = items
    <2>1. PICK m : m = pending
        OBVIOUS
    <2>2. ShownMove(m)
        BY <1>5, <2>1 DEF PageInv, PageCoherent
    <2>3. Start(c, Request("move", "move", m, Records))
        BY <1>5, <2>1 DEF Send
    <2>4. QED
        BY <1>5, <2>2, <2>3, StartStep DEF CallsGoOn
<1>6. ASSUME NEW c \in Calls, Confirm(c)
      PROVE  PageInv'
    <2>1. rows' = rows /\ pending # Nothing /\ pending' = pending /\ creating' = creating
        BY <1>6 DEF Confirm
    <2>2. CASE Send(c) /\ UNCHANGED <<drawer, reviewed>>
        <3>1. PageGoesOn
            BY <1>2, <2>1, <2>2 DEF PageGoesOn
        <3>2. QED
            BY <1>5, <2>1, <2>2, <3>1, UserStep
    <2>3. CASE drawer' = "open" /\ reviewed' = pending /\ UNCHANGED <<store, calls>>
        <3>1. CallsGoOn /\ items' = items
            BY <1>1, <1>2, <2>3, CallsKept DEF store, CallsGoOn
        <3>2. PageGoesOn
            BY <1>2, <2>1, <2>3 DEF PageGoesOn
        <3>3. QED
            BY <2>1, <3>1, <3>2, UserStep
    <2>4. QED
        BY <1>6, <2>2, <2>3 DEF Confirm
<1>7. ASSUME NEW c \in Calls, Execute(c)
      PROVE  PageInv'
    <2>1. rows' = rows /\ pending # Nothing /\ Send(c)
        BY <1>7 DEF Execute
    <2>2. PageGoesOn
        BY <1>2, <1>7 DEF Execute, page, PageGoesOn
    <2>3. QED
        BY <1>5, <2>1, <2>2, UserStep
<1>8. ASSUME NEW c \in Calls, CreateDemo(c)
      PROVE  PageInv'
    <2>1. rows' = rows /\ Start(c, Request("create", "create", Nothing, Records))
        BY <1>8 DEF CreateDemo
    <2>2. calls' \in [Calls -> Call \cup {Free}] /\ CallsCoherent' /\ items' = items
          /\ loading' \in BOOLEAN
        BY <2>1, StartStep
    <2>3. PageGoesOn
        BY <1>2, <1>8 DEF CreateDemo, page, PageGoesOn
    <2>4. QED
        BY <2>1, <2>2, <2>3, UserStep DEF CallsGoOn
<1>9. ASSUME NEW c \in Calls, ServeMove(c)
      PROVE  PageInv'
    <2>1. UNCHANGED <<store, page>>
        BY <1>9 DEF ServeMove
    <2>2. PICK answer : /\ calls[c].at = "move" /\ Answered(c, "moved", answer)
                        /\ answer \in {"ok", "refused", "failed"}
                        /\ answer = "ok" => Accepts(rows[calls[c].what.rec], calls[c].what)
                              /\ rows' = [rows EXCEPT ![calls[c].what.rec].status = calls[c].what.target,
                                             ![calls[c].what.rec].version = calls[c].what.item.version + 1]
        BY <1>9 DEF ServeMove, MayFail
    <2>3. calls[c] # Free
        BY <2>2 DEF Free
    <2>4. ShownMove(calls[c].what)
        BY <2>2, <2>3 DEF PageInv, CallsCoherent, Good, CallCoherent
    <2>5. calls[c].what.rec \in Records /\ calls[c].what.item.version \in Nat
        BY <2>4 DEF ShownMove, Move, Row
    <2>6. answer = "ok" => rows'[calls[c].what.rec].version > calls[c].what.item.version
        BY <2>2, <2>5 DEF PageInv, TypeOK, Row
    <2>7. calls' \in [Calls -> Call \cup {Free}] /\ CallsCoherent'
        BY <1>1, <2>1, <2>2, <2>6, AnswerStep DEF store
    <2>8. QED
        BY <1>1, <2>1, <2>7, ServerStep
<1>10. ASSUME NEW c \in Calls, ServeCreate(c)
       PROVE  PageInv'
    <2>1. UNCHANGED <<store, page>> /\ calls[c].at = "create"
        BY <1>10 DEF ServeCreate
    <2>2. PICK answer : answer \in {"ok", "failed"} /\ Answered(c, "created", answer)
        BY <1>10 DEF ServeCreate, MayFail
    <2>3. calls' \in [Calls -> Call \cup {Free}] /\ CallsCoherent'
        BY <1>1, <2>1, <2>2, AnswerStep DEF store
    <2>4. QED
        BY <1>1, <2>1, <2>3, ServerStep
<1>11. ASSUME NEW c \in Calls, ServeList(c)
       PROVE  PageInv'
    BY <1>1, <1>11, ListStep, ServerStep DEF ServeList
<1>12. ASSUME NEW r \in Records, OthersWrite(r)
       PROVE  PageInv'
    <2>1. UNCHANGED <<store, page>> /\ calls' = calls /\ items' = items
        BY <1>12 DEF OthersWrite, store
    <2>2. QED
        BY <1>1, <2>1, CallsKept, ServerStep
<1>13. ASSUME NEW c \in Calls, Listed(c)
       PROVE  PageInv'
    <2>1. rows' = rows /\ creating' \in BOOLEAN
        BY <1>2, <1>13 DEF Listed, CloseDialogs
    <2>2. \/ pending' = Nothing /\ drawer' = "closed" /\ reviewed' = Nothing
          \/ UNCHANGED <<pending, drawer, reviewed>>
        BY <1>13 DEF Listed, CloseDialogs, CloseDrawer
    <2>3. /\ calls' \in [Calls -> Call \cup {Free}] /\ CallsCoherent'
          /\ items' \in [Records -> Row] /\ loading' \in BOOLEAN
          /\ \A r \in Records : Copy(items[r], r)'
        BY <1>13, ListedStep
    <2>4. TypeOK'
        BY <2>1, <2>2, <2>3 DEF PageInv, TypeOK
    <2>5. pending' # Nothing => ShownMove(pending)'
        BY <2>1, <2>2 DEF PageInv, PageCoherent, ShownMove, Copy
    <2>6. QED
        BY <2>3, <2>4, <2>5 DEF PageInv, PageCoherent
<1>14. ASSUME NEW c \in Calls, Continue(c)
       PROVE  PageInv'
    <2>1. PageGoesOn
        BY <1>2, <1>14 DEF Continue, Refresh, page, CloseDrawer, PageGoesOn
    <2>2. rows' = rows /\ items' = items /\ CallsGoOn
        BY <1>14, ContinueStep DEF CallsGoOn
    <2>3. QED
        BY <2>1, <2>2, UserStep
<1>15. ASSUME NEW r \in Records, Open(r)
       PROVE  PageInv'
    <2>1. PICK next \in AllStatuses :
              /\ Follows(items[r].status, next)
              /\ pending' = [rec |-> r, item |-> items[r], target |-> next]
              /\ drawer' \in {drawer, "open"}
              /\ drawer' # drawer => drawer # "closed"
        BY <1>15 DEF Open
    <2>2. PICK m : m = [rec |-> r, item |-> items[r], target |-> next]
        OBVIOUS
    <2>3. m \in Move /\ m # Nothing
        BY <1>2, <2>2, NullsApart DEF Move
    <2>4. UNCHANGED <<rows, store, creating, calls, reviewed>> /\ items' = items
        BY <1>15 DEF Open, store
    <2>5. TypeOK'
        BY <2>1, <2>2, <2>3, <2>4 DEF PageInv, TypeOK, store
    <2>6. ShownMove(m)
        BY <1>15, <2>1, <2>2, <2>3 DEF ShownMove, Open, PageInv, PageCoherent
    <2>7. PageCoherent'
        BY <2>1, <2>2, <2>4, <2>6 DEF PageInv, PageCoherent, ShownMove, Copy
    <2>8. QED
        BY <1>1, <2>4, <2>5, <2>7, CallsKept DEF PageInv
<1>16. ASSUME Cancel \/ Check \/ Back \/ (\E show \in BOOLEAN : ShowCreate(show))
       PROVE  PageInv'
    <2>1. UNCHANGED <<rows, items, loading, calls>> /\ creating' \in BOOLEAN
        BY <1>2, <1>16 DEF Cancel, Check, Back, ShowCreate, store
    <2>2. calls' \in [Calls -> Call \cup {Free}] /\ CallsCoherent'
        BY <1>1, <2>1, CallsKept
    <2>3. PageGoesOn
        BY <1>2, <1>16 DEF Cancel, Check, Back, ShowCreate, CloseDrawer, store, PageGoesOn
    <2>4. QED
        BY <1>2, <2>1, <2>2, <2>3, UserStep DEF CallsGoOn
<1>17. ASSUME UNCHANGED vars
       PROVE  PageInv'
    <2>1. PageGoesOn /\ rows' = rows /\ items' = items
        BY <1>2, <1>17 DEF vars, PageGoesOn
    <2>2. CallsGoOn
        BY <1>1, <1>2, <1>17, CallsKept DEF vars, CallsGoOn
    <2>3. QED
        BY <2>1, <2>2, UserStep
<1>18. QED
    BY <1>3, <1>4, <1>6, <1>7, <1>8, <1>9, <1>10, <1>11, <1>12, <1>13, <1>14, <1>15, <1>16, <1>17
    DEF Next, Serve
-----------------------------------------------------------------------------
(* What a step may do to one call. *)

\* A call that is under way is left alone but for its marks, or goes on.
LEMMA CallFollows ==
    ASSUME PageInv, [Next]_vars, NEW c \in Calls, calls[c] # Free
    PROVE  \/ calls'[c] = calls[c]
           \/ calls'[c] = [calls[c] EXCEPT !.here = FALSE]
           \/ calls'[c] = [calls[c] EXCEPT !.fresh = FALSE]
           \/ Serve(c) \/ Listed(c) \/ Continue(c)
<1>1. calls \in [Calls -> Call \cup {Free}]
    BY DEF PageInv, TypeOK
<1>2. ASSUME NEW k \in Calls, NEW x, Start(k, x)
      PROVE  calls'[c] = calls[c]
    BY <1>1, <1>2 DEF Start
<1>3. ASSUME NEW k \in Calls,
             (\E search \in Searches : Load(k, search)) \/ Confirm(k) \/ Execute(k) \/ CreateDemo(k)
      PROVE  calls'[c] = calls[c]
    BY <1>2, <1>3 DEF Load, Confirm, Execute, CreateDemo, Send
<1>4. ASSUME NEW k \in Calls, Revisit(k)
      PROVE  calls'[c] = [calls[c] EXCEPT !.here = FALSE]
    BY <1>4 DEF Revisit
<1>5. ASSUME NEW k \in Calls, k # c, Serve(k) \/ Continue(k)
      PROVE  calls'[c] = calls[c]
    BY <1>1, <1>5 DEF Serve, ServeMove, ServeCreate, ServeList, Continue, Refresh, Answered
<1>6. ASSUME NEW k \in Calls, k # c, Listed(k)
      PROVE  calls'[c] = calls[c] \/ calls'[c] = [calls[c] EXCEPT !.fresh = FALSE]
    BY <1>1, <1>6 DEF Listed
<1>7. ASSUME NEW r \in Records, Open(r) \/ OthersWrite(r)
      PROVE  calls'[c] = calls[c]
    BY <1>7 DEF Open, OthersWrite
<1>8. ASSUME Cancel \/ Check \/ Back \/ (\E show \in BOOLEAN : ShowCreate(show))
      PROVE  calls'[c] = calls[c]
    BY <1>8 DEF Cancel, Check, Back, ShowCreate
<1>9. ASSUME UNCHANGED vars
      PROVE  calls'[c] = calls[c]
    BY <1>9 DEF vars
<1>10. QED
    BY <1>3, <1>4, <1>5, <1>6, <1>7, <1>8, <1>9 DEF Next

\* A move that was sent waits to be served.
LEMMA MoveIsServed ==
    ASSUME PageInv, [Next]_vars, NEW c \in Calls, calls[c].at = "move"
    PROVE  ServeMove(c) \/ (calls'[c].at = "move" /\ calls'[c].answer = "none")
<1>1. calls[c] # Free
    BY DEF Free
<1>2. calls[c] \in Call /\ calls[c].answer = "none"
    BY <1>1 DEF PageInv, TypeOK, CallsCoherent, Good, CallCoherent
<1>3. ~ServeCreate(c) /\ ~ServeList(c) /\ ~Listed(c) /\ ~Continue(c)
    BY DEF ServeCreate, ServeList, Listed, Continue
<1>4. ASSUME \/ calls'[c] = calls[c]
             \/ calls'[c] = [calls[c] EXCEPT !.here = FALSE]
             \/ calls'[c] = [calls[c] EXCEPT !.fresh = FALSE]
      PROVE  calls'[c].at = "move" /\ calls'[c].answer = "none"
    BY <1>2, <1>4 DEF Call
<1>5. \/ calls'[c] = calls[c]
      \/ calls'[c] = [calls[c] EXCEPT !.here = FALSE]
      \/ calls'[c] = [calls[c] EXCEPT !.fresh = FALSE]
      \/ Serve(c) \/ Listed(c) \/ Continue(c)
    BY <1>1, CallFollows
<1>6. QED
    BY <1>3, <1>4, <1>5 DEF Serve

\* A list that was answered is shown by its own call.
LEMMA ListIsApplied ==
    ASSUME PageInv, [Next]_vars, NEW c \in Calls, Applied(c)
    PROVE  items' = calls[c].list /\ rows' = rows /\ calls[c] # Free /\ Good(calls[c])
<1>1. calls[c] # Free
    BY DEF Applied, Free
<1>2. calls[c] \in Call /\ Good(calls[c])
    BY <1>1 DEF PageInv, TypeOK, CallsCoherent
<1>3. [calls[c] EXCEPT !.here = FALSE] # Free /\ [calls[c] EXCEPT !.fresh = FALSE] # Free
    <2>1. [calls[c] EXCEPT !.here = FALSE] \in Call /\ [calls[c] EXCEPT !.fresh = FALSE] \in Call
        BY <1>2 DEF Call
    <2>2. QED
        BY <2>1, NullsApart
<1>4. ~Serve(c) /\ ~Continue(c)
    BY DEF Serve, ServeMove, ServeCreate, ServeList, Continue, Applied
<1>5. Listed(c)
    BY <1>1, <1>3, <1>4, CallFollows DEF Applied
<1>6. QED
    BY <1>1, <1>2, <1>5 DEF Listed, Applied

-----------------------------------------------------------------------------
(* Theorems. *)

\* The invariant holds throughout (EntityPage, factory).
LEMMA PageCorrect == Spec => []PageInv
BY PageInit, PageStep, PTL DEF Spec

\* What page and store hold keeps its type, and a drawer is only open over the
\* dialog it confirms (EntityPage).
THEOREM PageTyped == Spec => []TypeOK
<1>1. PageInv => TypeOK
    BY DEF PageInv
<1>2. QED
    BY <1>1, PageCorrect, PTL

\* However old the list is and however often a move is confirmed or repeated,
\* it only takes effect on the record as its dialog showed it (EntityPage
\* finalizeTransition, factory transition).
THEOREM MovesAreAsShown == Spec => MoveAsShown
<1>1. ASSUME PageInv, [Next]_vars, NEW c \in Calls,
             calls[c].at = "move", calls'[c].at = "moved", rows' # rows
      PROVE  LET move == calls[c].what
             IN /\ rows[move.rec] = move.item
                /\ rows'[move.rec].status = move.target
    <2>1. ServeMove(c)
        BY <1>1, MoveIsServed
    <2>2. /\ calls[c].what.rec \in Records
          /\ rows[calls[c].what.rec] = calls[c].what.item
          /\ rows' = [rows EXCEPT ![calls[c].what.rec].status = calls[c].what.target,
                                  ![calls[c].what.rec].version = calls[c].what.item.version + 1]
        BY <1>1, <2>1, ServedMove
    <2>3. QED
        BY <1>1, <2>2 DEF PageInv, TypeOK, Row
<1>2. PageInv /\ [Next]_vars =>
         [\A c \in Calls :
             calls[c].at = "move" /\ calls'[c].at = "moved" /\ rows' # rows =>
                LET move == calls[c].what
                IN /\ rows[move.rec] = move.item
                   /\ rows'[move.rec].status = move.target]_vars
    BY <1>1
<1>3. QED
    BY <1>2, PageCorrect, PTL DEF Spec, MoveAsShown

\* A move is only refused if the record is no longer what the dialog showed
\* (types/status.ts, constants/status.go).
THEOREM RefusalsAreStale == Spec => RefusedOnlyIfStale
<1>1. ASSUME PageInv, [Next]_vars, NEW c \in Calls,
             calls[c].at = "move", calls'[c].answer = "refused"
      PROVE  rows[calls[c].what.rec] # calls[c].what.item
    <2> DEFINE move == calls[c].what
    <2>1. ServeMove(c) /\ calls[c] # Free
        BY <1>1, MoveIsServed DEF Free
    <2>2. calls[c] \in Call /\ ShownMove(move)
        BY <1>1, <2>1 DEF PageInv, TypeOK, CallsCoherent, Good, CallCoherent
    <2>3. SUFFICES ASSUME rows[move.rec] = move.item
                   PROVE  Accepts(rows[move.rec], move)
        <3>1. ASSUME NEW answer \in MayFail("ok"), Answered(c, "moved", answer)
              PROVE  calls'[c].answer # "refused"
            BY <1>1, <2>2, <3>1 DEF MayFail, Answered, PageInv, TypeOK, Call
        <3>2. ASSUME Answered(c, "moved", "failed")
              PROVE  calls'[c].answer # "refused"
            BY <1>1, <2>2, <3>2 DEF Answered, PageInv, TypeOK, Call
        <3>3. ~Accepts(rows[move.rec], move)
            BY <1>1, <2>1, <3>1, <3>2 DEF ServeMove
        <3>4. QED
            BY <3>3
    <2>4. CanTransition(Transitions[Page], move.item.status, move.target)
        BY <2>2, ListedAreEdges DEF ShownMove
    <2>5. QED
        BY <2>2, <2>3, <2>4 DEF Accepts, ShownMove, Confirmed
<1>2. PageInv /\ [Next]_vars =>
         [\A c \in Calls :
             calls[c].at = "move" /\ calls'[c].answer = "refused" =>
                rows[calls[c].what.rec] # calls[c].what.item]_vars
    BY <1>1
<1>3. QED
    BY <1>2, PageCorrect, PTL DEF Spec, RefusedOnlyIfStale

\* The list made after a move shows the move or a later write (transition).
THEOREM MovesAreListed == Spec => MoveIsListed
<1>1. ASSUME PageInv, [Next]_vars, NEW c \in Calls, Applied(c), calls[c].goal = "move"
      PROVE  LET move == calls[c].what
             IN Live(items'[move.rec]) => items'[move.rec].version > move.item.version
    BY <1>1, ListIsApplied DEF Good, MoveIsDone, Applied
<1>2. PageInv /\ [Next]_vars =>
         [\A c \in Calls :
             Applied(c) /\ calls[c].goal = "move" =>
                LET move == calls[c].what
                IN Live(items'[move.rec]) =>
                      items'[move.rec].version > move.item.version]_vars
    BY <1>1
<1>3. QED
    BY <1>2, PageCorrect, PTL DEF Spec, MoveIsListed

\* Only overlapping loads take the list back in time (load).
THEOREM BackNeedsOverlap == Spec => BackOnlyByOverlap
<1>1. ASSUME PageInv, [Next]_vars, NEW c \in Calls, Applied(c), calls[c].fresh
      PROVE  \A r \in Records :
                Live(items[r]) /\ Live(items'[r]) => items'[r].version >= items[r].version
    BY <1>1, ListIsApplied DEF Good, FreshIsNewer, Applied
<1>2. PageInv /\ [Next]_vars =>
         [\A c \in Calls :
             Applied(c) /\ calls[c].fresh =>
                \A r \in Records :
                   Live(items[r]) /\ Live(items'[r]) =>
                      items'[r].version >= items[r].version]_vars
    BY <1>1
<1>3. QED
    BY <1>2, PageCorrect, PTL DEF Spec, BackOnlyByOverlap
\* When no call is under way the page is not marked as busy (factory, loading).
THEOREM IdlePagesAreQuiet == Spec => []IdleIsNotBusy
<1>1. Init => IdleIsNotBusy
    BY DEF Init, IdleIsNotBusy
<1>2. ASSUME PageInv, IdleIsNotBusy, [Next]_vars
      PROVE  IdleIsNotBusy'
    <2>1. SUFFICES ASSUME \A k \in Calls : calls'[k] = Free
                   PROVE  loading' = FALSE
        BY DEF IdleIsNotBusy
    <2>2. calls \in [Calls -> Call \cup {Free}] /\ loading \in BOOLEAN
        BY <1>2 DEF PageInv, TypeOK
    <2>3. \A at, goal, what, search : Request(at, goal, what, search) # Free
        BY DEF Request, Free
    <2>4. CASE \E k \in Calls : calls[k] # Free
        <3>1. PICK k \in Calls : calls[k] # Free
            BY <2>4
        <3>2. calls[k] \in Call
            BY <2>2, <3>1
        <3>3. [calls[k] EXCEPT !.here = FALSE] \in Call /\ [calls[k] EXCEPT !.fresh = FALSE] \in Call
            BY <3>2 DEF Call
        <3>4. Serve(k) \/ Listed(k) \/ Continue(k)
            BY <1>2, <2>1, <3>1, <3>2, <3>3, NullsApart, CallFollows
        <3>5. ~Serve(k) /\ (Continue(k) => ~Refresh(k))
            <4>1. ASSUME NEW x \in Call, calls' = [calls EXCEPT ![k] = x]
                  PROVE  FALSE
                BY <2>1, <2>2, <4>1, NullsApart
            <4>2. ASSUME NEW at, NEW answer, Answered(k, at, answer)
                  PROVE  FALSE
                <5>1. calls'[k].at = at /\ calls'[k] = [calls[k] EXCEPT !.at = at, !.answer = answer]
                    BY <2>2, <3>2, <4>2 DEF Answered, Call
                <5>2. DOMAIN calls'[k] = DOMAIN calls[k]
                    BY <5>1
                <5>3. "goal" \in DOMAIN calls[k] /\ "goal" \notin DOMAIN Free
                    BY <3>2 DEF Call, Free
                <5>4. QED
                    BY <2>1, <5>2, <5>3
            <4>3. ASSUME NEW y, calls' = [calls EXCEPT ![k] = y], DOMAIN y = DOMAIN calls[k]
                  PROVE  FALSE
                <5>1. "goal" \in DOMAIN calls[k] /\ "goal" \notin DOMAIN Free
                    BY <3>2 DEF Call, Free
                <5>2. QED
                    BY <2>1, <2>2, <4>3, <5>1
            <4>4. ~ServeList(k)
                BY <4>2, <4>3 DEF ServeList
            <4>5. ~Refresh(k)
                BY <4>3 DEF Refresh
            <4>6. ~ServeMove(k) /\ ~ServeCreate(k)
                BY <4>2 DEF ServeMove, ServeCreate
            <4>7. QED
                BY <4>4, <4>5, <4>6 DEF Serve
        <3>6. QED
            BY <3>4, <3>5 DEF Listed, Continue, Fail
    <2>5. CASE \A k \in Calls : calls[k] = Free
        <3>1. loading = FALSE
            BY <1>2, <2>2, <2>5 DEF IdleIsNotBusy
        <3>2. ASSUME NEW k \in Calls
              PROVE  ~Serve(k) /\ ~Listed(k) /\ ~Continue(k)
            BY <2>5, <3>2 DEF Serve, ServeMove, ServeCreate, ServeList, Listed, Continue, Free
        <3>3. ASSUME NEW k \in Calls, NEW at, NEW goal, NEW what, NEW search,
                     Start(k, Request(at, goal, what, search))
              PROVE  FALSE
            BY <2>1, <2>2, <2>3, <3>3 DEF Start
        <3>4. ASSUME NEW k \in Calls,
                     (\E search \in Searches : Load(k, search)) \/ Execute(k) \/ CreateDemo(k)
              PROVE  FALSE
            BY <3>3, <3>4 DEF Load, Execute, CreateDemo, Send
        <3>5. ASSUME NEW k \in Calls, Revisit(k)
              PROVE  FALSE
            BY <2>1, <2>3, <3>5 DEF Revisit
        <3>6. ASSUME NEW k \in Calls, Confirm(k)
              PROVE  loading' = loading
            BY <3>3, <3>6 DEF Confirm, Send, store
        <3>7. ASSUME NEW r \in Records, Open(r) \/ OthersWrite(r)
              PROVE  loading' = loading
            BY <3>7 DEF Open, OthersWrite, store
        <3>8. ASSUME Cancel \/ Check \/ Back \/ (\E show \in BOOLEAN : ShowCreate(show))
              PROVE  loading' = loading
            BY <3>8 DEF Cancel, Check, Back, ShowCreate, store
        <3>9. ASSUME UNCHANGED vars
              PROVE  loading' = loading
            BY <3>9 DEF vars
        <3>10. QED
            BY <1>2, <3>1, <3>2, <3>4, <3>5, <3>6, <3>7, <3>8, <3>9 DEF Next
    <2>6. QED
        BY <2>4, <2>5
<1>3. PageInv /\ IdleIsNotBusy /\ [Next]_vars => IdleIsNotBusy'
    BY <1>2
<1>4. QED
    BY <1>1, <1>3, PageCorrect, PTL DEF Spec

\* The rows change by the writes of VersionedRecords alone: the page needs no
\* more of the server than what IncidentRecords implements.
THEOREM ServerIsVersioned == Spec => ServerRows
<1>1. Init => Tables!Init
    BY SameWords DEF Init, Tables!Init
<1>2. ASSUME PageInv, [Next]_vars
      PROVE  [Tables!Next]_rows
    <2>1. ASSUME NEW c \in Calls, ServeMove(c)
          PROVE  [Tables!Next]_rows
        BY <1>2, <2>1, ServedMove DEF Tables!Next
    <2>2. ASSUME NEW c \in Calls, ServeCreate(c)
          PROVE  [Tables!Next]_rows
        BY <2>2 DEF ServeCreate, Tables!Next
    <2>3. ASSUME NEW r \in Records, OthersWrite(r)
          PROVE  [Tables!Next]_rows
        BY <2>3 DEF OthersWrite, Tables!Next
    <2>4. ASSUME NEW c \in Calls,
                 (\E search \in Searches : Load(c, search)) \/ Revisit(c) \/ Confirm(c)
                 \/ Execute(c) \/ CreateDemo(c) \/ ServeList(c) \/ Listed(c) \/ Continue(c)
          PROVE  UNCHANGED rows
        BY <2>4 DEF Load, Revisit, Confirm, Execute, CreateDemo, ServeList, Listed, Continue
    <2>5. ASSUME NEW r \in Records, Open(r)
          PROVE  UNCHANGED rows
        BY <2>5 DEF Open
    <2>6. ASSUME Cancel \/ Check \/ Back \/ (\E show \in BOOLEAN : ShowCreate(show))
          PROVE  UNCHANGED rows
        BY <2>6 DEF Cancel, Check, Back, ShowCreate
    <2>7. ASSUME UNCHANGED vars
          PROVE  UNCHANGED rows
        BY <2>7 DEF vars
    <2>8. QED
        BY <1>2, <2>1, <2>2, <2>3, <2>4, <2>5, <2>6, <2>7 DEF Next, Serve
<1>3. PageInv /\ [Next]_vars => [Tables!Next]_rows
    BY <1>2
<1>4. QED
    BY <1>1, <1>3, PageCorrect, PTL DEF Spec, ServerRows, Tables!Spec
\* What the drawer asks about is what the first dialog asked about (EntityPage).
DrawerReviewed == drawer # "closed" => reviewed = pending

\* With what a dialog covers out of reach, nothing takes the place of the move
\* in an open drawer (EntityPage, ActionDrawer).
LEMMA DrawerStep ==
    ASSUME Keyboard = FALSE, PageInv, DrawerReviewed, [Next]_vars
    PROVE  DrawerReviewed'
<1>1. drawer # "closed" => pending # Nothing
    BY DEF PageInv, TypeOK
<1>2. ASSUME NEW c \in Calls,
             (\E search \in Searches : Load(c, search)) \/ Revisit(c) \/ Execute(c)
             \/ CreateDemo(c) \/ Serve(c) \/ Listed(c) \/ Continue(c)
      PROVE  UNCHANGED <<pending, drawer, reviewed>> \/ drawer' = "closed"
    BY <1>2 DEF Load, Revisit, Execute, CreateDemo, Serve, ServeMove, ServeCreate, ServeList,
                Listed, CloseDialogs, Continue, Refresh, CloseDrawer, page
<1>3. ASSUME NEW c \in Calls, Confirm(c)
      PROVE  \/ UNCHANGED <<pending, drawer, reviewed>>
             \/ reviewed' = pending /\ pending' = pending
    BY <1>3 DEF Confirm
<1>4. ASSUME NEW r \in Records, Open(r)
      PROVE  drawer' = "closed"
    BY <1>1, <1>4 DEF Open, Reachable
<1>5. ASSUME NEW r \in Records, OthersWrite(r)
      PROVE  UNCHANGED <<pending, drawer, reviewed>>
    BY <1>5 DEF OthersWrite, page
<1>6. ASSUME Cancel \/ Back
      PROVE  drawer' = "closed"
    BY <1>6 DEF Cancel, Back, CloseDrawer
<1>7. ASSUME Check
      PROVE  UNCHANGED <<pending, reviewed>> /\ drawer # "closed"
    BY <1>7 DEF Check
<1>8. ASSUME NEW show \in BOOLEAN, ShowCreate(show)
      PROVE  UNCHANGED <<pending, drawer, reviewed>>
    BY <1>8 DEF ShowCreate
<1>9. ASSUME UNCHANGED vars
      PROVE  UNCHANGED <<pending, drawer, reviewed>>
    BY <1>9 DEF vars
<1>10. QED
    BY <1>2, <1>3, <1>4, <1>5, <1>6, <1>7, <1>8, <1>9 DEF Next, DrawerReviewed

\* On the pages with a drawer, a move is only sent as the first dialog showed it
\* and both dialogs confirmed it, for a user who points at what he sees
\* (EntityPage, ActionDrawer; README on remote actions).
THEOREM RemoteMovesAreReviewed ==
    ASSUME Keyboard = FALSE
    PROVE  Spec => ReviewedFirst
<1>1. ASSUME PageInv, DrawerReviewed, [Next]_vars, NEW c \in Calls,
             Remote, calls[c] = Free, calls'[c] # Free, calls'[c].at = "move"
      PROVE  calls'[c].what = reviewed
    <2>1. calls \in [Calls -> Call \cup {Free}]
        BY <1>1 DEF PageInv, TypeOK
    <2>2. ASSUME NEW k \in Calls, NEW x, Start(k, x)
          PROVE  k = c /\ calls'[c] = x
        BY <1>1, <2>1, <2>2 DEF Start
    <2>3. ASSUME NEW k \in Calls, Execute(k)
          PROVE  calls'[c].what = reviewed
        BY <1>1, <2>2, <2>3 DEF Execute, Send, Request, DrawerReviewed
    <2>4. ASSUME NEW k \in Calls, (\E search \in Searches : Load(k, search)) \/ CreateDemo(k)
          PROVE  calls'[c].at # "move"
        <3>1. Request("create", "create", Nothing, Records).at = "create"
              /\ \A search : Request("list", "load", Nothing, search).at = "list"
            BY DEF Request
        <3>2. QED
            BY <2>2, <2>4, <3>1 DEF Load, CreateDemo
    <2>5. ASSUME NEW k \in Calls, Revisit(k)
          PROVE  calls'[c].at # "move"
        BY <1>1, <2>5 DEF Revisit, Request
    <2>6. ASSUME NEW k \in Calls, Confirm(k)
          PROVE  calls'[c] = calls[c]
        BY <1>1, <2>6 DEF Confirm
    <2>7. ASSUME NEW k \in Calls, Serve(k) \/ Listed(k) \/ Continue(k)
          PROVE  calls'[c] = Free
        <3>1. k # c
            BY <1>1, <2>7 DEF Serve, ServeMove, ServeCreate, ServeList, Listed, Continue, Free
        <3>2. QED
            BY <1>1, <2>1, <2>7, <3>1
            DEF Serve, ServeMove, ServeCreate, ServeList, Listed, Continue, Refresh, Answered
    <2>8. ASSUME NEW r \in Records, Open(r) \/ OthersWrite(r)
          PROVE  calls'[c] = calls[c]
        BY <2>8 DEF Open, OthersWrite
    <2>9. ASSUME Cancel \/ Check \/ Back \/ (\E show \in BOOLEAN : ShowCreate(show))
          PROVE  calls'[c] = calls[c]
        BY <2>9 DEF Cancel, Check, Back, ShowCreate
    <2>10. ASSUME UNCHANGED vars
           PROVE  calls'[c] = calls[c]
        BY <2>10 DEF vars
    <2>11. QED
        BY <1>1, <2>3, <2>4, <2>5, <2>6, <2>7, <2>8, <2>9, <2>10 DEF Next
<1>2. PageInv /\ DrawerReviewed /\ [Next]_vars =>
         [\A c \in Calls :
             Remote /\ calls[c] = Free /\ calls'[c] # Free /\ calls'[c].at = "move" =>
                calls'[c].what = reviewed]_vars
    BY <1>1
<1>3. Init => DrawerReviewed
    BY DEF Init, DrawerReviewed
<1>4. PageInv /\ DrawerReviewed /\ [Next]_vars => DrawerReviewed'
    BY DrawerStep
<1>5. QED
    BY <1>2, <1>3, <1>4, PageCorrect, PTL DEF Spec, ReviewedFirst
=============================================================================
