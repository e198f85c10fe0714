--------------------------- MODULE IncidentRecords ---------------------------
(***************************************************************************)
(* The write paths of the four record services (backend/internal/service)  *)
(* over their repositories (backend/internal/repository) and the audit     *)
(* table.  A request is a handler goroutine: it works on a snapshot of one *)
(* row, and each of its SQL statements is an action of its own, so that    *)
(* handlers interleave between the read, the conditional write, the audit  *)
(* insert and the final read.                                              *)
(*                                                                         *)
(* History variable: ledger, the writes that really took effect, with the  *)
(* status the row really had.  The code keeps no such record; the audit    *)
(* table is judged against it.                                             *)
(***************************************************************************)
EXTENDS RecordRows, Sequences

CONSTANTS
    Requests,    \* the handler goroutines that may run at the same time
    RawCodes,    \* codes as a client may write them
    Canonical,   \* a raw code trimmed and in upper case, NoCode if blank
    Targets,     \* the statuses clients ask for; NoStatus is any unknown one
    Lookahead,   \* how far beyond the stored version a client may guess: a
                 \* client that only sends versions it was shown has 0
    Faults,      \* may statements fail, lose their acknowledgement, or the
                 \* process die?
    MaxVersion   \* bound: no client asks for a write past this version

ASSUME RequestsAssumption ==
    /\ Canonical \in [RawCodes -> Codes \cup {NoCode}]
    /\ Targets \subseteq AllStatuses \cup {NoStatus}
    /\ Lookahead \in Nat
    /\ Faults \in BOOLEAN
    /\ MaxVersion \in Nat

VARIABLES
    rows,      \* the business tables
    audits,    \* the audit table, in the order of its ids
    ledger,    \* history: the writes that took effect
    pc,        \* per request: the statement to run next, or the last answer
    input,     \* per request: the parsed body and path
    current    \* per request: the row its handler read

vars == <<rows, audits, ledger, pc, input, current>>

Answers == {"none", "rejected", "created", "ok", "no_content", "not_found",
            "version_conflict", "business_rule", "internal_error"}
Statements == {"get", "insert", "store", "remove", "audit", "reread"}
Operations == {"create", "update", "transition", "delete"}
\* The operations that carry expectedVersion.
Conditional == {"update", "transition"}

NoInput == [op |-> "none", rec |-> "none", expected |-> 0, fields |-> NoField,
            target |-> NoStatus, code |-> NoCode]
Input == [op       : Operations,
          rec      : Records,
          expected : Nat,
          fields   : Fields \cup {NoField},
          target   : AllStatuses \cup {NoStatus},
          code     : Codes \cup {NoCode}]

Removed == "deleted"
\* A write as the audit table or the ledger records it.  The version is a
\* history field: the audit table has no such column.
Entry == [by      : Requests,
          rec     : Records,
          action  : Operations,
          before  : AllStatuses \cup {NoStatus},
          after   : AllStatuses \cup {Removed},
          version : Nat]

Init ==
    /\ rows \in InitialTables
    /\ audits = <<>>
    /\ ledger = {}
    /\ pc = [q \in Requests |-> "none"]
    /\ input = [q \in Requests |-> NoInput]
    /\ current = [q \in Requests |-> AbsentRow]

Idle(q) == pc[q] \in Answers

-----------------------------------------------------------------------------
(* How a handler goes on. *)

Continue(q, statement) ==
    /\ pc' = [pc EXCEPT ![q] = statement]
    /\ UNCHANGED <<input, current>>

\* The handler returns: its locals are gone and only the reply is left.
Answer(q, reply) ==
    /\ pc' = [pc EXCEPT ![q] = reply]
    /\ input' = [input EXCEPT ![q] = NoInput]
    /\ current' = [current EXCEPT ![q] = AbsentRow]

Accept(q, statement, in) ==
    /\ pc' = [pc EXCEPT ![q] = statement]
    /\ input' = [input EXCEPT ![q] = in]
    /\ UNCHANGED current

-----------------------------------------------------------------------------
(* A request arrives.  What the services check before their first statement *)
(* is checked here.                                                         *)

\* The versions a client can put into expectedVersion: the binding refuses 0.
ExpectedVersions(r) ==
    {v \in 1..(rows[r].version + Lookahead) : v < MaxVersion}

\* The keys the pending inserts will be given.
Reserved == {input[q].rec : q \in {p \in Requests : pc[p] = "insert"}}

CreateArrives(q, r, raw, f) ==
    /\ Idle(q)
    /\ rows[r] = AbsentRow
    /\ r \notin Reserved
    /\ \/ /\ Canonical[raw] = NoCode \/ f = NoField
          /\ Answer(q, "business_rule")
       \/ /\ Canonical[raw] # NoCode /\ f # NoField
          /\ Accept(q, "insert",
                [NoInput EXCEPT !.op = "create", !.rec = r, !.fields = f,
                                !.code = Canonical[raw]])
    /\ UNCHANGED <<rows, audits, ledger>>

UpdateArrives(q, r, v, f) ==
    /\ Idle(q)
    /\ v \in ExpectedVersions(r)
    /\ Accept(q, "get", [NoInput EXCEPT !.op = "update", !.rec = r,
                                        !.expected = v, !.fields = f])
    /\ UNCHANGED <<rows, audits, ledger>>

\* Moving a mitigation action needs the second confirmation; the three other
\* services ignore the flag.
ConfirmationMissing(r, confirmed) ==
    TypeOf[r] = "MitigationAction" /\ ~confirmed

TransitionArrives(q, r, v, s, confirmed) ==
    /\ Idle(q)
    /\ v \in ExpectedVersions(r)
    /\ \/ /\ ConfirmationMissing(r, confirmed)
          /\ Answer(q, "business_rule")
       \/ /\ ~ConfirmationMissing(r, confirmed)
          /\ Accept(q, "get", [NoInput EXCEPT !.op = "transition", !.rec = r,
                                              !.expected = v, !.target = s])
    /\ UNCHANGED <<rows, audits, ledger>>

DeleteArrives(q, r) ==
    /\ Idle(q)
    /\ Accept(q, "get", [NoInput EXCEPT !.op = "delete", !.rec = r])
    /\ UNCHANGED <<rows, audits, ledger>>

-----------------------------------------------------------------------------
(* The statements of an accepted request. *)

\* An entry of request q about its own record.
EntryOf(q, before, after, version) ==
    [by |-> q, rec |-> input[q].rec, action |-> input[q].op,
     before |-> before, after |-> after, version |-> version]

\* The statement failed and changed nothing, or changed what it had to and
\* its acknowledgement was lost: either way the handler sees an error.
Breaks(q) == Faults /\ Answer(q, "internal_error")

\* repository.Create: a fresh key, and the unique index of codes must agree.
Insert(q) ==
    /\ pc[q] = "insert"
    /\ LET r == input[q].rec
           item == NewRow(InitialStatus[TypeOf[r]], input[q].fields, input[q].code)
           free == CodeFree(rows, TypeOf[r], input[q].code)
       IN \/ /\ free
             /\ rows' = [rows EXCEPT ![r] = item]
             /\ ledger' = ledger \cup {EntryOf(q, NoStatus, item.status, 1)}
             /\ \/ /\ pc' = [pc EXCEPT ![q] = "audit"]
                   /\ current' = [current EXCEPT ![q] = item]
                   /\ UNCHANGED input
                \/ Breaks(q)
          \/ /\ ~free
             /\ Answer(q, "internal_error")
             /\ UNCHANGED <<rows, ledger>>
          \/ Breaks(q) /\ UNCHANGED <<rows, ledger>>
    /\ UNCHANGED audits

\* What the service checks on the row it read, and where it goes from there.
Allowed(in, row) ==
    /\ in.op = "update" => in.fields # NoField
    /\ in.op = "transition" =>
          CanTransition(Transitions[TypeOf[in.rec]], row.status, in.target)

\* repository.Get, with the checks the service makes on its result.
Get(q) ==
    /\ pc[q] = "get"
    /\ LET in == input[q]
           row == rows[in.rec]
       IN \/ ~Live(row) /\ Answer(q, "not_found")
          \/ Live(row) /\ ~Allowed(in, row) /\ Answer(q, "business_rule")
          \/ /\ Live(row) /\ Allowed(in, row)
             /\ pc' = [pc EXCEPT ![q] = IF in.op = "delete" THEN "remove" ELSE "store"]
             /\ current' = [current EXCEPT ![q] = row]
             /\ UNCHANGED input
          \/ Breaks(q)
    /\ UNCHANGED <<rows, audits, ledger>>

\* Variants: the version, the deletion mark or the right version is not asked
\* for.
MatchesAnyVersion(row, expected) == Live(row)
MatchesRemoved(row, expected) == row.version = expected
MatchesNextVersion(row, expected) == Live(row) /\ row.version = expected + 1

\* The condition of the UPDATE statement.
Matches(row, expected) == Live(row) /\ row.version = expected

\* Variant: the version is written back as it was expected.
WrittenUnversioned(q) ==
    IF input[q].op = "update"
    THEN [current[q] EXCEPT !.fields = input[q].fields]
    ELSE [current[q] EXCEPT !.status = input[q].target]

\* The row the service builds on its snapshot: the fields or the status of the
\* request, and the version after the one the client expected.
Written(q) ==
    IF input[q].op = "update"
    THEN [current[q] EXCEPT !.fields = input[q].fields, !.version = input[q].expected + 1]
    ELSE [current[q] EXCEPT !.status = input[q].target, !.version = input[q].expected + 1]

\* repository.Update writes every column of that row but the code and the
\* deletion mark.
Store(q) ==
    /\ pc[q] = "store"
    /\ LET r == input[q].rec
           row == rows[r]
           item == Written(q)
       IN \/ /\ Matches(row, input[q].expected)
             /\ rows' = [rows EXCEPT ![r] = [item EXCEPT !.code = row.code, !.phase = row.phase]]
             /\ ledger' = ledger \cup {EntryOf(q, row.status, item.status, item.version)}
             /\ Continue(q, "audit") \/ Breaks(q)
          \/ /\ ~Matches(row, input[q].expected)
             /\ Answer(q, "version_conflict")
             /\ UNCHANGED <<rows, ledger>>
          \/ Breaks(q) /\ UNCHANGED <<rows, ledger>>
    /\ UNCHANGED audits

\* repository.Delete: no version is compared.
Remove(q) ==
    /\ pc[q] = "remove"
    /\ LET r == input[q].rec
           row == rows[r]
       IN \/ /\ Live(row)
             /\ rows' = [rows EXCEPT ![r].phase = "deleted"]
             /\ ledger' = ledger \cup {EntryOf(q, row.status, Removed, row.version)}
             /\ Continue(q, "audit") \/ Breaks(q)
          \/ ~Live(row) /\ Answer(q, "not_found") /\ UNCHANGED <<rows, ledger>>
          \/ Breaks(q) /\ UNCHANGED <<rows, ledger>>
    /\ UNCHANGED audits

\* Variant: the status before the write is read after it was assigned.
AuditEntryAfterwards(q) ==
    EntryOf(q, input[q].target, input[q].target, input[q].expected + 1)

\* The row of the audit table that describes the write just made.
AuditEntry(q) ==
    LET op == input[q].op
    IN EntryOf(q,
               IF op = "create" THEN NoStatus ELSE current[q].status,
               IF op = "transition" THEN input[q].target
               ELSE IF op = "delete" THEN Removed ELSE current[q].status,
               IF op \in Conditional THEN input[q].expected + 1 ELSE current[q].version)

\* Variant: every service drops the error.
AuditAlwaysOptional(op) == op \in Operations

\* Create and Update drop the error of the audit call, Transition and Delete
\* return it.
AuditIsOptional(op) == op \in {"create", "update"}

Proceed(q) ==
    \/ input[q].op = "create" /\ Answer(q, "created")
    \/ input[q].op = "delete" /\ Answer(q, "no_content")
    \/ input[q].op \in Conditional /\ Continue(q, "reread")

\* Variant: a failed audit insert is tried again.
AuditRetries(q) == Faults /\ Continue(q, "audit")

AuditFails(q) ==
    /\ Faults
    /\ IF AuditIsOptional(input[q].op) THEN Proceed(q) ELSE Answer(q, "internal_error")

\* Variant: the handler goes on without waiting for the audit row.
AuditSkipped(q) == pc[q] = "audit" /\ Proceed(q) /\ UNCHANGED <<rows, audits, ledger>>

\* security.Audit: append one row.
Audit(q) ==
    /\ pc[q] = "audit"
    /\ \/ audits' = Append(audits, AuditEntry(q)) /\ (Proceed(q) \/ AuditFails(q))
       \/ audits' = audits /\ AuditFails(q)
    /\ UNCHANGED <<rows, ledger>>

\* The Get whose result a successful update or transition answers with.
Reread(q) ==
    /\ pc[q] = "reread"
    /\ \/ Live(rows[input[q].rec]) /\ Answer(q, "ok")
       \/ ~Live(rows[input[q].rec]) /\ Answer(q, "not_found")
       \/ Breaks(q)
    /\ UNCHANGED <<rows, audits, ledger>>

\* The process dies or is restarted: every handler is gone, the tables stay.
Crash ==
    /\ Faults
    /\ \E q \in Requests : ~Idle(q)
    /\ pc' = [q \in Requests |-> "none"]
    /\ input' = [q \in Requests |-> NoInput]
    /\ current' = [q \in Requests |-> AbsentRow]
    /\ UNCHANGED <<rows, audits, ledger>>

-----------------------------------------------------------------------------
(* The routes of one table: every request a client may send to it. *)

Table(t) == {r \in Records : TypeOf[r] = t}

Arrives(q, t) ==
    \E r \in Table(t) :
        \/ \E raw \in RawCodes, f \in Fields \cup {NoField} : CreateArrives(q, r, raw, f)
        \/ \E v \in 1..MaxVersion, f \in Fields \cup {NoField} : UpdateArrives(q, r, v, f)
        \/ \E v \in 1..MaxVersion, s \in Targets, c \in BOOLEAN :
              TransitionArrives(q, r, v, s, c)
        \/ DeleteArrives(q, r)

\* The four services, one per table.
SolarSiteRequest(q) == Arrives(q, "SolarSite")
InverterUnitRequest(q) == Arrives(q, "InverterUnit")
FaultEventRequest(q) == Arrives(q, "FaultEvent")
MitigationActionRequest(q) == Arrives(q, "MitigationAction")

\* A path or a body that cannot be read, or a removal by someone who is no
\* admin: the handler answers itself.
Rejects(q) ==
    /\ Idle(q)
    /\ Answer(q, "rejected")
    /\ UNCHANGED <<rows, audits, ledger>>

\* The handlers in front of the services.
SolarSiteHandler(q) == Rejects(q) \/ SolarSiteRequest(q)
InverterUnitHandler(q) == Rejects(q) \/ InverterUnitRequest(q)
FaultEventHandler(q) == Rejects(q) \/ FaultEventRequest(q)
MitigationActionHandler(q) == Rejects(q) \/ MitigationActionRequest(q)

Next ==
    \/ \E q \in Requests :
          \/ SolarSiteHandler(q)
          \/ InverterUnitHandler(q)
          \/ FaultEventHandler(q)
          \/ MitigationActionHandler(q)
          \/ Insert(q)
          \/ Get(q)
          \/ Store(q)
          \/ Remove(q)
          \/ Audit(q)
          \/ Reread(q)
    \/ Crash

Spec == Init /\ [][Next]_vars

-----------------------------------------------------------------------------
(* Type invariant. *)

\* A row that exists has a status of its own table, fields and a code.
UsableRow(r, row) ==
    /\ row \in Row
    /\ row.phase \in {"live", "deleted"}
    /\ row.status \in StatusesOf(TypeOf[r])
    /\ row.version > 0
    /\ row.fields \in Fields
    /\ row.code \in Codes

\* Every variable has its type, and no write ever leaves a row whose status is
\* not one of its table's, whose fields are blank or that has no code
\* (repository/base.go, model/base.go).
TypeOK ==
    /\ rows \in [Records -> Row]
    /\ \A r \in Records : rows[r] = AbsentRow \/ UsableRow(r, rows[r])
    /\ audits \in Seq(Entry)
    /\ ledger \subseteq Entry
    /\ pc \in [Requests -> Answers \cup Statements]
    /\ input \in [Requests -> Input \cup {NoInput}]
    /\ current \in [Requests -> Row]

(* Safety. *)

\* The heart of the optimistic lock: while a handler is between its read and
\* its UPDATE, the version its client expects is not beyond the version it
\* read, and as long as the row still carries the version it read, the row is
\* still exactly what it read.  So an UPDATE that matches the expected version
\* writes back no stale column, although the service never compares the
\* version it read with the one it was sent (service Update and Transition).
SnapshotCoherent ==
    \A q \in Requests : pc[q] = "store" =>
        LET row == rows[input[q].rec]
        IN /\ input[q].expected <= current[q].version
           /\ current[q].version <= row.version
           /\ Live(row) /\ row.version = current[q].version => row = current[q]

\* Of all requests that expect the same version of a record at most one ever
\* takes effect: no two committed updates or transitions produced the same
\* version (repository Store.Update).
OneWinnerPerVersion ==
    \A e, f \in ledger :
        /\ e.action \in Conditional /\ f.action \in Conditional
        /\ e.rec = f.rec /\ e.version = f.version
        => e = f

\* Whatever interleaves or fails, a row of the audit table about a creation,
\* an update or a transition describes a write that took effect, with the
\* status the record really had before and after it (service Audit calls).
AuditTruthful ==
    \A i \in 1..Len(audits) : audits[i].action # "delete" => audits[i] \in ledger

\* The same for removals: the status the audit table gives as the one before
\* the removal is the one the record had when it was removed.  Delete takes
\* it from a row it read one statement earlier.
RemovalAuditTruthful ==
    \A i \in 1..Len(audits) : audits[i].action = "delete" =>
        \E e \in ledger : /\ e.action = "delete" /\ e.rec = audits[i].rec
                         /\ e.before = audits[i].before /\ e.after = audits[i].after

\* No write is audited twice, not even by a client that retries after a lost
\* answer.
AuditOnce ==
    \A i, j \in 1..Len(audits) : audits[i] = audits[j] => i = j

\* An audit row and a ledger entry are about the same write.
SameWrite(a, e) ==
    IF e.action = "delete" THEN a.action = "delete" /\ a.rec = e.rec ELSE a = e

\* The write e has its audit row, or its handler is about to insert it.
Accounted(e) ==
    \/ \E i \in 1..Len(audits) : SameWrite(audits[i], e)
    \/ \E q \in Requests : pc[q] = "audit" /\ SameWrite(AuditEntry(q), e)

\* Two rows of one table never carry the same code, not even when one of them
\* was removed long before the other was created (model BaseModel.Code).
CodesUnique ==
    \A r, s \in Records :
        /\ r # s /\ TypeOf[r] = TypeOf[s]
        /\ rows[r] # AbsentRow /\ rows[s] # AbsentRow
        => rows[r].code # rows[s].code

\* Every write that changed a status has its row in the audit table, unless
\* its handler is still about to insert it.
EveryChangeAudited ==
    \A e \in ledger : e.action \in {"transition", "delete"} => Accounted(e)

\* The same for moves alone, the changes of status README.md:35 promises to
\* write to the audit log (service Transition).
EveryMoveAudited == \A e \in ledger : e.action = "transition" => Accounted(e)

(* Action properties. *)

\* A success answer is never given for a write that did not happen: when a
\* handler answers, its write is in the ledger, the record carries a version
\* at least as new, and a transition or a removal is in the audit table too.
SuccessIsDurable ==
    [][\A q \in Requests :
        pc[q] \in Statements /\ pc'[q] \in {"created", "ok", "no_content"} =>
            LET op == input[q].op
                r == input[q].rec
            IN /\ \E e \in ledger : /\ e.by = q /\ e.rec = r /\ e.action = op
                                    /\ op \in Conditional => e.version = input[q].expected + 1
               /\ op \in Conditional => rows'[r].version > input[q].expected
               /\ op \in {"transition", "delete"} =>
                    \E i \in 1..Len(audits') :
                        /\ audits'[i].by = q /\ audits'[i].rec = r
                        /\ audits'[i].action = op
                        /\ op = "transition" => audits'[i].version = input[q].expected + 1]_vars

\* A 409 is never spurious: some other write took the version the client
\* expected, or removed the record, before the answer is given (handler
\* handleError: "record changed; refresh and retry").
ConflictJustified ==
    [][\A q \in Requests :
        pc[q] \in Statements /\ pc'[q] = "version_conflict" =>
            \E e \in ledger :
                /\ e.rec = input[q].rec
                /\ \/ e.action = "delete"
                   \/ e.action \in Conditional /\ e.version = input[q].expected + 1]_vars

\* A status only ever changes along an edge of its table's graph.
StatusFollowsGraph ==
    [][\A r \in Records :
        /\ Live(rows[r]) /\ Live(rows'[r])
        /\ rows'[r].status # rows[r].status
        => CanTransition(Transitions[TypeOf[r]], rows[r].status, rows'[r].status)]_vars

(* Refinement: what VersionedRecords promises of the tables. *)

VR == INSTANCE VersionedRecords WITH rows <- rows

\* Seen through the tables alone, the handlers perform the atomic writes of
\* VersionedRecords and nothing else.
AtomicRecords == VR!Spec
=============================================================================
