----------------------- MODULE RecordAtomicityProofs -----------------------
(***************************************************************************)
(* Why the conditional UPDATE is enough: theorems about IncidentRecords.   *)
(* Statements may fail and the process may die at any point.               *)
(*                                                                         *)
(* CoreInv strengthens the properties until they are inductive.  Its heart *)
(* is CoherentAt: a row that kept the version of a snapshot is the         *)
(* snapshot, and an expected version that its client was shown is not      *)
(* beyond the snapshot's.  An UPDATE that matches therefore writes on what *)
(* it read.  The other parts tie the ledger to the rows (one entry for     *)
(* every version after the first), the audit table to both, and the        *)
(* handlers between two statements to all of them.                         *)
(*                                                                         *)
(* CoreInv holds whatever versions clients send.  The parts that need      *)
(* clients to send versions they were shown say so: Lookahead = 0.         *)
(***************************************************************************)
EXTENDS IncidentRecordsProofs

\* Versions and snapshot of a handler that will issue an UPDATE.
CoherentAt(q) ==
    LET in == input[q]
        row == rows[in.rec]
    IN /\ pc[q] \in {"get", "store"} /\ in.op \in Conditional =>
              /\ in.expected > 0
              /\ Lookahead = 0 => in.expected <= row.version
       /\ pc[q] = "store" =>
              /\ Lookahead = 0 => in.expected <= current[q].version
              /\ current[q].version <= row.version
              /\ Live(row) /\ row.version = current[q].version => row = current[q]

\* A pending insert holds a key of its own, and the key is unused.
KeysReserved ==
    /\ \A q \in Requests : pc[q] = "insert" => rows[input[q].rec] = AbsentRow
    /\ \A p, q \in Requests :
          pc[p] = "insert" /\ pc[q] = "insert" /\ input[p].rec = input[q].rec => p = q

\* The ledger is about existing rows, and is complete: it has the writes that
\* produced every version after the first and every removal.
LedgerMatchesRows ==
    /\ \A e \in ledger :
          /\ rows[e.rec] # AbsentRow
          /\ e.action \in Conditional => e.version <= rows[e.rec].version
    /\ \A r \in Records, v \in Nat :
          v > 1 /\ v <= rows[r].version =>
              \E e \in ledger : e.rec = r /\ e.action \in Conditional /\ e.version = v
    /\ \A r \in Records :
          rows[r].phase = "deleted" =>
              \E e \in ledger : e.rec = r /\ e.action = "delete"

\* The audit table is about existing rows: it is ahead of no version and has no
\* removal of a row that still exists.
AuditsMatchRows ==
    \A i \in 1..Len(audits) :
        LET row == rows[audits[i].rec]
        IN /\ row # AbsentRow
           /\ audits[i].action \in Conditional => audits[i].version <= row.version
           /\ audits[i].action = "delete" => row.phase = "deleted"

\* The write of request q took effect.
Committed(q) ==
    /\ \E e \in ledger :
          /\ e.by = q /\ e.rec = input[q].rec /\ e.action = input[q].op
          /\ input[q].op \in Conditional => e.version = input[q].expected + 1
    /\ input[q].op \in Conditional => rows[input[q].rec].version > input[q].expected

\* A handler past its write: the write took effect, its audit row is not there
\* yet, and tells the truth; a handler about to read again after a transition
\* has left its audit row.
PastWriteAt(q) ==
    /\ pc[q] \in {"audit", "reread"} => Committed(q)
    /\ pc[q] = "audit" =>
          /\ Lookahead = 0 /\ input[q].op # "delete" => AuditEntry(q) \in ledger
          /\ input[q].op = "delete" => rows[input[q].rec].phase = "deleted"
          /\ \A i \in 1..Len(audits) : audits[i] # AuditEntry(q)
    /\ pc[q] = "reread" /\ input[q].op = "transition" =>
          \E i \in 1..Len(audits) :
              /\ audits[i].by = q /\ audits[i].rec = input[q].rec
              /\ audits[i].action = "transition"
              /\ audits[i].version = input[q].expected + 1

HandlersCoherent == \A q \in Requests : CoherentAt(q) /\ PastWriteAt(q)

LogsMatch ==
    /\ LedgerMatchesRows
    /\ OneWinnerPerVersion
    /\ AuditsMatchRows
    /\ Lookahead = 0 => AuditTruthful
    /\ AuditOnce

CoreInv == TypeInv /\ HandlersCoherent /\ KeysReserved /\ LogsMatch

-----------------------------------------------------------------------------
(* What a step of one handler means for the others. *)

\* A row only ever grows: its version rises, or it is removed as it is.
RowGrows(old, new) ==
    \/ new = old
    \/ /\ old.phase # "deleted"
       /\ new.phase # "absent"
       /\ \/ new.version > old.version
          \/ new.version = old.version /\ new.phase = "deleted"

TablesGrow == \A r \in Records : RowGrows(rows[r], rows'[r])

\* Only the handler of q moves.
OnlyMoves(q) ==
    \A p \in Requests \ {q} : pc'[p] = pc[p] /\ input'[p] = input[p] /\ current'[p] = current[p]

\* The audit table stays, or gets a row by q.
AuditsGrowBy(q) ==
    \/ audits' = audits
    \/ \E e \in Entry : e.by = q /\ audits' = Append(audits, e)

\* A step of one handler leaves the others where they are.
LEMMA OnlyOneMoves ==
    ASSUME HandlersTyped, NEW q \in Requests, NEW s, NEW in, NEW row,
           pc' = [pc EXCEPT ![q] = s],
           input' = [input EXCEPT ![q] = in] \/ input' = input,
           current' = [current EXCEPT ![q] = row] \/ current' = current
    PROVE  OnlyMoves(q)
BY DEF HandlersTyped, OnlyMoves

\* An audit row, once written, stays where it is.
LEMMA AuditsKept ==
    ASSUME LogsTyped, NEW q, AuditsGrowBy(q)
    PROVE  \A i \in 1..Len(audits) : i \in 1..Len(audits') /\ audits'[i] = audits[i]
BY DEF LogsTyped, AuditsGrowBy

\* A committed write to a row does not disturb the snapshots of the handlers that
\* read it before: either the version moved on, or the row is theirs no more.
LEMMA OthersStayCoherent ==
    ASSUME TypeInv, HandlersCoherent, NEW q \in Requests, NEW p \in Requests \ {q},
           OnlyMoves(q), TablesGrow, TablesOK', ledger \subseteq ledger', AuditsGrowBy(q)
    PROVE  CoherentAt(p)' /\ PastWriteAt(p)'
<1> DEFINE in == input[p]
           row == rows[in.rec]
<1>1. pc'[p] = pc[p] /\ input'[p] = in /\ current'[p] = current[p]
    BY DEF OnlyMoves
<1>2. CoherentAt(p) /\ PastWriteAt(p)
    BY DEF HandlersCoherent
<1>3. SUFFICES ASSUME pc[p] \in Statements
               PROVE  CoherentAt(p)' /\ PastWriteAt(p)'
    BY <1>1 DEF CoherentAt, PastWriteAt, Statements
<1>4. Ready(pc[p], in, current[p]) /\ in \in Input /\ in.rec \in Records /\ in.expected \in Nat
    BY <1>3 DEF TypeInv, HandlersReady, Ready, Input
<1>5. RowGrows(row, rows'[in.rec]) /\ row \in Row /\ rows'[in.rec] \in Row /\ current[p] \in Row
    BY <1>4 DEF TablesGrow, TypeInv, TablesOK, HandlersTyped
<1>6. row.version \in Nat /\ rows'[in.rec].version \in Nat /\ current[p].version \in Nat
    BY <1>5 DEF Row
<1>7. row.version <= rows'[in.rec].version
    BY <1>5, <1>6 DEF RowGrows
<1>8. CoherentAt(p)'
    <2>1. ASSUME pc[p] \in {"get", "store"}, in.op \in Conditional
          PROVE  in.expected > 0 /\ (Lookahead = 0 => in.expected <= rows'[in.rec].version)
        BY <1>2, <1>4, <1>6, <1>7, <2>1 DEF CoherentAt
    <2>2. ASSUME pc[p] = "store"
          PROVE  /\ Lookahead = 0 => in.expected <= current[p].version
                 /\ current[p].version <= rows'[in.rec].version
                 /\ Live(rows'[in.rec]) /\ rows'[in.rec].version = current[p].version
                       => rows'[in.rec] = current[p]
        <3>1. /\ Lookahead = 0 => in.expected <= current[p].version
              /\ current[p].version <= row.version
            BY <1>2, <2>2 DEF CoherentAt
        <3>2. current[p].version <= rows'[in.rec].version
            BY <1>6, <1>7, <3>1
        <3>3. ASSUME Live(rows'[in.rec]), rows'[in.rec].version = current[p].version
              PROVE  rows'[in.rec] = current[p]
            <4>1. row.version = rows'[in.rec].version
                BY <1>6, <1>7, <3>1, <3>3
            <4>2. rows'[in.rec] = row
                BY <1>5, <1>6, <3>3, <4>1 DEF RowGrows, Live
            <4>3. QED
                BY <1>2, <2>2, <3>3, <4>2 DEF CoherentAt
        <3>4. QED
            BY <3>1, <3>2, <3>3
    <2>3. QED
        BY <1>1, <2>1, <2>2 DEF CoherentAt
<1>9. PastWriteAt(p)'
    <2>1. ASSUME pc[p] \in {"audit", "reread"}
          PROVE  Committed(p)'
        <3>1. Committed(p)
            BY <1>2, <2>1 DEF PastWriteAt
        <3>2. in.op \in Conditional => rows'[in.rec].version > in.expected
            BY <1>4, <1>6, <1>7, <3>1 DEF Committed
        <3>3. QED
            BY <1>1, <3>1, <3>2 DEF Committed
    <2>2. AuditEntry(p)' = AuditEntry(p) /\ AuditEntry(p).by = p
        BY <1>1 DEF AuditEntry, EntryOf
    <2>3. ASSUME pc[p] = "audit"
          PROVE  /\ Lookahead = 0 /\ in.op # "delete" => AuditEntry(p) \in ledger'
                 /\ in.op = "delete" => rows'[in.rec].phase = "deleted"
                 /\ \A i \in 1..Len(audits') : audits'[i] # AuditEntry(p)
        <3>1. Lookahead = 0 /\ in.op # "delete" => AuditEntry(p) \in ledger'
            BY <1>2, <2>3 DEF PastWriteAt
        <3>2. in.op = "delete" => rows'[in.rec].phase = "deleted"
            BY <1>2, <1>5, <2>3 DEF PastWriteAt, RowGrows
        <3>3. \A i \in 1..Len(audits) : audits[i] # AuditEntry(p)
            BY <1>2, <2>3 DEF PastWriteAt
        <3>4. ASSUME NEW i \in 1..Len(audits')
              PROVE  audits'[i] # AuditEntry(p)
            <4>1. CASE audits' = audits
                BY <3>3, <4>1
            <4>2. CASE \E e \in Entry : e.by = q /\ audits' = Append(audits, e)
                <5>1. PICK e \in Entry : e.by = q /\ audits' = Append(audits, e)
                    BY <4>2
                <5>2. (i \in 1..Len(audits) /\ audits'[i] = audits[i]) \/ audits'[i] = e
                    BY <5>1 DEF TypeInv, LogsTyped
                <5>3. QED
                    BY <2>2, <3>3, <5>1, <5>2
            <4>3. QED
                BY <4>1, <4>2 DEF AuditsGrowBy
        <3>5. QED
            BY <3>1, <3>2, <3>4
    <2>4. ASSUME pc[p] = "reread", in.op = "transition"
          PROVE  \E i \in 1..Len(audits') :
                    /\ audits'[i].by = p /\ audits'[i].rec = in.rec
                    /\ audits'[i].action = "transition"
                    /\ audits'[i].version = in.expected + 1
        BY <1>2, <2>4, AuditsKept DEF PastWriteAt, TypeInv
    <2>5. QED
        BY <1>1, <2>1, <2>2, <2>3, <2>4 DEF PastWriteAt
<1>10. QED
    BY <1>8, <1>9

-----------------------------------------------------------------------------
(* Steps that write no row. *)

\* Answering moves the answering handler only.
LEMMA AnswerMovesOne ==
    ASSUME HandlersTyped, NEW q \in Requests, NEW reply, Answer(q, reply)
    PROVE  OnlyMoves(q) /\ pc'[q] = reply
BY OnlyOneMoves DEF Answer, HandlersTyped

\* Going on to a statement moves one handler only.
LEMMA ContinueMovesOne ==
    ASSUME HandlersTyped, NEW q \in Requests, NEW statement, Continue(q, statement)
    PROVE  /\ OnlyMoves(q)
           /\ pc'[q] = statement /\ input'[q] = input[q] /\ current'[q] = current[q]
BY OnlyOneMoves DEF Continue, HandlersTyped

\* A handler that has answered claims nothing.
LEMMA AnsweredCoherent ==
    ASSUME NEW q \in Requests, pc'[q] \in Answers
    PROVE  CoherentAt(q)' /\ PastWriteAt(q)' /\ pc'[q] # "insert"
BY DEF CoherentAt, PastWriteAt, Answers

\* The tables and the logs stay, one handler moves on.
LEMMA QuietStep ==
    ASSUME CoreInv, TypeInv', NEW q \in Requests, OnlyMoves(q),
           rows' = rows, audits' = audits, ledger' = ledger,
           CoherentAt(q)', PastWriteAt(q)',
           pc'[q] = "insert" =>
              /\ rows[input'[q].rec] = AbsentRow
              /\ \A p \in Requests : pc[p] = "insert" => input[p].rec # input'[q].rec
    PROVE  CoreInv'
<1>1. LogsMatch'
    BY DEF CoreInv, LogsMatch, LedgerMatchesRows, OneWinnerPerVersion, AuditsMatchRows,
           AuditTruthful, AuditOnce
<1>2. KeysReserved'
    BY DEF CoreInv, KeysReserved, OnlyMoves
<1>3. TablesGrow /\ AuditsGrowBy(q)
    BY DEF TablesGrow, RowGrows, AuditsGrowBy
<1>4. ASSUME NEW p \in Requests
      PROVE  CoherentAt(p)' /\ PastWriteAt(p)'
    <2>1. CASE p = q
        BY <2>1
    <2>2. CASE p # q
        BY <1>3, <2>2, OthersStayCoherent DEF CoreInv, TypeInv
    <2>3. QED
        BY <2>1, <2>2
<1>5. QED
    BY <1>1, <1>2, <1>4 DEF CoreInv, HandlersCoherent

\* An answer that writes nothing keeps the invariant.
LEMMA QuietAnswer ==
    ASSUME CoreInv, TypeInv', NEW q \in Requests, NEW reply \in Answers, Answer(q, reply),
           rows' = rows, audits' = audits, ledger' = ledger
    PROVE  CoreInv'
<1>1. OnlyMoves(q) /\ pc'[q] = reply
    BY AnswerMovesOne DEF CoreInv, TypeInv
<1>2. QED
    BY <1>1, AnsweredCoherent, QuietStep

\* A client that only sends versions it was shown sends one that exists.
LEMMA ArrivalKeepsCore ==
    ASSUME CoreInv, TypeInv', NEW q \in Requests, NEW t \in EntityTypes,
           Arrives(q, t)
    PROVE  CoreInv'
<1>1. PICK r \in Table(t) :
        \/ \E raw \in RawCodes, f \in Fields \cup {NoField} : CreateArrives(q, r, raw, f)
        \/ \E v \in 1..MaxVersion, f \in Fields \cup {NoField} : UpdateArrives(q, r, v, f)
        \/ \E v \in 1..MaxVersion, s \in Targets, c \in BOOLEAN : TransitionArrives(q, r, v, s, c)
        \/ DeleteArrives(q, r)
    BY DEF Arrives
<1>2. r \in Records /\ rows[r].version \in Nat
    BY <1>1 DEF Table, CoreInv, TypeInv, TablesOK, Row
<1>3. rows' = rows /\ audits' = audits /\ ledger' = ledger
    BY <1>1 DEF CreateArrives, UpdateArrives, TransitionArrives, DeleteArrives
<1>4. HandlersTyped
    BY DEF CoreInv, TypeInv
<1>5. ASSUME Answer(q, "business_rule")
      PROVE  CoreInv'
    BY <1>3, <1>5, QuietAnswer DEF Answers
<1>6. ASSUME NEW raw \in RawCodes, NEW f \in Fields \cup {NoField}, CreateArrives(q, r, raw, f)
      PROVE  CoreInv'
    <2> DEFINE in == [NoInput EXCEPT !.op = "create", !.rec = r, !.fields = f,
                                     !.code = Canonical[raw]]
    <2>1. CASE Accept(q, "insert", in)
        <3>1. in.rec = r
            BY DEF NoInput
        <3>2. OnlyMoves(q) /\ pc'[q] = "insert" /\ input'[q] = in
            BY <1>4, <2>1, OnlyOneMoves DEF Accept, HandlersTyped
        <3>3. CoherentAt(q)' /\ PastWriteAt(q)'
            BY <3>2 DEF CoherentAt, PastWriteAt
        <3>4. rows[r] = AbsentRow /\ \A p \in Requests : pc[p] = "insert" => input[p].rec # r
            BY <1>6 DEF CreateArrives, Reserved
        <3>5. QED
            BY <1>3, <3>1, <3>2, <3>3, <3>4, QuietStep
    <2>2. QED
        BY <1>5, <1>6, <2>1 DEF CreateArrives
<1>7. ASSUME NEW in, Accept(q, "get", in), in.rec = r,
             in.op \in Conditional => in.expected \in ExpectedVersions(r)
      PROVE  CoreInv'
    <2>1. OnlyMoves(q) /\ pc'[q] = "get" /\ input'[q] = in
        BY <1>4, <1>7, OnlyOneMoves DEF Accept, HandlersTyped
    <2>2. in.op \in Conditional =>
             in.expected > 0 /\ (Lookahead = 0 => in.expected <= rows[r].version)
        BY <1>2, <1>7, RequestsAssumption DEF ExpectedVersions
    <2>3. CoherentAt(q)' /\ PastWriteAt(q)'
        BY <1>3, <1>7, <2>1, <2>2 DEF CoherentAt, PastWriteAt
    <2>4. QED
        BY <1>3, <2>1, <2>3, QuietStep
<1>8. ASSUME NEW v \in 1..MaxVersion, NEW f \in Fields \cup {NoField}, UpdateArrives(q, r, v, f)
      PROVE  CoreInv'
    BY <1>7, <1>8 DEF UpdateArrives, NoInput
<1>9. ASSUME NEW v \in 1..MaxVersion, NEW s \in Targets, NEW c \in BOOLEAN,
             TransitionArrives(q, r, v, s, c)
      PROVE  CoreInv'
    BY <1>5, <1>7, <1>9 DEF TransitionArrives, NoInput
<1>10. ASSUME DeleteArrives(q, r)
       PROVE  CoreInv'
    BY <1>7, <1>10 DEF DeleteArrives, NoInput, Conditional
<1>11. QED
    BY <1>1, <1>6, <1>8, <1>9, <1>10

\* The snapshot repository Get takes is the row itself.
LEMMA GetKeepsCore ==
    ASSUME CoreInv, TypeInv', NEW q \in Requests, Get(q)
    PROVE  CoreInv'
<1> DEFINE in == input[q]
           row == rows[in.rec]
           next == IF in.op = "delete" THEN "remove" ELSE "store"
<1>1. pc[q] = "get" /\ Ready("get", in, current[q]) /\ HandlersTyped
    BY DEF Get, CoreInv, TypeInv, HandlersReady, Statements
<1>2. rows' = rows /\ audits' = audits /\ ledger' = ledger
    BY DEF Get
<1>3. CASE \E reply \in Answers : Answer(q, reply)
    BY <1>2, <1>3, QuietAnswer
<1>4. CASE /\ Live(row) /\ Allowed(in, row)
           /\ pc' = [pc EXCEPT ![q] = next]
           /\ current' = [current EXCEPT ![q] = row]
           /\ UNCHANGED input
    <2>1. OnlyMoves(q)
        BY <1>1, <1>4, OnlyOneMoves
    <2>2. pc'[q] = next /\ input'[q] = in /\ current'[q] = row
        BY <1>1, <1>4 DEF HandlersTyped
    <2>3. next = "store" => in.op \in Conditional
        BY <1>1 DEF Ready, Conditional
    <2>4. in.op \in Conditional =>
             in.expected > 0 /\ (Lookahead = 0 => in.expected <= row.version)
        BY <1>1 DEF CoreInv, HandlersCoherent, CoherentAt
    <2>5. row.version \in Nat
        BY <1>1 DEF Ready, Input, CoreInv, TypeInv, TablesOK, Row
    <2>6. CoherentAt(q)' /\ PastWriteAt(q)' /\ pc'[q] # "insert"
        BY <1>2, <2>2, <2>3, <2>4, <2>5 DEF CoherentAt, PastWriteAt
    <2>7. QED
        BY <1>2, <2>1, <2>6, QuietStep
<1>5. QED
    BY <1>3, <1>4 DEF Get, Breaks, Answers

\* The final Get only answers.
LEMMA RereadKeepsCore ==
    ASSUME CoreInv, TypeInv', NEW q \in Requests, Reread(q)
    PROVE  CoreInv'
<1>1. \E reply \in Answers : Answer(q, reply)
    BY DEF Reread, Breaks, Answers
<1>2. QED
    BY <1>1, QuietAnswer DEF Reread

\* After the death of the process the tables and the logs still agree (main).
LEMMA CrashKeepsCore ==
    ASSUME CoreInv, TypeInv', Crash
    PROVE  CoreInv'
<1>1. rows' = rows /\ audits' = audits /\ ledger' = ledger
    BY DEF Crash
<1>2. LogsMatch'
    BY <1>1 DEF CoreInv, LogsMatch, LedgerMatchesRows, OneWinnerPerVersion, AuditsMatchRows,
                AuditTruthful, AuditOnce
<1>3. \A q \in Requests : pc'[q] \in Answers
    BY DEF Crash, Answers
<1>4. KeysReserved' /\ HandlersCoherent'
    BY <1>3, AnsweredCoherent DEF KeysReserved, HandlersCoherent
<1>5. QED
    BY <1>2, <1>4 DEF CoreInv

-----------------------------------------------------------------------------
(* The audit insert. *)

\* security Audit adds a row about the write its handler has just made.
LEMMA AuditKeepsCore ==
    ASSUME CoreInv, TypeInv', NEW q \in Requests, Audit(q)
    PROVE  CoreInv'
<1> DEFINE in == input[q]
           entry == AuditEntry(q)
<1>1. pc[q] = "audit" /\ Ready("audit", in, current[q]) /\ HandlersTyped
    BY DEF Audit, CoreInv, TypeInv, HandlersReady, Statements
<1>2. rows' = rows /\ ledger' = ledger
    BY DEF Audit
<1>3. \/ audits' = audits
      \/ audits' = Append(audits, entry)
    BY DEF Audit
<1>4. /\ PastWriteAt(q)
      /\ entry \in Entry /\ entry.by = q /\ entry.rec = in.rec /\ entry.action = in.op
      /\ in.op \in Conditional => entry.version = in.expected + 1
    BY <1>1, AuditEntryTyped DEF CoreInv, TypeInv, HandlersCoherent, AuditEntry, EntryOf
<1>5. AuditsGrowBy(q) /\ TablesGrow
    BY <1>2, <1>3, <1>4 DEF AuditsGrowBy, TablesGrow, RowGrows
<1>6. \/ pc'[q] \in Answers /\ OnlyMoves(q)
      \/ /\ in.op \in Conditional /\ pc'[q] = "reread" /\ OnlyMoves(q) /\ input'[q] = in
         /\ in.op = "transition" => audits' = Append(audits, entry)
    <2>1. ASSUME Proceed(q)
          PROVE  \/ pc'[q] \in Answers /\ OnlyMoves(q)
                 \/ in.op \in Conditional /\ pc'[q] = "reread" /\ OnlyMoves(q) /\ input'[q] = in
        BY <1>1, <2>1, AnswerMovesOne, ContinueMovesOne DEF Proceed, Answers
    <2>2. ASSUME Answer(q, "internal_error")
          PROVE  pc'[q] \in Answers /\ OnlyMoves(q)
        BY <1>1, <2>2, AnswerMovesOne DEF Answers
    <2>3. CASE audits' = Append(audits, entry)
        BY <2>1, <2>2, <2>3 DEF Audit, AuditFails
    <2>4. CASE AuditFails(q)
        BY <2>1, <2>2, <2>4 DEF AuditFails, AuditIsOptional
    <2>5. QED
        BY <2>3, <2>4 DEF Audit
<1>7. OnlyMoves(q) /\ pc'[q] # "insert"
    BY <1>6 DEF Answers
<1>8. KeysReserved'
    BY <1>2, <1>7 DEF CoreInv, KeysReserved, OnlyMoves
<1>9. CoherentAt(q)' /\ PastWriteAt(q)'
    <2>1. CASE pc'[q] \in Answers
        BY <2>1, AnsweredCoherent
    <2>2. CASE /\ in.op \in Conditional /\ pc'[q] = "reread" /\ input'[q] = in
               /\ in.op = "transition" => audits' = Append(audits, entry)
        <3>1. CoherentAt(q)'
            BY <2>2 DEF CoherentAt
        <3>2. Committed(q)'
            BY <1>1, <1>2, <1>4, <2>2 DEF PastWriteAt, Committed
        <3>3. ASSUME in.op = "transition"
              PROVE  \E i \in 1..Len(audits') :
                        /\ audits'[i].by = q /\ audits'[i].rec = in.rec
                        /\ audits'[i].action = "transition"
                        /\ audits'[i].version = in.expected + 1
            <4>1. audits' = Append(audits, entry) /\ audits \in Seq(Entry)
                BY <2>2, <3>3 DEF CoreInv, TypeInv, LogsTyped
            <4>2. Len(audits') \in 1..Len(audits') /\ audits'[Len(audits')] = entry
                BY <1>4, <4>1
            <4>3. QED
                BY <1>4, <2>2, <3>3, <4>2
        <3>4. QED
            BY <2>2, <3>1, <3>2, <3>3 DEF PastWriteAt
    <2>3. QED
        BY <1>6, <2>1, <2>2
<1>10. HandlersCoherent'
    <2>1. ASSUME NEW p \in Requests \ {q}
          PROVE  CoherentAt(p)' /\ PastWriteAt(p)'
        BY <1>2, <1>5, <1>7, OthersStayCoherent DEF CoreInv, TypeInv
    <2>2. QED
        BY <1>9, <2>1 DEF HandlersCoherent
<1>11. LogsMatch'
    <2>1. CASE audits' = audits
        BY <1>2, <2>1 DEF CoreInv, LogsMatch, LedgerMatchesRows, OneWinnerPerVersion,
                          AuditsMatchRows, AuditTruthful, AuditOnce
    <2>2. CASE audits' = Append(audits, entry)
        <3>1. audits \in Seq(Entry) /\ Len(audits) \in Nat
            BY DEF CoreInv, TypeInv, LogsTyped
        <3>2. /\ Len(audits') = Len(audits) + 1
              /\ audits'[Len(audits) + 1] = entry
              /\ \A i \in 1..Len(audits) : audits'[i] = audits[i]
            BY <1>4, <2>2, <3>1
        <3>3. \A i \in 1..Len(audits') : i \in 1..Len(audits) \/ i = Len(audits) + 1
            BY <3>1, <3>2
        <3>4. LedgerMatchesRows' /\ OneWinnerPerVersion'
            BY <1>2 DEF CoreInv, LogsMatch, LedgerMatchesRows, OneWinnerPerVersion
        <3>5. AuditsMatchRows'
            <4>1. /\ rows[in.rec] # AbsentRow
                  /\ entry.action \in Conditional => entry.version <= rows[in.rec].version
                  /\ entry.action = "delete" => rows[in.rec].phase = "deleted"
                <5>1. Committed(q) /\ (in.op = "delete" => rows[in.rec].phase = "deleted")
                    BY <1>1, <1>4 DEF PastWriteAt
                <5>2. rows[in.rec] # AbsentRow
                    BY <5>1 DEF Committed, CoreInv, LogsMatch, LedgerMatchesRows
                <5>3. rows[in.rec].version \in Nat /\ in.expected \in Nat
                    BY <1>1 DEF Ready, Input, CoreInv, TypeInv, TablesOK, Row
                <5>4. in.op \in Conditional => in.expected + 1 <= rows[in.rec].version
                    BY <5>1, <5>3 DEF Committed
                <5>5. QED
                    BY <1>4, <5>1, <5>2, <5>4
            <4>2. QED
                BY <1>2, <1>4, <3>2, <3>3, <4>1 DEF CoreInv, LogsMatch, AuditsMatchRows
        <3>6. Lookahead = 0 => AuditTruthful'
            BY <1>1, <1>2, <1>4, <3>2, <3>3 DEF CoreInv, LogsMatch, AuditTruthful, PastWriteAt
        <3>7. AuditOnce'
            BY <1>1, <1>4, <3>2, <3>3 DEF CoreInv, LogsMatch, AuditOnce, PastWriteAt
        <3>8. QED
            BY <3>4, <3>5, <3>6, <3>7 DEF LogsMatch
    <2>3. QED
        BY <1>3, <2>1, <2>2
<1>12. QED
    BY <1>8, <1>10, <1>11 DEF CoreInv

-----------------------------------------------------------------------------
(* The three statements that write a row. *)

\* What is left to show when a handler writes the row of its record and the
\* write goes to the ledger.
LEMMA CommitStep ==
    ASSUME CoreInv, TypeInv', NEW q \in Requests, pc[q] \in Statements, OnlyMoves(q),
           NEW new, NEW e,
           rows' = [rows EXCEPT ![input[q].rec] = new],
           RowGrows(rows[input[q].rec], new),
           rows[input[q].rec] # AbsentRow \/ pc[q] = "insert",
           ledger' = ledger \cup {e}, audits' = audits,
           LogsMatch', CoherentAt(q)', PastWriteAt(q)', pc'[q] # "insert"
    PROVE  CoreInv'
<1> DEFINE r == input[q].rec
<1>1. rows \in [Records -> Row] /\ r \in Records
    BY DEF CoreInv, TypeInv, TablesOK, HandlersReady, Ready, Input
<1>2. TablesGrow
    BY <1>1 DEF TablesGrow, RowGrows
<1>3. KeysReserved'
    <2>1. ASSUME NEW p \in Requests, pc'[p] = "insert"
          PROVE  /\ p # q /\ pc[p] = "insert" /\ input'[p] = input[p]
                 /\ input[p].rec # r /\ input[p].rec \in Records
        BY <2>1 DEF OnlyMoves, CoreInv, KeysReserved, TypeInv, HandlersReady, Ready, Input, Statements
    <2>2. ASSUME NEW p \in Requests, pc'[p] = "insert"
          PROVE  rows'[input'[p].rec] = AbsentRow
        BY <1>1, <2>1, <2>2 DEF CoreInv, KeysReserved
    <2>3. QED
        BY <2>1, <2>2 DEF CoreInv, KeysReserved
<1>4. ASSUME NEW p \in Requests \ {q}
      PROVE  CoherentAt(p)' /\ PastWriteAt(p)'
    BY <1>2, OthersStayCoherent DEF CoreInv, TypeInv, AuditsGrowBy
<1>5. QED
    BY <1>3, <1>4 DEF CoreInv, HandlersCoherent

\* Nothing is logged about a key no insert has used.
LEMMA AbsentLeavesNoTrace ==
    ASSUME LogsMatch, NEW r, rows[r] = AbsentRow
    PROVE  /\ \A e \in ledger : e.rec # r
           /\ \A i \in 1..Len(audits) : audits[i].rec # r
<1>1. \A e \in ledger : e.rec # r
    BY DEF LogsMatch, LedgerMatchesRows
<1>2. \A i \in 1..Len(audits) : audits[i].rec # r
    BY DEF LogsMatch, AuditsMatchRows
<1>3. QED
    BY <1>1, <1>2

\* repository Create makes the first version of an unused key.
LEMMA InsertKeepsCore ==
    ASSUME CoreInv, TypeInv', NEW q \in Requests, Insert(q)
    PROVE  CoreInv'
<1> DEFINE in == input[q]
           r == in.rec
           item == NewRow(InitialStatus[TypeOf[r]], in.fields, in.code)
           e == EntryOf(q, NoStatus, item.status, 1)
<1>1. pc[q] = "insert" /\ Ready("insert", in, current[q]) /\ HandlersTyped /\ pc[q] \in Statements
    BY DEF Insert, CoreInv, TypeInv, HandlersReady, Statements
<1>2. r \in Records /\ rows \in [Records -> Row] /\ in.op = "create"
    BY <1>1 DEF Ready, Input, CoreInv, TypeInv, TablesOK
<1>3. rows[r] = AbsentRow
    BY <1>1 DEF CoreInv, KeysReserved
<1>4. audits' = audits
    BY DEF Insert
<1>5. CASE /\ rows' = [rows EXCEPT ![r] = item]
           /\ ledger' = ledger \cup {e}
           /\ \/ /\ pc' = [pc EXCEPT ![q] = "audit"]
                 /\ current' = [current EXCEPT ![q] = item]
                 /\ UNCHANGED input
              \/ Breaks(q)
    <2>1. /\ item.phase = "live" /\ item.version = 1 /\ item # AbsentRow
          /\ e.by = q /\ e.rec = r /\ e.action = "create"
        BY <1>2 DEF NewRow, AbsentRow, EntryOf
    <2>2. rows'[r] = item /\ \A s \in Records \ {r} : rows'[s] = rows[s]
        BY <1>2, <1>5
    <2>3. RowGrows(rows[r], item)
        BY <1>3, <2>1 DEF RowGrows, AbsentRow
    <2>4. /\ \A d \in ledger : d.rec # r
          /\ \A i \in 1..Len(audits) : audits[i].rec # r
        BY <1>3, AbsentLeavesNoTrace DEF CoreInv
    <2>5. /\ \A d \in ledger : d.rec \in Records /\ rows'[d.rec] = rows[d.rec]
          /\ \A i \in 1..Len(audits) : rows'[audits[i].rec] = rows[audits[i].rec]
        <3>1. \A d \in ledger : d.rec \in Records
            BY DEF CoreInv, TypeInv, LogsTyped, Entry
        <3>2. \A i \in 1..Len(audits) : audits[i].rec \in Records
            <4>1. \A i \in 1..Len(audits) : audits[i] \in Entry
                BY DEF CoreInv, TypeInv, LogsTyped
            <4>2. QED
                BY <4>1 DEF Entry
        <3>3. QED
            BY <2>2, <2>4, <3>1, <3>2
    <2>6. LedgerMatchesRows'
        <3>1. ASSUME NEW d \in ledger'
              PROVE  /\ rows'[d.rec] # AbsentRow
                     /\ d.action \in Conditional => d.version <= rows'[d.rec].version
            <4>1. CASE d \in ledger
                BY <2>5, <4>1 DEF CoreInv, LogsMatch, LedgerMatchesRows
            <4>2. CASE d = e
                BY <2>1, <2>2, <4>2 DEF Conditional
            <4>3. QED
                BY <1>5, <4>1, <4>2
        <3>2. ASSUME NEW s \in Records, NEW v \in Nat, v > 1, v <= rows'[s].version
              PROVE  \E d \in ledger' : d.rec = s /\ d.action \in Conditional /\ d.version = v
            <4>1. s # r
                BY <2>1, <2>2, <3>2
            <4>2. v <= rows[s].version
                BY <2>2, <3>2, <4>1
            <4>3. QED
                BY <1>5, <3>2, <4>2 DEF CoreInv, LogsMatch, LedgerMatchesRows
        <3>3. ASSUME NEW s \in Records, rows'[s].phase = "deleted"
              PROVE  \E d \in ledger' : d.rec = s /\ d.action = "delete"
            BY <1>5, <2>1, <2>2, <3>3 DEF CoreInv, LogsMatch, LedgerMatchesRows
        <3>4. QED
            BY <3>1, <3>2, <3>3 DEF LedgerMatchesRows
    <2>7. LogsMatch'
        <3>1. OneWinnerPerVersion'
            BY <1>5, <2>1 DEF CoreInv, LogsMatch, OneWinnerPerVersion, Conditional
        <3>2. AuditsMatchRows'
            BY <1>4, <2>5 DEF CoreInv, LogsMatch, AuditsMatchRows
        <3>3. (Lookahead = 0 => AuditTruthful') /\ AuditOnce'
            BY <1>4, <1>5 DEF CoreInv, LogsMatch, AuditTruthful, AuditOnce
        <3>4. QED
            BY <2>6, <3>1, <3>2, <3>3 DEF LogsMatch
    <2>8. CASE Breaks(q)
        <3>1. OnlyMoves(q) /\ pc'[q] \in Answers
            BY <1>1, <2>8, AnswerMovesOne DEF Breaks, Answers
        <3>2. QED
            BY <1>1, <1>4, <1>5, <2>3, <2>7, <3>1, AnsweredCoherent, CommitStep
    <2>9. CASE /\ pc' = [pc EXCEPT ![q] = "audit"]
               /\ current' = [current EXCEPT ![q] = item]
               /\ UNCHANGED input
        <3>1. OnlyMoves(q)
            BY <1>1, <2>9, OnlyOneMoves
        <3>2. pc'[q] = "audit" /\ input'[q] = in /\ current'[q] = item
            BY <1>1, <2>9 DEF HandlersTyped
        <3>3. AuditEntry(q)' = e
            BY <1>2, <2>1, <3>2 DEF AuditEntry, EntryOf, Conditional
        <3>4. Committed(q)'
            BY <1>2, <1>5, <2>1, <3>2 DEF Committed, Conditional
        <3>5. \A i \in 1..Len(audits) : audits[i] # e
            BY <2>1, <2>4
        <3>6. CoherentAt(q)' /\ PastWriteAt(q)'
            BY <1>2, <1>4, <1>5, <3>2, <3>3, <3>4, <3>5 DEF CoherentAt, PastWriteAt
        <3>7. QED
            BY <1>1, <1>4, <1>5, <2>3, <2>7, <3>1, <3>2, <3>6, CommitStep
    <2>10. QED
        BY <1>5, <2>8, <2>9
<1>6. CASE UNCHANGED <<rows, ledger>> /\ (Answer(q, "internal_error") \/ Breaks(q))
    BY <1>4, <1>6, QuietAnswer DEF Breaks, Answers
<1>7. QED
    BY <1>5, <1>6 DEF Insert

\* What the condition of the UPDATE says, whatever version the client sent.
LEMMA MatchMeans ==
    ASSUME CoreInv, NEW q \in Requests, pc[q] = "store",
           Matches(rows[input[q].rec], input[q].expected)
    PROVE  /\ input[q].rec \in Records /\ input[q].op \in Conditional
           /\ rows[input[q].rec] \in Row /\ current[q] \in Row
           /\ Live(rows[input[q].rec])
           /\ input[q].expected \in Nat
           /\ rows[input[q].rec].version = input[q].expected
           /\ Allowed(input[q], current[q])
<1>1. Ready("store", input[q], current[q]) /\ current[q] \in Row
    BY DEF CoreInv, TypeInv, HandlersReady, HandlersTyped, Statements
<1>2. QED
    BY <1>1 DEF Ready, Input, CoreInv, TypeInv, TablesOK, Matches

\* The point of the whole construction: an UPDATE whose condition holds is
\* built on the row as it is.
LEMMA MatchIsLatest ==
    ASSUME Lookahead = 0, CoreInv, NEW q \in Requests, pc[q] = "store",
           Matches(rows[input[q].rec], input[q].expected)
    PROVE  current[q] = rows[input[q].rec]
<1> DEFINE in == input[q]
           row == rows[in.rec]
<1>1. /\ row \in Row /\ current[q] \in Row /\ Live(row)
      /\ in.expected \in Nat /\ row.version = in.expected
    BY MatchMeans
<1>2. /\ in.expected <= current[q].version
      /\ current[q].version <= row.version
      /\ Live(row) /\ row.version = current[q].version => row = current[q]
    BY DEF CoreInv, HandlersCoherent, CoherentAt
<1>3. row.version = current[q].version
    BY <1>1, <1>2 DEF Row
<1>4. QED
    BY <1>1, <1>2, <1>3

\* The version and the status that such an UPDATE leaves in the table.
LEMMA StoreStamps ==
    ASSUME NEW q \in Requests, NEW row \in Row, current[q] \in Row, input[q].op \in Conditional
    PROVE  LET new == [Written(q) EXCEPT !.code = row.code, !.phase = row.phase]
               v == input[q].expected + 1
           IN /\ new.phase = row.phase /\ new.version = v
              /\ Written(q).version = v
              /\ Written(q).status = IF input[q].op = "transition" THEN input[q].target
                                                                   ELSE current[q].status
<1>1. CASE input[q].op = "update"
    BY <1>1 DEF Written, Row
<1>2. CASE input[q].op = "transition"
    BY <1>2 DEF Written, Row
<1>3. QED
    BY <1>1, <1>2 DEF Conditional

\* The row it leaves, when it is built on the row it finds: that row with the
\* one change it was asked for.
LEMMA StoreWrites ==
    ASSUME NEW q \in Requests, NEW row \in Row, current[q] = row, input[q].op \in Conditional
    PROVE  LET new == [Written(q) EXCEPT !.code = row.code, !.phase = row.phase]
               v == input[q].expected + 1
           IN /\ input[q].op = "update" =>
                    new = [row EXCEPT !.fields = input[q].fields, !.version = v]
              /\ input[q].op = "transition" =>
                    new = [row EXCEPT !.status = input[q].target, !.version = v]
<1>1. CASE input[q].op = "update"
    BY <1>1 DEF Written, Row
<1>2. CASE input[q].op = "transition"
    BY <1>2 DEF Written, Row
<1>3. QED
    BY <1>1, <1>2 DEF Conditional

\* repository Update takes a version nobody has taken.
LEMMA StoreKeepsCore ==
    ASSUME CoreInv, TypeInv', NEW q \in Requests, Store(q)
    PROVE  CoreInv'
<1> DEFINE in == input[q]
           r == in.rec
           row == rows[r]
           item == Written(q)
           new == [item EXCEPT !.code = row.code, !.phase = row.phase]
           e == EntryOf(q, row.status, item.status, item.version)
<1>1. pc[q] = "store" /\ pc[q] \in Statements /\ HandlersTyped
    BY DEF Store, CoreInv, TypeInv, Statements
<1>2. audits' = audits
    BY DEF Store
<1>3. CASE /\ Matches(row, in.expected)
           /\ rows' = [rows EXCEPT ![r] = new]
           /\ ledger' = ledger \cup {e}
           /\ Continue(q, "audit") \/ Breaks(q)
    <2>1. /\ r \in Records /\ in.op \in Conditional /\ current[q] \in Row
          /\ row \in Row /\ Live(row)
          /\ in.expected \in Nat /\ row.version = in.expected
        BY <1>1, <1>3, MatchMeans
    <2>2. /\ new.phase = "live" /\ new.version = in.expected + 1
          /\ item.version = in.expected + 1
          /\ item.status = IF in.op = "transition" THEN in.target ELSE current[q].status
        BY <2>1, StoreStamps DEF Live
    <2>3. /\ e.by = q /\ e.rec = r /\ e.action = in.op /\ e.version = in.expected + 1
        BY <2>2 DEF EntryOf
    <2>4. /\ rows'[r].phase = "live" /\ rows'[r].version = in.expected + 1
          /\ rows'[r] # AbsentRow
          /\ \A s \in Records \ {r} : rows'[s] = rows[s]
        <3>1. rows'[r] = new /\ \A s \in Records \ {r} : rows'[s] = rows[s]
            BY <1>3, <2>1 DEF CoreInv, TypeInv, TablesOK
        <3>2. new # AbsentRow
            BY <2>2 DEF AbsentRow
        <3>3. QED
            BY <2>2, <3>1, <3>2
    <2>5. RowGrows(row, new)
        BY <2>1, <2>2 DEF RowGrows, Live
    <2>6. row # AbsentRow
        BY <2>1 DEF Live, AbsentRow
    <2>7. \A d \in ledger : d.rec \in Records /\ d.version \in Nat
        BY DEF CoreInv, TypeInv, LogsTyped, Entry
    <2>8. \A i \in 1..Len(audits) : audits[i] \in Entry
        BY DEF CoreInv, TypeInv, LogsTyped
    <2>9. \A d \in ledger : d.rec = r /\ d.action \in Conditional => d.version <= in.expected
        BY <2>1 DEF CoreInv, LogsMatch, LedgerMatchesRows
    <2>10. LedgerMatchesRows'
        <3>1. ASSUME NEW d \in ledger'
              PROVE  /\ rows'[d.rec] # AbsentRow
                     /\ d.action \in Conditional => d.version <= rows'[d.rec].version
            <4>1. CASE d = e
                BY <2>1, <2>3, <2>4, <4>1
            <4>2. CASE d \in ledger /\ d.rec = r
                <5>1. rows'[d.rec] # AbsentRow
                    BY <2>4, <4>2
                <5>2. d.action \in Conditional => d.version <= rows'[d.rec].version
                    BY <2>1, <2>4, <2>7, <2>9, <4>2
                <5>3. QED
                    BY <5>1, <5>2
            <4>3. CASE d \in ledger /\ d.rec # r
                BY <2>4, <2>7, <4>3 DEF CoreInv, LogsMatch, LedgerMatchesRows
            <4>4. QED
                BY <1>3, <4>1, <4>2, <4>3
        <3>2. ASSUME NEW s \in Records, NEW v \in Nat, v > 1, v <= rows'[s].version
              PROVE  \E d \in ledger' : d.rec = s /\ d.action \in Conditional /\ d.version = v
            <4>1. CASE s = r /\ v = in.expected + 1
                BY <1>3, <2>1, <2>3, <4>1
            <4>2. CASE ~(s = r /\ v = in.expected + 1)
                <5>1. v <= rows[s].version
                    BY <2>1, <2>4, <3>2, <4>2
                <5>2. QED
                    BY <1>3, <3>2, <5>1 DEF CoreInv, LogsMatch, LedgerMatchesRows
            <4>3. QED
                BY <4>1, <4>2
        <3>3. ASSUME NEW s \in Records, rows'[s].phase = "deleted"
              PROVE  \E d \in ledger' : d.rec = s /\ d.action = "delete"
            BY <1>3, <2>4, <3>3 DEF CoreInv, LogsMatch, LedgerMatchesRows
        <3>4. QED
            BY <3>1, <3>2, <3>3 DEF LedgerMatchesRows
    <2>11. LogsMatch'
        <3>1. \A d \in ledger :
                 ~(d.action \in Conditional /\ d.rec = e.rec /\ d.version = e.version)
            BY <2>1, <2>3, <2>7, <2>9
        <3>2. OneWinnerPerVersion'
            BY <1>3, <3>1 DEF CoreInv, LogsMatch, OneWinnerPerVersion
        <3>3. AuditsMatchRows'
            <4>1. ASSUME NEW i \in 1..Len(audits)
                  PROVE  /\ rows'[audits[i].rec] # AbsentRow
                         /\ audits[i].action \in Conditional =>
                                audits[i].version <= rows'[audits[i].rec].version
                         /\ audits[i].action = "delete" => rows'[audits[i].rec].phase = "deleted"
                <5>1. /\ rows[audits[i].rec] # AbsentRow
                      /\ audits[i].action \in Conditional =>
                             audits[i].version <= rows[audits[i].rec].version
                      /\ audits[i].action = "delete" => rows[audits[i].rec].phase = "deleted"
                      /\ audits[i].rec \in Records /\ audits[i].version \in Nat
                    BY <2>8 DEF CoreInv, LogsMatch, AuditsMatchRows, Entry
                <5>2. CASE audits[i].rec = r
                    BY <2>1, <2>4, <5>1, <5>2 DEF Live
                <5>3. CASE audits[i].rec # r
                    BY <2>4, <5>1, <5>3
                <5>4. QED
                    BY <5>2, <5>3
            <4>2. QED
                BY <1>2, <4>1 DEF AuditsMatchRows
        <3>4. (Lookahead = 0 => AuditTruthful') /\ AuditOnce'
            BY <1>2, <1>3 DEF CoreInv, LogsMatch, AuditTruthful, AuditOnce
        <3>5. QED
            BY <2>10, <3>2, <3>3, <3>4 DEF LogsMatch
    <2>12. CASE Breaks(q)
        <3>1. OnlyMoves(q) /\ pc'[q] \in Answers
            BY <1>1, <2>12, AnswerMovesOne DEF Breaks, Answers
        <3>2. QED
            BY <1>1, <1>2, <1>3, <2>5, <2>6, <2>11, <3>1, AnsweredCoherent, CommitStep
    <2>13. CASE Continue(q, "audit")
        <3>1. OnlyMoves(q) /\ pc'[q] = "audit" /\ input'[q] = in /\ current'[q] = current[q]
            BY <1>1, <2>13, ContinueMovesOne
        <3>2. /\ AuditEntry(q)' = EntryOf(q, current[q].status, item.status, in.expected + 1)
              /\ AuditEntry(q)'.rec = r /\ AuditEntry(q)'.action \in Conditional
              /\ AuditEntry(q)'.version = in.expected + 1
            BY <2>1, <2>2, <3>1 DEF AuditEntry, EntryOf, Conditional
        <3>3. Lookahead = 0 => AuditEntry(q)' = e
            BY <1>1, <1>3, <2>2, <3>2, MatchIsLatest
        <3>4. Committed(q)'
            BY <1>3, <2>1, <2>3, <2>4, <3>1 DEF Committed
        <3>5. ASSUME NEW i \in 1..Len(audits), audits[i] = AuditEntry(q)'
              PROVE  FALSE
            <4>1. audits[i].version <= row.version
                BY <3>2, <3>5 DEF CoreInv, LogsMatch, AuditsMatchRows
            <4>2. QED
                BY <2>1, <3>2, <3>5, <4>1
        <3>6. CoherentAt(q)' /\ PastWriteAt(q)'
            BY <1>2, <1>3, <2>1, <3>1, <3>3, <3>4, <3>5 DEF CoherentAt, PastWriteAt, Conditional
        <3>7. QED
            BY <1>1, <1>2, <1>3, <2>5, <2>6, <2>11, <3>1, <3>6, CommitStep
    <2>14. QED
        BY <1>3, <2>12, <2>13
<1>4. CASE UNCHANGED <<rows, ledger>> /\ (Answer(q, "version_conflict") \/ Breaks(q))
    BY <1>2, <1>4, QuietAnswer DEF Breaks, Answers
<1>5. QED
    BY <1>3, <1>4 DEF Store

\* repository Delete ends a record at the version it has.
LEMMA RemoveKeepsCore ==
    ASSUME CoreInv, TypeInv', NEW q \in Requests, Remove(q)
    PROVE  CoreInv'
<1> DEFINE in == input[q]
           r == in.rec
           row == rows[r]
           new == [row EXCEPT !.phase = "deleted"]
           e == EntryOf(q, row.status, Removed, row.version)
<1>1. /\ pc[q] = "remove" /\ pc[q] \in Statements /\ HandlersTyped
      /\ Ready("remove", in, current[q])
    BY DEF Remove, CoreInv, TypeInv, HandlersReady, Statements
<1>2. audits' = audits
    BY DEF Remove
<1>3. CASE /\ Live(row)
           /\ rows' = [rows EXCEPT ![r].phase = "deleted"]
           /\ ledger' = ledger \cup {e}
           /\ Continue(q, "audit") \/ Breaks(q)
    <2>1. r \in Records /\ in.op = "delete" /\ row \in Row
        BY <1>1 DEF Ready, Input, CoreInv, TypeInv, TablesOK
    <2>2. new.phase = "deleted" /\ new.version = row.version /\ row.version \in Nat
        BY <2>1 DEF Row
    <2>3. e.by = q /\ e.rec = r /\ e.action = "delete"
        BY <2>1 DEF EntryOf
    <2>4. /\ rows \in [Records -> Row] /\ rows' = [rows EXCEPT ![r] = new]
          /\ rows'[r] = new /\ \A s \in Records \ {r} : rows'[s] = rows[s]
        BY <1>3, <2>1 DEF CoreInv, TypeInv, TablesOK
    <2>5. RowGrows(row, new)
        BY <1>3, <2>2 DEF RowGrows, Live
    <2>6. row # AbsentRow /\ new # AbsentRow
        BY <1>3, <2>2 DEF Live, AbsentRow
    <2>7. \A s \in Records :
             /\ rows'[s].version = rows[s].version
             /\ rows[s] # AbsentRow => rows'[s] # AbsentRow
             /\ rows[s].phase = "deleted" => rows'[s].phase = "deleted"
             /\ rows'[s].phase = "deleted" => rows[s].phase = "deleted" \/ s = r
        BY <2>2, <2>4, <2>6
    <2>8. \A d \in ledger : d.rec \in Records
        BY DEF CoreInv, TypeInv, LogsTyped, Entry
    <2>9. \A i \in 1..Len(audits) : audits[i] \in Entry
        BY DEF CoreInv, TypeInv, LogsTyped
    <2>10. LedgerMatchesRows'
        <3>1. ASSUME NEW d \in ledger'
              PROVE  /\ rows'[d.rec] # AbsentRow
                     /\ d.action \in Conditional => d.version <= rows'[d.rec].version
            <4>1. CASE d = e
                BY <2>3, <2>4, <2>6, <4>1 DEF Conditional
            <4>2. CASE d \in ledger
                BY <2>7, <2>8, <4>2 DEF CoreInv, LogsMatch, LedgerMatchesRows
            <4>3. QED
                BY <1>3, <4>1, <4>2
        <3>2. ASSUME NEW s \in Records, NEW v \in Nat, v > 1, v <= rows'[s].version
              PROVE  \E d \in ledger' : d.rec = s /\ d.action \in Conditional /\ d.version = v
            <4>1. v <= rows[s].version
                BY <2>7, <3>2
            <4>2. QED
                BY <1>3, <3>2, <4>1 DEF CoreInv, LogsMatch, LedgerMatchesRows
        <3>3. ASSUME NEW s \in Records, rows'[s].phase = "deleted"
              PROVE  \E d \in ledger' : d.rec = s /\ d.action = "delete"
            BY <1>3, <2>3, <2>7, <3>3 DEF CoreInv, LogsMatch, LedgerMatchesRows
        <3>4. QED
            BY <3>1, <3>2, <3>3 DEF LedgerMatchesRows
    <2>11. LogsMatch'
        <3>1. OneWinnerPerVersion'
            BY <1>3, <2>3 DEF CoreInv, LogsMatch, OneWinnerPerVersion, Conditional
        <3>2. AuditsMatchRows'
            BY <1>2, <2>7, <2>9 DEF CoreInv, LogsMatch, AuditsMatchRows, Entry
        <3>3. (Lookahead = 0 => AuditTruthful') /\ AuditOnce'
            BY <1>2, <1>3 DEF CoreInv, LogsMatch, AuditTruthful, AuditOnce
        <3>4. QED
            BY <2>10, <3>1, <3>2, <3>3 DEF LogsMatch
    <2>12. CASE Breaks(q)
        <3>1. OnlyMoves(q) /\ pc'[q] \in Answers
            BY <1>1, <2>12, AnswerMovesOne DEF Breaks, Answers
        <3>2. QED
            BY <1>1, <1>2, <1>3, <2>4, <2>5, <2>6, <2>11, <3>1, AnsweredCoherent, CommitStep
    <2>13. CASE Continue(q, "audit")
        <3>1. OnlyMoves(q) /\ pc'[q] = "audit" /\ input'[q] = in
            BY <1>1, <2>13, ContinueMovesOne
        <3>2. AuditEntry(q)'.rec = r /\ AuditEntry(q)'.action = "delete"
            BY <2>1, <3>1 DEF AuditEntry, EntryOf
        <3>3. Committed(q)'
            BY <1>3, <2>1, <2>3, <3>1 DEF Committed, Conditional
        <3>4. ASSUME NEW i \in 1..Len(audits)
              PROVE  audits[i] # AuditEntry(q)'
            BY <1>3, <3>2 DEF CoreInv, LogsMatch, AuditsMatchRows, Live
        <3>5. CoherentAt(q)' /\ PastWriteAt(q)'
            BY <1>2, <2>1, <2>2, <2>4, <3>1, <3>3, <3>4 DEF CoherentAt, PastWriteAt
        <3>6. QED
            BY <1>1, <1>2, <1>3, <2>4, <2>5, <2>6, <2>11, <3>1, <3>5, CommitStep
    <2>14. QED
        BY <1>3, <2>12, <2>13
<1>4. CASE UNCHANGED <<rows, ledger>> /\ (Answer(q, "not_found") \/ Breaks(q))
    BY <1>2, <1>4, QuietAnswer DEF Breaks, Answers
<1>5. QED
    BY <1>3, <1>4 DEF Remove

-----------------------------------------------------------------------------
(* The invariant. *)

\* The invariant holds of freshly seeded tables (database.Seed).
LEMMA CoreInit == Init => CoreInv
<1> SUFFICES ASSUME Init PROVE CoreInv
    OBVIOUS
<1>1. TypeInv
    BY TypeInit
<1>2. \A q \in Requests : pc[q] = "none"
    BY DEF Init
<1>3. HandlersCoherent /\ KeysReserved
    BY <1>2 DEF HandlersCoherent, CoherentAt, PastWriteAt, KeysReserved
<1>4. LedgerMatchesRows
    <2>1. ASSUME NEW r \in Records
          PROVE  rows[r].version \in {0, 1} /\ rows[r].phase # "deleted"
        <3>1. rows[r] \in FirstRows(r)
            BY DEF Init, InitialTables
        <3>2. QED
            BY <3>1 DEF FirstRows, NewRow, AbsentRow
    <2>2. ASSUME NEW r \in Records, NEW v \in Nat, v > 1
          PROVE  ~(v <= rows[r].version)
        BY <2>1, <2>2
    <2>3. QED
        BY <2>1, <2>2 DEF Init, LedgerMatchesRows
<1>5. LogsMatch
    BY <1>4 DEF Init, LogsMatch, OneWinnerPerVersion, AuditsMatchRows, AuditTruthful, AuditOnce
<1>6. QED
    BY <1>1, <1>3, <1>5 DEF CoreInv

\* Every step keeps the invariant.
LEMMA CoreStep == CoreInv /\ [Next]_vars => CoreInv'
<1> SUFFICES ASSUME CoreInv, [Next]_vars
             PROVE  CoreInv'
    OBVIOUS
<1>1. TypeInv'
    BY TypeStep DEF CoreInv
<1>2. ASSUME NEW q \in Requests,
             \/ SolarSiteHandler(q) \/ InverterUnitHandler(q)
             \/ FaultEventHandler(q) \/ MitigationActionHandler(q)
      PROVE  CoreInv'
    <2>1. ASSUME Rejects(q)
          PROVE  CoreInv'
        BY <1>1, <2>1, QuietAnswer DEF Rejects, Answers
    <2>2. QED
        BY <1>1, <1>2, <2>1, ArrivalKeepsCore, HandlersServe
<1>3. ASSUME NEW q \in Requests, Insert(q)
      PROVE  CoreInv'
    BY <1>1, <1>3, InsertKeepsCore
<1>4. ASSUME NEW q \in Requests, Get(q)
      PROVE  CoreInv'
    BY <1>1, <1>4, GetKeepsCore
<1>5. ASSUME NEW q \in Requests, Store(q)
      PROVE  CoreInv'
    BY <1>1, <1>5, StoreKeepsCore
<1>6. ASSUME NEW q \in Requests, Remove(q)
      PROVE  CoreInv'
    BY <1>1, <1>6, RemoveKeepsCore
<1>7. ASSUME NEW q \in Requests, Audit(q)
      PROVE  CoreInv'
    BY <1>1, <1>7, AuditKeepsCore
<1>8. ASSUME NEW q \in Requests, Reread(q)
      PROVE  CoreInv'
    BY <1>1, <1>8, RereadKeepsCore
<1>9. CASE Crash
    BY <1>1, <1>9, CrashKeepsCore
<1>10. CASE UNCHANGED vars
    BY <1>1, <1>10 DEF vars, CoreInv, HandlersCoherent, CoherentAt, PastWriteAt, Committed,
       AuditEntry, EntryOf, KeysReserved, LogsMatch, LedgerMatchesRows, OneWinnerPerVersion,
       AuditsMatchRows, AuditTruthful, AuditOnce
<1>11. QED
    BY <1>2, <1>3, <1>4, <1>5, <1>6, <1>7, <1>8, <1>9, <1>10 DEF Next

\* The invariant the theorems below are read off: a snapshot is its row as long
\* as the version is the same, the ledger has each version once, the audit table
\* is ahead of no row (service Update, Transition, Delete).
THEOREM CoreCorrect == Spec => []CoreInv
BY CoreInit, CoreStep, PTL DEF Spec

\* As long as a row carries the version a handler read, it is what the handler
\* read: the UPDATE that is conditional on the client's version undoes nobody's
\* write, although the service compares that version with nothing it read.
THEOREM UpdatesAreCurrent ==
    ASSUME Lookahead = 0
    PROVE  Spec => []SnapshotCoherent
<1>1. CoreInv => SnapshotCoherent
    BY DEF CoreInv, HandlersCoherent, CoherentAt, SnapshotCoherent
<1>2. QED
    BY <1>1, CoreCorrect, PTL

\* However many requests expect the same version of a record, in whatever order
\* their statements run, one write at most takes it (repository Store.Update).
THEOREM OneWinner == Spec => []OneWinnerPerVersion
<1>1. CoreInv => OneWinnerPerVersion
    BY DEF CoreInv, LogsMatch
<1>2. QED
    BY <1>1, CoreCorrect, PTL

\* The audit table never tells of a creation, an edit or a move that did not
\* happen, or happened to another status, and never tells of one twice
\* (the services' calls of security.Audit).
THEOREM AuditsAreTrue ==
    ASSUME Lookahead = 0
    PROVE  Spec => []AuditTruthful
<1>1. CoreInv => AuditTruthful
    BY DEF CoreInv, LogsMatch
<1>2. QED
    BY <1>1, CoreCorrect, PTL

\* No write is audited twice, not even when a client sends its request again
\* after a lost answer (the services' calls of security.Audit).
THEOREM AuditsAreUnique == Spec => []AuditOnce
<1>1. CoreInv => AuditOnce
    BY DEF CoreInv, LogsMatch
<1>2. QED
    BY <1>1, CoreCorrect, PTL

-----------------------------------------------------------------------------
(* What a single step does to the tables. *)

\* The four ways in which a step of the handlers can change the tables.
Created(r, f, c) ==
    /\ rows[r] = AbsentRow /\ CodeFree(rows, TypeOf[r], c)
    /\ rows' = [rows EXCEPT ![r] = NewRow(InitialStatus[TypeOf[r]], f, c)]

Edited(r, f) ==
    /\ Live(rows[r])
    /\ rows' = [rows EXCEPT ![r] = [rows[r] EXCEPT !.fields = f, !.version = rows[r].version + 1]]

Moved(r, s) ==
    /\ Live(rows[r]) /\ CanTransition(Transitions[TypeOf[r]], rows[r].status, s)
    /\ rows' = [rows EXCEPT ![r] = [rows[r] EXCEPT !.status = s, !.version = rows[r].version + 1]]

Removes(r) ==
    /\ Live(rows[r])
    /\ rows' = [rows EXCEPT ![r] = [rows[r] EXCEPT !.phase = "deleted"]]

Atomic ==
    \/ UNCHANGED rows
    \/ \E r \in Records :
          \/ \E f \in Fields, c \in Codes : Created(r, f, c)
          \/ \E f \in Fields : Edited(r, f)
          \/ \E s \in AllStatuses : Moved(r, s)
          \/ Removes(r)

\* repository Create is a Create of VersionedRecords, or fails.
LEMMA InsertIsAtomic ==
    ASSUME CoreInv, NEW q \in Requests, Insert(q)
    PROVE  Atomic
<1> DEFINE in == input[q]
<1>1. pc[q] = "insert" /\ Ready("insert", in, current[q]) /\ rows[in.rec] = AbsentRow
    BY DEF Insert, CoreInv, TypeInv, HandlersReady, KeysReserved, Statements
<1>2. in.rec \in Records /\ in.fields \in Fields /\ in.code \in Codes
    BY <1>1 DEF Ready, Input
<1>3. UNCHANGED rows \/ Created(in.rec, in.fields, in.code)
    BY <1>1 DEF Insert, Created
<1>4. QED
    BY <1>2, <1>3 DEF Atomic

\* repository Update is an Edit or a Move of VersionedRecords, or fails.
LEMMA StoreIsAtomic ==
    ASSUME Lookahead = 0, CoreInv, NEW q \in Requests, Store(q)
    PROVE  Atomic
<1> DEFINE in == input[q]
           r == in.rec
           row == rows[r]
           new == [Written(q) EXCEPT !.code = row.code, !.phase = row.phase]
<1>1. pc[q] = "store" /\ in \in Input
    BY DEF Store, CoreInv, TypeInv, HandlersReady, Ready, Statements
<1>2. SUFFICES ASSUME Matches(row, in.expected), rows' = [rows EXCEPT ![r] = new]
               PROVE  Atomic
    BY DEF Store, Atomic
<1>3. /\ r \in Records /\ in.op \in Conditional /\ current[q] = row
      /\ row \in Row /\ Live(row) /\ row.version = in.expected /\ Allowed(in, row)
    BY <1>1, <1>2, MatchMeans, MatchIsLatest
<1>4. CASE in.op = "update"
    <2>1. new = [row EXCEPT !.fields = in.fields, !.version = in.expected + 1]
        BY <1>3, <1>4, StoreWrites
    <2>2. in.fields \in Fields
        BY <1>1, <1>3, <1>4 DEF Allowed, Input
    <2>3. Edited(r, in.fields)
        BY <1>2, <1>3, <2>1 DEF Edited
    <2>4. QED
        BY <1>3, <2>2, <2>3 DEF Atomic
<1>5. CASE in.op = "transition"
    <2>1. new = [row EXCEPT !.status = in.target, !.version = in.expected + 1]
        BY <1>3, <1>5, StoreWrites
    <2>2. CanTransition(Transitions[TypeOf[r]], row.status, in.target)
        BY <1>3, <1>5 DEF Allowed
    <2>3. in.target \in AllStatuses
        BY <1>3, <2>2, GraphClosed, StatusesAreKnown, RowsAssumption
    <2>4. Moved(r, in.target)
        BY <1>2, <1>3, <2>1, <2>2 DEF Moved
    <2>5. QED
        BY <1>3, <2>3, <2>4 DEF Atomic
<1>6. QED
    BY <1>3, <1>4, <1>5 DEF Conditional

\* repository Delete is a Remove of VersionedRecords, or fails.
LEMMA RemoveIsAtomic ==
    ASSUME CoreInv, NEW q \in Requests, Remove(q)
    PROVE  Atomic
<1> DEFINE r == input[q].rec
<1>1. r \in Records
    BY DEF Remove, CoreInv, TypeInv, HandlersReady, Ready, Input, Statements
<1>2. UNCHANGED rows \/ Removes(r)
    BY DEF Remove, Removes
<1>3. QED
    BY <1>1, <1>2 DEF Atomic

\* No other statement touches the business tables.
LEMMA OtherStepsKeepRows ==
    ASSUME NEW q \in Requests,
           \/ SolarSiteHandler(q) \/ InverterUnitHandler(q)
           \/ FaultEventHandler(q) \/ MitigationActionHandler(q)
           \/ Get(q) \/ Audit(q) \/ Reread(q) \/ Crash
    PROVE  UNCHANGED rows
<1>1. ASSUME NEW t, Arrives(q, t)
      PROVE  UNCHANGED rows
    BY <1>1 DEF Arrives, CreateArrives, UpdateArrives, TransitionArrives, DeleteArrives
<1>2. QED
    BY <1>1, HandlersServe DEF Rejects, Get, Audit, Reread, Crash

\* Every step of the handlers is one atomic write of one row, or none.
LEMMA StepIsAtomic ==
    ASSUME Lookahead = 0
    PROVE  CoreInv /\ [Next]_vars => Atomic
<1> SUFFICES ASSUME CoreInv, [Next]_vars
             PROVE  Atomic
    OBVIOUS
<1>1. CASE UNCHANGED vars
    BY <1>1 DEF vars, Atomic
<1>2. CASE Crash
    BY <1>2 DEF Crash, Atomic
<1>3. ASSUME NEW q \in Requests,
             \/ SolarSiteHandler(q) \/ InverterUnitHandler(q)
             \/ FaultEventHandler(q) \/ MitigationActionHandler(q)
             \/ Get(q) \/ Audit(q) \/ Reread(q)
      PROVE  Atomic
    BY <1>3, OtherStepsKeepRows DEF Atomic
<1>4. ASSUME NEW q \in Requests, Insert(q) \/ Store(q) \/ Remove(q)
      PROVE  Atomic
    BY <1>4, InsertIsAtomic, StoreIsAtomic, RemoveIsAtomic
<1>5. QED
    BY <1>1, <1>2, <1>3, <1>4 DEF Next

-----------------------------------------------------------------------------
(* What a step does to a row, whatever versions clients send. *)

\* A row appears at version 1, is revised under its code at the version after
\* its own, or is removed as it is.
Revised(old, new) ==
    \/ new = old
    \/ old = AbsentRow /\ Live(new) /\ new.version = 1
    \/ Live(old) /\ Live(new) /\ new.version = old.version + 1 /\ new.code = old.code
    \/ Live(old) /\ new = [old EXCEPT !.phase = "deleted"]

\* No row skips or repeats a version, changes its code, or comes back.
RevisionsInOrder == [][\A r \in Records : Revised(rows[r], rows'[r])]_vars

\* The statement of q leaves the tables or revises the row of its record.
LEMMA WritesRevise ==
    ASSUME CoreInv, NEW q \in Requests, Insert(q) \/ Store(q) \/ Remove(q)
    PROVE  \/ rows' = rows
           \/ /\ input[q].rec \in Records
              /\ \E new : /\ rows' = [rows EXCEPT ![input[q].rec] = new]
                          /\ Revised(rows[input[q].rec], new)
<1> DEFINE in == input[q]
           row == rows[in.rec]
<1>1. Ready(pc[q], in, current[q]) /\ in.rec \in Records /\ rows \in [Records -> Row]
    BY DEF Insert, Store, Remove, CoreInv, TypeInv, TablesOK, HandlersReady, Ready, Input, Statements
<1>2. CASE Insert(q)
    <2>1. row = AbsentRow
        BY <1>2 DEF Insert, CoreInv, KeysReserved
    <2>2. \A s, f, c : Live(NewRow(s, f, c)) /\ NewRow(s, f, c).version = 1
        BY DEF NewRow, Live
    <2>3. QED
        BY <1>1, <1>2, <2>1, <2>2 DEF Insert, Revised
<1>3. CASE Store(q)
    <2> DEFINE new == [Written(q) EXCEPT !.code = row.code, !.phase = row.phase]
    <2>1. pc[q] = "store"
        BY <1>3 DEF Store
    <2>2. ASSUME Matches(row, in.expected)
          PROVE  Revised(row, new)
        <3>1. /\ in.op \in Conditional /\ row \in Row /\ current[q] \in Row
              /\ Live(row) /\ row.version = in.expected
            BY <2>1, <2>2, MatchMeans
        <3>2. new.phase = row.phase /\ new.version = in.expected + 1
            BY <3>1, StoreStamps
        <3>3. new.code = row.code
            BY <3>1 DEF Written, Row, Conditional
        <3>4. QED
            BY <3>1, <3>2, <3>3 DEF Revised, Live
    <2>3. rows' = rows \/ (Matches(row, in.expected) /\ rows' = [rows EXCEPT ![in.rec] = new])
        BY <1>3 DEF Store
    <2>4. QED
        BY <1>1, <2>2, <2>3
<1>4. CASE Remove(q)
    <2>1. \/ rows' = rows
          \/ Live(row) /\ rows' = [rows EXCEPT ![in.rec] = [row EXCEPT !.phase = "deleted"]]
        BY <1>4 DEF Remove
    <2>2. QED
        BY <1>1, <2>1 DEF Revised
<1>5. QED
    BY <1>2, <1>3, <1>4

\* Whatever versions clients send, whatever interleaves or fails, a row is
\* written one version at a time, under the code it was created with, and
\* never again once it is removed (repository Create, Update and Delete).
THEOREM RevisionsAreInOrder == Spec => RevisionsInOrder
<1> DEFINE InOrder == \A r \in Records : Revised(rows[r], rows'[r])
<1>1. ASSUME CoreInv, Next
      PROVE  InOrder
    <2>1. ASSUME rows' = rows
          PROVE  InOrder
        BY <2>1 DEF Revised
    <2>2. ASSUME NEW q \in Requests, Insert(q) \/ Store(q) \/ Remove(q)
          PROVE  InOrder
        <3>1. rows \in [Records -> Row]
            BY <1>1 DEF CoreInv, TypeInv, TablesOK
        <3>2. QED
            BY <1>1, <2>1, <2>2, <3>1, WritesRevise DEF Revised
    <2>3. ASSUME NEW q \in Requests,
                 \/ SolarSiteHandler(q) \/ InverterUnitHandler(q)
                 \/ FaultEventHandler(q) \/ MitigationActionHandler(q)
                 \/ Get(q) \/ Audit(q) \/ Reread(q)
          PROVE  InOrder
        BY <2>1, <2>3, OtherStepsKeepRows
    <2>4. CASE Crash
        BY <2>1, <2>4 DEF Crash
    <2>5. QED
        BY <1>1, <2>2, <2>3, <2>4 DEF Next
<1>2. CoreInv /\ [Next]_vars => [InOrder]_vars
    BY <1>1
<1>3. QED
    BY <1>2, CoreCorrect, PTL DEF Spec, RevisionsInOrder

-----------------------------------------------------------------------------
(* Refinement. *)

\* The words of the abstract specification mean what they mean here.
LEMMA SameTables ==
    /\ VR!AbsentRow = AbsentRow
    /\ VR!AllStatuses = AllStatuses
    /\ VR!InitialStatus = InitialStatus
    /\ VR!Transitions = Transitions
    /\ \A row : VR!Live(row) <=> Live(row)
    /\ \A s, f, c : VR!NewRow(s, f, c) = NewRow(s, f, c)
    /\ \A t, c : VR!CodeFree(rows, t, c) <=> CodeFree(rows, t, c)
    /\ \A g, a, b : VR!CanTransition(g, a, b) <=> CanTransition(g, a, b)
    /\ VR!InitialTables = InitialTables
<1>1. VR!AbsentRow = AbsentRow
    BY DEF VR!AbsentRow, AbsentRow, VR!NoStatus, NoStatus, VR!NoField, NoField, VR!NoCode, NoCode
<1>2. VR!Transitions = Transitions
    BY DEF VR!Transitions, Transitions, VR!SolarSiteTransitions, SolarSiteTransitions,
           VR!InverterUnitTransitions, InverterUnitTransitions,
           VR!FaultEventTransitions, FaultEventTransitions,
           VR!MitigationActionTransitions, MitigationActionTransitions
<1>3. VR!AllStatuses = AllStatuses
    BY <1>2 DEF VR!AllStatuses, AllStatuses, VR!EntityTypes, EntityTypes, VR!StatusesOf, StatusesOf
<1>4. VR!InitialStatus = InitialStatus
    BY DEF VR!InitialStatus, InitialStatus
<1>5. \A row : VR!Live(row) <=> Live(row)
    BY DEF VR!Live, Live
<1>6. \A s, f, c : VR!NewRow(s, f, c) = NewRow(s, f, c)
    BY DEF VR!NewRow, NewRow
<1>7. \A t, c : VR!CodeFree(rows, t, c) <=> CodeFree(rows, t, c)
    BY DEF VR!CodeFree, CodeFree
<1>8. \A g, a, b : VR!CanTransition(g, a, b) <=> CanTransition(g, a, b)
    BY DEF VR!CanTransition, CanTransition
<1>9. VR!InitialTables = InitialTables
    <2>1. ASSUME NEW r
          PROVE  VR!FirstRows(r) = FirstRows(r)
        BY <1>1, <1>6 DEF VR!FirstRows, FirstRows
    <2>2. UNION {VR!FirstRows(r) : r \in Records} = UNION {FirstRows(r) : r \in Records}
        BY <2>1
    <2>3. QED
        BY <2>1, <2>2 DEF VR!InitialTables, InitialTables
<1>10. QED
    BY <1>1, <1>2, <1>3, <1>4, <1>5, <1>6, <1>7, <1>8, <1>9

\* Those atomic writes are the steps of VersionedRecords.
LEMMA AtomicImplements ==
    ASSUME TablesOK, Atomic
    PROVE  [VR!Next]_rows
<1>1. ASSUME NEW r \in Records, NEW f \in Fields, NEW c \in Codes, Created(r, f, c)
      PROVE  VR!Create(r)
    BY <1>1, SameTables DEF Created, VR!Create
<1>2. ASSUME NEW r \in Records, NEW f \in Fields, Edited(r, f)
      PROVE  VR!Edit(r)
    <2>1. rows' = [rows EXCEPT ![r].fields = f, ![r].version = @ + 1]
        BY <1>2 DEF Edited, TablesOK, Row
    <2>2. QED
        BY <1>2, <2>1, SameTables DEF Edited, VR!Edit
<1>3. ASSUME NEW r \in Records, NEW s \in AllStatuses, Moved(r, s)
      PROVE  VR!Move(r)
    <2>1. rows' = [rows EXCEPT ![r].status = s, ![r].version = @ + 1]
        BY <1>3 DEF Moved, TablesOK, Row
    <2>2. QED
        BY <1>3, <2>1, SameTables DEF Moved, VR!Move
<1>4. ASSUME NEW r \in Records, Removes(r)
      PROVE  VR!Remove(r)
    BY <1>4, SameTables DEF Removes, VR!Remove
<1>5. QED
    BY <1>1, <1>2, <1>3, <1>4 DEF Atomic, VR!Next

\* Seen through the tables, any number of interleaved, failing and dying
\* handlers perform the atomic writes of VersionedRecords and nothing else
\* (the four services over repository Store).
THEOREM HandlersAreAtomic ==
    ASSUME Lookahead = 0
    PROVE  Spec => AtomicRecords
<1>1. Init => VR!Init
    BY SameTables DEF Init, VR!Init
<1>2. CoreInv /\ [Next]_vars => [VR!Next]_rows
    BY StepIsAtomic, AtomicImplements DEF CoreInv, TypeInv
<1>3. QED
    BY <1>1, <1>2, CoreCorrect, PTL DEF Spec, AtomicRecords, VR!Spec

-----------------------------------------------------------------------------
(* Properties of single steps. *)

\* With clients that send versions they were shown, a status only changes along
\* an edge of its table's graph, although the graph is checked on a row read
\* one statement earlier (service Transition) and an update writes the status
\* it read back (service Update).
THEOREM StatusesFollowGraph ==
    ASSUME Lookahead = 0
    PROVE  Spec => StatusFollowsGraph
<1> DEFINE Follows ==
        \A r \in Records :
            /\ Live(rows[r]) /\ Live(rows'[r])
            /\ rows'[r].status # rows[r].status
            => CanTransition(Transitions[TypeOf[r]], rows[r].status, rows'[r].status)
<1>1. ASSUME CoreInv, Atomic
      PROVE  Follows
    <2> SUFFICES ASSUME NEW r \in Records, Live(rows[r]), Live(rows'[r]),
                        rows'[r].status # rows[r].status
                 PROVE  CanTransition(Transitions[TypeOf[r]], rows[r].status, rows'[r].status)
        OBVIOUS
    <2>1. rows \in [Records -> Row]
        BY <1>1 DEF CoreInv, TypeInv, TablesOK
    <2>2. ASSUME NEW s \in Records, NEW f \in Fields, NEW c \in Codes, Created(s, f, c)
          PROVE  FALSE
        BY <2>1, <2>2 DEF Created, Live, AbsentRow
    <2>3. ASSUME NEW s \in Records, NEW f \in Fields, Edited(s, f)
          PROVE  FALSE
        BY <2>1, <2>3 DEF Edited, Row
    <2>4. ASSUME NEW s \in Records, Removes(s)
          PROVE  FALSE
        BY <2>1, <2>4 DEF Removes, Row
    <2>5. ASSUME NEW s \in Records, NEW t \in AllStatuses, Moved(s, t)
          PROVE  CanTransition(Transitions[TypeOf[r]], rows[r].status, rows'[r].status)
        <3>1. s = r
            BY <2>1, <2>5 DEF Moved
        <3>2. rows'[r].status = t
            BY <2>1, <2>5, <3>1 DEF Moved, Row
        <3>3. QED
            BY <2>5, <3>1, <3>2 DEF Moved
    <2>6. QED
        BY <1>1, <2>2, <2>3, <2>4, <2>5 DEF Atomic
<1>2. CoreInv /\ [Next]_vars => [Follows]_vars
    BY <1>1, StepIsAtomic
<1>3. QED
    BY <1>2, CoreCorrect, PTL DEF Spec, StatusFollowsGraph

\* The statement of a handler is changed by a statement of its own, or by the
\* death of the process.
LEMMA WhoMoves ==
    ASSUME HandlersTyped, Next, NEW q \in Requests, pc[q] \in Statements, pc'[q] # pc[q]
    PROVE  Insert(q) \/ Get(q) \/ Store(q) \/ Remove(q) \/ Audit(q) \/ Reread(q) \/ Crash
<1> SUFFICES ASSUME ~Crash
             PROVE  Insert(q) \/ Get(q) \/ Store(q) \/ Remove(q) \/ Audit(q) \/ Reread(q)
    OBVIOUS
<1>1. ASSUME NEW p \in Requests, NEW t, Arrives(p, t)
      PROVE  FALSE
    <2>1. Idle(p) /\ \E s : pc' = [pc EXCEPT ![p] = s]
        BY <1>1 DEF Arrives, CreateArrives, UpdateArrives, TransitionArrives, DeleteArrives,
                    Answer, Accept
    <2>2. p = q
        BY <2>1 DEF HandlersTyped
    <2>3. QED
        BY <2>1, <2>2, NullsTyped DEF Idle
<1>2. PICK p \in Requests :
        \/ SolarSiteHandler(p) \/ InverterUnitHandler(p)
        \/ FaultEventHandler(p) \/ MitigationActionHandler(p)
        \/ Insert(p) \/ Get(p) \/ Store(p) \/ Remove(p) \/ Audit(p) \/ Reread(p)
    BY DEF Next
<1>3. ~Rejects(p)
    <2> SUFFICES ASSUME Rejects(p)
                 PROVE  FALSE
        OBVIOUS
    <2>1. Idle(p) /\ \E s : pc' = [pc EXCEPT ![p] = s]
        BY DEF Rejects, Answer
    <2>2. p = q
        BY <2>1 DEF HandlersTyped
    <2>3. QED
        BY <2>1, <2>2, NullsTyped DEF Idle
<1>4. Insert(p) \/ Get(p) \/ Store(p) \/ Remove(p) \/ Audit(p) \/ Reread(p)
    BY <1>1, <1>2, <1>3, HandlersServe
<1>5. \E s : pc' = [pc EXCEPT ![p] = s]
    <2>1. Insert(p) \/ Get(p) => \E s : pc' = [pc EXCEPT ![p] = s]
        BY DEF Insert, Get, Breaks, Answer
    <2>2. Store(p) \/ Remove(p) => \E s : pc' = [pc EXCEPT ![p] = s]
        BY DEF Store, Remove, Breaks, Answer, Continue
    <2>3. Audit(p) \/ Reread(p) => \E s : pc' = [pc EXCEPT ![p] = s]
        BY DEF Audit, Reread, Proceed, AuditFails, Breaks, Answer, Continue
    <2>4. QED
        BY <1>4, <2>1, <2>2, <2>3
<1>6. p = q
    BY <1>5 DEF HandlersTyped
<1>7. QED
    BY <1>4, <1>6

\* Some other write took the version request q expects, or removed the record.
Taken(q) ==
    \E e \in ledger :
        /\ e.rec = input[q].rec
        /\ \/ e.action = "delete"
           \/ e.action \in Conditional /\ e.version = input[q].expected + 1

\* The ledger is complete, so an UPDATE that does not match was overtaken.
LEMMA MismatchIsTaken ==
    ASSUME Lookahead = 0, CoreInv, NEW q \in Requests, pc[q] = "store",
           ~Matches(rows[input[q].rec], input[q].expected)
    PROVE  Taken(q)
<1> DEFINE in == input[q]
           row == rows[in.rec]
<1>1. Ready("store", in, current[q])
    BY DEF CoreInv, TypeInv, HandlersReady, Statements
<1>2. in.rec \in Records /\ in.expected \in Nat /\ row \in Row /\ row.version \in Nat
    BY <1>1 DEF Ready, Input, CoreInv, TypeInv, TablesOK, Row
<1>3. in.expected > 0 /\ in.expected <= row.version
    BY <1>1 DEF CoreInv, HandlersCoherent, CoherentAt, Ready
<1>4. CASE row.phase = "deleted"
    BY <1>2, <1>4 DEF CoreInv, LogsMatch, LedgerMatchesRows, Taken
<1>5. CASE Live(row)
    <2>1. in.expected + 1 \in Nat /\ in.expected + 1 > 1 /\ in.expected + 1 <= row.version
        BY <1>2, <1>3, <1>5 DEF Matches
    <2>2. QED
        BY <1>2, <2>1 DEF CoreInv, LogsMatch, LedgerMatchesRows, Taken
<1>6. row.phase # "absent"
    <2>1. row # AbsentRow
        BY <1>2, <1>3 DEF AbsentRow
    <2>2. QED
        BY <1>2, <2>1 DEF CoreInv, TypeInv, TablesOK, UsableRow
<1>7. QED
    BY <1>2, <1>4, <1>5, <1>6 DEF Row, Live

\* A conflict is reported by Store alone, and only when the version the client
\* expected was taken or the record removed (handler handleError).
THEOREM ConflictsAreJustified ==
    ASSUME Lookahead = 0
    PROVE  Spec => ConflictJustified
<1> DEFINE Justified ==
        \A q \in Requests :
            pc[q] \in Statements /\ pc'[q] = "version_conflict" => Taken(q)
<1>1. ASSUME CoreInv, Next, NEW q \in Requests, pc[q] \in Statements,
             pc'[q] = "version_conflict"
      PROVE  Taken(q)
    <2>1. HandlersTyped /\ pc[q] # "version_conflict"
        BY <1>1, NullsTyped DEF CoreInv, TypeInv, Answers
    <2>2. Insert(q) \/ Get(q) \/ Store(q) \/ Remove(q) \/ Audit(q) \/ Reread(q) \/ Crash
        BY <1>1, <2>1, WhoMoves
    <2>3. pc[q] = "store" /\ ~Matches(rows[input[q].rec], input[q].expected)
        <3>1. ASSUME Insert(q) \/ Get(q) \/ Remove(q)
              PROVE  FALSE
            BY <1>1, <2>1, <3>1 DEF Insert, Get, Remove, Breaks, Answer, Continue, HandlersTyped
        <3>2. ASSUME Audit(q) \/ Reread(q) \/ Crash
              PROVE  FALSE
            BY <1>1, <2>1, <3>2 DEF Audit, Reread, Crash, Proceed, AuditFails, Breaks, Answer,
               Continue, HandlersTyped
        <3>3. Store(q)
            BY <2>2, <3>1, <3>2
        <3>4. QED
            BY <1>1, <2>1, <3>3 DEF Store, Breaks, Answer, Continue, HandlersTyped
    <2>4. QED
        BY <1>1, <2>3, MismatchIsTaken
<1>2. CoreInv /\ [Next]_vars => [Justified]_vars
    BY <1>1
<1>3. QED
    BY <1>2, CoreCorrect, PTL DEF Spec, ConflictJustified, Taken

\* The write of request q is in the tables and, where a handler insists on it,
\* in the audit table.
Durable(q) ==
    LET op == input[q].op
        r == input[q].rec
    IN /\ \E e \in ledger : /\ e.by = q /\ e.rec = r /\ e.action = op
                            /\ op \in Conditional => e.version = input[q].expected + 1
       /\ op \in Conditional => rows'[r].version > input[q].expected
       /\ op \in {"transition", "delete"} =>
            \E i \in 1..Len(audits') :
                /\ audits'[i].by = q /\ audits'[i].rec = r
                /\ audits'[i].action = op
                /\ op = "transition" => audits'[i].version = input[q].expected + 1

\* An answer of success is given for a write that took effect, and for a
\* transition or a removal only with its audit row, whatever failed or
\* interleaved (the handlers create, update, transition and remove).
THEOREM SuccessesAreDurable == Spec => SuccessIsDurable
<1> DEFINE Honest ==
        \A q \in Requests :
            pc[q] \in Statements /\ pc'[q] \in {"created", "ok", "no_content"} => Durable(q)
<1>1. ASSUME CoreInv, Next, NEW q \in Requests, pc[q] \in Statements,
             pc'[q] \in {"created", "ok", "no_content"}
      PROVE  Durable(q)
    <2>1. HandlersTyped /\ pc'[q] # pc[q]
        BY <1>1, NullsTyped DEF CoreInv, TypeInv, Answers
    <2>2. Insert(q) \/ Get(q) \/ Store(q) \/ Remove(q) \/ Audit(q) \/ Reread(q) \/ Crash
        BY <1>1, <2>1, WhoMoves
    <2>3. ASSUME Insert(q) \/ Get(q) \/ Store(q) \/ Remove(q) \/ Crash
          PROVE  FALSE
        BY <1>1, <2>1, <2>3 DEF Insert, Get, Store, Remove, Crash, Breaks, Answer, Continue,
           HandlersTyped
    <2>4. Ready(pc[q], input[q], current[q]) /\ PastWriteAt(q)
        BY <1>1 DEF CoreInv, TypeInv, HandlersReady, HandlersCoherent
    <2>5. CASE Reread(q)
        <3>1. rows' = rows /\ audits' = audits /\ pc[q] = "reread"
            BY <2>5 DEF Reread
        <3>2. input[q].op \in Conditional
            BY <2>4, <3>1 DEF Ready
        <3>3. QED
            BY <2>4, <3>1, <3>2 DEF PastWriteAt, Committed, Durable, Conditional
    <2>6. CASE Audit(q)
        <3>1. rows' = rows /\ pc[q] = "audit"
            BY <2>6 DEF Audit
        <3>2. /\ input[q].op \in {"create", "delete"}
              /\ input[q].op = "delete" => audits' = Append(audits, AuditEntry(q))
            BY <1>1, <2>1, <2>6 DEF Audit, Proceed, AuditFails, AuditIsOptional, Answer, Continue,
               HandlersTyped
        <3>3. CASE input[q].op = "create"
            BY <2>4, <3>1, <3>3 DEF PastWriteAt, Committed, Durable, Conditional
        <3>4. CASE input[q].op = "delete"
            <4>1. AuditEntry(q) \in Entry /\ audits \in Seq(Entry)
                BY <1>1, <3>1, AuditEntryTyped DEF CoreInv, TypeInv, LogsTyped
            <4>2. Len(audits') \in 1..Len(audits') /\ audits'[Len(audits')] = AuditEntry(q)
                BY <3>2, <3>4, <4>1
            <4>3. /\ AuditEntry(q).by = q /\ AuditEntry(q).rec = input[q].rec
                  /\ AuditEntry(q).action = input[q].op
                BY DEF AuditEntry, EntryOf
            <4>4. QED
                BY <2>4, <3>1, <3>4, <4>2, <4>3 DEF PastWriteAt, Committed, Durable, Conditional
        <3>5. QED
            BY <3>2, <3>3, <3>4
    <2>7. QED
        BY <2>2, <2>3, <2>5, <2>6
<1>2. CoreInv /\ [Next]_vars => [Honest]_vars
    BY <1>1
<1>3. QED
    BY <1>2, CoreCorrect, PTL DEF Spec, SuccessIsDurable, Durable
-----------------------------------------------------------------------------
(* Completeness of the audit table. *)

\* A step of a handler that is not about to audit loses no account.
LEMMA StaysAccounted ==
    ASSUME CoreInv, NEW q \in Requests, pc[q] # "audit", OnlyMoves(q), audits' = audits,
           NEW e, Accounted(e)
    PROVE  Accounted(e)'
<1>1. ASSUME NEW i \in 1..Len(audits), SameWrite(audits[i], e)
      PROVE  Accounted(e)'
    BY <1>1 DEF Accounted, SameWrite
<1>2. ASSUME NEW p \in Requests, pc[p] = "audit", SameWrite(AuditEntry(p), e)
      PROVE  Accounted(e)'
    <2>1. pc'[p] = pc[p] /\ AuditEntry(p)' = AuditEntry(p)
        BY <1>2 DEF OnlyMoves, AuditEntry, EntryOf
    <2>2. SameWrite(AuditEntry(p), e)'
        BY <1>2, <2>1 DEF SameWrite
    <2>3. QED
        BY <1>2, <2>1, <2>2 DEF Accounted
<1>3. QED
    BY <1>1, <1>2 DEF Accounted

\* Statements that write neither a row nor an audit row, and arrivals, are moves
\* of a handler that is not about to audit.
LEMMA QuietMoves ==
    ASSUME CoreInv, NEW q \in Requests,
           \/ SolarSiteHandler(q) \/ InverterUnitHandler(q)
           \/ FaultEventHandler(q) \/ MitigationActionHandler(q)
           \/ Get(q) \/ Reread(q)
    PROVE  pc[q] # "audit" /\ OnlyMoves(q) /\ audits' = audits /\ ledger' = ledger
<1>1. HandlersTyped
    BY DEF CoreInv, TypeInv
<1>2. ASSUME NEW t, Arrives(q, t)
      PROVE  pc[q] # "audit" /\ OnlyMoves(q) /\ audits' = audits /\ ledger' = ledger
    <2>1. Idle(q) /\ audits' = audits /\ ledger' = ledger
        BY <1>2 DEF Arrives, CreateArrives, UpdateArrives, TransitionArrives, DeleteArrives
    <2>2. (\E reply : Answer(q, reply)) \/ (\E statement, in : Accept(q, statement, in))
        BY <1>2 DEF Arrives, CreateArrives, UpdateArrives, TransitionArrives, DeleteArrives
    <2>3. OnlyMoves(q)
        BY <1>1, <2>2, OnlyOneMoves, AnswerMovesOne DEF Accept
    <2>4. QED
        BY <2>1, <2>3 DEF Idle, Answers
<1>3. CASE Get(q) \/ Reread(q)
    <2>1. pc[q] # "audit" /\ audits' = audits /\ ledger' = ledger
        BY <1>3 DEF Get, Reread
    <2>2. \/ \E reply : Answer(q, reply)
          \/ \E s, row : /\ pc' = [pc EXCEPT ![q] = s] /\ UNCHANGED input
                         /\ current' = [current EXCEPT ![q] = row]
        BY <1>3 DEF Get, Reread, Breaks
    <2>3. OnlyMoves(q)
        BY <1>1, <2>2, OnlyOneMoves, AnswerMovesOne
    <2>4. QED
        BY <2>1, <2>3
<1>4. CASE Rejects(q)
    BY <1>1, <1>4, AnswerMovesOne DEF Rejects, Idle, Answers
<1>5. QED
    BY <1>2, <1>3, <1>4, HandlersServe

\* A creation needs no account: it changes no status.
LEMMA InsertKeepsAccounts ==
    ASSUME CoreInv, EveryChangeAudited, NEW q \in Requests, Insert(q)
    PROVE  EveryChangeAudited'
<1>1. /\ pc[q] = "insert" /\ HandlersTyped /\ audits' = audits
      /\ input[q].op = "create"
    BY DEF Insert, CoreInv, TypeInv, HandlersReady, Ready, Statements
<1>2. \A e \in ledger' : e \in ledger \/ e.action = "create"
    BY <1>1 DEF Insert, EntryOf
<1>3. OnlyMoves(q)
    <2>1. \/ \E reply : Answer(q, reply)
          \/ \E s, row : /\ pc' = [pc EXCEPT ![q] = s] /\ UNCHANGED input
                         /\ current' = [current EXCEPT ![q] = row]
        BY DEF Insert, Breaks
    <2>2. QED
        BY <1>1, <2>1, OnlyOneMoves, AnswerMovesOne
<1>4. ASSUME NEW e \in ledger', e.action \in {"transition", "delete"}
      PROVE  Accounted(e)'
    BY <1>1, <1>2, <1>3, <1>4, StaysAccounted DEF EveryChangeAudited, Accounted
<1>5. QED
    BY <1>4 DEF EveryChangeAudited, Accounted

\* The handler that has just updated a row holds the account of its write.
LEMMA StoreKeepsAccounts ==
    ASSUME Lookahead = 0, CoreInv, ~Faults, EveryChangeAudited, NEW q \in Requests, Store(q)
    PROVE  EveryChangeAudited'
<1> DEFINE in == input[q]
           row == rows[in.rec]
           item == Written(q)
           new == EntryOf(q, row.status, item.status, item.version)
<1>1. pc[q] = "store" /\ HandlersTyped /\ audits' = audits
    BY DEF Store, CoreInv, TypeInv
<1>2. CASE /\ Matches(row, in.expected)
           /\ ledger' = ledger \cup {new}
           /\ Continue(q, "audit")
    <2>1. /\ OnlyMoves(q) /\ pc'[q] = "audit"
          /\ input'[q] = in /\ current'[q] = current[q]
        BY <1>1, <1>2, ContinueMovesOne
    <2>2. current[q] = row /\ row \in Row /\ in.op \in Conditional
        BY <1>1, <1>2, MatchMeans, MatchIsLatest
    <2>3. /\ item.version = in.expected + 1
          /\ item.status = IF in.op = "transition" THEN in.target ELSE row.status
        BY <2>2, StoreStamps
    <2>4. PICK e : e = new
        OBVIOUS
    <2>5. AuditEntry(q)' = e
        BY <2>1, <2>2, <2>3, <2>4 DEF AuditEntry, EntryOf, Conditional
    <2>6. e.action # "delete"
        BY <2>2, <2>4 DEF EntryOf, Conditional
    <2>7. Accounted(e)'
        BY <2>1, <2>5, <2>6 DEF Accounted, SameWrite
    <2>8. \A d \in ledger : d.action \in {"transition", "delete"} => Accounted(d)'
        BY <1>1, <2>1, StaysAccounted DEF EveryChangeAudited, Accounted
    <2>9. QED
        BY <1>2, <2>4, <2>7, <2>8 DEF EveryChangeAudited, Accounted
<1>3. CASE Answer(q, "version_conflict") /\ ledger' = ledger
    <2>1. OnlyMoves(q)
        BY <1>1, <1>3, AnswerMovesOne
    <2>2. QED
        BY <1>1, <1>3, <2>1, StaysAccounted DEF EveryChangeAudited, Accounted
<1>4. QED
    BY <1>2, <1>3 DEF Store, Breaks

\* The handler that has just removed a row holds the account of its removal.
LEMMA RemoveKeepsAccounts ==
    ASSUME CoreInv, ~Faults, EveryChangeAudited, NEW q \in Requests, Remove(q)
    PROVE  EveryChangeAudited'
<1> DEFINE in == input[q]
           row == rows[in.rec]
           new == EntryOf(q, row.status, Removed, row.version)
<1>1. pc[q] = "remove" /\ HandlersTyped /\ audits' = audits /\ in.op = "delete"
    BY DEF Remove, CoreInv, TypeInv, HandlersReady, Ready, Statements
<1>2. CASE ledger' = ledger \cup {new} /\ Continue(q, "audit")
    <2>1. /\ OnlyMoves(q) /\ pc'[q] = "audit"
          /\ input'[q] = in /\ current'[q] = current[q]
        BY <1>1, <1>2, ContinueMovesOne
    <2>2. AuditEntry(q)'.action = "delete" /\ AuditEntry(q)'.rec = in.rec
        BY <1>1, <2>1 DEF AuditEntry, EntryOf
    <2>3. PICK e : e = new
        OBVIOUS
    <2>4. e.action = "delete" /\ e.rec = in.rec
        BY <1>1, <2>3 DEF EntryOf
    <2>5. Accounted(e)'
        BY <2>1, <2>2, <2>4 DEF Accounted, SameWrite
    <2>6. \A d \in ledger : d.action \in {"transition", "delete"} => Accounted(d)'
        BY <1>1, <2>1, StaysAccounted DEF EveryChangeAudited, Accounted
    <2>7. QED
        BY <1>2, <2>3, <2>5, <2>6 DEF EveryChangeAudited, Accounted
<1>3. CASE Answer(q, "not_found") /\ ledger' = ledger
    <2>1. OnlyMoves(q)
        BY <1>1, <1>3, AnswerMovesOne
    <2>2. QED
        BY <1>1, <1>3, <2>1, StaysAccounted DEF EveryChangeAudited, Accounted
<1>4. QED
    BY <1>2, <1>3 DEF Remove, Breaks

\* The account that the handler held is in the audit table now.
LEMMA AuditKeepsAccounts ==
    ASSUME CoreInv, ~Faults, EveryChangeAudited, NEW q \in Requests, Audit(q)
    PROVE  EveryChangeAudited'
<1> DEFINE entry == AuditEntry(q)
<1>1. /\ pc[q] = "audit" /\ HandlersTyped /\ ledger' = ledger
      /\ audits' = Append(audits, entry) /\ Proceed(q)
    BY DEF Audit, AuditFails, CoreInv, TypeInv
<1>2. OnlyMoves(q)
    BY <1>1, AnswerMovesOne, ContinueMovesOne DEF Proceed
<1>3. audits \in Seq(Entry) /\ entry \in Entry
    BY <1>1, AuditEntryTyped DEF CoreInv, TypeInv, LogsTyped
<1>4. /\ Len(audits') \in 1..Len(audits') /\ audits'[Len(audits')] = entry
      /\ \A i \in 1..Len(audits) : i \in 1..Len(audits') /\ audits'[i] = audits[i]
    BY <1>1, <1>3
<1>5. ASSUME NEW e, Accounted(e)
      PROVE  Accounted(e)'
    <2>1. ASSUME NEW i \in 1..Len(audits), SameWrite(audits[i], e)
          PROVE  Accounted(e)'
        <3>1. SameWrite(audits'[i], e) /\ i \in 1..Len(audits')
            BY <1>4, <2>1
        <3>2. QED
            BY <3>1 DEF Accounted, SameWrite
    <2>2. CASE SameWrite(entry, e)
        <3>1. SameWrite(audits'[Len(audits')], e)
            BY <1>4, <2>2
        <3>2. QED
            BY <1>4, <3>1 DEF Accounted, SameWrite
    <2>3. ASSUME NEW p \in Requests \ {q}, pc[p] = "audit", SameWrite(AuditEntry(p), e)
          PROVE  Accounted(e)'
        <3>1. pc'[p] = pc[p] /\ AuditEntry(p)' = AuditEntry(p)
            BY <1>2 DEF OnlyMoves, AuditEntry, EntryOf
        <3>2. SameWrite(AuditEntry(p), e)'
            BY <2>3, <3>1 DEF SameWrite
        <3>3. QED
            BY <2>3, <3>1, <3>2 DEF Accounted
    <2>4. QED
        BY <1>5, <2>1, <2>2, <2>3 DEF Accounted
<1>6. QED
    BY <1>1, <1>5 DEF EveryChangeAudited, Accounted

\* As long as no statement fails and the process lives, every change of status and
\* every removal reaches the audit table, or its handler is about to insert it
\* (the services' calls of security.Audit).
THEOREM ChangesAreAudited ==
    ASSUME Lookahead = 0, ~Faults
    PROVE  Spec => []EveryChangeAudited
<1>1. Init => EveryChangeAudited
    BY DEF Init, EveryChangeAudited
<1>2. ASSUME CoreInv, EveryChangeAudited, [Next]_vars
      PROVE  EveryChangeAudited'
    <2>1. CASE UNCHANGED vars
        BY <1>2, <2>1 DEF vars, EveryChangeAudited, Accounted, SameWrite, AuditEntry, EntryOf
    <2>2. ASSUME NEW q \in Requests,
                 \/ SolarSiteHandler(q) \/ InverterUnitHandler(q)
                 \/ FaultEventHandler(q) \/ MitigationActionHandler(q)
                 \/ Get(q) \/ Reread(q)
          PROVE  EveryChangeAudited'
        <3>1. pc[q] # "audit" /\ OnlyMoves(q) /\ audits' = audits /\ ledger' = ledger
            BY <1>2, <2>2, QuietMoves
        <3>2. QED
            BY <1>2, <3>1, StaysAccounted DEF EveryChangeAudited, Accounted
    <2>3. ASSUME NEW q \in Requests, Insert(q) \/ Store(q) \/ Remove(q) \/ Audit(q)
          PROVE  EveryChangeAudited'
        BY <1>2, <2>3, InsertKeepsAccounts, StoreKeepsAccounts, RemoveKeepsAccounts,
           AuditKeepsAccounts
    <2>4. ~Crash
        BY DEF Crash
    <2>5. QED
        BY <1>2, <2>1, <2>2, <2>3, <2>4 DEF Next
<1>3. QED
    BY <1>1, <1>2, CoreCorrect, PTL DEF Spec
=============================================================================
