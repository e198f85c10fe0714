----------------------------- MODULE RecordRows -----------------------------
(***************************************************************************)
(* The rows of the four business tables, as gorm stores them for           *)
(* backend/internal/model/base.go.  A row keeps what the concurrency and   *)
(* audit properties tell apart: whether it exists (a removed row keeps its *)
(* place in the unique index of codes: deletion is soft), its status, its  *)
(* version, its code, and its business fields as one opaque value.         *)
(***************************************************************************)
EXTENDS StatusGraphs, Naturals

CONSTANTS
    Records,    \* the primary keys the tables may come to hold
    TypeOf,     \* the table each of them belongs to
    Seeded,     \* the rows the first boot inserts
    SeedCode,   \* the code of each seeded row
    SeedStatus, \* the status of each seeded row
    Codes,      \* codes as stored: trimmed and in upper case
    Fields      \* values of the remaining, non-blank business fields

NoField == "no field"
NoStatus == "no status"
NoCode == "no code"

ASSUME RowsAssumption ==
    /\ TypeOf \in [Records -> EntityTypes]
    /\ Seeded \subseteq Records
    /\ SeedCode \in [Seeded -> Codes]
    /\ SeedStatus \in [Seeded -> AllStatuses]
    /\ \A r \in Seeded : SeedStatus[r] \in SeedStatuses[TypeOf[r]]
    /\ \A r, s \in Seeded :
          r # s /\ TypeOf[r] = TypeOf[s] =>
              SeedCode[r] # SeedCode[s] /\ SeedStatus[r] # SeedStatus[s]
    /\ NoCode \notin Codes /\ NoField \notin Fields

Row == [phase   : {"absent", "live", "deleted"},
        status  : AllStatuses \cup {NoStatus},
        version : Nat,
        fields  : Fields \cup {NoField},
        code    : Codes \cup {NoCode}]

\* A primary key no insert has used yet.
AbsentRow == [phase |-> "absent", status |-> NoStatus, version |-> 0,
              fields |-> NoField, code |-> NoCode]

\* A row as the first insert of record r leaves it.
NewRow(status, fields, code) ==
    [phase |-> "live", status |-> status, version |-> 1,
     fields |-> fields, code |-> code]

FirstRows(r) ==
    IF r \in Seeded THEN {NewRow(SeedStatus[r], f, SeedCode[r]) : f \in Fields}
                    ELSE {AbsentRow}

\* The tables as the first boot leaves them.
InitialTables ==
    {t \in [Records -> UNION {FirstRows(r) : r \in Records}] :
        \A r \in Records : t[r] \in FirstRows(r)}

Live(row) == row.phase = "live"

\* Variant: the index forgets removed rows.
CodeFreeAmongLive(tables, t, code) ==
    \A r \in Records : TypeOf[r] = t /\ Live(tables[r]) => tables[r].code # code

\* The unique index of a table: rows of one table never share a code, and a
\* removed row keeps its own.
CodeFree(tables, t, code) ==
    \A r \in Records : TypeOf[r] = t => tables[r].code # code
=============================================================================
