-------------------------- MODULE VersionedRecords --------------------------
(***************************************************************************)
(* What the four record services promise of the tables, and no more: every *)
(* committed write is one atomic step of one row, made on the row's latest *)
(* contents.  An edit changes the business fields and nothing else, a move *)
(* follows one edge of the status graph and changes nothing else, both     *)
(* raise the version by exactly one, a code never changes and is never     *)
(* used twice in a table, and a removed row stays removed.                 *)
(* There are no handlers, snapshots or failures here: IncidentRecords has  *)
(* them and implements this specification.                                 *)
(***************************************************************************)
EXTENDS RecordRows

VARIABLE rows

Init == rows \in InitialTables

\* A record appears in its initial status, at version 1, under a free code.
Create(r) ==
    /\ rows[r] = AbsentRow
    /\ \E f \in Fields, c \in Codes :
          /\ CodeFree(rows, TypeOf[r], c)
          /\ rows' = [rows EXCEPT ![r] = NewRow(InitialStatus[TypeOf[r]], f, c)]

\* The business fields are replaced: status and code are kept.
Edit(r) ==
    /\ Live(rows[r])
    /\ \E f \in Fields :
          rows' = [rows EXCEPT ![r].fields = f, ![r].version = @ + 1]

\* The status moves along an edge of its graph: fields and code are kept.
Move(r) ==
    /\ Live(rows[r])
    /\ \E s \in AllStatuses :
          /\ CanTransition(Transitions[TypeOf[r]], rows[r].status, s)
          /\ rows' = [rows EXCEPT ![r].status = s, ![r].version = @ + 1]

\* The row is hidden and kept, at the version it had.
Remove(r) ==
    /\ Live(rows[r])
    /\ rows' = [rows EXCEPT ![r].phase = "deleted"]

Next == \E r \in Records : Create(r) \/ Edit(r) \/ Move(r) \/ Remove(r)

Spec == Init /\ [][Next]_rows
=============================================================================
