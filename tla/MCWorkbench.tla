----------------------------- MODULE MCWorkbench -----------------------------
(* Small instances of Workbench for TLC. *)
EXTENDS Workbench, TLC

CONSTANTS
    r1,        \* a record
    c1, c2     \* calls

MCTypeOf == [r \in Records |-> Page]
MCSeedCode == [r \in Seeded |-> "001"]
MCSeedStatus == [r \in Seeded |-> InitialStatus[Page]]
MCSearches == {Records}
=============================================================================
