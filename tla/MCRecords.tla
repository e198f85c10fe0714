------------------------------ MODULE MCRecords ------------------------------
(* Small instances of IncidentRecords for TLC. *)
EXTENDS IncidentRecords, FiniteSets, TLC

CONSTANTS
    site1, unit1, unit2, fault1, action1,     \* records, one name per row
    q1, q2,                                   \* handlers
    f1, f2                                    \* business fields

MCTypeOf ==
    [r \in Records |-> CASE r = site1            -> "SolarSite"
                         [] r \in {unit1, unit2} -> "InverterUnit"
                         [] r = fault1           -> "FaultEvent"
                         [] OTHER                -> "MitigationAction"]
MCSeedCode == [r \in Seeded |-> "001"]
MCSeedStatus == [r \in Seeded |-> InitialStatus[MCTypeOf[r]]]

\* " 001" is the seeded code with a blank in front, " " is a blank code.
MCCanonical ==
    [c \in RawCodes |-> CASE c = " "    -> NoCode
                          [] c = " 001" -> "001"
                          [] OTHER      -> c]

\* Bound: no behaviour is followed beyond its third write.
FewWrites == Cardinality(ledger) < 3

Interchangeable == Permutations(Requests) \cup Permutations(Fields)
=============================================================================
