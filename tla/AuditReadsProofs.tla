--------------------------- MODULE AuditReadsProofs ---------------------------
(***************************************************************************)
(* Reading the audit log: for any number of entries, actors, records and   *)
(* moments, any limits, windows and page size.                             *)
(*                                                                         *)
(* The argument: a stored entry never changes and is never removed, so     *)
(* whatever is counted later is counted in a larger set, whatever a        *)
(* history has shown is still there to be shown, and the number of entries *)
(* above an entry of the log only grows: a walk that has not come to the   *)
(* entry yet has not passed it either.                                     *)
(***************************************************************************)
EXTENDS AuditReads, FiniteSetTheorems, TLAPS

Full == [is : {"pending", "stored"}, time : 0..MaxTime, actor : Actors, kind : Kinds,
         entity : Entities]

\* The clock and the log.
LogInv == now \in 0..MaxTime /\ slots \in [Slots -> Full \cup {Empty}] /\ reader \in Readers

\* Stored entries stay as they are.
Kept == Stored \subseteq Stored' /\ \A s \in Stored : slots'[s] = slots[s]

\* The log is empty at first.
LEMMA LogInit == Init => LogInv
<1>1. 0 \in 0..MaxTime
    BY AuditReadsAssumption
<1>2. QED
    BY <1>1 DEF Init, LogInv

\* Only Begin and Append change the log, and neither a stored entry.
LEMMA LogStep ==
    ASSUME LogInv, [Next]_vars
    PROVE  LogInv' /\ Kept
<1>1. CASE UNCHANGED slots /\ now' \in 0..MaxTime /\ reader' = reader
    BY <1>1 DEF LogInv, Kept, Stored
<1>2. CASE \E s \in Slots, actor \in Actors, kind \in Kinds, entity \in Entities :
              Begin(s, actor, kind, entity)
    <2>1. PICK s \in Slots, x \in Full :
              /\ slots[s] = Empty /\ slots' = [slots EXCEPT ![s] = x]
              /\ UNCHANGED <<now, reader>>
        BY <1>2 DEF Begin, LogInv, Full
    <2>2. QED
        BY <2>1 DEF LogInv, Kept, Stored, Empty
<1>3. CASE \E s \in Slots : Append(s)
    <2>1. PICK s \in Slots : Append(s)
        BY <1>3
    <2>2. slots[s] \in Full /\ slots[s].is = "pending"
        BY <2>1 DEF Append, LogInv, Empty
    <2>3. [slots[s] EXCEPT !.is = "stored"] \in Full
        BY <2>2 DEF Full
    <2>4. PICK x : slots' = [slots EXCEPT ![s] = x] /\ x \in Full \cup {Empty}
        BY <2>1, <2>3 DEF Append
    <2>5. QED
        BY <2>1, <2>2, <2>4 DEF Append, LogInv, Kept, Stored
<1>4. CASE Tick
    <2>1. now' \in 0..MaxTime
        BY <1>4, AuditReadsAssumption DEF Tick, LogInv
    <2>2. QED
        BY <1>1, <1>4, <2>1 DEF Tick
<1>5. CASE /\ UNCHANGED <<now, slots, reader>>
    BY <1>1, <1>5 DEF LogInv
<1>6. QED
    BY <1>2, <1>3, <1>4, <1>5
       DEF Next, vars, StartWalk, ListAudits, EntityHistory, StartSummary, CountTotal,
           CountTransitions, CountActors, CountActions, CountEntityTypes, EndSummary

\* Sets of entries are finite, and larger sets count more.
LEMMA Counting ==
    ASSUME NEW S \in SUBSET Slots
    PROVE  /\ IsFiniteSet(S) /\ Cardinality(S) \in Nat
           /\ \A T \in SUBSET S : Cardinality(T) \in Nat /\ Cardinality(T) <= Cardinality(S)
<1>1. IsFiniteSet(S)
    BY FS_Subset, AuditReadsAssumption
<1>2. \A T \in SUBSET S : IsFiniteSet(T) /\ Cardinality(T) <= Cardinality(S)
    BY <1>1, FS_Subset
<1>3. QED
    BY <1>1, <1>2, FS_CardinalityType

-----------------------------------------------------------------------------
(* Histories. *)

HistoryInv ==
    /\ history.limit \in 0..MaxLimit
    /\ \A s \in history.shown : s \in Stored /\ slots[s].entity = history.entity
    /\ Cardinality(history.shown) <= history.limit

\* What a history has shown stays in the log.
LEMMA HistoryStep ==
    ASSUME LogInv, HistoryInv, [Next]_vars
    PROVE  HistoryInv'
<1>1. Kept
    BY LogStep
<1>2. CASE UNCHANGED history
    BY <1>1, <1>2 DEF HistoryInv, Kept
<1>3. CASE \E entity \in Entities, asked \in AskedLimits : EntityHistory(entity, asked)
    <2>1. PICK entity \in Entities, asked \in AskedLimits : EntityHistory(entity, asked)
        BY <1>3
    <2>2. PICK shown \in Latest({s \in Stored : slots[s].entity = entity}, UsedLimit(asked)) :
              /\ history' = [entity |-> entity, limit |-> UsedLimit(asked), shown |-> shown]
              /\ slots' = slots
        BY <2>1 DEF EntityHistory
    <2>3. UsedLimit(asked) \in 0..MaxLimit
        BY <2>1, AuditReadsAssumption DEF UsedLimit
    <2>4. QED
        BY <2>2, <2>3 DEF HistoryInv, Latest, Stored
<1>4. QED
    BY <1>2, <1>3
       DEF Next, vars, Begin, Append, StartWalk, ListAudits, StartSummary, CountTotal,
           CountTransitions, CountActors, CountActions, CountEntityTypes, EndSummary, Tick

\* A set that is no smaller and lacks an element of the other has one the other lacks.
LEMMA Exchange ==
    ASSUME NEW S \in SUBSET Slots, NEW T \in SUBSET Slots,
           Cardinality(S) <= Cardinality(T), NEW s \in S, s \notin T
    PROVE  \E t \in T : t \notin S
<1> SUFFICES ASSUME T \subseteq S PROVE FALSE
    OBVIOUS
<1>1. IsFiniteSet(S) /\ Cardinality(S) \in Nat /\ Cardinality(T) \in Nat
    BY Counting
<1>2. Cardinality(T) <= Cardinality(S) /\ (Cardinality(S) = Cardinality(T) => S = T)
    BY <1>1, FS_Subset
<1>3. QED
    BY <1>1, <1>2

\* A longer history of the same record only drops entries for younger ones.
LEMMA HistoryDrops ==
    ASSUME LogInv, HistoryInv, [Next]_vars,
           history'.entity = history.entity, history'.limit >= history.limit,
           NEW s \in history.shown \ history'.shown
    PROVE  \E t \in history'.shown \ history.shown : slots[t].time >= slots[s].time
<1>1. PICK entity \in Entities, asked \in AskedLimits : EntityHistory(entity, asked)
    BY DEF Next, vars, Begin, Append, StartWalk, ListAudits, StartSummary, CountTotal,
           CountTransitions, CountActors, CountActions, CountEntityTypes, EndSummary, Tick
<1> DEFINE about == {e \in Stored : slots[e].entity = entity}
<1>2. PICK shown \in Latest(about, UsedLimit(asked)) :
          history' = [entity |-> entity, limit |-> UsedLimit(asked), shown |-> shown]
    BY <1>1 DEF EntityHistory
<1>3. s \in about /\ s \notin shown
    BY <1>2 DEF HistoryInv
<1>4. shown \subseteq about /\ Cardinality(shown) = UsedLimit(asked)
    BY <1>2, <1>3 DEF Latest
<1>5. Cardinality(history.shown) <= Cardinality(shown)
    <2>1. /\ history.limit \in Int /\ UsedLimit(asked) \in Int
          /\ Cardinality(history.shown) \in Int
        <3>1. history.shown \in SUBSET Slots
            BY DEF HistoryInv, Stored
        <3>2. QED
            BY <3>1, Counting, AuditReadsAssumption DEF HistoryInv, UsedLimit
    <2>2. QED
        BY <1>2, <1>4, <2>1 DEF HistoryInv
<1>6. PICK t \in shown : t \notin history.shown
    <2>1. history.shown \in SUBSET Slots /\ shown \in SUBSET Slots
        BY <1>4 DEF HistoryInv, Stored
    <2>2. QED
        BY <1>3, <1>5, <2>1, Exchange
<1>7. slots[t].time >= slots[s].time
    BY <1>2, <1>3, <1>6 DEF Latest
<1>8. QED
    BY <1>2, <1>6, <1>7

\* The invariant of the log and its histories.
LEMMA HistoryInductive == Spec => [](LogInv /\ HistoryInv)
<1>1. Init => HistoryInv
    <2>1. Cardinality({}) = 0
        BY FS_EmptySet
    <2>2. QED
        BY <2>1, AuditReadsAssumption DEF Init, HistoryInv, NoHistory
<1>2. LogInv /\ HistoryInv /\ [Next]_vars => LogInv' /\ HistoryInv'
    BY LogStep, HistoryStep
<1>3. QED
    BY LogInit, <1>1, <1>2, PTL DEF Spec

\* A later history of a record, not shorter, only lacks an entry of an earlier
\* one if one at least as young has come instead (EntityHistory).
THEOREM HistoriesDropOldest == Spec => HistoryDropsOldest
<1>1. LogInv /\ HistoryInv /\ [Next]_vars =>
        [/\ history'.entity = history.entity
         /\ history'.limit >= history.limit
         => \A s \in history.shown \ history'.shown :
               \E t \in history'.shown \ history.shown : slots[t].time >= slots[s].time]_vars
    BY HistoryDrops
<1>2. QED
    BY HistoryInductive, <1>1, PTL DEF Spec, HistoryDropsOldest

-----------------------------------------------------------------------------
(* Summaries. *)

Ats == {"total", "transitions", "actors", "actions", "types", "answer"}
Sums == [at : Ats, window : 1..MaxWindow, since : Int, total : Nat, transitions : Nat,
         actors : Nat, moves : Nat, actions : Nat, types : Nat]

\* What each count has to do with the entries that are there.
SumsSmall ==
    /\ summary.at # "total" => summary.total <= Cardinality(Within)
    /\ summary.at \notin {"total", "transitions"} =>
          summary.transitions <= Cardinality(Transitions(Within))
    /\ summary.at \notin {"total", "transitions", "actors"} =>
          /\ summary.actors <= Cardinality(Within)
          /\ summary.total > 0 => summary.actors > 0
    /\ summary.at \in {"types", "answer"} =>
          /\ summary.total <= summary.actions
          /\ summary.transitions <= summary.moves
          /\ summary.actors <= summary.actions
          /\ summary.actions <= Cardinality(Within)
    /\ summary.at = "answer" =>
          summary.actions <= summary.types /\ summary.types <= Cardinality(Within)

SummaryInv == summary = Idle \/ (summary \in Sums /\ SumsSmall)

\* The entries a summary counts are the same or more after a step that leaves
\* the summary alone.
LEMMA CountsGrow ==
    ASSUME Kept, summary' = summary
    PROVE  /\ Cardinality(Within) \in Nat /\ Cardinality(Within') \in Nat
           /\ Cardinality(Within) <= Cardinality(Within')
           /\ Cardinality(Transitions(Within)) \in Nat
           /\ Cardinality(Transitions(Within)') \in Nat
           /\ Cardinality(Transitions(Within)) <= Cardinality(Transitions(Within)')
<1>1. Transitions(Within)' \in SUBSET Slots /\ Within' \in SUBSET Slots
    BY DEF Transitions, Within, Stored
<1>2. Transitions(Within) \subseteq Transitions(Within)' /\ Within \subseteq Within'
    BY DEF Kept, Within, Stored, Transitions
<1>3. QED
    BY <1>1, <1>2, Counting

\* The actors of entries are no more than the entries, and there are some if
\* there are entries.
LEMMA ActorsCounted ==
    ASSUME NEW S \in SUBSET Slots
    PROVE  LET A == {slots[s].actor : s \in S}
           IN  /\ Cardinality(A) \in Nat
               /\ Cardinality(A) <= Cardinality(S)
               /\ Cardinality(S) > 0 => Cardinality(A) > 0
<1> DEFINE A == {slots[s].actor : s \in S}
           f == [s \in S |-> slots[s].actor]
<1>1. IsFiniteSet(S) /\ Cardinality(S) \in Nat
    BY Counting
<1>2. f \in Surjection(S, A)
    BY DEF Surjection
<1>3. IsFiniteSet(A) /\ Cardinality(A) <= Cardinality(S)
    BY <1>1, <1>2, FS_Surjection
<1>4. Cardinality(A) \in Nat
    BY <1>3, FS_CardinalityType
<1>5. ASSUME Cardinality(S) > 0 PROVE Cardinality(A) # 0
    <2>1. S # {}
        BY <1>1, <1>5, FS_EmptySet
    <2>2. A # {}
        BY <2>1
    <2>3. QED
        BY <1>3, <2>2, FS_EmptySet
<1>6. QED
    BY <1>3, <1>4, <1>5

\* Each count is of no fewer entries than those before it.
LEMMA SummaryStep ==
    ASSUME LogInv, SummaryInv, [Next]_vars
    PROVE  SummaryInv'
<1>1. Kept
    BY LogStep
<1>2. CASE UNCHANGED summary
    <2>1. CASE summary = Idle
        BY <1>2, <2>1 DEF SummaryInv
    <2>2. CASE summary \in Sums /\ SumsSmall
        <3>1. /\ Cardinality(Within) \in Nat /\ Cardinality(Within') \in Nat
              /\ Cardinality(Within) <= Cardinality(Within')
              /\ Cardinality(Transitions(Within)) \in Nat
              /\ Cardinality(Transitions(Within)') \in Nat
              /\ Cardinality(Transitions(Within)) <= Cardinality(Transitions(Within)')
            BY <1>1, <1>2, CountsGrow
        <3>2. /\ summary.total \in Nat /\ summary.transitions \in Nat
              /\ summary.actors \in Nat /\ summary.moves \in Nat
              /\ summary.actions \in Nat /\ summary.types \in Nat
            BY <2>2 DEF Sums
        <3>3. SumsSmall'
            BY <1>2, <2>2, <3>1, <3>2 DEF SumsSmall
        <3>4. QED
            BY <1>2, <2>2, <3>3 DEF SummaryInv
    <2>3. QED
        BY <2>1, <2>2 DEF SummaryInv
<1>3. CASE \E asked \in AskedWindows : StartSummary(asked)
    <2>1. PICK asked \in AskedWindows : StartSummary(asked)
        BY <1>3
    <2>2. UsedWindow(asked) \in 1..MaxWindow /\ now \in Int
        BY AuditReadsAssumption DEF UsedWindow, LogInv
    <2>3. summary' = [at |-> "total", window |-> UsedWindow(asked),
                      since |-> now - UsedWindow(asked), total |-> 0, transitions |-> 0,
                      actors |-> 0, moves |-> 0, actions |-> 0, types |-> 0]
        BY <2>1 DEF StartSummary, Idle
    <2>4. now - UsedWindow(asked) \in Int
        BY <2>2, AuditReadsAssumption
    <2>5. summary' \in Sums /\ summary'.at = "total"
        BY <2>2, <2>3, <2>4 DEF Sums, Ats
    <2>6. SumsSmall'
        BY <2>5 DEF SumsSmall
    <2>7. QED
        BY <2>5, <2>6 DEF SummaryInv
<1>4. CASE EndSummary
    BY <1>4 DEF EndSummary, SummaryInv
<1>5. ASSUME UNCHANGED slots, summary # Idle, summary'.since = summary.since
      PROVE  /\ summary \in Sums /\ SumsSmall
             /\ Within' = Within /\ Transitions(Within)' = Transitions(Within)
             /\ Within \in SUBSET Slots /\ Cardinality(Within) \in Nat
             /\ Transitions(Within) \in SUBSET Slots /\ Cardinality(Transitions(Within)) \in Nat
    <2>1. Within \in SUBSET Slots /\ Transitions(Within) \in SUBSET Slots
        BY DEF Within, Stored, Transitions
    <2>2. QED
        BY <1>5, <2>1, Counting DEF SummaryInv, Within, Stored, Transitions
<1>6. \A at \in Ats : summary.at = at => summary # Idle
    BY DEF Ats, Idle
<1>7. CASE CountTotal
    <2>1. /\ summary.at = "total" /\ slots' = slots
          /\ summary' = [summary EXCEPT !.at = "transitions", !.total = Cardinality(Within)]
        BY <1>7 DEF CountTotal
    <2>2. summary \in Sums
        BY <1>6, <2>1 DEF SummaryInv, Ats
    <2>3. /\ summary'.at = "transitions" /\ summary'.total = Cardinality(Within)
          /\ summary'.since = summary.since
        BY <2>1, <2>2 DEF Sums
    <2>4. summary' \in Sums
        BY <1>5, <1>6, <2>1, <2>2, <2>3 DEF Sums, Ats
    <2>5. SumsSmall'
        BY <1>5, <1>6, <2>1, <2>3, <2>4 DEF SumsSmall, Sums, Ats
    <2>6. QED
        BY <2>4, <2>5 DEF SummaryInv
<1>8. CASE CountTransitions
    <2>1. /\ summary.at = "transitions" /\ slots' = slots
          /\ summary' = [summary EXCEPT !.at = "actors",
                                        !.transitions = Cardinality(Transitions(Within))]
        BY <1>8 DEF CountTransitions
    <2>2. summary \in Sums
        BY <1>6, <2>1 DEF SummaryInv, Ats
    <2>3. /\ summary'.at = "actors" /\ summary'.transitions = Cardinality(Transitions(Within))
          /\ summary'.since = summary.since /\ summary'.total = summary.total
        BY <2>1, <2>2 DEF Sums
    <2>4. summary' \in Sums
        BY <1>5, <1>6, <2>1, <2>2, <2>3 DEF Sums, Ats
    <2>5. SumsSmall'
        BY <1>5, <1>6, <2>1, <2>3, <2>4 DEF SumsSmall, Sums, Ats
    <2>6. QED
        BY <2>4, <2>5 DEF SummaryInv
<1>9. CASE CountActors
    <2> DEFINE A == {slots[s].actor : s \in Within}
    <2>1. /\ summary.at = "actors" /\ slots' = slots
          /\ summary' = [summary EXCEPT !.at = "actions", !.actors = Cardinality(A)]
        BY <1>9 DEF CountActors
    <2>2. summary \in Sums
        BY <1>6, <2>1 DEF SummaryInv, Ats
    <2>3. /\ summary'.at = "actions" /\ summary'.actors = Cardinality(A)
          /\ summary'.since = summary.since /\ summary'.total = summary.total
          /\ summary'.transitions = summary.transitions
        BY <2>1, <2>2 DEF Sums
    <2>4. /\ Cardinality(A) \in Nat /\ Cardinality(A) <= Cardinality(Within)
          /\ Cardinality(Within) > 0 => Cardinality(A) > 0
        BY <1>5, <1>6, <2>1, <2>3, ActorsCounted DEF Ats
    <2> HIDE DEF A
    <2>5. summary' \in Sums
        BY <2>1, <2>2, <2>4 DEF Sums, Ats
    <2>6. SumsSmall'
        BY <1>5, <1>6, <2>1, <2>2, <2>3, <2>4, <2>5 DEF SumsSmall, Sums, Ats
    <2>7. QED
        BY <2>5, <2>6 DEF SummaryInv
<1>10. CASE CountActions
    <2>1. /\ summary.at = "actions" /\ slots' = slots
          /\ summary' = [summary EXCEPT !.at = "types",
                                        !.moves = Cardinality(Transitions(Within)),
                                        !.actions = Cardinality(Within)]
        BY <1>10 DEF CountActions
    <2>2. summary \in Sums
        BY <1>6, <2>1 DEF SummaryInv, Ats
    <2>3. /\ summary'.at = "types" /\ summary'.moves = Cardinality(Transitions(Within))
          /\ summary'.actions = Cardinality(Within) /\ summary'.actors = summary.actors
          /\ summary'.since = summary.since /\ summary'.total = summary.total
          /\ summary'.transitions = summary.transitions
        BY <2>1, <2>2 DEF Sums
    <2>4. summary' \in Sums
        BY <1>5, <1>6, <2>1, <2>2, <2>3 DEF Sums, Ats
    <2>5. SumsSmall'
        BY <1>5, <1>6, <2>1, <2>3, <2>4 DEF SumsSmall, Sums, Ats
    <2>6. QED
        BY <2>4, <2>5 DEF SummaryInv
<1>11. CASE CountEntityTypes
    <2>1. /\ summary.at = "types" /\ slots' = slots
          /\ summary' = [summary EXCEPT !.at = "answer", !.types = Cardinality(Within)]
        BY <1>11 DEF CountEntityTypes
    <2>2. summary \in Sums
        BY <1>6, <2>1 DEF SummaryInv, Ats
    <2>3. /\ summary'.at = "answer" /\ summary'.types = Cardinality(Within)
          /\ summary'.actions = summary.actions /\ summary'.actors = summary.actors
          /\ summary'.since = summary.since /\ summary'.total = summary.total
          /\ summary'.transitions = summary.transitions /\ summary'.moves = summary.moves
        BY <2>1, <2>2 DEF Sums
    <2>4. summary' \in Sums
        BY <1>5, <1>6, <2>1, <2>2, <2>3 DEF Sums, Ats
    <2>5. SumsSmall'
        BY <1>5, <1>6, <2>1, <2>3, <2>4 DEF SumsSmall, Sums, Ats
    <2>6. QED
        BY <2>4, <2>5 DEF SummaryInv
<1>12. QED
    BY <1>2, <1>3, <1>4, <1>7, <1>8, <1>9, <1>10, <1>11
       DEF Next, vars, Begin, Append, StartWalk, ListAudits, EntityHistory, Tick

\* A later count of a summary tells of no fewer entries than an earlier one, and
\* none of more than there are (SummarizeAudits).
THEOREM SummariesGrow == Spec => []SummaryGrows
<1>1. Init => SummaryInv
    BY DEF Init, SummaryInv
<1>2. LogInv /\ SummaryInv => SummaryGrows
    BY DEF SummaryInv, SumsSmall, SummaryGrows, Within, Idle
<1>3. LogInv /\ SummaryInv /\ [Next]_vars => LogInv' /\ SummaryInv'
    BY LogStep, SummaryStep
<1>4. QED
    BY LogInit, <1>1, <1>2, <1>3, PTL DEF Spec

-----------------------------------------------------------------------------
(* Walks through the pages. *)

\* The entries that every order puts above this one.
Above(s) == {t \in Stored : slots[t].time > slots[s].time}

\* An entry without a tie is in the same place of every order.
LEMMA PlaceInOrder ==
    ASSUME LogInv, NEW order \in Orders, NEW s \in Stored, Untied(s)
    PROVE  /\ Cardinality(Stored) \in Nat /\ DOMAIN order = 1..Cardinality(Stored)
           /\ \E i \in DOMAIN order : order[i] = s /\ i = Cardinality(Above(s)) + 1
<1> DEFINE n == Cardinality(Stored)
<1>1. n \in Nat /\ IsFiniteSet(Stored) /\ IsFiniteSet(Above(s))
    <2>1. Stored \in SUBSET Slots /\ Above(s) \in SUBSET Slots
        BY DEF Stored, Above
    <2>2. QED
        BY <2>1, Counting
<1>2. /\ order \in [1..n -> Stored] /\ DOMAIN order = 1..n
      /\ \A i, j \in 1..n : i < j =>
            order[i] # order[j] /\ slots[order[i]].time >= slots[order[j]].time
    BY DEF Orders
<1>3. order \in Injection(1..n, Stored)
    <2>1. \A i, j \in 1..n : i < j \/ j < i \/ i = j
        BY <1>1
    <2>2. QED
        BY <1>2, <2>1 DEF Injection, IsInjective
<1>4. PICK i \in 1..n : order[i] = s
    <2>1. Cardinality(1..n) = n
        BY <1>1, FS_Interval
    <2>2. order \in Surjection(1..n, Stored)
        BY <1>1, <1>3, <2>1, FS_Injection
    <2>3. QED
        BY <2>2 DEF Surjection
<1> DEFINE g == [j \in 1..(i - 1) |-> order[j]]
<1>5. \A t \in Stored : slots[t].time \in Int
    BY DEF LogInv, Stored, Empty, Full
<1>6. \A j \in 1..n : order[j] \in Above(s) <=> j < i
    <2>1. TAKE j \in 1..n
    <2>2. order[j] \in Stored /\ slots[order[j]].time \in Int /\ slots[s].time \in Int
        BY <1>2, <1>5
    <2>3. CASE j < i
        <3>1. order[j] # s /\ slots[order[j]].time >= slots[s].time
            BY <1>2, <1>4, <2>3
        <3>2. slots[order[j]].time # slots[s].time
            BY <2>2, <3>1 DEF Untied
        <3>3. QED
            BY <2>2, <2>3, <3>1, <3>2 DEF Above
    <2>4. CASE j = i
        BY <1>4, <2>2, <2>4 DEF Above
    <2>5. CASE i < j
        <3>1. slots[s].time >= slots[order[j]].time
            BY <1>2, <1>4, <2>5
        <3>2. QED
            BY <2>2, <2>5, <3>1 DEF Above
    <2>6. QED
        BY <1>1, <2>3, <2>4, <2>5
<1>7. \A j \in 1..(i - 1) : j \in 1..n /\ j < i
    BY <1>1, <1>4
<1>8. g \in Injection(1..(i - 1), Above(s))
    BY <1>3, <1>6, <1>7 DEF Injection, IsInjective
<1>9. g \in Surjection(1..(i - 1), Above(s))
    <2>1. order \in Surjection(1..n, Stored)
        <3>1. Cardinality(1..n) = n
            BY <1>1, FS_Interval
        <3>2. QED
            BY <1>1, <1>3, <3>1, FS_Injection
    <2>2. ASSUME NEW t \in Above(s) PROVE \E j \in 1..(i - 1) : g[j] = t
        <3>1. PICK j \in 1..n : order[j] = t
            BY <2>1, <2>2 DEF Surjection, Above
        <3>2. j \in 1..(i - 1)
            BY <1>1, <1>4, <1>6, <2>2, <3>1
        <3>3. QED
            BY <3>1, <3>2
    <2>3. g \in [1..(i - 1) -> Above(s)]
        BY <1>8 DEF Injection, IsInjective
    <2>4. QED
        BY <2>2, <2>3 DEF Surjection
<1>10. Cardinality(1..(i - 1)) = Cardinality(Above(s))
    BY <1>1, <1>8, <1>9, FS_Injection
<1>11. Cardinality(1..(i - 1)) = i - 1
    <2>1. 1 \in Int /\ i - 1 \in Int /\ (1 > i - 1 <=> i = 1)
        BY <1>1, <1>4
    <2>2. Cardinality(1..(i - 1)) = IF 1 > i - 1 THEN 0 ELSE (i - 1) - 1 + 1
        BY <2>1, FS_Interval
    <2>3. QED
        BY <1>1, <1>4, <2>1, <2>2
<1>12. QED
    BY <1>1, <1>2, <1>4, <1>10, <1>11

\* A page that entries follow is full.
LEMMA FullPage ==
    ASSUME NEW n \in Nat, NEW order \in Injection(1..n, Slots), NEW page \in Nat \ {0},
           Offset(page) + PageSize <= n
    PROVE  ~(Cardinality(PageOf(order, page)) < PageSize)
<1> DEFINE off == Offset(page)
           I == (off + 1)..(off + PageSize)
           g == [i \in I |-> order[i]]
<1>1. off \in Nat /\ PageSize \in Nat
    BY AuditReadsAssumption DEF Offset
<1>2. \A i \in I : i \in 1..n /\ off < i /\ i <= off + PageSize
    BY <1>1
<1>3. g \in Injection(I, PageOf(order, page))
    <2>1. \A i \in I : order[i] \in PageOf(order, page)
        BY <1>2 DEF PageOf, Injection, IsInjective
    <2>2. QED
        BY <1>2, <2>1 DEF Injection, IsInjective
<1>4. IsFiniteSet(PageOf(order, page)) /\ Cardinality(PageOf(order, page)) \in Nat
    <2>1. PageOf(order, page) \in SUBSET Slots
        BY DEF PageOf, Injection, IsInjective
    <2>2. QED
        BY <2>1, Counting
<1>5. Cardinality(I) <= Cardinality(PageOf(order, page))
    BY <1>3, <1>4, FS_Injection
<1>6. Cardinality(I) = PageSize
    <2>1. PICK a \in Int, b \in Int : a = off + 1 /\ b = off + PageSize
        BY <1>1
    <2>2. Cardinality(a..b) = IF a > b THEN 0 ELSE b - a + 1
        BY FS_Interval
    <2>3. IF a > b THEN 0 = PageSize ELSE b - a + 1 = PageSize
        BY <1>1, <2>1
    <2>4. I = a..b
        BY <2>1
    <2>5. QED
        BY <2>2, <2>3, <2>4
<1>7. QED
    BY <1>1, <1>4, <1>5, <1>6

\* A walk that goes on has shown or is still to come to what was there before.
WalkInv ==
    /\ walk \in [at : {"page", "done"}, page : Nat \ {0}, before : SUBSET Slots,
                 shown : SUBSET Slots]
    /\ walk.before \subseteq Stored
    /\ \A s \in walk.before : Untied(s) /\ s \notin walk.shown =>
          walk.at = "page" /\ Offset(walk.page) <= Cardinality(Above(s))

\* The next page begins where this one ends.
LEMMA NextPage ==
    ASSUME NEW page \in Nat \ {0}
    PROVE  /\ Offset(page) \in Nat /\ page + 1 \in Nat \ {0}
           /\ Offset(page + 1) = Offset(page) + PageSize
BY AuditReadsAssumption DEF Offset

\* A page shows an entry that its walk has come to, or comes before it and is full.
LEMMA PageShows ==
    ASSUME LogInv, NEW order \in Orders, NEW page \in Nat \ {0}, NEW s \in Stored, Untied(s),
           Offset(page) <= Cardinality(Above(s)), s \notin PageOf(order, page)
    PROVE  /\ ~(Cardinality(PageOf(order, page)) < PageSize)
           /\ Offset(page + 1) <= Cardinality(Above(s))
<1> DEFINE n == Cardinality(Stored)
<1>1. n \in Nat /\ DOMAIN order = 1..n
    BY PlaceInOrder
<1>2. PICK i \in 1..n : order[i] = s /\ i = Cardinality(Above(s)) + 1
    BY PlaceInOrder
<1>3. Offset(page) \in Nat /\ Offset(page + 1) = Offset(page) + PageSize /\ PageSize \in Nat
    BY NextPage, AuditReadsAssumption
<1>4. Cardinality(Above(s)) \in Nat
    <2>1. Above(s) \in SUBSET Slots
        BY DEF Above, Stored
    <2>2. QED
        BY <2>1, Counting
<1>5. ~(i <= Offset(page) + PageSize)
    BY <1>1, <1>2, <1>3, <1>4 DEF PageOf
<1>6. order \in Injection(1..n, Slots)
    <2>1. \A j, k \in 1..n : j < k \/ k < j \/ j = k
        BY <1>1
    <2>2. QED
        BY <2>1 DEF Orders, Injection, IsInjective, Stored
<1>7. Offset(page) + PageSize <= n
    BY <1>1, <1>2, <1>3, <1>5
<1>8. ~(Cardinality(PageOf(order, page)) < PageSize)
    BY <1>1, <1>6, <1>7, FullPage
<1>9. QED
    BY <1>2, <1>3, <1>4, <1>5, <1>8

\* Pages pass no entry without a tie, and entries that come in pass none upwards.
LEMMA WalkStep ==
    ASSUME LogInv, WalkInv, [Next]_vars
    PROVE  WalkInv'
<1>1. Kept
    BY LogStep
<1>2. CASE UNCHANGED walk
    <2>1. \A s \in walk.before : Untied(s)' => Untied(s)
        BY <1>1 DEF WalkInv, Kept, Untied
    <2>2. \A s \in walk.before :
              /\ Cardinality(Above(s)) \in Nat /\ Cardinality(Above(s)') \in Nat
              /\ Cardinality(Above(s)) <= Cardinality(Above(s)')
        <3>1. TAKE s \in walk.before
        <3>2. Above(s)' \in SUBSET Slots /\ Above(s) \subseteq Above(s)'
            BY <1>1 DEF WalkInv, Kept, Above, Stored
        <3>3. QED
            BY <3>2, Counting
    <2>3. walk.before \subseteq Stored'
        BY <1>1 DEF WalkInv, Kept
    <2>4. Offset(walk.page) \in Nat
        BY NextPage DEF WalkInv
    <2>5. \A s \in walk.before : Untied(s)' /\ s \notin walk.shown =>
              walk.at = "page" /\ Offset(walk.page) <= Cardinality(Above(s)')
        BY <2>1, <2>2, <2>4 DEF WalkInv
    <2>6. QED
        BY <1>2, <2>3, <2>5 DEF WalkInv, Offset
<1>3. CASE StartWalk
    <2>1. /\ walk' = [at |-> "page", page |-> 1, before |-> Stored, shown |-> {}]
          /\ slots' = slots
        BY <1>3 DEF StartWalk
    <2>2. \A s : Cardinality(Above(s)') \in Nat
        <3>1. \A s : Above(s)' \in SUBSET Slots
            BY DEF Above, Stored
        <3>2. QED
            BY <3>1, Counting
    <2>3. Offset(1) = 0
        BY AuditReadsAssumption DEF Offset
    <2>4. walk'.before = Stored /\ Stored' = Stored /\ Stored \subseteq Slots
        BY <2>1 DEF Stored
    <2>5. walk' \in [at : {"page", "done"}, page : Nat \ {0}, before : SUBSET Slots,
                     shown : SUBSET Slots]
        BY <2>1, <2>4
    <2>6. Offset(walk.page)' = 0 /\ walk'.at = "page"
        BY <2>1, <2>3 DEF Offset
    <2>7. QED
        BY <2>2, <2>4, <2>5, <2>6 DEF WalkInv
<1>4. CASE ListAudits
    <2>1. PICK order \in Orders :
              LET items == PageOf(order, walk.page)
                  short == Cardinality(items) < PageSize
              IN  walk' = [walk EXCEPT !.at = IF short THEN "done" ELSE "page",
                                       !.page = IF short THEN @ ELSE @ + 1,
                                       !.shown = @ \cup items]
        BY <1>4 DEF ListAudits
    <2> DEFINE items == PageOf(order, walk.page)
               short == Cardinality(items) < PageSize
    <2>2. slots' = slots /\ walk.at = "page" /\ walk.page \in Nat \ {0}
        BY <1>4 DEF ListAudits, WalkInv
    <2>3. items \in SUBSET Slots
        BY DEF PageOf, Orders, Stored
    <2>4. /\ walk'.at = IF short THEN "done" ELSE "page"
          /\ walk'.page = IF short THEN walk.page ELSE walk.page + 1
          /\ walk'.shown = walk.shown \cup items
          /\ walk'.before = walk.before
        BY <2>1 DEF WalkInv
    <2>5. walk' \in [at : {"page", "done"}, page : Nat \ {0}, before : SUBSET Slots,
                     shown : SUBSET Slots]
        BY <2>1, <2>2, <2>3, NextPage DEF WalkInv
    <2>6. ASSUME NEW s \in walk.before, Untied(s), s \notin walk.shown, s \notin items
          PROVE  ~short /\ Offset(walk.page + 1) <= Cardinality(Above(s))
        <3>1. s \in Stored /\ Offset(walk.page) <= Cardinality(Above(s))
            BY <2>6 DEF WalkInv
        <3>2. QED
            BY <2>2, <2>6, <3>1, PageShows
    <2> HIDE DEF items, short
    <2>7. \A s : Untied(s)' = Untied(s) /\ Above(s)' = Above(s)
        BY <2>2 DEF Untied, Above, Stored
    <2>8. Offset(walk.page)' = Offset(walk'.page)
        BY DEF Offset
    <2>9. \A s \in walk'.before : Untied(s)' /\ s \notin walk'.shown =>
              walk'.at = "page" /\ Offset(walk'.page) <= Cardinality(Above(s)')
        BY <2>4, <2>6, <2>7
    <2>10. walk'.before \subseteq Stored'
        BY <2>2, <2>4 DEF WalkInv, Stored
    <2>11. QED
        BY <2>5, <2>8, <2>9, <2>10 DEF WalkInv
<1>5. QED
    BY <1>2, <1>3, <1>4
       DEF Next, vars, Begin, Append, EntityHistory, StartSummary, CountTotal,
           CountTransitions, CountActors, CountActions, CountEntityTypes, EndSummary, Tick

LEMMA WalkInductive == Spec => [](LogInv /\ WalkInv)
<1>1. Init => WalkInv
    BY DEF Init, WalkInv
<1>2. LogInv /\ WalkInv /\ [Next]_vars => LogInv' /\ WalkInv'
    BY LogStep, WalkStep
<1>3. QED
    BY LogInit, <1>1, <1>2, PTL DEF Spec

\* A walk through the log misses no entry that was stored when it began, unless
\* it has a tie (ListAudits), for any page size and however many entries come in.
THEOREM WalksShowEntries == Spec => []EntriesShown
<1>1. WalkInv => EntriesShown
    BY DEF WalkInv, EntriesShown
<1>2. QED
    BY WalkInductive, <1>1, PTL

\* The state of the readers has its type: histories are no longer than asked or
\* allowed, windows neither empty nor longer than the longest.
THEOREM AuditReadsTyped == Spec => []TypeOK
<1>1. Init => SummaryInv
    BY DEF Init, SummaryInv
<1>2. LogInv /\ SummaryInv /\ [Next]_vars => LogInv' /\ SummaryInv'
    BY LogStep, SummaryStep
<1>3. LogInv /\ HistoryInv /\ WalkInv /\ SummaryInv => TypeOK
    <2> SUFFICES ASSUME LogInv, HistoryInv, WalkInv, SummaryInv PROVE TypeOK
        OBVIOUS
    <2>1. \A s \in Slots : slots[s] = Empty \/
              /\ slots[s].is \in {"pending", "stored"}
              /\ [time |-> slots[s].time, actor |-> slots[s].actor, kind |-> slots[s].kind,
                  entity |-> slots[s].entity] \in Entries
        BY DEF LogInv, Full, Entries
    <2>2. history.shown \subseteq Slots
        BY DEF HistoryInv, Stored
    <2>3. summary # Idle => summary.window \in 1..MaxWindow /\ summary.since \in Int
        BY DEF SummaryInv, Sums
    <2>4. QED
        BY <2>1, <2>2, <2>3 DEF LogInv, HistoryInv, WalkInv, TypeOK
<1>4. QED
    BY LogInit, <1>1, <1>2, <1>3, HistoryInductive, WalkInductive, PTL DEF Spec
=============================================================================
