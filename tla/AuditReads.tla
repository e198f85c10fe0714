------------------------------ MODULE AuditReads ------------------------------
(***************************************************************************)
(* Reading the audit log while entries are appended: page by page, latest  *)
(* first (ListAudits), the latest entries of one record (EntityHistory),   *)
(* and the five counts of its summary, each a statement of its own         *)
(* (SummarizeAudits).  Readers write nothing, so one at a time is enough.  *)
(*                                                                         *)
(* An entry's time is taken before its insert: it may become visible after *)
(* younger ones.  Entries of the same time have no defined order, and may  *)
(* be ordered otherwise by each statement.                                 *)
(*                                                                         *)
(* The total that is answered with a page is as in RecordPages.  History:  *)
(* the field before of the walk.                                           *)
(***************************************************************************)
EXTENDS Integers, FiniteSets

CONSTANTS
    Slots,          \* the entries there may be
    Actors,
    Entities,       \* the records entries are about
    AskedLimits,    \* the lengths readers ask a history for
    DefaultLimit,   \* 20 in the code
    MaxLimit,       \* 100 in the code
    PageSize,
    AskedWindows,   \* the lengths of time readers ask a summary for
    DefaultWindow,  \* 24 hours in the code
    MaxWindow,      \* 90 days in the code
    MaxTime         \* bound: the clock stops there

ASSUME AuditReadsAssumption ==
    /\ IsFiniteSet(Slots)
    /\ AskedLimits \subseteq Int
    /\ MaxLimit \in Nat /\ DefaultLimit \in 1..MaxLimit
    /\ PageSize \in Nat \ {0} /\ MaxTime \in Nat
    /\ AskedWindows \subseteq Int
    /\ MaxWindow \in Nat /\ DefaultWindow \in 1..MaxWindow

Kinds == {"transition", "other"}
Entries == [time : 0..MaxTime, actor : Actors, kind : Kinds, entity : Entities]
Readers == {"pages", "history", "summary"}

VARIABLES
    now,
    slots,    \* the entry in each slot, and whether it is empty, pending or stored
    reader,   \* what the reader reads
    walk,     \* a walk through the pages
    history,  \* the last history of a record
    summary   \* a summary, and what has been counted for it

vars == <<now, slots, reader, walk, history, summary>>

Empty == [is |-> "empty"]
Idle == [at |-> "idle", window |-> 0, since |-> 0, total |-> 0, transitions |-> 0,
         actors |-> 0, moves |-> 0, actions |-> 0, types |-> 0]
NoHistory == [entity |-> "none", limit |-> 0, shown |-> {}]

Stored == {s \in Slots : slots[s].is = "stored"}

\* Variant: the first page is skipped.
OffsetFromZero(page) == page * PageSize

Offset(page) == (page - 1) * PageSize

\* The orders in which a statement may return the entries.
Orders ==
    LET n == Cardinality(Stored)
    IN {f \in [1..n -> Stored] :
           \A i, j \in 1..n : i < j => f[i] # f[j] /\ slots[f[i]].time >= slots[f[j]].time}

\* The entries of a page in one of these orders.
PageOf(order, page) ==
    {order[i] : i \in {i \in DOMAIN order : Offset(page) < i /\ i <= Offset(page) + PageSize}}

\* Variant: the window has no upper limit.
UsedWindowUnlimited(asked) == IF asked < 1 THEN DefaultWindow ELSE asked

\* The window a summary is made for: Window, AuditSummary.
UsedWindow(asked) ==
    IF asked < 1 THEN DefaultWindow
    ELSE IF asked > MaxWindow THEN MaxWindow ELSE asked

\* Variant: each statement looks back from its own time.
WithinMoving == {s \in Stored : slots[s].time >= now - summary.window}

\* The entries a statement of the summary counts.
Within == {s \in Stored : slots[s].time >= summary.since}

Transitions(set) == {s \in set : slots[s].kind = "transition"}

Init ==
    /\ now = 0
    /\ slots = [s \in Slots |-> Empty]
    /\ reader \in Readers
    /\ history = NoHistory
    /\ walk = [at |-> "done", page |-> 1, before |-> {}, shown |-> {}]
    /\ summary = Idle

-----------------------------------------------------------------------------

\* A service builds an entry (Audit) ...
Begin(s, actor, kind, entity) ==
    /\ slots[s] = Empty
    /\ slots' = [slots EXCEPT ![s] =
                    [is |-> "pending", time |-> now, actor |-> actor, kind |-> kind,
                     entity |-> entity]]
    /\ UNCHANGED <<now, reader, walk, history, summary>>

\* ... and appends it, or fails to (AppendAudit).
Append(s) ==
    /\ slots[s].is = "pending"
    /\ \/ slots' = [slots EXCEPT ![s].is = "stored"]
       \/ slots' = [slots EXCEPT ![s] = Empty]
    /\ UNCHANGED <<now, reader, walk, history, summary>>

StartWalk ==
    /\ reader = "pages" /\ walk.at = "done"
    /\ walk' = [at |-> "page", page |-> 1, before |-> Stored, shown |-> {}]
    /\ UNCHANGED <<now, slots, reader, history, summary>>

\* A page is read.  The reader goes on unless it is short.
ListAudits ==
    /\ walk.at = "page"
    /\ \E order \in Orders :
          LET items == PageOf(order, walk.page)
              short == Cardinality(items) < PageSize
          IN walk' = [walk EXCEPT !.at = IF short THEN "done" ELSE "page",
                                  !.page = IF short THEN @ ELSE @ + 1,
                                  !.shown = @ \cup items]
    /\ UNCHANGED <<now, slots, reader, history, summary>>

\* Variant: the oldest entries of a record instead of the latest.
Oldest(about, limit) ==
    {shown \in SUBSET about :
        /\ Cardinality(shown) <= limit
        /\ shown # about => Cardinality(shown) = limit
        /\ \A s \in shown, t \in about \ shown : slots[s].time <= slots[t].time}

\* What may be shown of the entries about a record: the latest, up to the limit.
Latest(about, limit) ==
    {shown \in SUBSET about :
        /\ Cardinality(shown) <= limit
        /\ shown # about => Cardinality(shown) = limit
        /\ \A s \in shown, t \in about \ shown : slots[s].time >= slots[t].time}

\* The length a history is made for: NormalizedLimit, EntityHistory.
UsedLimit(asked) ==
    IF asked < 1 THEN DefaultLimit
    ELSE IF asked > MaxLimit THEN MaxLimit ELSE asked

EntityHistory(entity, asked) ==
    /\ reader = "history"
    /\ \E shown \in Latest({s \in Stored : slots[s].entity = entity}, UsedLimit(asked)) :
          history' = [entity |-> entity, limit |-> UsedLimit(asked), shown |-> shown]
    /\ UNCHANGED <<now, slots, reader, walk, summary>>

\* AuditSummary sets the start of the window; the first statement is the count
\* of all entries.
StartSummary(asked) ==
    /\ reader = "summary" /\ summary.at = "idle"
    /\ summary' = [Idle EXCEPT !.at = "total", !.window = UsedWindow(asked),
                               !.since = now - UsedWindow(asked)]
    /\ UNCHANGED <<now, slots, reader, walk, history>>

CountTotal ==
    /\ summary.at = "total"
    /\ summary' = [summary EXCEPT !.at = "transitions", !.total = Cardinality(Within)]
    /\ UNCHANGED <<now, slots, reader, walk, history>>

CountTransitions ==
    /\ summary.at = "transitions"
    /\ summary' = [summary EXCEPT !.at = "actors",
                                  !.transitions = Cardinality(Transitions(Within))]
    /\ UNCHANGED <<now, slots, reader, walk, history>>

CountActors ==
    /\ summary.at = "actors"
    /\ summary' = [summary EXCEPT !.at = "actions",
                                  !.actors = Cardinality({slots[s].actor : s \in Within})]
    /\ UNCHANGED <<now, slots, reader, walk, history>>

\* The entries grouped by action: those of transitions, and all.
CountActions ==
    /\ summary.at = "actions"
    /\ summary' = [summary EXCEPT !.at = "types",
                                  !.moves = Cardinality(Transitions(Within)),
                                  !.actions = Cardinality(Within)]
    /\ UNCHANGED <<now, slots, reader, walk, history>>

\* The entries grouped by the type of their entity, and the answer.
CountEntityTypes ==
    /\ summary.at = "types"
    /\ summary' = [summary EXCEPT !.at = "answer", !.types = Cardinality(Within)]
    /\ UNCHANGED <<now, slots, reader, walk, history>>

\* A summary is answered, or a statement of it has failed.
EndSummary ==
    /\ summary # Idle
    /\ summary' = Idle
    /\ UNCHANGED <<now, slots, reader, walk, history>>

Tick ==
    /\ now < MaxTime
    /\ now' = now + 1
    /\ UNCHANGED <<slots, reader, walk, history, summary>>

Next ==
    \/ \E s \in Slots :
          \/ \E actor \in Actors, kind \in Kinds, entity \in Entities :
                Begin(s, actor, kind, entity)
          \/ Append(s)
    \/ StartWalk \/ ListAudits
    \/ \E entity \in Entities, asked \in AskedLimits : EntityHistory(entity, asked)
    \/ \E asked \in AskedWindows : StartSummary(asked)
    \/ CountTotal \/ CountTransitions \/ CountActors \/ CountActions
    \/ CountEntityTypes \/ EndSummary
    \/ Tick

Spec == Init /\ [][Next]_vars

-----------------------------------------------------------------------------
(* Properties. *)

\* Windows are neither empty nor longer than the longest (Window).
TypeOK ==
    /\ now \in 0..MaxTime
    /\ DOMAIN slots = Slots
    /\ \A s \in Slots : slots[s] = Empty \/
          /\ slots[s].is \in {"pending", "stored"}
          /\ [time |-> slots[s].time, actor |-> slots[s].actor, kind |-> slots[s].kind,
              entity |-> slots[s].entity] \in Entries
    /\ reader \in Readers
    /\ walk.at \in {"page", "done"} /\ walk.page \in Nat \ {0}
    /\ walk.before \subseteq Slots /\ walk.shown \subseteq Slots
    /\ history.shown \subseteq Slots /\ Cardinality(history.shown) <= history.limit
    /\ history.limit \in 0..MaxLimit
    /\ summary # Idle => summary.window \in 1..MaxWindow /\ summary.since \in Int

\* No other stored entry has the time of this one.
Untied(s) == \A t \in Stored \ {s} : slots[t].time # slots[s].time

\* A walk through the log misses no entry that was stored when it began, unless
\* another of the same time changed places with it: entries only come in, on
\* top or, when they are late, further down (ListAudits).
EntriesShown ==
    walk.at = "done" => \A s \in walk.before : Untied(s) => s \in walk.shown

\* An entry of a record's history is only missing from a later, not shorter one
\* if one at least as young has come instead: late entries, which are inserted
\* under older ones, push no younger one out (EntityHistory).
HistoryDropsOldest ==
    [][/\ history'.entity = history.entity
       /\ history'.limit >= history.limit
       => \A s \in history.shown \ history'.shown :
             \E t \in history'.shown \ history.shown : slots[t].time >= slots[s].time]_vars

\* The counts of a summary may differ by the entries that come in while it is
\* made, but only so that a later count tells of no fewer entries than an
\* earlier one, and none of more than there are (SummarizeAudits).
SummaryGrows ==
    summary.at = "answer" =>
        /\ summary.total <= summary.actions
        /\ summary.transitions <= summary.moves
        /\ summary.actors <= summary.actions
        /\ summary.total > 0 => summary.actors > 0
        /\ summary.actions <= summary.types
        /\ summary.types <= Cardinality({s \in Stored : slots[s].time >= summary.since})
=============================================================================
