------------------------------ MODULE Workbench ------------------------------
(***************************************************************************)
(* One page of the workbench (frontend/src/components/EntityPage.tsx) with *)
(* its store (stores/factory.ts), over the table it shows.  The server is  *)
(* VersionedRecords, which IncidentRecords implements: a request takes     *)
(* effect in one step, which is followed by its answer, and other clients  *)
(* write the same rows.                                                    *)
(*                                                                         *)
(* A call is an asynchronous function of the store: each of its requests   *)
(* is sent, served and continued in three steps, so that calls overlap and *)
(* are continued in the order of their answers.  The first page of the     *)
(* list is taken to hold all records that match.                           *)
(*                                                                         *)
(* History variable: reviewed.  History field of a call: fresh.            *)
(***************************************************************************)
EXTENDS RecordRows, Sequences

CONSTANTS
    Page,        \* the table the page shows
    Calls,       \* the calls that may be under way at the same time
    Searches,    \* for each search text, the records it matches
    Faults,      \* may requests fail, before or after they took effect?
    Keyboard,    \* does the user reach what a dialog covers with the keyboard?
    MaxVersion   \* bound: nobody writes a record past this version

ASSUME WorkbenchAssumption ==
    /\ Page \in EntityTypes
    /\ \A r \in Records : TypeOf[r] = Page
    /\ Searches \subseteq SUBSET Records
    /\ Faults \in BOOLEAN /\ Keyboard \in BOOLEAN
    /\ MaxVersion \in Nat

VARIABLES
    rows,       \* the table
    items,      \* the list on the page: the rows as they were when it was made,
                \* and AbsentRow for a record it does not show
    loading,    \* is the page marked as busy?
    pending,    \* the move a dialog asks about, or Nothing
    drawer,     \* remoteConfirm, and whether the box in the drawer is ticked
    creating,   \* showCreate
    calls,      \* per call: where it is
    reviewed    \* the move that was confirmed in the first dialog when the drawer
                \* was opened, Nothing while it is closed

vars == <<rows, items, loading, pending, drawer, creating, calls, reviewed>>
store == <<items, loading>>
page == <<pending, drawer, creating, reviewed>>

Nothing == [rec |-> "none"]
Free == [at |-> "free"]
Empty == [r \in Records |-> AbsentRow]

\* Each page lists the statuses in the order in which it moves records on.
ListedStatuses ==
    [SolarSite        |-> <<"online", "limited", "offline", "maintenance">>,
     InverterUnit     |-> <<"online", "warning", "tripped", "isolated">>,
     FaultEvent       |-> <<"open", "acknowledged", "mitigated", "closed">>,
     MitigationAction |-> <<"draft", "confirmed", "executing", "completed", "failed">>]

\* The button of a row leads to the next status; the last status has none.
Follows(status, next) ==
    LET list == ListedStatuses[Page]
    IN \E i \in 1..(Len(list) - 1) : list[i] = status /\ list[i + 1] = next

\* The pages on which a drawer asks for a second confirmation.
Remote == Page \in {"FaultEvent", "MitigationAction"}

\* The flag sent to the server with a move.
Confirmed == Page = "MitigationAction"

Init ==
    /\ rows \in InitialTables
    /\ items = Empty /\ loading = FALSE
    /\ pending = Nothing /\ drawer = "closed" /\ creating = FALSE
    /\ calls = [c \in Calls |-> Free]
    /\ reviewed = Nothing

-----------------------------------------------------------------------------
(* Calls. *)

\* A request is sent; goal says which function of the store it belongs to, here
\* whether the page that made the call is still shown.
Request(at, goal, what, search) ==
    [at |-> at, goal |-> goal, what |-> what, search |-> search, here |-> TRUE,
     answer |-> "none", list |-> Empty, fresh |-> TRUE]

Start(c, call) ==
    /\ calls[c] = Free
    /\ calls' = [calls EXCEPT ![c] = call]
    /\ loading' = TRUE
    /\ UNCHANGED items

Answered(c, at, answer) ==
    calls' = [calls EXCEPT ![c].at = at, ![c].answer = answer]

CloseDrawer == drawer' = "closed" /\ reviewed' = Nothing

\* What a dialog covers is out of reach, at least of the pointer.
Reachable == Keyboard \/ (pending = Nothing /\ ~creating)

-----------------------------------------------------------------------------
(* The user. *)

\* The list is asked for, by search or as a whole.
Load(c, search) ==
    /\ Reachable
    /\ Start(c, Request("list", "load", Nothing, search))
    /\ UNCHANGED <<rows, page>>

\* The page is left and visited again: its dialogs are gone, the store is not.
Revisit(c) ==
    /\ calls[c] = Free
    /\ pending' = Nothing /\ CloseDrawer /\ creating' = FALSE
    /\ calls' = [k \in Calls |->
                    IF k = c THEN Request("list", "load", Nothing, Records)
                    ELSE IF calls[k] = Free THEN Free
                    ELSE [calls[k] EXCEPT !.here = FALSE]]
    /\ loading' = TRUE
    /\ UNCHANGED <<rows, items>>

\* The button of a row.  The box in an open drawer is cleared if the drawer
\* gets another record or target.
Open(r) ==
    /\ Reachable
    /\ Live(items[r]) /\ items[r].version < MaxVersion
    /\ \E next \in AllStatuses :
          LET move == [rec |-> r, item |-> items[r], target |-> next]
              same == pending # Nothing /\ pending.rec = r /\ pending.target = next
          IN /\ Follows(items[r].status, next)
             /\ pending' = move
             /\ drawer' = IF drawer = "checked" /\ ~same THEN "open" ELSE drawer
    /\ UNCHANGED <<rows, store, creating, calls, reviewed>>

\* The first dialog is shown while the drawer is not.
Cancel ==
    /\ pending # Nothing /\ drawer = "closed"
    /\ pending' = Nothing
    /\ UNCHANGED <<rows, store, drawer, creating, calls, reviewed>>

Send(c) == Start(c, Request("move", "move", pending, Records))

Confirm(c) ==
    /\ pending # Nothing /\ drawer = "closed"
    /\ \/ /\ Remote
          /\ drawer' = "open" /\ reviewed' = pending
          /\ UNCHANGED <<store, calls>>
       \/ ~Remote /\ Send(c) /\ UNCHANGED <<drawer, reviewed>>
    /\ UNCHANGED <<rows, pending, creating>>

\* The drawer: its box, its way back, and its button, which asks for the box.
Check ==
    /\ pending # Nothing /\ drawer # "closed"
    /\ drawer' = IF drawer = "open" THEN "checked" ELSE "open"
    /\ UNCHANGED <<rows, store, pending, creating, calls, reviewed>>

Back ==
    /\ pending # Nothing /\ drawer # "closed"
    /\ CloseDrawer
    /\ UNCHANGED <<rows, store, pending, creating, calls>>

Execute(c) ==
    /\ pending # Nothing /\ drawer = "checked"
    /\ Send(c)
    /\ UNCHANGED <<rows, page>>

ShowCreate(show) ==
    /\ creating # show /\ (show => Reachable)
    /\ creating' = show
    /\ UNCHANGED <<rows, store, pending, drawer, calls, reviewed>>

CreateDemo(c) ==
    /\ creating
    /\ Start(c, Request("create", "create", Nothing, Records))
    /\ UNCHANGED <<rows, page>>

-----------------------------------------------------------------------------
(* The server. *)

Tables == INSTANCE VersionedRecords WITH rows <- rows

\* An answer may be lost, and a request may fail, if there are faults.
MayFail(answer) == IF Faults THEN {answer, "failed"} ELSE {answer}

\* Variant: the version is not asked for.
AcceptsAnyVersion(row, move) ==
    /\ Live(row)
    /\ CanTransition(Transitions[Page], row.status, move.target)

\* The service moves a record that is still the version it was sent.
Accepts(row, move) ==
    /\ Live(row) /\ row.version = move.item.version
    /\ CanTransition(Transitions[Page], row.status, move.target)
    /\ Page = "MitigationAction" => Confirmed

ServeMove(c) ==
    /\ calls[c].at = "move"
    /\ LET move == calls[c].what
           row == rows[move.rec]
       IN \/ /\ Accepts(row, move)
             /\ rows' = [rows EXCEPT ![move.rec].status = move.target,
                                     ![move.rec].version = move.item.version + 1]
             /\ \E answer \in MayFail("ok") : Answered(c, "moved", answer)
          \/ /\ ~Accepts(row, move)
             /\ Answered(c, "moved", "refused")
             /\ UNCHANGED rows
          \/ /\ Faults
             /\ Answered(c, "moved", "failed")
             /\ UNCHANGED rows
    /\ UNCHANGED <<store, page>>

\* The code of a demonstration record is cut from the clock, and may be taken.
ServeCreate(c) ==
    /\ calls[c].at = "create"
    /\ \/ /\ \E r \in Records : Tables!Create(r)
          /\ \E answer \in MayFail("ok") : Answered(c, "created", answer)
       \/ Answered(c, "created", "failed") /\ UNCHANGED rows
    /\ UNCHANGED <<store, page>>

\* Variant: the browser answers a list that was asked for before from its cache.
ListingCached(search) ==
    LET seen == IF items = Empty THEN rows ELSE items
    IN [r \in Records |-> IF r \in search /\ Live(seen[r]) THEN seen[r] ELSE AbsentRow]

\* The list as it is now.
Listing(search) ==
    [r \in Records |-> IF r \in search /\ Live(rows[r]) THEN rows[r] ELSE AbsentRow]

ServeList(c) ==
    /\ calls[c].at = "list"
    /\ \/ calls' = [calls EXCEPT ![c].at = "listed", ![c].answer = "ok",
                                 ![c].list = Listing(calls[c].search)]
       \/ Faults /\ Answered(c, "listed", "failed")
    /\ UNCHANGED <<rows, store, page>>

\* Other clients write the same table.
OthersWrite(r) ==
    /\ \/ Tables!Create(r)
       \/ rows[r].version < MaxVersion /\ (Tables!Edit(r) \/ Tables!Move(r))
       \/ Tables!Remove(r)
    /\ UNCHANGED <<store, page, calls, reviewed>>

-----------------------------------------------------------------------------
(* The continuations of a call. *)

\* Variant: the page stays busy after an error.
FailBusy == UNCHANGED <<items, loading>>

\* The error is shown, which is left out, and the page is no longer busy.
Fail == loading' = FALSE /\ UNCHANGED items

\* Variant: the drawer is left as it is.
CloseDialogsOnly(c) ==
    /\ IF calls[c].goal = "move" /\ calls[c].here
       THEN pending' = Nothing /\ UNCHANGED <<drawer, reviewed>>
       ELSE UNCHANGED <<pending, drawer, reviewed>>
    /\ creating' = IF calls[c].goal = "create" /\ calls[c].here THEN FALSE ELSE creating

\* The page that made a call which succeeded closes its dialogs, whatever they
\* show by then.
CloseDialogs(c) ==
    /\ IF calls[c].goal = "move" /\ calls[c].here
       THEN pending' = Nothing /\ CloseDrawer
       ELSE UNCHANGED <<pending, drawer, reviewed>>
    /\ creating' = IF calls[c].goal = "create" /\ calls[c].here THEN FALSE ELSE creating

\* The list is shown; load keeps its errors to itself, so a move or a creation
\* has succeeded even if the list could not be made.
Listed(c) ==
    /\ calls[c].at = "listed"
    /\ \/ /\ calls[c].answer = "ok"
          /\ items' = calls[c].list /\ loading' = FALSE
          /\ calls' = [k \in Calls |-> IF k = c \/ calls[k] = Free THEN Free
                                       ELSE [calls[k] EXCEPT !.fresh = FALSE]]
       \/ /\ calls[c].answer = "failed"
          /\ Fail
          /\ calls' = [calls EXCEPT ![c] = Free]
    /\ CloseDialogs(c)
    /\ UNCHANGED rows

\* The list is asked for once more, as a whole.
Refresh(c) ==
    /\ calls' = [calls EXCEPT ![c].at = "list", ![c].answer = "none", ![c].fresh = TRUE]
    /\ loading' = TRUE
    /\ UNCHANGED <<items, page>>

\* A failed move closes the drawer and keeps the first dialog, with the record
\* as it was; a failed creation keeps its dialog.
Continue(c) ==
    /\ calls[c].at \in {"moved", "created"}
    /\ \/ calls[c].answer = "ok" /\ Refresh(c)
       \/ /\ calls[c].answer # "ok"
          /\ Fail
          /\ calls' = [calls EXCEPT ![c] = Free]
          /\ IF calls[c].goal = "move" /\ calls[c].here
             THEN CloseDrawer ELSE UNCHANGED <<drawer, reviewed>>
          /\ UNCHANGED <<pending, creating>>
    /\ UNCHANGED rows

Serve(c) == ServeMove(c) \/ ServeCreate(c) \/ ServeList(c)

Next ==
    \/ \E c \in Calls :
          \/ \E search \in Searches : Load(c, search)
          \/ Revisit(c) \/ Confirm(c) \/ Execute(c) \/ CreateDemo(c)
          \/ Serve(c) \/ Listed(c) \/ Continue(c)
    \/ \E r \in Records : Open(r) \/ OthersWrite(r)
    \/ Cancel \/ Check \/ Back
    \/ \E show \in BOOLEAN : ShowCreate(show)

\* Every request is answered or fails in the end, and the browser continues
\* every call whose answer has come; the user owes nothing.
Fairness == \A c \in Calls : WF_vars(Serve(c)) /\ WF_vars(Listed(c) \/ Continue(c))

Spec == Init /\ [][Next]_vars /\ Fairness

-----------------------------------------------------------------------------
(* Properties. *)

Move == [rec : Records, item : Row, target : AllStatuses]
Call == [at     : {"list", "listed", "move", "moved", "create", "created"},
         goal   : {"load", "move", "create"},
         what   : Move \cup {Nothing},
         search : SUBSET Records,
         here   : BOOLEAN,
         answer : {"none", "ok", "refused", "failed"},
         list   : [Records -> Row],
         fresh  : BOOLEAN]

\* What the page and the store hold; a drawer is only open over the dialog it
\* confirms (EntityPage remoteConfirm, pending).
TypeOK ==
    /\ rows \in [Records -> Row]
    /\ items \in [Records -> Row]
    /\ loading \in BOOLEAN /\ creating \in BOOLEAN
    /\ pending \in Move \cup {Nothing} /\ reviewed \in Move \cup {Nothing}
    /\ drawer \in {"closed", "open", "checked"}
    /\ drawer = "closed" \/ pending # Nothing
    /\ calls \in [Calls -> Call \cup {Free}]

\* A confirmed move only ever takes effect on the record exactly as its dialog
\* showed it, however old the list, however often it is confirmed or repeated
\* after an error (EntityPage: the dialog shows the status the record leaves
\* and promises that the version prevents overwriting).
MoveAsShown ==
    [][\A c \in Calls :
          calls[c].at = "move" /\ calls'[c].at = "moved" /\ rows' # rows =>
             LET move == calls[c].what
             IN /\ rows[move.rec] = move.item
                /\ rows'[move.rec].status = move.target]_vars

\* A move is only refused if the record is no longer what the dialog showed:
\* the statuses the page lists lead along edges of the server's graph, and the
\* confirmation the server asks for is sent (types/status.ts, constants/status.go).
RefusedOnlyIfStale ==
    [][\A c \in Calls :
          calls[c].at = "move" /\ calls'[c].answer = "refused" =>
             rows[calls[c].what.rec] # calls[c].what.item]_vars

\* A remote move is only sent after both confirmations were given for this
\* record, this version and this target: nothing that ends while the dialogs
\* are open lets the drawer confirm what the first dialog never showed
\* (README: remote actions pass the review first, then the drawer).
ReviewedFirst ==
    [][\A c \in Calls :
          Remote /\ calls[c] = Free /\ calls'[c] # Free /\ calls'[c].at = "move" =>
             calls'[c].what = reviewed]_vars

\* The list of a call is shown in this step.
Applied(c) == calls[c].at = "listed" /\ calls[c].answer = "ok" /\ calls'[c] = Free

\* The list made after a move shows its record with the move, or a later write,
\* if it shows it at all (transition: load after the answer).
MoveIsListed ==
    [][\A c \in Calls :
          Applied(c) /\ calls[c].goal = "move" =>
             LET move == calls[c].what
             IN Live(items'[move.rec]) => items'[move.rec].version > move.item.version]_vars

\* The list only goes back in time if loads overlapped: one that was asked for
\* after the list on the page was shown never shows an older row (load).
BackOnlyByOverlap ==
    [][\A c \in Calls :
          Applied(c) /\ calls[c].fresh =>
             \A r \in Records :
                Live(items[r]) /\ Live(items'[r]) => items'[r].version >= items[r].version]_vars

\* The page is not left busy: when no call is under way it is not marked so,
\* whichever calls overlapped and failed (factory: loading).
IdleIsNotBusy == (\A c \in Calls : calls[c] = Free) => ~loading

\* The page does not stay busy, though it may become so again (load, transition).
BusyEnds == loading ~> ~loading

\* The rows change by the writes of VersionedRecords alone.
ServerRows == Tables!Spec
=============================================================================
