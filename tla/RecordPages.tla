----------------------------- MODULE RecordPages -----------------------------
(***************************************************************************)
(* Reading a table page by page (Store.List) while its records are         *)
(* written: a reader asks for one page after the other until one is short. *)
(* A page is two statements, the count and the rows; rows come in the      *)
(* order of their last write, the latest first, and of their ids.          *)
(*                                                                         *)
(* A record is listed if it is live and matches the reader's search and    *)
(* status.  A write never takes a record's stamp back, but the stamp is    *)
(* taken before the write takes effect: it need not be the latest.         *)
(*                                                                         *)
(* History: kept, gone, moved and entered.                                 *)
(***************************************************************************)
EXTENDS Integers, FiniteSets

CONSTANTS
    Ids,          \* the ids of the records
    AskedSizes,   \* the page sizes readers ask for
    DefaultSize,  \* 20 in the code
    MaxSize,      \* 100 in the code
    MaxStamp      \* bound: the last time at which records are written

ASSUME PagesAssumption ==
    /\ Ids \subseteq Nat /\ IsFiniteSet(Ids) /\ AskedSizes \subseteq Int
    /\ DefaultSize \in 1..MaxSize /\ MaxSize \in Nat /\ MaxStamp \in Nat

VARIABLES
    rows,     \* per id: is the record listed, and when it was last written
    walk,     \* the reader
    kept,     \* the records listed since the walk began and not written since
    gone,     \* has a record left the list since the walk began?
    moved,    \* has a record been written or entered the list since?
    entered   \* has a record entered the list since it was last counted?

vars == <<rows, walk, kept, gone, moved, entered>>

\* Variant: only what is too small is corrected.
UsedSizeUnbounded(asked) == IF asked < 1 THEN DefaultSize ELSE asked

\* The handler replaces a size that is out of range, the repository clamps it.
BoundSize(asked) == IF asked < 1 \/ asked > MaxSize THEN DefaultSize ELSE asked
NormalizedSize(asked) ==
    IF asked < 1 THEN DefaultSize ELSE IF asked > MaxSize THEN MaxSize ELSE asked

\* The size of the pages a reader gets for the one he asks.
UsedSize(asked) == NormalizedSize(BoundSize(asked))

\* Variant: pages overlap by a row.
OffsetOverlapping(page, size) == IF page = 1 THEN 0 ELSE (page - 1) * size - 1

Offset(page, size) == (page - 1) * size

Listed == {k \in Ids : rows[k].listed}

\* Variant: the earliest write first.
PrecedesAscending(j, k) ==
    \/ rows[j].stamp < rows[k].stamp
    \/ rows[j].stamp = rows[k].stamp /\ j < k

\* ORDER BY updated_at DESC, id DESC
Precedes(j, k) ==
    \/ rows[j].stamp > rows[k].stamp
    \/ rows[j].stamp = rows[k].stamp /\ j > k

\* How many listed records come before k.
Position(k) == Cardinality({j \in Listed : Precedes(j, k)})

\* The records of a page: OFFSET and LIMIT.
PageOf(page, size) ==
    LET offset == Offset(page, size)
    IN {k \in Listed : offset <= Position(k) /\ Position(k) < offset + size}

\* Variant: the count is limited like the page.
TotalOfPage(size) == Cardinality({k \in Listed : Position(k) < size})

Total(size) == Cardinality(Listed)

Init ==
    /\ rows \in [Ids -> [listed : BOOLEAN, stamp : {0}]]
    /\ walk = [at |-> "done", page |-> 1, size |-> DefaultSize, total |-> 0,
               shown |-> {}, repeated |-> {}]
    /\ kept = {} /\ gone = FALSE /\ moved = FALSE /\ entered = FALSE

-----------------------------------------------------------------------------

\* A reader asks for the first page.
Start(asked) ==
    /\ walk.at = "done"
    /\ walk' = [at |-> "count", page |-> 1, size |-> UsedSize(asked), total |-> 0,
                shown |-> {}, repeated |-> {}]
    /\ kept' = Listed
    /\ gone' = FALSE /\ moved' = FALSE /\ entered' = FALSE
    /\ UNCHANGED rows

Count ==
    /\ walk.at = "count"
    /\ walk' = [walk EXCEPT !.at = "find", !.total = Total(walk.size)]
    /\ entered' = FALSE
    /\ UNCHANGED <<rows, kept, gone, moved>>

\* The rows of the page.  The reader goes on unless it is short.
Find ==
    /\ walk.at = "find"
    /\ LET items == PageOf(walk.page, walk.size)
           short == Cardinality(items) < walk.size
       IN walk' = [walk EXCEPT !.at = IF short THEN "done" ELSE "count",
                               !.page = IF short THEN @ ELSE @ + 1,
                               !.shown = @ \cup items,
                               !.repeated = @ \cup (walk.shown \cap items)]
    /\ UNCHANGED <<rows, kept, gone, moved, entered>>

\* A record is created, or moved to the status the reader asks for.
Enter(k, stamp) ==
    /\ ~rows[k].listed /\ stamp >= rows[k].stamp
    /\ rows' = [rows EXCEPT ![k] = [listed |-> TRUE, stamp |-> stamp]]
    /\ moved' = TRUE /\ entered' = TRUE
    /\ UNCHANGED <<walk, kept, gone>>

\* A listed record is written and stays listed.
Write(k, stamp) ==
    /\ rows[k].listed /\ stamp >= rows[k].stamp
    /\ rows' = [rows EXCEPT ![k].stamp = stamp]
    /\ kept' = kept \ {k}
    /\ moved' = TRUE
    /\ UNCHANGED <<walk, gone, entered>>

\* A record is removed, or moved to a status the reader does not ask for.
Leave(k) ==
    /\ rows[k].listed
    /\ rows' = [rows EXCEPT ![k].listed = FALSE]
    /\ kept' = kept \ {k}
    /\ gone' = TRUE
    /\ UNCHANGED <<walk, moved, entered>>

Next ==
    \/ \E asked \in AskedSizes : Start(asked)
    \/ Count
    \/ Find
    \/ \E k \in Ids :
          \/ \E stamp \in 0..MaxStamp : Enter(k, stamp) \/ Write(k, stamp)
          \/ Leave(k)

Spec == Init /\ [][Next]_vars

-----------------------------------------------------------------------------
(* Properties. *)

\* Pages are never larger than the largest size, nor empty by their size
\* (bindPage, normalizePage).
TypeOK ==
    /\ rows \in [Ids -> [listed : BOOLEAN, stamp : 0..MaxStamp]]
    /\ walk.at \in {"count", "find", "done"}
    /\ walk.page \in 1..(Cardinality(Ids) + 1) /\ walk.size \in 1..MaxSize
    /\ walk.total \in 0..Cardinality(Ids)
    /\ walk.shown \subseteq Ids /\ walk.repeated \subseteq walk.shown
    /\ kept \subseteq Listed
    /\ gone \in BOOLEAN /\ moved \in BOOLEAN /\ entered \in BOOLEAN

\* A walk misses no record that was listed and not written while it lasted,
\* however others are written and enter meanwhile, unless one leaves the list
\* and draws the later ones forward (Store.List: OFFSET over a changing order).
UntouchedShown == walk.at = "done" /\ ~gone => kept \subseteq walk.shown

\* A record is only shown twice in a walk if one was written or entered: pages
\* of an order without ties do not overlap by themselves (Store.List).
RepeatsExplained == walk.repeated # {} => moved

\* A page only shows more records than the total it is answered with tells of
\* if one entered the list between the two statements (Store.List).
TotalExplained ==
    [][walk.at = "find" /\ walk' # walk =>
          LET items == PageOf(walk.page, walk.size)
          IN \/ items = {} \/ entered
             \/ Offset(walk.page, walk.size) + Cardinality(items) <= walk.total]_vars
=============================================================================
