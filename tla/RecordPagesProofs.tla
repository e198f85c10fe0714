-------------------------- MODULE RecordPagesProofs --------------------------
(***************************************************************************)
(* Reading a table page by page: for any finite number of records, any     *)
(* sizes of pages and any writes while the reader walks.                   *)
(*                                                                         *)
(* The argument: the positions of the listed records are 0, 1, 2, ...      *)
(* without gaps, since the order has no ties (PositionsDiffer,             *)
(* PositionsFill).  A page that records follow is therefore full, and the  *)
(* reader goes on.  As long as no record leaves, a record that nobody      *)
(* writes only moves to later positions, so the reader cannot have passed  *)
(* it before he has shown it; as long as none is written or enters, those  *)
(* he has shown only move to earlier ones, so he does not meet them again. *)
(***************************************************************************)
EXTENDS RecordPages, FiniteSetTheorems, TLAPS

RowsOK == rows \in [Ids -> [listed : BOOLEAN, stamp : 0..MaxStamp]]

-----------------------------------------------------------------------------
(* Counting, and the order of a list. *)

\* Sets of records are counted by numbers, larger ones by larger numbers.
LEMMA Counting ==
    ASSUME NEW T \in SUBSET Ids
    PROVE  /\ IsFiniteSet(T) /\ Cardinality(T) \in Nat
           /\ \A S \in SUBSET T : IsFiniteSet(S) /\ Cardinality(S) \in Nat
                                  /\ Cardinality(S) <= Cardinality(T)
<1>1. IsFiniteSet(T)
    BY PagesAssumption, FS_Subset
<1>2. QED
    BY <1>1, FS_Subset, FS_CardinalityType

\* The numbers from one up to below another.
LEMMA Interval ==
    ASSUME NEW lo \in Nat, NEW hi \in Nat, lo <= hi
    PROVE  IsFiniteSet(lo..(hi - 1)) /\ Cardinality(lo..(hi - 1)) = hi - lo
<1>1. PICK a \in Int, b \in Int : a = lo /\ b = hi - 1
    OBVIOUS
<1>2. IsFiniteSet(a..b) /\ Cardinality(a..b) = IF a > b THEN 0 ELSE b - a + 1
    BY FS_Interval
<1>3. (IF a > b THEN 0 ELSE b - a + 1) = hi - lo
    BY <1>1
<1>4. QED
    BY <1>1, <1>2, <1>3

\* ORDER BY updated_at DESC, id DESC is a strict order without ties.
LEMMA StrictOrder ==
    ASSUME RowsOK
    PROVE  /\ \A k \in Ids : ~Precedes(k, k)
           /\ \A i, j, k \in Ids : Precedes(i, j) /\ Precedes(j, k) => Precedes(i, k)
           /\ \A j, k \in Ids : j # k => Precedes(j, k) \/ Precedes(k, j)
<1>1. \A k \in Ids : k \in Nat /\ rows[k].stamp \in Nat
    BY PagesAssumption DEF RowsOK
<1>2. QED
    BY <1>1 DEF Precedes

Before(k) == {j \in Listed : Precedes(j, k)}

\* A position is the number of records before.
LEMMA PositionCounts ==
    ASSUME NEW k
    PROVE  /\ Position(k) = Cardinality(Before(k)) /\ Before(k) \subseteq Listed
           /\ IsFiniteSet(Before(k)) /\ Position(k) \in Nat
<1>1. Before(k) \in SUBSET Ids
    BY DEF Before, Listed
<1>2. QED
    BY <1>1, Counting DEF Before, Position

\* Positions are numbers, before and after a step.
LEMMA PositionsCounted == \A k : Position(k) \in Nat /\ Position(k)' \in Nat
<1>1. \A k : Position(k) \in Nat
    BY PositionCounts
<1>2. (\A k : Position(k) \in Nat)'
    BY <1>1, PTL
<1>3. QED
    BY <1>1, <1>2

\* Earlier records have smaller positions.
LEMMA PositionsFollowOrder ==
    ASSUME RowsOK, NEW j \in Listed, NEW k \in Listed, Precedes(j, k)
    PROVE  Position(j) < Position(k)
<1>1. j \in Ids /\ k \in Ids
    BY DEF Listed
<1>2. Before(j) \cup {j} \subseteq Before(k)
    BY <1>1, StrictOrder DEF Before, Listed
<1>3. j \notin Before(j)
    BY <1>1, StrictOrder DEF Before
<1>4. Cardinality(Before(j) \cup {j}) = Cardinality(Before(j)) + 1
    BY <1>3, PositionCounts, FS_AddElement
<1>5. Cardinality(Before(j) \cup {j}) <= Cardinality(Before(k))
    <2>1. Before(k) \in SUBSET Ids
        BY DEF Before, Listed
    <2>2. QED
        BY <1>2, <2>1, Counting
<1>6. QED
    BY <1>4, <1>5, PositionCounts

\* No two records have the same position.
LEMMA PositionsDiffer ==
    ASSUME RowsOK, NEW j \in Listed, NEW k \in Listed, Position(j) = Position(k)
    PROVE  j = k
<1> SUFFICES ASSUME j # k
             PROVE  FALSE
    OBVIOUS
<1>1. Precedes(j, k) \/ Precedes(k, j)
    BY StrictOrder DEF Listed
<1>2. Position(j) < Position(k) \/ Position(k) < Position(j)
    BY <1>1, PositionsFollowOrder
<1>3. QED
    BY <1>2, PositionCounts

\* There are no gaps below the position of a record.
LEMMA PositionsFill ==
    ASSUME RowsOK, NEW k \in Listed, NEW m \in Nat, m < Position(k)
    PROVE  \E j \in Listed : Position(j) = m
<1> DEFINE n == Position(k)
           B == Before(k)
           f == [j \in B |-> Position(j)]
<1>1. n \in Nat /\ n = Cardinality(B) /\ B \subseteq Listed
    BY PositionCounts
<1>2. IsFiniteSet(0..(n - 1)) /\ Cardinality(0..(n - 1)) = n
    BY <1>1, Interval
<1>3. f \in Injection(B, 0..(n - 1))
    <2>1. ASSUME NEW j \in B
          PROVE  Position(j) \in 0..(n - 1)
        <3>1. Position(j) < n /\ Position(j) \in Nat
            BY <1>1, PositionsFollowOrder, PositionCounts DEF Before
        <3>2. QED
            BY <1>1, <3>1
    <2>2. \A i, j \in B : Position(i) = Position(j) => i = j
        BY <1>1, PositionsDiffer
    <2>3. QED
        BY <2>1, <2>2 DEF Injection, IsInjective
<1>4. f \in Surjection(B, 0..(n - 1))
    BY <1>1, <1>2, <1>3, FS_Injection
<1>5. m \in 0..(n - 1)
    BY <1>1
<1>6. PICK j \in B : f[j] = m
    BY <1>4, <1>5 DEF Surjection
<1>7. QED
    BY <1>1, <1>6

\* The records from one position up to below another.
Between(lo, hi) == {k \in Listed : lo <= Position(k) /\ Position(k) < hi}

\* There are as many as the positions leave room for, if a record follows.
LEMMA BetweenFull ==
    ASSUME RowsOK, NEW k \in Listed, NEW lo \in Nat, NEW hi \in Nat,
           lo <= hi, hi <= Position(k)
    PROVE  Cardinality(Between(lo, hi)) = hi - lo
<1> DEFINE S == Between(lo, hi)
           T == lo..(hi - 1)
           f == [j \in S |-> Position(j)]
<1>1. f \in Injection(S, T)
    <2>1. ASSUME NEW j \in S
          PROVE  Position(j) \in T
        BY PositionCounts DEF Between
    <2>2. \A i, j \in S : Position(i) = Position(j) => i = j
        BY PositionsDiffer DEF Between
    <2>3. QED
        BY <2>1, <2>2 DEF Injection, IsInjective
<1>2. f \in Surjection(S, T)
    <2>1. ASSUME NEW m \in T
          PROVE  \E j \in S : f[j] = m
        <3>1. m \in Nat /\ lo <= m /\ m < hi /\ m < Position(k)
            BY PositionCounts
        <3>2. PICK j \in Listed : Position(j) = m
            BY <3>1, PositionsFill
        <3>3. j \in S
            BY <3>1, <3>2 DEF Between
        <3>4. QED
            BY <3>2, <3>3
    <2>2. f \in [S -> T]
        BY <1>1 DEF Injection
    <2>3. QED
        BY <2>1, <2>2 DEF Surjection
<1>3. IsFiniteSet(T) /\ Cardinality(T) = hi - lo
    BY Interval
<1>4. QED
    BY <1>1, <1>2, <1>3, FS_Injection

-----------------------------------------------------------------------------
(* Pages. *)

\* Pages follow each other.
LEMMA Offsets ==
    ASSUME NEW page \in Nat \ {0}, NEW size \in Nat \ {0}
    PROVE  /\ Offset(page, size) \in Nat
           /\ Offset(page + 1, size) = Offset(page, size) + size
           /\ page - 1 <= Offset(page, size)
           /\ Offset(1, size) = 0
<1>1. Offset(page, size) \in Nat /\ Offset(1, size) = 0
    BY DEF Offset
<1>2. Offset(page + 1, size) = Offset(page, size) + size
    BY DEF Offset
<1>3. PICK n \in Nat, d \in Nat : n = page - 1 /\ d = size - 1
    OBVIOUS
<1>4. Offset(page, size) = n * d + n /\ n * d \in Nat
    BY <1>3 DEF Offset
<1>5. QED
    BY <1>1, <1>2, <1>3, <1>4

\* A page is what lies between its offset and the next one.
LEMMA PageIsBetween ==
    ASSUME NEW page \in Nat \ {0}, NEW size \in Nat \ {0}
    PROVE  /\ PageOf(page, size) = Between(Offset(page, size), Offset(page + 1, size))
           /\ PageOf(page, size) \in SUBSET Listed
BY Offsets DEF PageOf, Between

\* A page that a record follows is full.
LEMMA FullPage ==
    ASSUME RowsOK, NEW page \in Nat \ {0}, NEW size \in Nat \ {0}, NEW k \in Listed,
           Offset(page, size) + size <= Position(k)
    PROVE  ~(Cardinality(PageOf(page, size)) < size)
<1>1. PICK lo \in Nat, hi \in Nat :
          lo = Offset(page, size) /\ hi = Offset(page + 1, size) /\ hi = lo + size
    BY Offsets
<1>2. Cardinality(Between(lo, hi)) = hi - lo
    BY <1>1, BetweenFull
<1>3. QED
    BY <1>1, <1>2, PageIsBetween

\* The pages before one that is not empty are full: it and they make up no more
\* than the list.
LEMMA PagesFit ==
    ASSUME RowsOK, NEW page \in Nat \ {0}, NEW size \in Nat \ {0},
           PageOf(page, size) # {}
    PROVE  /\ Offset(page, size) + Cardinality(PageOf(page, size)) <= Cardinality(Listed)
           /\ Cardinality(PageOf(page, size)) \in Nat
<1> DEFINE off == Offset(page, size)
           items == PageOf(page, size)
           earlier == Between(0, off)
<1>1. off \in Nat
    BY Offsets
<1>2. PICK k \in Listed : off <= Position(k)
    BY <1>1 DEF PageOf
<1>3. Cardinality(earlier) = off
    BY <1>1, <1>2, BetweenFull
<1>4. earlier \in SUBSET Listed /\ items \in SUBSET Listed /\ Listed \in SUBSET Ids
    BY DEF Between, PageOf, Listed
<1>5. earlier \cap items = {}
    BY <1>1, PositionCounts DEF Between, PageOf
<1>6. IsFiniteSet(earlier) /\ IsFiniteSet(items) /\ Cardinality(items) \in Nat
    BY <1>4, Counting
<1>7. Cardinality(earlier \cup items) = Cardinality(earlier) + Cardinality(items)
    <2>1. Cardinality(earlier \cup items)
              = Cardinality(earlier) + Cardinality(items) - Cardinality(earlier \cap items)
        BY <1>6, FS_Union
    <2>2. Cardinality(earlier \cap items) = 0
        BY <1>5, FS_EmptySet
    <2>3. QED
        BY <1>1, <1>3, <1>6, <2>1, <2>2
<1>8. Cardinality(earlier \cup items) <= Cardinality(Listed)
    BY <1>4, Counting
<1>9. QED
    BY <1>3, <1>6, <1>7, <1>8

\* The sizes of pages are within their limits.
LEMMA SizesBounded ==
    ASSUME NEW asked \in Int
    PROVE  UsedSize(asked) \in 1..MaxSize
BY PagesAssumption DEF UsedSize, NormalizedSize, BoundSize

-----------------------------------------------------------------------------
(* What writes do to positions. *)

\* A record moves to no earlier position as long as none leaves the list and
\* only others are written.
LEMMA PositionsRise ==
    ASSUME RowsOK, RowsOK', NEW k \in Ids, rows'[k] = rows[k],
           \A j \in Listed : j \in Listed' /\ rows'[j].stamp >= rows[j].stamp
    PROVE  Position(k) <= Position(k)'
<1>1. \A j \in Ids : /\ j \in Nat
                     /\ rows[j].stamp \in Nat /\ rows'[j].stamp \in Nat
    BY PagesAssumption DEF RowsOK
<1>2. Before(k) \subseteq Before(k)'
    BY <1>1 DEF Before, Precedes, Listed
<1>3. Before(k)' \in SUBSET Ids
    BY DEF Before, Listed
<1>4. Position(k) = Cardinality(Before(k)) /\ Position(k)' = Cardinality(Before(k)')
    BY DEF Position, Before
<1>5. QED
    BY <1>2, <1>3, <1>4, Counting

\* A record moves to no later position as long as none is written or enters.
LEMMA PositionsFall ==
    ASSUME NEW k \in Ids, Listed' \subseteq Listed,
           \A j \in Ids : rows'[j].stamp = rows[j].stamp
    PROVE  Position(k)' <= Position(k)
<1>1. Before(k)' \subseteq Before(k)
    BY DEF Before, Precedes, Listed
<1>2. Before(k) \in SUBSET Ids
    BY DEF Before, Listed
<1>3. Position(k) = Cardinality(Before(k)) /\ Position(k)' = Cardinality(Before(k)')
    BY DEF Position, Before
<1>4. QED
    BY <1>1, <1>2, <1>3, Counting

-----------------------------------------------------------------------------
(* The invariant. *)

Walks == [at : {"count", "find", "done"}, page : Nat \ {0}, size : 1..MaxSize,
          total : Nat, shown : SUBSET Ids, repeated : SUBSET Ids]

NextOffset == Offset(walk.page, walk.size)

\* A record nobody has written since the walk began was shown, or is still ahead.
KeptAhead ==
    ~gone => \A k \in kept :
                k \in walk.shown \/ (walk.at # "done" /\ NextOffset <= Position(k))

\* As long as nothing was written, what was shown is behind.
ShownBehind ==
    ~moved => /\ walk.repeated = {}
              /\ walk.at # "done" =>
                    \A k \in walk.shown \cap Listed : Position(k) < NextOffset

\* As long as nothing entered, the total is at least the length of the list.
TotalCounts == walk.at = "find" /\ ~entered => Cardinality(Listed) <= walk.total

PagesInv == TypeOK /\ walk \in Walks /\ KeptAhead /\ ShownBehind /\ TotalCounts

\* The parts of the type invariant.
DataOK ==
    /\ RowsOK /\ walk \in Walks /\ kept \subseteq Listed
    /\ walk.page <= Cardinality(Ids) + 1 /\ walk.total <= Cardinality(Ids)
    /\ walk.repeated \subseteq walk.shown

FlagsOK == gone \in BOOLEAN /\ moved \in BOOLEAN /\ entered \in BOOLEAN

\* The type invariant, without its intervals.
LEMMA TypeParts == TypeOK /\ walk \in Walks <=> DataOK /\ FlagsOK
<1>1. Cardinality(Ids) \in Nat
    BY Counting
<1>2. ASSUME walk \in Walks
      PROVE  /\ walk.at \in {"count", "find", "done"} /\ walk.size \in 1..MaxSize
             /\ walk.page \in 1..(Cardinality(Ids) + 1) <=> walk.page <= Cardinality(Ids) + 1
             /\ walk.total \in 0..Cardinality(Ids) <=> walk.total <= Cardinality(Ids)
             /\ walk.shown \subseteq Ids
    BY <1>1, <1>2 DEF Walks
<1>3. QED
    BY <1>2 DEF TypeOK, DataOK, FlagsOK, RowsOK

\* The same after a step.
LEMMA TypePartsNext == DataOK' /\ FlagsOK' => TypeOK' /\ (walk \in Walks)'
BY TypeParts, PTL

\* What the invariant says of the page to come.
LEMMA PageToCome ==
    ASSUME PagesInv
    PROVE  /\ RowsOK /\ walk.page \in Nat \ {0} /\ walk.size \in Nat \ {0}
           /\ NextOffset \in Nat /\ Listed \in SUBSET Ids /\ kept \subseteq Listed
<1>1. RowsOK /\ walk.page \in Nat \ {0} /\ walk.size \in Nat \ {0}
    BY PagesAssumption DEF PagesInv, TypeOK, RowsOK, Walks
<1>2. QED
    BY <1>1, Offsets DEF NextOffset, Listed, PagesInv, TypeOK

\* The reader has read nothing at first.
LEMMA PagesInit == Init => PagesInv
<1> SUFFICES ASSUME Init
             PROVE  PagesInv
    OBVIOUS
<1>1. Cardinality(Ids) \in Nat
    BY Counting
<1>2. rows \in [Ids -> [listed : BOOLEAN, stamp : 0..MaxStamp]]
    <2>1. 0 \in 0..MaxStamp
        BY PagesAssumption
    <2>2. QED
        BY <2>1 DEF Init
<1>3. DataOK /\ FlagsOK
    <2>1. DataOK
        BY <1>1, <1>2, PagesAssumption DEF Init, DataOK, RowsOK, Walks
    <2>2. QED
        BY <2>1 DEF Init, FlagsOK
<1>4. QED
    BY <1>3, TypeParts DEF Init, PagesInv, KeptAhead, ShownBehind, TotalCounts

\* Asking for the first page.
LEMMA StartKeepsInv ==
    ASSUME PagesInv, NEW asked \in AskedSizes, Start(asked)
    PROVE  PagesInv'
<1>1. UsedSize(asked) \in 1..MaxSize
    BY PagesAssumption, SizesBounded
<1>2. Cardinality(Ids) \in Nat
    BY Counting
<1>3. Listed' = Listed /\ Listed \in SUBSET Ids
    BY DEF Start, Listed
<1>4. DataOK' /\ FlagsOK'
    <2>1. DataOK'
        BY <1>1, <1>2, <1>3 DEF Start, PagesInv, TypeOK, DataOK, RowsOK, Walks
    <2>2. QED
        BY <2>1 DEF Start, FlagsOK
<1>5. Offset(1, UsedSize(asked)) = 0
    BY <1>1, Offsets
<1>6. \A k : Position(k)' = Position(k) /\ Position(k) \in Nat
    BY <1>3, PositionCounts DEF Start, Position, Precedes
<1>7. KeptAhead'
    BY <1>5, <1>6 DEF Start, KeptAhead, NextOffset
<1>8. ShownBehind' /\ TotalCounts'
    BY DEF Start, ShownBehind, TotalCounts
<1>9. QED
    BY <1>4, <1>7, <1>8, TypePartsNext DEF PagesInv

\* The count before a page.
LEMMA CountKeepsInv ==
    ASSUME PagesInv, Count
    PROVE  PagesInv'
<1>1. Listed' = Listed /\ Listed \in SUBSET Ids /\ Ids \in SUBSET Ids
    BY DEF Count, Listed
<1>2. /\ Cardinality(Listed) \in Nat /\ Cardinality(Ids) \in Nat
      /\ Cardinality(Listed) <= Cardinality(Ids)
    BY <1>1, Counting
<1>3. /\ walk' = [walk EXCEPT !.at = "find", !.total = Cardinality(Listed)]
      /\ walk \in Walks
    BY DEF Count, Total, PagesInv
<1>4. /\ walk' \in Walks /\ walk'.at = "find" /\ walk'.total = Cardinality(Listed)
      /\ walk'.page = walk.page /\ walk'.size = walk.size
      /\ walk'.shown = walk.shown /\ walk'.repeated = walk.repeated
    BY <1>2, <1>3 DEF Walks
<1>5. DataOK' /\ FlagsOK'
    <2>1. DataOK'
        BY <1>1, <1>2, <1>4 DEF Count, PagesInv, TypeOK, DataOK, RowsOK
    <2>2. gone' = gone /\ moved' = moved /\ entered' = FALSE /\ FlagsOK
        BY TypeParts DEF Count, PagesInv
    <2>3. QED
        BY <2>1, <2>2 DEF FlagsOK
<1>6. \A k : Position(k)' = Position(k)
    BY <1>1 DEF Count, Position, Precedes
<1>7. KeptAhead' /\ ShownBehind'
    BY <1>1, <1>4, <1>6 DEF Count, PagesInv, KeptAhead, ShownBehind, NextOffset
<1>8. TotalCounts'
    BY <1>1, <1>2, <1>4 DEF TotalCounts
<1>9. QED
    BY <1>5, <1>7, <1>8, TypePartsNext DEF PagesInv

\* The rows of a page.
LEMMA FindKeepsInv ==
    ASSUME PagesInv, Find
    PROVE  PagesInv'
<1> DEFINE page == walk.page
           size == walk.size
           items == PageOf(page, size)
           short == Cardinality(items) < size
<1>1. /\ RowsOK /\ page \in Nat \ {0} /\ size \in Nat \ {0}
      /\ NextOffset \in Nat /\ NextOffset = Offset(page, size)
      /\ Listed \in SUBSET Ids /\ kept \subseteq Listed
    BY PageToCome DEF NextOffset
<1>2. walk \in Walks /\ walk.at = "find" /\ DataOK /\ FlagsOK
    BY TypeParts DEF PagesInv, Find
<1>3. /\ Offset(page + 1, size) = NextOffset + size /\ page - 1 <= NextOffset
      /\ page + 1 \in Nat \ {0}
    <2>1. page \in Nat \ {0} /\ size \in Nat \ {0} /\ NextOffset = Offset(page, size)
        BY <1>1
    <2> HIDE DEF page, size
    <2>2. /\ Offset(page + 1, size) = Offset(page, size) + size
          /\ page - 1 <= Offset(page, size)
        BY <2>1, Offsets
    <2>3. page + 1 \in Nat \ {0}
        BY <2>1
    <2>4. QED
        BY <2>1, <2>2, <2>3
<1>4. items \in SUBSET Listed /\ Cardinality(items) \in Nat /\ Cardinality(Ids) \in Nat
    BY <1>1, PageIsBetween, Counting
<1>5. /\ walk' = [walk EXCEPT !.at = IF short THEN "done" ELSE "count",
                              !.page = IF short THEN page ELSE page + 1,
                              !.shown = walk.shown \cup items,
                              !.repeated = walk.repeated \cup (walk.shown \cap items)]
      /\ rows' = rows /\ kept' = kept /\ gone' = gone /\ moved' = moved /\ entered' = entered
    BY DEF Find
<1>6. /\ walk'.at = IF short THEN "done" ELSE "count"
      /\ walk'.page = IF short THEN page ELSE page + 1
      /\ walk'.size = size /\ walk'.total = walk.total
      /\ walk'.shown = walk.shown \cup items
      /\ walk'.repeated = walk.repeated \cup (walk.shown \cap items)
    BY <1>2, <1>5 DEF Walks
<1>7. Listed' = Listed /\ \A k : Position(k)' = Position(k)
    BY <1>5 DEF Listed, Position, Precedes
<1>8. NextOffset' = IF short THEN NextOffset ELSE NextOffset + size
    BY <1>1, <1>3, <1>6 DEF NextOffset
<1>9. DataOK'
    <2>1. walk' \in Walks
        BY <1>1, <1>2, <1>3, <1>4, <1>5 DEF Walks
    <2>2. walk'.page <= Cardinality(Ids) + 1
        <3>1. CASE short
            BY <1>2, <1>6, <3>1 DEF DataOK
        <3>2. CASE ~short
            <4>1. items # {}
                BY <1>1, <1>4, <3>2, FS_EmptySet
            <4>2. NextOffset + Cardinality(items) <= Cardinality(Listed)
                BY <1>1, <4>1, PagesFit
            <4>3. Cardinality(Listed) <= Cardinality(Ids) /\ Cardinality(Listed) \in Nat
                BY <1>1, Counting
            <4>4. QED
                BY <1>1, <1>3, <1>4, <1>6, <3>2, <4>2, <4>3
        <3>3. QED
            BY <3>1, <3>2
    <2>3. walk'.total <= Cardinality(Ids) /\ walk'.repeated \subseteq walk'.shown
        BY <1>2, <1>6 DEF DataOK
    <2>4. QED
        BY <1>1, <1>5, <1>7, <2>1, <2>2, <2>3 DEF DataOK, RowsOK
<1>10. FlagsOK'
    BY <1>2, <1>5 DEF FlagsOK
<1>11. KeptAhead'
    <2>1. SUFFICES ASSUME ~gone, NEW k \in kept, k \notin walk.shown, k \notin items
                   PROVE  walk'.at # "done" /\ NextOffset' <= Position(k)
        BY <1>5, <1>6, <1>7 DEF KeptAhead
    <2>2. k \in Listed /\ NextOffset <= Position(k) /\ Position(k) \in Nat
        BY <1>1, <2>1, PositionCounts DEF PagesInv, KeptAhead
    <2>3. NextOffset + size <= Position(k)
        BY <1>1, <2>1, <2>2 DEF PageOf
    <2>4. ~short
        BY <1>1, <2>2, <2>3, FullPage
    <2>5. QED
        BY <1>6, <1>8, <2>3, <2>4
<1>12. ShownBehind'
    <2>1. SUFFICES ASSUME ~moved
                   PROVE  /\ walk'.repeated = {}
                          /\ walk'.at # "done" =>
                                \A k \in walk'.shown \cap Listed : Position(k) < NextOffset'
        BY <1>5, <1>7 DEF ShownBehind
    <2>2. /\ walk.repeated = {}
          /\ \A k \in walk.shown \cap Listed : Position(k) < NextOffset
        BY <1>2, <2>1 DEF PagesInv, ShownBehind
    <2>3. \A k \in items : /\ NextOffset <= Position(k) /\ Position(k) < NextOffset + size
                           /\ Position(k) \in Nat
        BY <1>1, PositionCounts DEF PageOf
    <2>4. walk.shown \cap items = {}
        BY <1>1, <1>4, <2>2, <2>3
    <2>5. ASSUME ~short, NEW k \in (walk.shown \cup items) \cap Listed
          PROVE  Position(k) < NextOffset + size
        <3>1. Position(k) \in Nat
            BY PositionCounts
        <3>2. QED
            BY <1>1, <2>2, <2>3, <2>5, <3>1
    <2>6. QED
        BY <1>6, <1>8, <2>2, <2>4, <2>5
<1>13. TotalCounts'
    BY <1>6 DEF TotalCounts
<1>14. QED
    BY <1>9, <1>10, <1>11, <1>12, <1>13, TypePartsNext DEF PagesInv

\* While the reader waits, the rows change.
LEMMA WriteKeepsData ==
    ASSUME PagesInv, RowsOK', kept' \subseteq Listed', walk' = walk
    PROVE  DataOK'
BY TypeParts DEF PagesInv, DataOK

\* A record enters the list, and comes before some of the others.
LEMMA EnterKeepsInv ==
    ASSUME PagesInv, NEW k \in Ids, NEW stamp \in 0..MaxStamp, Enter(k, stamp)
    PROVE  PagesInv'
<1>1. RowsOK /\ Listed \in SUBSET Ids /\ kept \subseteq Listed /\ NextOffset \in Nat
    BY PageToCome
<1>2. /\ rows' = [rows EXCEPT ![k] = [listed |-> TRUE, stamp |-> stamp]]
      /\ ~rows[k].listed /\ walk' = walk /\ kept' = kept /\ gone' = gone
    BY DEF Enter
<1>3. RowsOK'
    BY <1>1, <1>2 DEF RowsOK
<1>4. \A j \in Listed : j # k /\ rows'[j] = rows[j] /\ j \in Listed'
    BY <1>1, <1>2 DEF RowsOK, Listed
<1>5. DataOK'
    BY <1>1, <1>2, <1>3, <1>4, WriteKeepsData
<1>6. FlagsOK'
    <2>1. FlagsOK
        BY TypeParts DEF PagesInv
    <2>2. QED
        BY <2>1 DEF Enter, FlagsOK
<1>7. KeptAhead'
    <2>1. ASSUME NEW j \in kept
          PROVE  Position(j) <= Position(j)'
        <3>1. \A i \in Listed : rows[i].stamp \in Nat
            BY <1>1 DEF RowsOK
        <3>2. \A i \in Listed : i \in Listed' /\ rows'[i].stamp >= rows[i].stamp
            BY <1>4, <3>1
        <3>3. QED
            BY <1>1, <1>3, <1>4, <3>2, PositionsRise
    <2>2. \A j \in kept : Position(j) \in Nat /\ Position(j)' \in Nat
        BY PositionsCounted
    <2>3. NextOffset' = NextOffset
        BY <1>2 DEF NextOffset
    <2>4. QED
        BY <1>1, <1>2, <2>1, <2>2, <2>3 DEF PagesInv, KeptAhead
<1>8. ShownBehind' /\ TotalCounts'
    BY DEF Enter, ShownBehind, TotalCounts
<1>9. QED
    BY <1>5, <1>6, <1>7, <1>8, TypePartsNext DEF PagesInv

\* A listed record is written, and moves to the front of those it was among.
LEMMA WriteKeepsInv ==
    ASSUME PagesInv, NEW k \in Ids, NEW stamp \in 0..MaxStamp, Write(k, stamp)
    PROVE  PagesInv'
<1>1. RowsOK /\ Listed \in SUBSET Ids /\ kept \subseteq Listed /\ NextOffset \in Nat
    BY PageToCome
<1>2. /\ rows' = [rows EXCEPT ![k].stamp = stamp]
      /\ stamp >= rows[k].stamp /\ walk' = walk /\ kept' = kept \ {k} /\ gone' = gone
    BY DEF Write
<1>3. RowsOK'
    BY <1>1, <1>2 DEF RowsOK
<1>4. Listed' = Listed
    BY <1>1, <1>2 DEF RowsOK, Listed
<1>5. DataOK'
    BY <1>1, <1>2, <1>3, <1>4, WriteKeepsData
<1>6. FlagsOK'
    <2>1. FlagsOK
        BY TypeParts DEF PagesInv
    <2>2. QED
        BY <2>1 DEF Write, FlagsOK
<1>7. KeptAhead'
    <2>1. ASSUME NEW j \in kept'
          PROVE  Position(j) <= Position(j)'
        <3>1. \A i \in Ids : rows[i].stamp \in Nat
            BY <1>1 DEF RowsOK
        <3>2. \A i \in Listed : i \in Listed' /\ rows'[i].stamp >= rows[i].stamp
            BY <1>1, <1>2, <1>4, <3>1 DEF RowsOK
        <3>3. j \in Ids /\ rows'[j] = rows[j]
            BY <1>1, <1>2 DEF RowsOK
        <3>4. QED
            BY <1>1, <1>3, <3>2, <3>3, PositionsRise
    <2>2. \A j \in kept' : Position(j) \in Nat /\ Position(j)' \in Nat
        BY PositionsCounted
    <2>3. NextOffset' = NextOffset
        BY <1>2 DEF NextOffset
    <2>4. QED
        BY <1>1, <1>2, <2>1, <2>2, <2>3 DEF PagesInv, KeptAhead
<1>8. ShownBehind'
    BY DEF Write, ShownBehind
<1>9. TotalCounts'
    BY <1>4 DEF Write, PagesInv, TotalCounts
<1>10. QED
    BY <1>5, <1>6, <1>7, <1>8, <1>9, TypePartsNext DEF PagesInv

\* A record leaves, and those after it move up.
LEMMA LeaveKeepsInv ==
    ASSUME PagesInv, NEW k \in Ids, Leave(k)
    PROVE  PagesInv'
<1>1. RowsOK /\ Listed \in SUBSET Ids /\ kept \subseteq Listed /\ NextOffset \in Nat
    BY PageToCome
<1>2. /\ rows' = [rows EXCEPT ![k].listed = FALSE]
      /\ walk' = walk /\ kept' = kept \ {k} /\ moved' = moved /\ entered' = entered
    BY DEF Leave
<1>3. RowsOK'
    BY <1>1, <1>2 DEF RowsOK
<1>4. Listed' \subseteq Listed /\ kept' \subseteq Listed'
    BY <1>1, <1>2 DEF RowsOK, Listed
<1>5. DataOK'
    BY <1>2, <1>3, <1>4, WriteKeepsData
<1>6. FlagsOK'
    <2>1. FlagsOK
        BY TypeParts DEF PagesInv
    <2>2. QED
        BY <2>1 DEF Leave, FlagsOK
<1>7. KeptAhead'
    BY DEF Leave, KeptAhead
<1>8. ShownBehind'
    <2>1. \A j \in Ids : rows'[j].stamp = rows[j].stamp
        BY <1>1, <1>2 DEF RowsOK
    <2>2. \A j \in Ids : Position(j)' <= Position(j)
        BY <1>4, <2>1, PositionsFall
    <2>3. \A j \in Ids : Position(j) \in Nat /\ Position(j)' \in Nat
        BY PositionsCounted
    <2>4. NextOffset' = NextOffset
        BY <1>2 DEF NextOffset
    <2>5. QED
        BY <1>1, <1>2, <1>4, <2>2, <2>3, <2>4 DEF PagesInv, ShownBehind
<1>9. TotalCounts'
    <2>1. /\ Cardinality(Listed') <= Cardinality(Listed)
          /\ Cardinality(Listed) \in Nat /\ Cardinality(Listed') \in Nat
        BY <1>1, <1>4, Counting
    <2>2. walk \in Walks
        BY DEF PagesInv
    <2>3. QED
        BY <1>2, <2>1, <2>2 DEF PagesInv, TotalCounts, Walks
<1>10. QED
    BY <1>5, <1>6, <1>7, <1>8, <1>9, TypePartsNext DEF PagesInv

\* Every step keeps the invariant.
LEMMA PagesStep == PagesInv /\ [Next]_vars => PagesInv'
<1> SUFFICES ASSUME PagesInv, [Next]_vars
             PROVE  PagesInv'
    OBVIOUS
<1>1. ASSUME NEW asked \in AskedSizes, Start(asked)
      PROVE  PagesInv'
    BY <1>1, StartKeepsInv
<1>2. CASE Count
    BY <1>2, CountKeepsInv
<1>3. CASE Find
    BY <1>3, FindKeepsInv
<1>4. ASSUME NEW k \in Ids, NEW stamp \in 0..MaxStamp, Enter(k, stamp)
      PROVE  PagesInv'
    BY <1>4, EnterKeepsInv
<1>5. ASSUME NEW k \in Ids, NEW stamp \in 0..MaxStamp, Write(k, stamp)
      PROVE  PagesInv'
    BY <1>5, WriteKeepsInv
<1>6. ASSUME NEW k \in Ids, Leave(k)
      PROVE  PagesInv'
    BY <1>6, LeaveKeepsInv
<1>7. CASE UNCHANGED vars
    BY <1>7 DEF vars, PagesInv, TypeOK, KeptAhead, ShownBehind, TotalCounts, NextOffset,
       Listed, Position, Precedes
<1>8. QED
    BY <1>1, <1>2, <1>3, <1>4, <1>5, <1>6, <1>7 DEF Next

\* The invariant the theorems below are read off (Store.List).
LEMMA PagesCorrect == Spec => []PagesInv
BY PagesInit, PagesStep, PTL DEF Spec

-----------------------------------------------------------------------------
(* Theorems. *)

\* Whatever size a reader asks for, his pages are neither empty by their size
\* nor larger than the largest, and he asks for no page that lies more than one
\* beyond the last record (bindPage, normalizePage).
THEOREM PagesTyped == Spec => []TypeOK
<1>1. PagesInv => TypeOK
    BY DEF PagesInv
<1>2. QED
    BY <1>1, PagesCorrect, PTL

\* A reader who gets to the end has seen every record that was listed when he
\* began and was not written since, however many others were written and
\* entered meanwhile, unless one left the list (Store.List: OFFSET).
THEOREM UntouchedAreShown == Spec => []UntouchedShown
<1>1. PagesInv => UntouchedShown
    BY DEF PagesInv, KeptAhead, UntouchedShown
<1>2. QED
    BY <1>1, PagesCorrect, PTL

\* A reader only sees a record twice if one was written or entered meanwhile;
\* that records leave is not enough (Store.List: the order has no ties).
THEOREM RepeatsAreExplained == Spec => []RepeatsExplained
<1>1. PagesInv => RepeatsExplained
    BY DEF PagesInv, ShownBehind, RepeatsExplained
<1>2. QED
    BY <1>1, PagesCorrect, PTL

\* A page and the ones before it only hold more records than the total it is
\* answered with if one entered between the two statements (Store.List).
THEOREM TotalsAreExplained == Spec => TotalExplained
<1> DEFINE Fits ==
        walk.at = "find" /\ walk' # walk =>
            LET items == PageOf(walk.page, walk.size)
            IN \/ items = {} \/ entered
               \/ Offset(walk.page, walk.size) + Cardinality(items) <= walk.total
<1>1. PagesInv => Fits
    <2> SUFFICES ASSUME PagesInv, walk.at = "find", ~entered,
                        PageOf(walk.page, walk.size) # {}
                 PROVE  Offset(walk.page, walk.size) + Cardinality(PageOf(walk.page, walk.size))
                            <= walk.total
        OBVIOUS
    <2>1. /\ RowsOK /\ walk.page \in Nat \ {0} /\ walk.size \in Nat \ {0}
          /\ Listed \in SUBSET Ids
        BY PageToCome
    <2>2. /\ Offset(walk.page, walk.size) + Cardinality(PageOf(walk.page, walk.size))
                <= Cardinality(Listed)
          /\ Cardinality(PageOf(walk.page, walk.size)) \in Nat
        BY <2>1, PagesFit
    <2>3. Cardinality(Listed) <= walk.total
        BY DEF PagesInv, TotalCounts
    <2>4. Offset(walk.page, walk.size) \in Nat /\ Cardinality(Listed) \in Nat /\ walk.total \in Nat
        BY <2>1, Offsets, Counting DEF PagesInv, Walks
    <2>5. QED
        BY <2>2, <2>3, <2>4
<1>2. PagesInv /\ [Next]_vars => [Fits]_vars
    BY <1>1
<1>3. QED
    BY <1>2, PagesCorrect, PTL DEF Spec, TotalExplained

\* The offsets a walk asks for lie within the table.
OffsetsInTable == NextOffset \in 0..Cardinality(Ids)

\* A further page begins where a full one ended.
LEMMA FindStaysInTable ==
    ASSUME PagesInv, OffsetsInTable, Find
    PROVE  OffsetsInTable'
<1> DEFINE items == PageOf(walk.page, walk.size)
           short == Cardinality(items) < walk.size
<1>1. /\ RowsOK /\ walk.page \in Nat \ {0} /\ walk.size \in Nat \ {0}
      /\ NextOffset \in Nat /\ Listed \in SUBSET Ids
    BY PageToCome
<1>2. /\ walk'.page = IF short THEN walk.page ELSE walk.page + 1
      /\ walk'.size = walk.size
    BY DEF Find, PagesInv, Walks
<1>3. CASE short
    BY <1>2, <1>3 DEF OffsetsInTable, NextOffset
<1>4. CASE ~short
    <2>1. items \in SUBSET Listed /\ Cardinality(items) \in Nat
        BY <1>1, PageIsBetween, Counting
    <2>2. items # {}
        BY <1>1, <1>4, <2>1, FS_EmptySet
    <2>3. NextOffset + Cardinality(items) <= Cardinality(Listed)
        BY <1>1, <2>2, PagesFit DEF NextOffset
    <2>4. /\ Cardinality(Listed) <= Cardinality(Ids)
          /\ Cardinality(Listed) \in Nat /\ Cardinality(Ids) \in Nat
        BY <1>1, Counting
    <2>5. NextOffset' = NextOffset + walk.size
        BY <1>1, <1>2, <1>4, Offsets DEF NextOffset
    <2>6. QED
        BY <1>1, <1>4, <2>1, <2>3, <2>4, <2>5 DEF OffsetsInTable
<1>5. QED
    BY <1>3, <1>4

\* No walk asks for rows beyond the end of the table, whatever is written in the
\* meantime: an offset, which the code multiplies in 64 bits, is never larger
\* than the number of records (Store.List, normalizePage).
THEOREM OffsetsStayInTable == Spec => []OffsetsInTable
<1>1. Cardinality(Ids) \in Nat
    BY Counting
<1>2. Init => OffsetsInTable
    <2> SUFFICES ASSUME Init
                 PROVE  OffsetsInTable
        OBVIOUS
    <2>1. walk.page = 1 /\ walk.size = DefaultSize /\ DefaultSize \in Nat \ {0}
        BY PagesAssumption DEF Init
    <2>2. QED
        BY <1>1, <2>1, Offsets DEF OffsetsInTable, NextOffset
<1>3. PagesInv /\ OffsetsInTable /\ [Next]_vars => OffsetsInTable'
    <2> SUFFICES ASSUME PagesInv, OffsetsInTable, [Next]_vars
                 PROVE  OffsetsInTable'
        OBVIOUS
    <2>1. ASSUME NEW asked \in AskedSizes, Start(asked)
          PROVE  OffsetsInTable'
        <3>1. UsedSize(asked) \in Nat \ {0}
            BY PagesAssumption, SizesBounded
        <3>2. walk'.page = 1 /\ walk'.size = UsedSize(asked)
            BY <2>1 DEF Start
        <3>3. Offset(1, UsedSize(asked)) = 0
            BY <3>1, Offsets
        <3>4. QED
            BY <1>1, <3>2, <3>3 DEF OffsetsInTable, NextOffset
    <2>2. CASE Count
        <3>1. walk'.page = walk.page /\ walk'.size = walk.size
            BY <2>2 DEF Count, PagesInv, Walks
        <3>2. QED
            BY <3>1 DEF OffsetsInTable, NextOffset
    <2>3. CASE Find
        BY <2>3, FindStaysInTable
    <2>4. CASE walk' = walk
        BY <2>4 DEF OffsetsInTable, NextOffset
    <2>5. QED
        BY <2>1, <2>2, <2>3, <2>4 DEF Next, Enter, Write, Leave, vars
<1>4. QED
    BY <1>2, <1>3, PagesCorrect, PTL DEF Spec
=============================================================================
