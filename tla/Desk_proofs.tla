------------------------------- MODULE Desk_proofs -------------------------------
(* Theorems about ListingIntake and AdminPages, for every set of payloads,  *)
(* every set of rows, clock and page limit.                                 *)
EXTENDS Desk_inv, FiniteSetTheorems, WellFoundedInduction, TLAPS

-------------------------------------------------------------------------------
(* Minima, maxima and pages                                                *)

\* The FiniteSets under AdminPages counts as the one the library's theorems are about.
LEMMA SameCardinality == \A S : Pages!Cardinality(S) = Cardinality(S)
BY DEF Cardinality, Pages!Cardinality

\* A set of stamps has a least one.
LEMMA MinOfStamps ==
  ASSUME NEW S \in SUBSET Nat, S # {}
  PROVE  Pages!Min(S) \in S /\ \A x \in S : Pages!Min(S) <= x
<1> DEFINE below == OpToRel(<, Nat)
<1>1. IsWellFoundedOn(below, Nat)
  BY NatLessThanWellFounded
<1>2. \A x, y \in Nat : <<y, x>> \in below <=> y < x
  BY DEF OpToRel
<1> HIDE DEF below
<1>3. PICK x \in S : \A y \in S : ~ (<<y, x>> \in below)
  BY <1>1, WFMin
<1>4. ASSUME NEW y \in S PROVE x <= y
  <2>1. x \in Nat /\ y \in Nat
    OBVIOUS
  <2>2. ~ (y < x)
    BY <1>2, <1>3, <2>1, Zenon
  <2> QED
    BY <2>1, <2>2
<1> QED
  BY <1>4 DEF Pages!Min

\* The lesser and the greater of two numbers.
LEMMA MinOfTwo ==
  ASSUME NEW m \in Int, NEW n \in Int
  PROVE  Pages!Min({m, n}) = IF m <= n THEN m ELSE n
<1> DEFINE least == IF m <= n THEN m ELSE n
<1>1. least \in {m, n} /\ \A y \in {m, n} : least <= y
  OBVIOUS
<1>2. \A x \in {m, n} : (\A y \in {m, n} : x <= y) => x = least
  OBVIOUS
<1> QED
  BY <1>1, <1>2 DEF Pages!Min

LEMMA MaxOfTwo ==
  ASSUME NEW m \in Int, NEW n \in Int
  PROVE  Pages!Max({m, n}) = IF m >= n THEN m ELSE n
<1> DEFINE most == IF m >= n THEN m ELSE n
<1>1. most \in {m, n} /\ \A y \in {m, n} : most >= y
  OBVIOUS
<1>2. \A x \in {m, n} : (\A y \in {m, n} : x >= y) => x = most
  OBVIOUS
<1> QED
  BY <1>1, <1>2 DEF Pages!Max

\* Whatever limit was asked for, a page may hold a row.
LEMMA PageHasRoom == reader \in Reader => Pages!PageSize \in Nat /\ Pages!PageSize >= 1
<1> SUFFICES ASSUME reader \in Reader
             PROVE  Pages!PageSize \in Nat /\ Pages!PageSize >= 1
  OBVIOUS
<1> DEFINE lim == Pages!Min({reader.limit, MaxLimit})
<1>1. reader.limit \in Int /\ MaxLimit \in Int
  BY PagesAssumption DEF Reader
<1>2. lim \in Int
  BY <1>1, MinOfTwo
<1> HIDE DEF lim
<1>3. Pages!Max({1, lim}) = IF 1 >= lim THEN 1 ELSE lim
  BY <1>2, MaxOfTwo
<1>4. Pages!PageSize = Pages!Max({1, lim})
  BY DEF Pages!PageSize, lim
<1> QED
  BY <1>2, <1>3, <1>4

\* A page is not empty while there is a row to list: so its last row has a stamp,
\* and that is the least of the page.
LEMMA PageIsUseful ==
  ASSUME PagesTypes, Pages!Found # {}, NEW ids \in SUBSET Ids, Pages!Page(ids)
  PROVE  LET last == Pages!Min({rows[id].stamp : id \in ids})
         IN  /\ last \in 0..clock
             /\ \E id \in ids : rows[id].stamp = last
             /\ \A id \in ids : rows[id].stamp >= last
<1> DEFINE stamps == {rows[id].stamp : id \in ids}
<1>1. IsFiniteSet(Pages!Found)
  <2>1. Pages!Found \subseteq Ids
    BY DEF Pages!Found, Pages!Stored
  <2> QED
    BY <2>1, PagesAssumption, FS_Subset
<1>2. Cardinality(Pages!Found) \in Nat /\ Cardinality(Pages!Found) # 0
  BY <1>1, FS_CardinalityType, FS_EmptySet
<1>3. Pages!PageSize \in Nat /\ Pages!PageSize >= 1
  BY PageHasRoom DEF PagesTypes
<1>4. Cardinality(ids) = Pages!Min({Pages!PageSize, Cardinality(Pages!Found)})
  BY SameCardinality DEF Pages!Page
<1>5. Cardinality(ids) >= 1
  BY <1>2, <1>3, <1>4, MinOfTwo
<1>6. ids # {}
  BY <1>5, FS_EmptySet
<1>7. \A id \in ids : rows[id].stamp \in Nat /\ rows[id].stamp <= clock
  <2> SUFFICES ASSUME NEW id \in ids
               PROVE  rows[id].stamp \in Nat /\ rows[id].stamp <= clock
    OBVIOUS
  <2>1. rows[id].stored
    BY DEF Pages!Page, Pages!Found, Pages!Stored
  <2>2. rows[id] # Pages!NoRow
    BY <2>1 DEF Pages!NoRow
  <2>3. rows[id] \in Pages!Row /\ rows[id].stamp <= clock
    BY <2>2 DEF PagesTypes, Pages!TypeOK
  <2>4. rows[id].stamp \in 0..MaxTime
    BY <2>3 DEF Pages!Row
  <2> QED
    BY <2>3, <2>4, PagesAssumption
<1>8. stamps \subseteq Nat /\ stamps # {}
  BY <1>6, <1>7
<1>9. Pages!Min(stamps) \in stamps /\ \A x \in stamps : Pages!Min(stamps) <= x
  BY <1>8, MinOfStamps
<1>10. PICK id \in ids : rows[id].stamp = Pages!Min(stamps)
  BY <1>9
<1>11. clock \in Nat
  BY PagesAssumption DEF PagesTypes, Pages!TypeOK
<1>12. Pages!Min(stamps) \in 0..clock
  BY <1>7, <1>10, <1>11
<1>13. \A other \in ids : rows[other].stamp >= Pages!Min(stamps)
  BY <1>7, <1>9, <1>12, <1>11
<1> QED
  BY <1>10, <1>12, <1>13

-------------------------------------------------------------------------------
(* Types of the lists                                                      *)

LEMMA PagesTypesInit == Pages!Init => PagesTypes
<1> SUFFICES ASSUME Pages!Init PROVE PagesTypes
  OBVIOUS
<1>1. Pages!NoRow \notin Pages!Row
  BY DEF Pages!NoRow, Pages!Row
<1>2. /\ clock = 0 /\ alone = {} /\ writing = {} /\ overlapped = {}
      /\ \A id \in Ids : rows[id] = Pages!NoRow /\ listed[id] = 0
      /\ rows \in [Ids -> Pages!Row \cup {Pages!NoRow}]
      /\ listed \in [Ids -> 0..2]
  BY DEF Pages!Init
<1>3. reader \in Reader /\ reader.at = "away" /\ reader.cursor = Pages!NoCursor
  BY PagesAssumption DEF Pages!Init, Reader, Pages!NoCursor
<1>4. Pages!NoCursor \in -1..0
  BY DEF Pages!NoCursor
<1> QED
  BY <1>1, <1>2, <1>3, <1>4, PagesAssumption DEF PagesTypes, Pages!TypeOK

LEMMA PagesTypesStep == PagesTypes /\ [Pages!Next]_(Pages!vars) => PagesTypes'
<1> SUFFICES ASSUME PagesTypes, [Pages!Next]_(Pages!vars) PROVE PagesTypes'
  OBVIOUS
<1> USE DEF PagesTypes, Pages!TypeOK
<1>1. CASE Pages!Tick
  <2>1. clock' \in 0..MaxTime /\ clock' = clock + 1
    BY <1>1, PagesAssumption DEF Pages!Tick
  <2>2. \A id \in Ids : rows[id] # Pages!NoRow =>
          rows[id] \in Pages!Row /\ rows[id].stamp <= clock'
    <3> SUFFICES ASSUME NEW id \in Ids, rows[id] # Pages!NoRow
                 PROVE  rows[id] \in Pages!Row /\ rows[id].stamp <= clock'
      OBVIOUS
    <3>1. rows[id].stamp \in 0..MaxTime
      BY DEF Pages!Row
    <3> QED
      BY <2>1, <3>1, PagesAssumption
  <2>3. reader.cursor \in -1..clock'
    BY <2>1, PagesAssumption
  <2>4. \A w \in writing : w.stamp <= clock'
    BY <2>1, PagesAssumption DEF Pages!PendingWrite
  <2> QED
    BY <1>1, <2>1, <2>2, <2>3, <2>4 DEF Pages!Tick
<1>2. CASE Pages!OpenList
  <2>1. reader' = [reader EXCEPT !.at = "reading"] /\ reader' \in Reader
    BY <1>2 DEF Pages!OpenList, Reader
  <2>2. alone' \subseteq Ids
    BY <1>2 DEF Pages!OpenList, Pages!Stored
  <2> QED
    BY <1>2, <2>1, <2>2 DEF Pages!OpenList, Reader
<1>3. CASE Pages!NextPage
  <2>1. PICK ids \in SUBSET Ids :
          /\ Pages!Page(ids)
          /\ listed' = [id \in Ids |-> IF id \in ids THEN Pages!Min({2, listed[id] + 1})
                                                     ELSE listed[id]]
          /\ reader' = [reader EXCEPT !.cursor = Pages!Min({rows[id].stamp : id \in ids})]
    BY <1>3 DEF Pages!NextPage
  <2>2. Pages!Min({rows[id].stamp : id \in ids}) \in 0..clock
    BY <1>3, <2>1, PageIsUseful DEF Pages!NextPage
  <2>3. listed' \in [Ids -> 0..2]
    <3>1. \A id \in Ids : Pages!Min({2, listed[id] + 1}) \in 0..2
      BY MinOfTwo
    <3> QED
      BY <2>1, <3>1
  <2> DEFINE last == Pages!Min({rows[id].stamp : id \in ids})
  <2>4. last \in -1..clock /\ last \in -1..MaxTime
    BY <2>2, PagesAssumption
  <2> HIDE DEF last
  <2>5. reader' = [reader EXCEPT !.cursor = last] /\ reader.at = "reading"
    BY <1>3, <2>1 DEF Pages!NextPage, last
  <2>6. reader' \in Reader /\ reader'.at = "reading" /\ reader'.cursor = last
    BY <2>4, <2>5 DEF Reader
  <2> QED
    BY <1>3, <2>3, <2>4, <2>6 DEF Pages!NextPage
<1>4. CASE Pages!LastPage
  <2>1. reader' = [reader EXCEPT !.at = "end"] /\ reader' \in Reader
    BY <1>4 DEF Pages!LastPage, Reader
  <2> QED
    BY <1>4, <2>1 DEF Pages!LastPage, Reader
<1>5. ASSUME NEW writer \in Writers, NEW id \in Ids, Pages!TakeStamp(writer, id)
      PROVE  PagesTypes'
  <2> DEFINE new == [by |-> writer, id |-> id, stamp |-> clock]
  <2>1. writing' = writing \cup {new} /\ \A w \in writing : w.by # writer
    BY <1>5 DEF Pages!TakeStamp
  <2>2. new \in Pages!PendingWrite /\ new.stamp = clock /\ new.by = writer
    BY DEF Pages!PendingWrite
  <2>3. clock <= clock
    BY PagesAssumption
  <2> HIDE DEF new
  <2>4. \A w, v \in writing' : w.stamp <= clock /\ (w.by = v.by => w = v)
    BY <2>1, <2>2, <2>3
  <2>5. overlapped' \subseteq Ids
    BY <1>5 DEF Pages!TakeStamp, Pages!PendingWrite
  <2>6. UNCHANGED <<clock, rows, reader, listed, alone>>
    BY <1>5 DEF Pages!TakeStamp
  <2> QED
    BY <2>1, <2>2, <2>4, <2>5, <2>6
<1>6. ASSUME NEW w \in writing, Pages!StoreRow(w) PROVE PagesTypes'
  <2>1. PICK done \in BOOLEAN :
          rows' = [rows EXCEPT ![w.id] = [stored |-> TRUE, stamp |-> w.stamp, enriched |-> done]]
    BY <1>6 DEF Pages!StoreRow
  <2> DEFINE row == [stored |-> TRUE, stamp |-> w.stamp, enriched |-> done]
  <2>2. row \in Pages!Row /\ w.id \in Ids
    BY DEF Pages!Row, Pages!PendingWrite
  <2>3. row.stamp <= clock
    OBVIOUS
  <2> HIDE DEF row
  <2>4. rows' \in [Ids -> Pages!Row \cup {Pages!NoRow}]
    BY <2>1, <2>2 DEF row
  <2>5. \A other \in Ids : rows'[other] = IF other = w.id THEN row ELSE rows[other]
    BY <2>1 DEF row
  <2>6. \A other \in Ids : rows'[other] # Pages!NoRow =>
          rows'[other] \in Pages!Row /\ rows'[other].stamp <= clock
    BY <2>2, <2>3, <2>5
  <2>7. alone' \subseteq alone /\ writing' \subseteq writing
    BY <1>6 DEF Pages!StoreRow
  <2>8. UNCHANGED <<clock, reader, listed, overlapped>>
    BY <1>6 DEF Pages!StoreRow
  <2> QED
    BY <2>4, <2>6, <2>7, <2>8
<1>7. ASSUME NEW w \in writing, Pages!WriteFails(w) PROVE PagesTypes'
  BY <1>7 DEF Pages!WriteFails
<1>8. CASE UNCHANGED Pages!vars
  BY <1>8 DEF Pages!vars
<1> QED
  BY <1>1, <1>2, <1>3, <1>4, <1>5, <1>6, <1>7, <1>8 DEF Pages!Next

-------------------------------------------------------------------------------
(* The cursor                                                              *)

\* What a page does: the cursor becomes the least stamp of its rows, and they
\* count as listed once more.
LEMMA PageTurned ==
  ASSUME PagesTypes, Pages!NextPage
  PROVE  \E ids \in SUBSET Ids :
           /\ Pages!Page(ids) /\ ids \subseteq Pages!Found
           /\ reader'.cursor \in 0..clock
           /\ \E id \in ids : rows[id].stamp = reader'.cursor
           /\ \A id \in ids : rows[id].stamp >= reader'.cursor
           /\ \A id \in Ids : listed'[id] = IF id \in ids THEN Pages!Min({2, listed[id] + 1})
                                                          ELSE listed[id]
           /\ reader'.filter = reader.filter /\ reader'.at = "reading"
<1>1. PICK ids \in SUBSET Ids :
        /\ Pages!Page(ids)
        /\ listed' = [id \in Ids |-> IF id \in ids THEN Pages!Min({2, listed[id] + 1})
                                                   ELSE listed[id]]
        /\ reader' = [reader EXCEPT !.cursor = Pages!Min({rows[id].stamp : id \in ids})]
  BY DEF Pages!NextPage
<1> DEFINE last == Pages!Min({rows[id].stamp : id \in ids})
<1>2. /\ last \in 0..clock
      /\ \E id \in ids : rows[id].stamp = last
      /\ \A id \in ids : rows[id].stamp >= last
  BY <1>1, PageIsUseful DEF Pages!NextPage
<1> HIDE DEF last
<1>3. reader' = [reader EXCEPT !.cursor = last]
  BY <1>1 DEF last
<1>4. reader'.cursor = last /\ reader'.filter = reader.filter /\ reader'.at = "reading"
  BY <1>3 DEF PagesTypes, Reader, Pages!NextPage
<1>5. ids \subseteq Pages!Found
  BY <1>1 DEF Pages!Page
<1> QED
  BY <1>1, <1>2, <1>4, <1>5

\* The stamp of a row, and of a write under way, is a time that has come.
LEMMA StampsPast ==
  PagesTypes => /\ clock \in Nat
                /\ reader.cursor \in Int /\ reader.cursor <= clock
                /\ \A id \in Pages!Stored : rows[id].stamp \in Nat /\ rows[id].stamp <= clock
                /\ \A w \in writing : w.stamp \in Nat /\ w.stamp <= clock /\ w.id \in Ids
<1> SUFFICES ASSUME PagesTypes
             PROVE  /\ clock \in Nat
                    /\ reader.cursor \in Int /\ reader.cursor <= clock
                    /\ \A id \in Pages!Stored :
                         rows[id].stamp \in Nat /\ rows[id].stamp <= clock
                    /\ \A w \in writing : w.stamp \in Nat /\ w.stamp <= clock /\ w.id \in Ids
  OBVIOUS
<1>1. clock \in Nat /\ reader.cursor \in Int /\ reader.cursor <= clock
  BY PagesAssumption DEF PagesTypes, Pages!TypeOK
<1>2. ASSUME NEW id \in Pages!Stored
      PROVE  rows[id].stamp \in Nat /\ rows[id].stamp <= clock
  <2>1. id \in Ids /\ rows[id] # Pages!NoRow
    BY DEF Pages!Stored, Pages!NoRow
  <2>2. rows[id] \in Pages!Row /\ rows[id].stamp <= clock
    BY <2>1 DEF PagesTypes, Pages!TypeOK
  <2>3. rows[id].stamp \in 0..MaxTime
    BY <2>2 DEF Pages!Row
  <2> QED
    BY <2>2, <2>3, PagesAssumption
<1>3. ASSUME NEW w \in writing
      PROVE  w.stamp \in Nat /\ w.stamp <= clock /\ w.id \in Ids
  BY PagesAssumption DEF PagesTypes, Pages!TypeOK, Pages!PendingWrite
<1> QED
  BY <1>1, <1>2, <1>3

\* What the upsert does to the rows.
LEMMA RowWritten ==
  ASSUME PagesTypes, NEW w \in writing, Pages!StoreRow(w)
  PROVE  /\ w.id \in Ids
         /\ Pages!Stored' = Pages!Stored \cup {w.id}
         /\ rows'[w.id].stamp = w.stamp
         /\ \A other \in Ids \ {w.id} : rows'[other] = rows[other]
<1>1. PICK done \in BOOLEAN :
        rows' = [rows EXCEPT ![w.id] = [stored |-> TRUE, stamp |-> w.stamp, enriched |-> done]]
  BY DEF Pages!StoreRow
<1>2. w.id \in Ids
  BY StampsPast
<1>3. rows'[w.id].stored /\ rows'[w.id].stamp = w.stamp
  BY <1>1, <1>2 DEF PagesTypes
<1>4. \A other \in Ids \ {w.id} : rows'[other] = rows[other]
  BY <1>1 DEF PagesTypes
<1> QED
  BY <1>2, <1>3, <1>4 DEF Pages!Stored

\* A write that takes its stamp, or fails, leaves rows and lists alone.
LEMMA WriteAside ==
  ASSUME NEW writer, NEW id, NEW w, Pages!TakeStamp(writer, id) \/ Pages!WriteFails(w)
  PROVE  /\ UNCHANGED <<clock, rows, reader, listed, alone>> /\ Pages!Stored' = Pages!Stored
         /\ overlapped \subseteq overlapped'
BY DEF Pages!TakeStamp, Pages!WriteFails, Pages!Stored

\* A steady row that is found has not been listed.
LEMMA FoundIsNew ==
  ListedPassed /\ PagesTypes => \A id \in Pages!Found \cap Steady : listed[id] = 0
<1> SUFFICES ASSUME ListedPassed, PagesTypes,
                    NEW id \in Pages!Found \cap Steady, listed[id] # 0
             PROVE  FALSE
  OBVIOUS
<1>1. id \in Pages!Stored /\ Pages!BeforeCursor(id) /\ id \in Ids
  BY DEF Pages!Found, Pages!Stored
<1>2. listed[id] = 1
  BY <1>1 DEF ListedPassed, PagesTypes, Pages!TypeOK
<1> QED
  BY <1>1, <1>2, StampsPast DEF ListedPassed, Pages!BeforeCursor

LEMMA ListedInit == Pages!Init => OneWrite /\ ListedPassed
BY DEF Pages!Init, OneWrite, ListedPassed, Steady

\* A write takes the present time. So it is not older than the row, nor is another
\* write of the row under way, unless they overlap.
LEMMA OneWriteStep == OnceInv /\ [Pages!Next]_(Pages!vars) => OneWrite'
<1> SUFFICES ASSUME PagesTypes, OneWrite, [Pages!Next]_(Pages!vars) PROVE OneWrite'
  BY DEF OnceInv
<1>1. CASE Pages!Tick
  BY <1>1 DEF Pages!Tick, OneWrite, Pages!Stored
<1>2. CASE Pages!OpenList \/ Pages!NextPage \/ Pages!LastPage
  BY <1>2 DEF Pages!OpenList, Pages!NextPage, Pages!LastPage, OneWrite, Pages!Stored
<1>3. ASSUME NEW writer \in Writers, NEW id \in Ids, Pages!TakeStamp(writer, id)
      PROVE  OneWrite'
  <2> DEFINE new == [by |-> writer, id |-> id, stamp |-> clock]
  <2>1. /\ writing' = writing \cup {new} /\ UNCHANGED rows
        /\ overlapped' = overlapped \cup {w.id : w \in {v \in writing : v.id = id}}
        /\ Pages!Stored' = Pages!Stored
    BY <1>3, WriteAside DEF Pages!TakeStamp
  <2>2. new.id = id /\ new.stamp = clock
    OBVIOUS
  <2> HIDE DEF new
  <2>3. ASSUME NEW w \in writing', w.id \notin overlapped'
        PROVE  /\ \A v \in writing' : v.id = w.id => v = w
               /\ w.id \in Pages!Stored => w.stamp >= rows[w.id].stamp
    <3>1. CASE w = new
      <4>1. \A v \in writing : v.id # id
        BY <2>1, <2>2, <2>3, <3>1
      <4> QED
        BY <2>1, <2>2, <3>1, <4>1, StampsPast
    <3>2. CASE w \in writing
      <4>1. w.id # id /\ w.id \notin overlapped
        BY <2>1, <2>3, <3>2
      <4> QED
        BY <2>1, <2>2, <3>2, <4>1 DEF OneWrite
    <3> QED
      BY <2>1, <3>1, <3>2
  <2> QED
    BY <2>1, <2>3 DEF OneWrite
<1>4. ASSUME NEW w \in writing, Pages!StoreRow(w) PROVE OneWrite'
  <2>1. writing' = writing \ {w} /\ UNCHANGED overlapped
    BY <1>4 DEF Pages!StoreRow
  <2>2. \A v \in writing' : v.id \in Ids
    BY <2>1, StampsPast
  <2> QED
    BY <1>4, <2>1, <2>2, RowWritten DEF OneWrite
<1>5. ASSUME NEW w \in writing, Pages!WriteFails(w) PROVE OneWrite'
  BY <1>5, WriteAside DEF Pages!WriteFails, OneWrite
<1>6. CASE UNCHANGED Pages!vars
  BY <1>6 DEF Pages!vars, OneWrite, Pages!Stored
<1> QED
  BY <1>1, <1>2, <1>3, <1>4, <1>5, <1>6 DEF Pages!Next

\* A row that is listed was before the cursor, so it was not listed yet; the cursor
\* moves to it or beyond it. A write that overlaps no other only moves a row away
\* from the cursor.
LEMMA ListedStep == OnceInv /\ [Pages!Next]_(Pages!vars) => ListedPassed'
<1> SUFFICES ASSUME PagesTypes, OneWrite, ListedPassed, [Pages!Next]_(Pages!vars)
             PROVE  ListedPassed'
  BY DEF OnceInv
<1>0. Steady \subseteq Ids
  BY DEF Steady, PagesTypes, Pages!TypeOK
<1>1. CASE Pages!Tick
  BY <1>1 DEF Pages!Tick, ListedPassed, Pages!Stored, Steady
<1>2. CASE Pages!OpenList
  <2>1. alone' \subseteq Ids /\ \A id \in Ids : listed'[id] = 0
    BY <1>2 DEF Pages!OpenList, Pages!Stored, PagesTypes
  <2> QED
    BY <2>1 DEF ListedPassed, Steady
<1>3. CASE Pages!NextPage
  <2>1. PICK ids \in SUBSET Ids :
           /\ ids \subseteq Pages!Found
           /\ reader'.cursor \in 0..clock
           /\ \E id \in ids : rows[id].stamp = reader'.cursor
           /\ \A id \in ids : rows[id].stamp >= reader'.cursor
           /\ \A id \in Ids : listed'[id] = IF id \in ids THEN Pages!Min({2, listed[id] + 1})
                                                          ELSE listed[id]
    BY <1>3, PageTurned
  <2>2. reader'.cursor # Pages!NoCursor /\ reader'.cursor \in Nat
    BY <2>1, StampsPast DEF Pages!NoCursor
  <2>3. reader.cursor # Pages!NoCursor => reader'.cursor < reader.cursor
    BY <2>1, <2>2, StampsPast DEF Pages!Found, Pages!BeforeCursor
  <2>4. UNCHANGED rows /\ Pages!Stored' = Pages!Stored /\ Steady' = Steady
    BY <1>3 DEF Pages!NextPage, Pages!Stored, Steady
  <2>5. ASSUME NEW id \in Steady
        PROVE  /\ listed'[id] <= 1
               /\ listed'[id] = 1 => id \in Pages!Stored /\ rows[id].stamp >= reader'.cursor
    <3>1. CASE id \in ids
      <4>1. listed'[id] = 1
        <5>1. listed[id] = 0
          BY <2>1, <2>5, <3>1, FoundIsNew
        <5>2. Pages!Min({2, listed[id] + 1}) = 1
          BY <5>1, MinOfTwo
        <5> QED
          BY <1>0, <2>1, <3>1, <5>2
      <4>2. id \in Pages!Stored
        BY <2>1, <3>1 DEF Pages!Found
      <4> QED
        BY <2>1, <3>1, <4>1, <4>2
    <3>2. CASE id \notin ids
      <4>1. listed'[id] = listed[id] /\ listed[id] <= 1
        BY <1>0, <2>1, <3>2 DEF ListedPassed
      <4>2. listed[id] = 1 => id \in Pages!Stored /\ rows[id].stamp >= reader'.cursor
        BY <2>2, <2>3, StampsPast DEF ListedPassed
      <4> QED
        BY <4>1, <4>2
    <3> QED
      BY <3>1, <3>2
  <2> QED
    BY <2>2, <2>4, <2>5 DEF ListedPassed
<1>4. CASE Pages!LastPage
  <2>1. reader'.cursor = reader.cursor
    BY <1>4 DEF Pages!LastPage, PagesTypes, Reader
  <2> QED
    BY <1>4, <2>1 DEF Pages!LastPage, ListedPassed, Pages!Stored, Steady
<1>5. ASSUME NEW writer \in Writers, NEW id \in Ids, Pages!TakeStamp(writer, id)
      PROVE  ListedPassed'
  BY <1>5, WriteAside DEF ListedPassed, Steady
<1>6. ASSUME NEW w \in writing, Pages!StoreRow(w) PROVE ListedPassed'
  <2>1. UNCHANGED <<reader, listed, overlapped>> /\ alone' \subseteq alone \ {w.id}
    BY <1>6 DEF Pages!StoreRow
  <2>2. Steady' \subseteq Steady /\ (w.id \in Steady' => w.id \notin overlapped)
    BY <2>1 DEF Steady
  <2>3. ASSUME NEW id \in Steady', listed'[id] = 1
        PROVE  /\ reader'.cursor # Pages!NoCursor
               /\ id \in Pages!Stored'
               /\ rows'[id].stamp >= reader'.cursor
    <3>1. /\ reader.cursor # Pages!NoCursor /\ id \in Pages!Stored /\ id \in Ids
          /\ rows[id].stamp >= reader.cursor
      BY <1>0, <2>1, <2>2, <2>3 DEF ListedPassed
    <3>2. CASE id = w.id
      <4>1. w.stamp >= rows[id].stamp
        BY <2>2, <2>3, <3>1, <3>2 DEF OneWrite
      <4>2. w.stamp >= reader.cursor
        BY <3>1, <4>1, StampsPast
      <4> QED
        BY <1>6, <2>1, <3>1, <3>2, <4>2, RowWritten
    <3>3. CASE id # w.id
      BY <1>6, <2>1, <3>1, <3>3, RowWritten
    <3> QED
      BY <3>2, <3>3
  <2> QED
    BY <2>1, <2>2, <2>3 DEF ListedPassed
<1>7. ASSUME NEW w \in writing, Pages!WriteFails(w) PROVE ListedPassed'
  BY <1>7, WriteAside DEF ListedPassed, Steady
<1>8. CASE UNCHANGED Pages!vars
  BY <1>8 DEF Pages!vars, ListedPassed, Pages!Stored, Steady
<1> QED
  BY <1>1, <1>2, <1>3, <1>4, <1>5, <1>6, <1>7, <1>8 DEF Pages!Next

-------------------------------------------------------------------------------
(* The rows that are left alone                                            *)

\* Whether a row is one of those the reader wants depends on it and the filter only.
LEMMA MatchKept ==
  \A id \in Ids : reader'.filter = reader.filter /\ rows'[id] = rows[id]
                    => (Pages!Matches(id)' <=> Pages!Matches(id))
BY DEF Pages!Matches

LEMMA ReaderKept ==
  PagesTypes /\ (Pages!OpenList \/ Pages!NextPage \/ Pages!LastPage)
    => reader'.filter = reader.filter /\ UNCHANGED rows /\ Pages!Stored' = Pages!Stored
BY DEF Pages!OpenList, Pages!NextPage, Pages!LastPage, PagesTypes, Reader, Pages!Stored

LEMMA UnwrittenInit == Pages!Init => AloneApart /\ PassedListed /\ Pages!ListsUnwritten
BY DEF Pages!Init, AloneApart, PassedListed, Pages!ListsUnwritten

\* An upsert takes its row and those that share its stamp from the rows left alone.
LEMMA ApartStep == PagesTypes /\ AloneApart /\ [Pages!Next]_(Pages!vars) => AloneApart'
<1> SUFFICES ASSUME PagesTypes, AloneApart, [Pages!Next]_(Pages!vars) PROVE AloneApart'
  OBVIOUS
<1>1. CASE Pages!Tick
  BY <1>1 DEF Pages!Tick, AloneApart, Pages!Stored
<1>2. CASE Pages!OpenList
  BY <1>2, ReaderKept DEF Pages!OpenList, AloneApart
<1>3. CASE Pages!NextPage
  BY <1>3, ReaderKept DEF Pages!NextPage, AloneApart
<1>4. CASE Pages!LastPage
  BY <1>4, ReaderKept DEF Pages!LastPage, AloneApart
<1>5. ASSUME NEW writer \in Writers, NEW id \in Ids, Pages!TakeStamp(writer, id)
      PROVE  AloneApart'
  BY <1>5, WriteAside DEF AloneApart
<1>6. ASSUME NEW w \in writing, Pages!StoreRow(w) PROVE AloneApart'
  <2>1. alone' = {id \in alone \ {w.id} : rows[id].stamp # w.stamp}
    BY <1>6 DEF Pages!StoreRow
  <2>2. alone \subseteq Ids
    BY DEF PagesTypes, Pages!TypeOK
  <2> QED
    BY <1>6, <2>1, <2>2, RowWritten DEF AloneApart, Pages!Stored
<1>7. ASSUME NEW w \in writing, Pages!WriteFails(w) PROVE AloneApart'
  BY <1>7, WriteAside DEF AloneApart
<1>8. CASE UNCHANGED Pages!vars
  BY <1>8 DEF Pages!vars, AloneApart, Pages!Stored
<1> QED
  BY <1>1, <1>2, <1>3, <1>4, <1>5, <1>6, <1>7, <1>8 DEF Pages!Next

\* A page is the latest rows before the cursor. A row left alone shares no stamp
\* with its last row, so the cursor that is taken from that one does not pass it.
LEMMA PassedStep == UnwrittenInv /\ [Pages!Next]_(Pages!vars) => PassedListed'
<1> SUFFICES ASSUME UnwrittenInv, [Pages!Next]_(Pages!vars) PROVE PassedListed'
  OBVIOUS
<1> USE DEF UnwrittenInv, OnceInv
<1>0. alone \subseteq Ids
  BY DEF PagesTypes, Pages!TypeOK
<1>1. CASE Pages!Tick
  BY <1>0, <1>1, MatchKept DEF Pages!Tick, PassedListed
<1>2. CASE Pages!OpenList
  <2>1. reader'.cursor = Pages!NoCursor
    BY <1>2 DEF Pages!OpenList, PagesTypes, Reader
  <2> QED
    BY <2>1 DEF PassedListed, Pages!NoCursor
<1>3. CASE Pages!NextPage
  <2>1. PICK ids \in SUBSET Ids :
           /\ Pages!Page(ids) /\ ids \subseteq Pages!Found
           /\ reader'.cursor \in 0..clock
           /\ \E id \in ids : rows[id].stamp = reader'.cursor
           /\ \A id \in ids : rows[id].stamp >= reader'.cursor
           /\ \A id \in Ids : listed'[id] = IF id \in ids THEN Pages!Min({2, listed[id] + 1})
                                                          ELSE listed[id]
    BY <1>3, PageTurned
  <2>2. PICK last \in ids : rows[last].stamp = reader'.cursor
    BY <2>1
  <2>3. UNCHANGED <<rows, alone>> /\ reader'.filter = reader.filter
    BY <1>3, ReaderKept DEF Pages!NextPage
  <2>4. ASSUME NEW id \in alone, Pages!Matches(id), rows[id].stamp >= reader'.cursor
        PROVE  listed'[id] = 1
    <3>0. id \in Ids /\ id \in Pages!Stored
      BY <1>0 DEF AloneApart
    <3>1. CASE id \in ids
      <4>1. listed[id] = 0
        BY <2>1, <2>4, <3>1, FoundIsNew DEF Steady
      <4>2. Pages!Min({2, listed[id] + 1}) = 1
        BY <4>1, MinOfTwo
      <4> QED
        BY <2>1, <3>1, <4>2
    <3>2. CASE id \notin ids /\ id \in Pages!Found
      <4>1. rows[last].stamp >= rows[id].stamp
        BY <2>1, <2>2, <3>2 DEF Pages!Page
      <4>2. last \in Pages!Stored /\ last # id
        BY <2>1, <2>2, <3>2 DEF Pages!Found
      <4>3. rows[last].stamp # rows[id].stamp
        BY <4>2 DEF AloneApart
      <4> QED
        BY <2>2, <2>4, <3>0, <4>1, <4>2, <4>3, StampsPast
    <3>3. CASE id \notin ids /\ id \notin Pages!Found
      <4>1. ~Pages!BeforeCursor(id)
        BY <2>4, <3>0, <3>3 DEF Pages!Found
      <4>2. reader.cursor # Pages!NoCursor /\ rows[id].stamp >= reader.cursor
        BY <3>0, <4>1, StampsPast DEF Pages!BeforeCursor
      <4>3. listed[id] = 1
        BY <2>4, <4>2 DEF PassedListed
      <4> QED
        BY <2>1, <3>0, <3>3, <4>3
    <3> QED
      BY <3>1, <3>2, <3>3
  <2> QED
    BY <1>0, <2>3, <2>4, MatchKept DEF PassedListed
<1>4. CASE Pages!LastPage
  <2>1. reader'.cursor = reader.cursor
    BY <1>4 DEF Pages!LastPage, PagesTypes, Reader
  <2> QED
    BY <1>0, <1>4, <2>1, ReaderKept, MatchKept DEF Pages!LastPage, PassedListed, Pages!NoCursor
<1>5. ASSUME NEW writer \in Writers, NEW id \in Ids, Pages!TakeStamp(writer, id)
      PROVE  PassedListed'
  BY <1>0, <1>5, WriteAside, MatchKept DEF PassedListed
<1>6. ASSUME NEW w \in writing, Pages!StoreRow(w) PROVE PassedListed'
  <2>1. alone' \subseteq alone \ {w.id} /\ UNCHANGED <<reader, listed>>
    BY <1>6 DEF Pages!StoreRow
  <2>2. \A other \in alone' : rows'[other] = rows[other]
    BY <1>0, <1>6, <2>1, RowWritten
  <2> QED
    BY <1>0, <2>1, <2>2, MatchKept DEF PassedListed, Pages!NoCursor
<1>7. ASSUME NEW w \in writing, Pages!WriteFails(w) PROVE PassedListed'
  BY <1>0, <1>7, WriteAside, MatchKept DEF PassedListed
<1>8. CASE UNCHANGED Pages!vars
  BY <1>0, <1>8, MatchKept DEF Pages!vars, PassedListed
<1> QED
  BY <1>1, <1>2, <1>3, <1>4, <1>5, <1>6, <1>7, <1>8 DEF Pages!Next

\* The list ends when nothing is before the cursor: so it has passed every row that
\* matches and was left alone.
LEMMA UnwrittenStep ==
  UnwrittenInv /\ [Pages!Next]_(Pages!vars) => Pages!ListsUnwritten'
<1> SUFFICES ASSUME UnwrittenInv, [Pages!Next]_(Pages!vars) PROVE Pages!ListsUnwritten'
  OBVIOUS
<1> USE DEF UnwrittenInv, OnceInv
<1>0. alone \subseteq Ids
  BY DEF PagesTypes, Pages!TypeOK
<1>1. CASE Pages!Tick
  BY <1>0, <1>1, MatchKept DEF Pages!Tick, Pages!ListsUnwritten
<1>2. CASE Pages!OpenList \/ Pages!NextPage
  <2>1. reader'.at = "reading"
    BY <1>2 DEF Pages!OpenList, Pages!NextPage, PagesTypes, Reader
  <2> QED
    BY <2>1 DEF Pages!ListsUnwritten
<1>3. CASE Pages!LastPage
  <2>1. ASSUME NEW id \in alone, Pages!Matches(id) PROVE listed[id] = 1
    <3>1. id \in Ids /\ id \in Pages!Stored
      BY <1>0 DEF AloneApart
    <3>2. ~Pages!BeforeCursor(id)
      BY <1>3, <2>1, <3>1 DEF Pages!LastPage, Pages!Found
    <3>3. reader.cursor # Pages!NoCursor /\ rows[id].stamp >= reader.cursor
      BY <3>1, <3>2, StampsPast DEF Pages!BeforeCursor
    <3> QED
      BY <2>1, <3>3 DEF PassedListed
  <2> QED
    BY <1>0, <1>3, <2>1, ReaderKept, MatchKept DEF Pages!LastPage, Pages!ListsUnwritten
<1>4. ASSUME NEW writer \in Writers, NEW id \in Ids, Pages!TakeStamp(writer, id)
      PROVE  Pages!ListsUnwritten'
  BY <1>4 DEF Pages!TakeStamp, Pages!ListsUnwritten
<1>5. ASSUME NEW w \in writing, Pages!StoreRow(w) \/ Pages!WriteFails(w)
      PROVE  Pages!ListsUnwritten'
  BY <1>5 DEF Pages!StoreRow, Pages!WriteFails, Pages!ListsUnwritten
<1>6. CASE UNCHANGED Pages!vars
  BY <1>0, <1>6, MatchKept DEF Pages!vars, Pages!ListsUnwritten
<1> QED
  BY <1>1, <1>2, <1>3, <1>4, <1>5, <1>6 DEF Pages!Next

-------------------------------------------------------------------------------
(* What the translations of a payload read                                 *)

\* Of these keys the payload has the same ones, and at most one.
KeysAlike(keys, others) ==
  LET given == Intake!Range(keys) \cap DOMAIN payload
  IN  /\ DOMAIN keys \subseteq Nat /\ DOMAIN others \subseteq Nat
      /\ Intake!Range(others) \cap DOMAIN payload = given
      /\ \A key, other \in given : key = other

LEMMA SameMin == \A S : Intake!Min(S) = Pages!Min(S)
BY DEF Intake!Min, Pages!Min

\* With one key at most, it does not matter where it is among the keys.
LEMMA LoneFirst ==
  ASSUME NEW keys, DOMAIN keys \subseteq Nat, NEW default, NEW skipped,
         NEW key, Intake!Range(keys) \cap DOMAIN payload \subseteq {key}
  PROVE  Intake!FirstOf(payload, keys, default, skipped) =
           IF key \in Intake!Range(keys) \cap DOMAIN payload /\ payload[key] \notin skipped
           THEN payload[key] ELSE default
<1> DEFINE Given == {i \in DOMAIN keys : keys[i] \in DOMAIN payload /\ payload[keys[i]] \notin skipped}
<1>1. Intake!FirstOf(payload, keys, default, skipped) =
        IF Given = {} THEN default ELSE payload[keys[Intake!Min(Given)]]
  BY DEF Intake!FirstOf
<1>2. \A i \in DOMAIN keys : keys[i] \in DOMAIN payload => keys[i] = key
  BY DEF Intake!Range
<1>3. CASE Given = {}
  <2>1. ~(key \in Intake!Range(keys) \cap DOMAIN payload /\ payload[key] \notin skipped)
    BY <1>3 DEF Intake!Range
  <2> QED
    BY <1>1, <1>3, <2>1
<1>4. CASE Given # {}
  <2>1. Given \in SUBSET Nat
    OBVIOUS
  <2> DEFINE first == Intake!Min(Given)
  <2>2. first \in Given
    BY <1>4, <2>1, MinOfStamps, SameMin
  <2> HIDE DEF first
  <2>3. keys[first] = key /\ payload[key] \notin skipped /\ key \in DOMAIN payload
    BY <1>2, <2>2
  <2>4. key \in Intake!Range(keys)
    BY <2>2, <2>3 DEF Intake!Range
  <2> QED
    BY <1>1, <1>4, <2>3, <2>4 DEF first
<1> QED
  BY <1>3, <1>4

\* Blank texts are stripped to nothing, whether they are skipped or not.
LEMMA LoneText ==
  ASSUME NEW keys, DOMAIN keys \subseteq Nat,
         NEW key, Intake!Range(keys) \cap DOMAIN payload \subseteq {key}
  PROVE  LET text == IF key \in Intake!Range(keys) \cap DOMAIN payload
                     THEN Intake!Strip(payload[key]) ELSE Intake!Empty
         IN  Intake!FirstText(payload, keys) = text /\ Intake!FirstTruthy(payload, keys) = text
<1>1. /\ Intake!Strip(Intake!Empty) = Intake!Empty
      /\ Intake!Strip(Intake!White) = Intake!Empty
  BY DEF Intake!Strip, Intake!White, Intake!Empty, Intake!Text
<1>2. \A skipped : Intake!FirstOf(payload, keys, Intake!Empty, skipped) =
           IF key \in Intake!Range(keys) \cap DOMAIN payload /\ payload[key] \notin skipped
           THEN payload[key] ELSE Intake!Empty
  BY LoneFirst
<1> QED
  BY <1>1, <1>2 DEF Intake!FirstText, Intake!FirstTruthy

LEMMA LoneNumber ==
  ASSUME NEW keys, DOMAIN keys \subseteq Nat,
         NEW key, Intake!Range(keys) \cap DOMAIN payload \subseteq {key}
  PROVE  Intake!FirstNumber(payload, keys) =
           IF key \in Intake!Range(keys) \cap DOMAIN payload /\ payload[key] # Intake!Blank
           THEN payload[key] ELSE Intake!Missing
BY LoneFirst DEF Intake!FirstNumber

\* So two translations that ask for the same key get the same.
LEMMA SameValue ==
  ASSUME NEW keys, NEW others, KeysAlike(keys, others)
  PROVE  /\ Intake!FirstText(payload, others) = Intake!FirstText(payload, keys)
         /\ Intake!FirstTruthy(payload, others) = Intake!FirstText(payload, keys)
         /\ Intake!FirstTruthy(payload, keys) = Intake!FirstText(payload, keys)
         /\ Intake!FirstNumber(payload, others) = Intake!FirstNumber(payload, keys)
<1>1. PICK key : Intake!Range(keys) \cap DOMAIN payload \subseteq {key}
  <2>1. CASE Intake!Range(keys) \cap DOMAIN payload = {}
    BY <2>1
  <2>2. CASE Intake!Range(keys) \cap DOMAIN payload # {}
    BY <2>2 DEF KeysAlike
  <2> QED
    BY <2>1, <2>2
<1>2. Intake!Range(others) \cap DOMAIN payload \subseteq {key}
  BY <1>1 DEF KeysAlike
<1>3. DOMAIN keys \subseteq Nat /\ DOMAIN others \subseteq Nat
  BY DEF KeysAlike
<1> QED
  BY <1>1, <1>2, <1>3, LoneText, LoneNumber DEF KeysAlike

-------------------------------------------------------------------------------
(* What a shared payload holds                                             *)

LEMMA SameCount == \A S : Intake!Cardinality(S) = Cardinality(S)
BY DEF Cardinality, Intake!Cardinality

LEMMA AtMostOne ==
  ASSUME NEW S, IsFiniteSet(S), Cardinality(S) <= 1
  PROVE  \A x, y \in S : x = y
<1> SUFFICES ASSUME NEW x \in S, NEW y \in S, x # y PROVE FALSE
  OBVIOUS
<1>1. IsFiniteSet({x}) /\ Cardinality({x}) = 1
  BY FS_Singleton
<1>2. Cardinality({x} \cup {y}) = 2
  BY <1>1, FS_AddElement
<1>3. {x} \cup {y} \subseteq S
  OBVIOUS
<1>4. Cardinality({x} \cup {y}) <= Cardinality(S)
  BY <1>3, FS_Subset
<1> QED
  BY <1>2, <1>4, FS_CardinalityType

\* A finite set of five keys or fewer.
LEMMA FewKeys ==
  ASSUME NEW a, NEW b, NEW c, NEW d, NEW e, NEW S, S \subseteq {a, b, c, d, e}
  PROVE  IsFiniteSet(S)
<1>1. IsFiniteSet({a})
  BY FS_Singleton
<1>2. IsFiniteSet({a} \cup {b})
  BY <1>1, FS_AddElement
<1>3. IsFiniteSet(({a} \cup {b}) \cup {c})
  BY <1>2, FS_AddElement
<1>4. IsFiniteSet((({a} \cup {b}) \cup {c}) \cup {d})
  BY <1>3, FS_AddElement
<1>5. IsFiniteSet(((({a} \cup {b}) \cup {c}) \cup {d}) \cup {e})
  BY <1>4, FS_AddElement
<1>6. S \subseteq ((({a} \cup {b}) \cup {c}) \cup {d}) \cup {e}
  OBVIOUS
<1> QED
  BY <1>5, <1>6, FS_Subset

\* One price, one link, one currency at most.
LEMMA SharedLone ==
  Intake!Shared =>
    /\ \A key, other \in DOMAIN payload \cap Intake!PriceKeys : key = other
    /\ \A key, other \in DOMAIN payload \cap {"url", "lotUrl", "vehicleUrl"} : key = other
    /\ \A key, other \in DOMAIN payload \cap {"currency", "currencyCode"} : key = other
<1> SUFFICES ASSUME Intake!Shared
             PROVE  /\ \A key, other \in DOMAIN payload \cap Intake!PriceKeys : key = other
                    /\ \A key, other \in DOMAIN payload \cap {"url", "lotUrl", "vehicleUrl"} :
                         key = other
                    /\ \A key, other \in DOMAIN payload \cap {"currency", "currencyCode"} :
                         key = other
  OBVIOUS
<1> DEFINE prices == DOMAIN payload \cap Intake!PriceKeys
           links == DOMAIN payload \cap {"url", "lotUrl", "vehicleUrl"}
           currencies == DOMAIN payload \cap {"currency", "currencyCode"}
<1>1. Cardinality(prices) <= 1 /\ Cardinality(links) <= 1 /\ Cardinality(currencies) <= 1
  BY SameCount DEF Intake!Shared
<1>2. /\ prices \subseteq {"highBid", "buyNowPrice", "preBidPrice", "asking_price", "currentBid"}
      /\ links \subseteq {"url", "lotUrl", "vehicleUrl", "url", "url"}
      /\ currencies \subseteq {"currency", "currencyCode", "currency", "currency", "currency"}
  BY DEF Intake!PriceKeys
<1> HIDE DEF prices, links, currencies
<1>3. IsFiniteSet(prices) /\ IsFiniteSet(links) /\ IsFiniteSet(currencies)
  BY <1>2, FewKeys
<1>4. /\ \A key, other \in prices : key = other
      /\ \A key, other \in links : key = other
      /\ \A key, other \in currencies : key = other
  BY <1>1, <1>3, AtMostOne
<1> QED
  BY <1>4 DEF prices, links, currencies

\* The keys that tuples of keys ask for.
LEMMA KeysOf ==
  /\ \A a : DOMAIN <<a>> \subseteq Nat /\ Intake!Range(<<a>>) = {a}
  /\ \A a, b : DOMAIN <<a, b>> \subseteq Nat /\ Intake!Range(<<a, b>>) = {a, b}
  /\ \A a, b, c : DOMAIN <<a, b, c>> \subseteq Nat /\ Intake!Range(<<a, b, c>>) = {a, b, c}
  /\ \A a, b, c, d : /\ DOMAIN <<a, b, c, d>> \subseteq Nat
                     /\ Intake!Range(<<a, b, c, d>>) = {a, b, c, d}
  /\ \A a, b, c, d, e : /\ DOMAIN <<a, b, c, d, e>> \subseteq Nat
                        /\ Intake!Range(<<a, b, c, d, e>>) = {a, b, c, d, e}
BY DEF Intake!Range

\* The keys of a shared payload, for each source.
LEMMA CopartKeys ==
  Intake!Shared /\ source = "copart" =>
    DOMAIN payload \subseteq
      Intake!FormKeys \cup {"lotNumber", "lot_number", "lot"}
      \cup {"highBid", "buyNowPrice", "asking_price", "currentBid"}
      \cup {"odometer", "odometerUnit", "currencyCode", "lotUrl"}
<1>1. Intake!Range(Intake!Vocabulary["copart"].ref) = {"lotNumber", "lot_number", "lot"}
  BY KeysOf DEF Intake!Vocabulary
<1>2. Intake!Range(Intake!Vocabulary["copart"].price)
        = {"highBid", "buyNowPrice", "asking_price", "currentBid"}
  BY KeysOf DEF Intake!Vocabulary
<1>3. Intake!Vocabulary["copart"].url[1] = "lotUrl"
  BY DEF Intake!Vocabulary
<1> QED
  BY <1>1, <1>2, <1>3 DEF Intake!Shared, Intake!SharedKeys

LEMMA IaaiKeys ==
  Intake!Shared /\ source = "iaai" =>
    DOMAIN payload \subseteq
      Intake!FormKeys \cup {"stockNumber", "stock_number", "stock"}
      \cup {"preBidPrice", "buyNowPrice", "asking_price", "highBid"}
      \cup {"odometer", "odometerUnit", "currencyCode", "vehicleUrl"}
<1>1. Intake!Range(Intake!Vocabulary["iaai"].ref) = {"stockNumber", "stock_number", "stock"}
  BY KeysOf DEF Intake!Vocabulary
<1>2. Intake!Range(Intake!Vocabulary["iaai"].price)
        = {"preBidPrice", "buyNowPrice", "asking_price", "highBid"}
  BY KeysOf DEF Intake!Vocabulary
<1>3. Intake!Vocabulary["iaai"].url[1] = "vehicleUrl"
  BY DEF Intake!Vocabulary
<1> QED
  BY <1>1, <1>2, <1>3 DEF Intake!Shared, Intake!SharedKeys

LEMMA ReferenceKeysAre ==
  Intake!ReferenceKeys = {"external_id", "lotNumber", "lot_number", "lot",
                          "stockNumber", "stock_number", "stock"}
<1>1. UNION {Intake!Range(Intake!Vocabulary[src].ref) : src \in Intake!Auctions}
        = Intake!Range(Intake!Vocabulary["copart"].ref)
          \cup Intake!Range(Intake!Vocabulary["iaai"].ref)
  BY DEF Intake!Auctions
<1>2. /\ Intake!Range(Intake!Vocabulary["copart"].ref) = {"lotNumber", "lot_number", "lot"}
      /\ Intake!Range(Intake!Vocabulary["iaai"].ref) = {"stockNumber", "stock_number", "stock"}
  BY KeysOf DEF Intake!Vocabulary
<1> QED
  BY <1>1, <1>2 DEF Intake!ReferenceKeys

\* The reference of a shared payload: a plain text under a key of its source.
LEMMA SharedReference ==
  ASSUME Intake!Shared
  PROVE  \E key \in DOMAIN payload :
           /\ DOMAIN payload \cap Intake!ReferenceKeys = {key}
           /\ Intake!Plain(payload[key])
           /\ source = "copart" => key \in {"lotNumber", "lot_number", "lot"}
           /\ source = "iaai" => key \in {"stockNumber", "stock_number", "stock"}
           /\ source = "manual" => key = "external_id"
<1>1. PICK key \in Intake!ReferenceKeys :
        DOMAIN payload \cap Intake!ReferenceKeys = {key} /\ Intake!Plain(payload[key])
  BY DEF Intake!Shared
<1>2. source = "copart" => key \in {"lotNumber", "lot_number", "lot"}
  BY <1>1, ReferenceKeysAre, CopartKeys DEF Intake!FormKeys
<1>3. source = "iaai" => key \in {"stockNumber", "stock_number", "stock"}
  BY <1>1, ReferenceKeysAre, IaaiKeys DEF Intake!FormKeys
<1>4. source = "manual" => key = "external_id"
  BY <1>1, ReferenceKeysAre DEF Intake!Shared, Intake!SharedKeys, Intake!FormKeys
<1> QED
  BY <1>1, <1>2, <1>3, <1>4

\* It has no other reference.
LEMMA LoneReference ==
  Intake!Shared =>
    \A key, other \in DOMAIN payload
         \cap {"external_id", "lotNumber", "lot_number", "lot",
               "stockNumber", "stock_number", "stock"} : key = other
BY SharedReference, ReferenceKeysAre

\* When the form has a field for each key of the payload.
LEMMA FormReads ==
  "form" \in Intake!Readers =>
    /\ DOMAIN payload \cap Intake!VendorKeys = {}
    /\ DOMAIN payload \cap Intake!PriceKeys \subseteq {"asking_price"}
    /\ source = "manual" => "title" \in DOMAIN payload
BY DEF Intake!Readers

-------------------------------------------------------------------------------
(* The keys of the crawler and of the dealer's desk                        *)

\* What the adapter of Copart and the dealer's desk ask for is alike.
LEMMA CopartAlike ==
  ASSUME Intake!Shared, source = "copart"
  PROVE  /\ KeysAlike(<<"lotNumber", "lot_number", "lot">>,
                      <<"lotNumber", "lot_number", "lot">>)
         /\ KeysAlike(<<"title", "lotTitle">>, <<"title">>)
         /\ KeysAlike(<<"description", "damageDescription">>, <<"description">>)
         /\ KeysAlike(<<"lotUrl", "url", "href">>, <<"lotUrl", "vehicleUrl", "url">>)
         /\ KeysAlike(<<"highBid", "buyNowPrice", "asking_price", "currentBid">>,
                      <<"highBid", "buyNowPrice", "preBidPrice", "asking_price", "currentBid">>)
         /\ KeysAlike(<<"currencyCode", "currency">>, <<"currencyCode", "currency">>)
         /\ KeysAlike(<<"imageUrls", "image_urls">>,
                      <<"imageUrls", "image_urls", "images">>)
         /\ KeysAlike(<<"mileage_km", "odometerKm">>, <<"mileage_km">>)
         /\ KeysAlike(<<"odometer", "odometerReading">>, <<"odometer">>)
         /\ KeysAlike(<<"odometerUnit", "odometer_unit">>, <<"odometerUnit">>)
<1> USE CopartKeys, SharedLone, LoneReference, KeysOf
    DEF KeysAlike, Intake!FormKeys, Intake!PriceKeys
<1>1. KeysAlike(<<"lotNumber", "lot_number", "lot">>,
                <<"lotNumber", "lot_number", "lot">>)
  OBVIOUS
<1>2. KeysAlike(<<"title", "lotTitle">>, <<"title">>)
  OBVIOUS
<1>3. KeysAlike(<<"description", "damageDescription">>, <<"description">>)
  OBVIOUS
<1>4. KeysAlike(<<"lotUrl", "url", "href">>, <<"lotUrl", "vehicleUrl", "url">>)
  OBVIOUS
<1>5. KeysAlike(<<"highBid", "buyNowPrice", "asking_price", "currentBid">>,
                <<"highBid", "buyNowPrice", "preBidPrice", "asking_price", "currentBid">>)
  OBVIOUS
<1>6. KeysAlike(<<"currencyCode", "currency">>, <<"currencyCode", "currency">>)
  OBVIOUS
<1>7. KeysAlike(<<"imageUrls", "image_urls">>, <<"imageUrls", "image_urls", "images">>)
  OBVIOUS
<1>8. KeysAlike(<<"mileage_km", "odometerKm">>, <<"mileage_km">>)
  OBVIOUS
<1>9. KeysAlike(<<"odometer", "odometerReading">>, <<"odometer">>)
  OBVIOUS
<1>10. KeysAlike(<<"odometerUnit", "odometer_unit">>, <<"odometerUnit">>)
  OBVIOUS
<1> QED
  BY <1>1, <1>2, <1>3, <1>4, <1>5, <1>6, <1>7, <1>8, <1>9, <1>10

\* So is what the form has fields for, if it has one for each key of the payload.
LEMMA CopartFormAlike ==
  ASSUME Intake!Shared, source = "copart", "form" \in Intake!Readers
  PROVE  /\ KeysAlike(<<"lotUrl", "url", "href">>, <<"url">>)
         /\ KeysAlike(<<"highBid", "buyNowPrice", "asking_price", "currentBid">>,
                      <<"asking_price">>)
         /\ KeysAlike(<<"currencyCode", "currency">>, <<"currency">>)
         /\ KeysAlike(<<"imageUrls", "image_urls">>, <<"image_urls">>)
<1> USE CopartKeys, SharedLone, FormReads, KeysOf
    DEF KeysAlike, Intake!FormKeys, Intake!PriceKeys, Intake!VendorKeys
<1>1. KeysAlike(<<"lotUrl", "url", "href">>, <<"url">>)
  OBVIOUS
<1>2. KeysAlike(<<"highBid", "buyNowPrice", "asking_price", "currentBid">>,
                <<"asking_price">>)
  OBVIOUS
<1>3. KeysAlike(<<"currencyCode", "currency">>, <<"currency">>)
  OBVIOUS
<1>4. KeysAlike(<<"imageUrls", "image_urls">>, <<"image_urls">>)
  OBVIOUS
<1> QED
  BY <1>1, <1>2, <1>3, <1>4

\* What the adapter of Iaai and the dealer's desk ask for is alike.
LEMMA IaaiAlike ==
  ASSUME Intake!Shared, source = "iaai"
  PROVE  /\ KeysAlike(<<"stockNumber", "stock_number", "stock">>,
                      <<"stockNumber", "stock_number", "stock">>)
         /\ KeysAlike(<<"title", "vehicleTitle">>, <<"title">>)
         /\ KeysAlike(<<"description", "notes">>, <<"description">>)
         /\ KeysAlike(<<"vehicleUrl", "url", "href">>,
                      <<"lotUrl", "vehicleUrl", "url">>)
         /\ KeysAlike(<<"preBidPrice", "buyNowPrice", "asking_price", "highBid">>,
                      <<"highBid", "buyNowPrice", "preBidPrice", "asking_price", "currentBid">>)
         /\ KeysAlike(<<"currency", "currencyCode">>, <<"currencyCode", "currency">>)
         /\ KeysAlike(<<"images", "imageUrls", "image_urls">>,
                      <<"imageUrls", "image_urls", "images">>)
         /\ KeysAlike(<<"mileage_km", "odometerKm">>, <<"mileage_km">>)
         /\ KeysAlike(<<"odometer", "odometerReading">>, <<"odometer">>)
         /\ KeysAlike(<<"odometerUnit", "odometer_unit">>, <<"odometerUnit">>)
<1> USE IaaiKeys, SharedLone, LoneReference, KeysOf
    DEF KeysAlike, Intake!FormKeys, Intake!PriceKeys
<1>1. KeysAlike(<<"stockNumber", "stock_number", "stock">>,
                <<"stockNumber", "stock_number", "stock">>)
  OBVIOUS
<1>2. KeysAlike(<<"title", "vehicleTitle">>, <<"title">>)
  OBVIOUS
<1>3. KeysAlike(<<"description", "notes">>, <<"description">>)
  OBVIOUS
<1>4. KeysAlike(<<"vehicleUrl", "url", "href">>, <<"lotUrl", "vehicleUrl", "url">>)
  OBVIOUS
<1>5. KeysAlike(<<"preBidPrice", "buyNowPrice", "asking_price", "highBid">>,
                <<"highBid", "buyNowPrice", "preBidPrice", "asking_price", "currentBid">>)
  OBVIOUS
<1>6. KeysAlike(<<"currency", "currencyCode">>, <<"currencyCode", "currency">>)
  OBVIOUS
<1>7. KeysAlike(<<"images", "imageUrls", "image_urls">>,
                <<"imageUrls", "image_urls", "images">>)
  OBVIOUS
<1>8. KeysAlike(<<"mileage_km", "odometerKm">>, <<"mileage_km">>)
  OBVIOUS
<1>9. KeysAlike(<<"odometer", "odometerReading">>, <<"odometer">>)
  OBVIOUS
<1>10. KeysAlike(<<"odometerUnit", "odometer_unit">>, <<"odometerUnit">>)
  OBVIOUS
<1> QED
  BY <1>1, <1>2, <1>3, <1>4, <1>5, <1>6, <1>7, <1>8, <1>9, <1>10

\* So is what the form has fields for, if it has one for each key of the payload.
LEMMA IaaiFormAlike ==
  ASSUME Intake!Shared, source = "iaai", "form" \in Intake!Readers
  PROVE  /\ KeysAlike(<<"vehicleUrl", "url", "href">>, <<"url">>)
         /\ KeysAlike(<<"preBidPrice", "buyNowPrice", "asking_price", "highBid">>,
                      <<"asking_price">>)
         /\ KeysAlike(<<"currency", "currencyCode">>, <<"currency">>)
         /\ KeysAlike(<<"images", "imageUrls", "image_urls">>, <<"image_urls">>)
<1> USE IaaiKeys, SharedLone, FormReads, KeysOf
    DEF KeysAlike, Intake!FormKeys, Intake!PriceKeys, Intake!VendorKeys
<1>1. KeysAlike(<<"vehicleUrl", "url", "href">>, <<"url">>)
  OBVIOUS
<1>2. KeysAlike(<<"preBidPrice", "buyNowPrice", "asking_price", "highBid">>,
                <<"asking_price">>)
  OBVIOUS
<1>3. KeysAlike(<<"currency", "currencyCode">>, <<"currency">>)
  OBVIOUS
<1>4. KeysAlike(<<"images", "imageUrls", "image_urls">>, <<"image_urls">>)
  OBVIOUS
<1> QED
  BY <1>1, <1>2, <1>3, <1>4

-------------------------------------------------------------------------------
(* The translations agree                                                  *)

\* Each unit the payload may name is kilometres for both desks, or miles for both.
LEMMA UnitsAgree ==
  Intake!Shared =>
    Intake!Or(Intake!FirstText(payload, <<"odometerUnit">>), Intake!Text("mi")).body
      \in Intake!Miles \cup {"km"}
<1> SUFFICES ASSUME Intake!Shared
             PROVE  Intake!Or(Intake!FirstText(payload, <<"odometerUnit">>),
                              Intake!Text("mi")).body \in Intake!Miles \cup {"km"}
  OBVIOUS
<1>1. Intake!FirstText(payload, <<"odometerUnit">>) =
        IF "odometerUnit" \in DOMAIN payload
        THEN Intake!Strip(payload["odometerUnit"]) ELSE Intake!Empty
  BY LoneText, KeysOf
<1>2. Intake!Text("mi").body = "mi" /\ "mi" \in Intake!Miles
  BY DEF Intake!Text, Intake!Miles
<1>3. CASE Intake!FirstText(payload, <<"odometerUnit">>) = Intake!Empty
  BY <1>2, <1>3 DEF Intake!Or
<1>4. CASE Intake!FirstText(payload, <<"odometerUnit">>) # Intake!Empty
  <2>1. /\ "odometerUnit" \in DOMAIN payload
        /\ Intake!FirstText(payload, <<"odometerUnit">>) = payload["odometerUnit"]
        /\ payload["odometerUnit"].body # ""
    BY <1>1, <1>4 DEF Intake!Strip
  <2> QED
    BY <1>4, <2>1 DEF Intake!Or, Intake!Shared
<1> QED
  BY <1>3, <1>4

LEMMA MileageAgrees ==
  ASSUME Intake!Shared, source \in Intake!Auctions
  PROVE  /\ Intake!CrawlerMileage(payload) = Intake!DealerMileage(payload)
         /\ "form" \in Intake!Readers =>
              Intake!CrawlerMileage(payload) = Intake!FirstNumber(payload, <<"mileage_km">>)
<1>1. /\ KeysAlike(<<"mileage_km", "odometerKm">>, <<"mileage_km">>)
      /\ KeysAlike(<<"odometer", "odometerReading">>, <<"odometer">>)
      /\ KeysAlike(<<"odometerUnit", "odometer_unit">>, <<"odometerUnit">>)
  BY CopartAlike, IaaiAlike DEF Intake!Auctions
<1> DEFINE direct == Intake!FirstNumber(payload, <<"mileage_km">>)
           odometer == Intake!FirstNumber(payload, <<"odometer">>)
           unit == Intake!Or(Intake!FirstText(payload, <<"odometerUnit">>),
                             Intake!Text("mi")).body
<1>2. /\ Intake!FirstNumber(payload, <<"mileage_km", "odometerKm">>) = direct
      /\ Intake!FirstNumber(payload, <<"odometer", "odometerReading">>) = odometer
      /\ Intake!FirstText(payload, <<"odometerUnit", "odometer_unit">>)
           = Intake!FirstText(payload, <<"odometerUnit">>)
  BY <1>1, SameValue
<1>3. unit \in Intake!Miles \cup {"km"}
  BY UnitsAgree
<1>4. Intake!CrawlerMileage(payload) =
        CASE direct # Intake!Missing -> direct
          [] direct = Intake!Missing /\ odometer \in {Intake!Missing, Intake!Bad} -> odometer
          [] OTHER -> CASE unit \in Intake!Kilometres -> odometer
                        [] unit \in Intake!Miles -> Intake!Number(Intake!MilesToKm(odometer[2]))
                        [] OTHER -> Intake!Bad
  BY <1>2 DEF Intake!CrawlerMileage
<1>5. Intake!DealerMileage(payload) =
        CASE direct # Intake!Missing -> direct
          [] direct = Intake!Missing /\ odometer \in {Intake!Missing, Intake!Bad} -> odometer
          [] OTHER -> IF unit = "km" THEN odometer
                      ELSE Intake!Number(Intake!MilesToKm(odometer[2]))
  BY DEF Intake!DealerMileage
<1>6. "form" \in Intake!Readers => odometer = Intake!Missing
  <2>1. "form" \in Intake!Readers => "odometer" \notin DOMAIN payload
    BY FormReads DEF Intake!VendorKeys
  <2> QED
    BY <2>1, LoneNumber, KeysOf
<1> HIDE DEF direct, odometer, unit
<1>7. /\ unit \in Intake!Kilometres <=> unit = "km"
      /\ unit \in Intake!Miles <=> unit # "km"
  BY <1>3 DEF Intake!Kilometres, Intake!Miles
<1>8. Intake!CrawlerMileage(payload) = Intake!DealerMileage(payload)
  <2>1. CASE direct # Intake!Missing \/ odometer \in {Intake!Missing, Intake!Bad}
    BY <1>4, <1>5, <2>1
  <2>2. CASE /\ direct = Intake!Missing /\ odometer \notin {Intake!Missing, Intake!Bad}
             /\ unit = "km"
    BY <1>4, <1>5, <1>7, <2>2
  <2>3. CASE /\ direct = Intake!Missing /\ odometer \notin {Intake!Missing, Intake!Bad}
             /\ unit # "km"
    BY <1>4, <1>5, <1>7, <2>3
  <2> QED
    BY <2>1, <2>2, <2>3
<1>9. "form" \in Intake!Readers => Intake!CrawlerMileage(payload) = direct
  BY <1>4, <1>6
<1> QED
  BY <1>8, <1>9 DEF direct

\* A plain text has nothing to strip and no prefix.
LEMMA PlainText ==
  ASSUME NEW text, Intake!Plain(text)
  PROVE  /\ text.prefix = "" /\ text.spaced = FALSE
         /\ Intake!Strip(text) = text /\ text # Intake!Empty
<1>1. PICK body : body # "" /\ text = Intake!Text(body)
  BY DEF Intake!Plain
<1>2. text.body = body /\ text.prefix = "" /\ text.spaced = FALSE
  BY <1>1 DEF Intake!Text
<1>3. Intake!Empty.body = ""
  BY DEF Intake!Empty, Intake!Text
<1> QED
  BY <1>1, <1>2, <1>3 DEF Intake!Strip

\* The reference is the external id after the source, for all of them.
LEMMA IdsAgree ==
  ASSUME NEW src \in Intake!Auctions, NEW ref, Intake!Plain(ref)
  PROVE  Intake!CrawlerId(src, ref) = Intake!DealerId(src, ref)
<1>1. ref.prefix = "" /\ ref.spaced = FALSE
  BY PlainText
<1>2. Intake!Prefix(ref) = <<>>
  BY <1>1 DEF Intake!Prefix
<1>3. <<>> # <<src>>
  OBVIOUS
<1> QED
  BY <1>1, <1>2, <1>3 DEF Intake!CrawlerId, Intake!DealerId

\* The first of the keys of a source is its reference.
LEMMA ReferenceFound ==
  ASSUME Intake!Shared, NEW keys, KeysAlike(keys, keys),
         NEW key \in DOMAIN payload \cap Intake!Range(keys), Intake!Plain(payload[key])
  PROVE  /\ Intake!FirstText(payload, keys) = payload[key]
         /\ Intake!FirstTruthy(payload, keys) = payload[key]
         /\ payload[key] # Intake!Empty
<1>1. Intake!Range(keys) \cap DOMAIN payload \subseteq {key} /\ DOMAIN keys \subseteq Nat
  BY DEF KeysAlike
<1>2. Intake!Strip(payload[key]) = payload[key] /\ payload[key] # Intake!Empty
  BY PlainText
<1> QED
  BY <1>1, <1>2, LoneText

LEMMA CopartAgrees ==
  ASSUME Intake!Shared, source = "copart"
  PROVE  /\ Intake!JsonListing(source, payload) = Intake!CrawlerListing(source, payload)
         /\ "form" \in Intake!Readers =>
              Intake!FormListing(source, payload) = Intake!CrawlerListing(source, payload)
<1> DEFINE First(keys) == Intake!FirstText(payload, keys)
           Number(keys) == Intake!FirstNumber(payload, keys)
           ref == <<"lotNumber", "lot_number", "lot">>
<1>1. /\ Intake!Vocabulary["copart"].ref = ref
      /\ Intake!Vocabulary["copart"].title = <<"title", "lotTitle">>
      /\ Intake!Vocabulary["copart"].description = <<"description", "damageDescription">>
      /\ Intake!Vocabulary["copart"].url = <<"lotUrl", "url", "href">>
      /\ Intake!Vocabulary["copart"].price = <<"highBid", "buyNowPrice", "asking_price", "currentBid">>
      /\ Intake!Vocabulary["copart"].currency = <<"currencyCode", "currency">>
      /\ Intake!Vocabulary["copart"].images = <<"imageUrls", "image_urls">>
  BY DEF Intake!Vocabulary
<1>2. /\ First(<<"title", "lotTitle">>) = First(<<"title">>)
      /\ First(<<"description", "damageDescription">>) = First(<<"description">>)
      /\ First(<<"lotUrl", "url", "href">>)
           = Intake!FirstTruthy(payload, <<"lotUrl", "vehicleUrl", "url">>)
      /\ Number(<<"highBid", "buyNowPrice", "asking_price", "currentBid">>)
           = Number(<<"highBid", "buyNowPrice", "preBidPrice", "asking_price", "currentBid">>)
      /\ First(<<"currencyCode", "currency">>)
           = Intake!FirstTruthy(payload, <<"currencyCode", "currency">>)
      /\ Intake!FirstTruthy(payload, <<"imageUrls", "image_urls">>)
           = Intake!FirstTruthy(payload, <<"imageUrls", "image_urls", "images">>)
  BY CopartAlike, SameValue
<1>3. "form" \in Intake!Readers =>
        /\ First(<<"lotUrl", "url", "href">>) = First(<<"url">>)
        /\ Number(<<"highBid", "buyNowPrice", "asking_price", "currentBid">>) = Number(<<"asking_price">>)
        /\ First(<<"currencyCode", "currency">>) = First(<<"currency">>)
        /\ Intake!FirstTruthy(payload, <<"imageUrls", "image_urls">>)
             = Intake!FirstTruthy(payload, <<"image_urls">>)
  BY CopartFormAlike, SameValue
<1>4. PICK key \in DOMAIN payload \cap Intake!Range(ref) :
        Intake!Plain(payload[key]) /\ DOMAIN payload \cap Intake!ReferenceKeys = {key}
  BY SharedReference, KeysOf
<1>5. /\ First(ref) = payload[key]
      /\ Intake!FirstTruthy(payload, ref) = payload[key]
      /\ payload[key] # Intake!Empty
  <2>1. KeysAlike(ref, ref)
    BY CopartAlike
  <2> HIDE DEF ref
  <2> QED
    BY <1>4, <2>1, ReferenceFound
<1>6. /\ Intake!CrawlerId("copart", payload[key]) = Intake!DealerId("copart", payload[key])
      /\ "copart" \in Intake!Auctions
  BY <1>4, IdsAgree DEF Intake!Auctions
<1>7. /\ Intake!CrawlerMileage(payload) = Intake!DealerMileage(payload)
      /\ "form" \in Intake!Readers =>
           Intake!CrawlerMileage(payload) = Number(<<"mileage_km">>)
  BY <1>6, MileageAgrees
<1> HIDE DEF ref, First, Number
<1>8. Intake!VendorListing("copart", payload[key], payload)
        = Intake!AuctionListing("copart", payload)
  BY <1>1, <1>2, <1>5, <1>6, <1>7 DEF Intake!VendorListing, Intake!AuctionListing, First, Number
<1>9. Intake!JsonListing(source, payload) = Intake!VendorListing("copart", payload[key], payload)
  <2>1. "external_id" \notin DOMAIN payload
    BY CopartKeys DEF Intake!FormKeys
  <2>2. Intake!Validated(payload, "other") = {}
    BY <2>1 DEF Intake!Validated
  <2>3. Intake!Names(payload, "copart")
    BY <1>1, <1>4, <1>5 DEF Intake!Names
  <2>4. Intake!Vocabulary.copart.ref = ref
    BY <1>1
  <2> QED
    BY <1>5, <2>2, <2>3, <2>4 DEF Intake!JsonListing
<1>10. ASSUME "form" \in Intake!Readers
       PROVE  Intake!FormListing(source, payload) = Intake!AuctionListing("copart", payload)
  <2>1. Intake!Reference("copart", payload) = payload[key]
    BY <1>1, <1>5, <1>6 DEF Intake!Reference, First
  <2> QED
    BY <1>1, <1>2, <1>3, <1>5, <1>6, <1>7, <1>10, <2>1
       DEF Intake!FormListing, Intake!AuctionListing, First, Number
<1>11. Intake!CrawlerListing(source, payload) = Intake!AuctionListing("copart", payload)
  BY <1>6 DEF Intake!CrawlerListing
<1> QED
  BY <1>8, <1>9, <1>10, <1>11

LEMMA IaaiAgrees ==
  ASSUME Intake!Shared, source = "iaai"
  PROVE  /\ Intake!JsonListing(source, payload) = Intake!CrawlerListing(source, payload)
         /\ "form" \in Intake!Readers =>
              Intake!FormListing(source, payload) = Intake!CrawlerListing(source, payload)
<1> DEFINE First(keys) == Intake!FirstText(payload, keys)
           Number(keys) == Intake!FirstNumber(payload, keys)
           ref == <<"stockNumber", "stock_number", "stock">>
<1>1. /\ Intake!Vocabulary["iaai"].ref = ref
      /\ Intake!Vocabulary["iaai"].title = <<"title", "vehicleTitle">>
      /\ Intake!Vocabulary["iaai"].description = <<"description", "notes">>
      /\ Intake!Vocabulary["iaai"].url = <<"vehicleUrl", "url", "href">>
      /\ Intake!Vocabulary["iaai"].price = <<"preBidPrice", "buyNowPrice", "asking_price", "highBid">>
      /\ Intake!Vocabulary["iaai"].currency = <<"currency", "currencyCode">>
      /\ Intake!Vocabulary["iaai"].images = <<"images", "imageUrls", "image_urls">>
  BY DEF Intake!Vocabulary
<1>2. /\ First(<<"title", "vehicleTitle">>) = First(<<"title">>)
      /\ First(<<"description", "notes">>) = First(<<"description">>)
      /\ First(<<"vehicleUrl", "url", "href">>)
           = Intake!FirstTruthy(payload, <<"lotUrl", "vehicleUrl", "url">>)
      /\ Number(<<"preBidPrice", "buyNowPrice", "asking_price", "highBid">>)
           = Number(<<"highBid", "buyNowPrice", "preBidPrice", "asking_price", "currentBid">>)
      /\ First(<<"currency", "currencyCode">>)
           = Intake!FirstTruthy(payload, <<"currencyCode", "currency">>)
      /\ Intake!FirstTruthy(payload, <<"images", "imageUrls", "image_urls">>)
           = Intake!FirstTruthy(payload, <<"imageUrls", "image_urls", "images">>)
  BY IaaiAlike, SameValue
<1>3. "form" \in Intake!Readers =>
        /\ First(<<"vehicleUrl", "url", "href">>) = First(<<"url">>)
        /\ Number(<<"preBidPrice", "buyNowPrice", "asking_price", "highBid">>) = Number(<<"asking_price">>)
        /\ First(<<"currency", "currencyCode">>) = First(<<"currency">>)
        /\ Intake!FirstTruthy(payload, <<"images", "imageUrls", "image_urls">>)
             = Intake!FirstTruthy(payload, <<"image_urls">>)
  BY IaaiFormAlike, SameValue
<1>4. PICK key \in DOMAIN payload \cap Intake!Range(ref) :
        Intake!Plain(payload[key]) /\ DOMAIN payload \cap Intake!ReferenceKeys = {key}
  BY SharedReference, KeysOf
<1>5. /\ First(ref) = payload[key]
      /\ Intake!FirstTruthy(payload, ref) = payload[key]
      /\ payload[key] # Intake!Empty
  <2>1. KeysAlike(ref, ref)
    BY IaaiAlike
  <2> HIDE DEF ref
  <2> QED
    BY <1>4, <2>1, ReferenceFound
<1>6. /\ Intake!CrawlerId("iaai", payload[key]) = Intake!DealerId("iaai", payload[key])
      /\ "iaai" \in Intake!Auctions
  BY <1>4, IdsAgree DEF Intake!Auctions
<1>7. /\ Intake!CrawlerMileage(payload) = Intake!DealerMileage(payload)
      /\ "form" \in Intake!Readers =>
           Intake!CrawlerMileage(payload) = Number(<<"mileage_km">>)
  BY <1>6, MileageAgrees
<1> HIDE DEF ref, First, Number
<1>8. Intake!VendorListing("iaai", payload[key], payload)
        = Intake!AuctionListing("iaai", payload)
  BY <1>1, <1>2, <1>5, <1>6, <1>7 DEF Intake!VendorListing, Intake!AuctionListing, First, Number
<1>9. Intake!JsonListing(source, payload) = Intake!VendorListing("iaai", payload[key], payload)
  <2>1. "external_id" \notin DOMAIN payload
    BY IaaiKeys DEF Intake!FormKeys
  <2>2. Intake!Validated(payload, "other") = {}
    BY <2>1 DEF Intake!Validated
  <2>3. Intake!Names(payload, "iaai")
    BY <1>1, <1>4, <1>5 DEF Intake!Names
  <2>4. ~Intake!Names(payload, "copart")
    <3>1. Intake!Range(Intake!Vocabulary["copart"].ref) = {"lotNumber", "lot_number", "lot"}
      BY KeysOf DEF Intake!Vocabulary
    <3> QED
      BY <3>1, IaaiKeys DEF Intake!Names, Intake!FormKeys
  <2>5. Intake!Vocabulary.iaai.ref = ref
    BY <1>1
  <2> QED
    BY <1>5, <2>2, <2>3, <2>4, <2>5 DEF Intake!JsonListing
<1>10. ASSUME "form" \in Intake!Readers
       PROVE  Intake!FormListing(source, payload) = Intake!AuctionListing("iaai", payload)
  <2>1. Intake!Reference("iaai", payload) = payload[key]
    BY <1>1, <1>5, <1>6 DEF Intake!Reference, First
  <2> QED
    BY <1>1, <1>2, <1>3, <1>5, <1>6, <1>7, <1>10, <2>1
       DEF Intake!FormListing, Intake!AuctionListing, First, Number
<1>11. Intake!CrawlerListing(source, payload) = Intake!AuctionListing("iaai", payload)
  BY <1>6 DEF Intake!CrawlerListing
<1> QED
  BY <1>8, <1>9, <1>10, <1>11

\* Of a manual listing: a plain text or none, a number or none.
LEMMA ManualValues ==
  ASSUME Intake!Shared, source = "manual"
  PROVE  /\ DOMAIN payload \subseteq Intake!FormKeys \cup {"external_id", "source"}
         /\ \A key \in DOMAIN payload \ Intake!NumberKeys :
              Intake!FirstText(payload, <<key>>) = payload[key] /\ payload[key] # Intake!Empty
         /\ \A key : key \notin DOMAIN payload =>
              Intake!FirstText(payload, <<key>>) = Intake!Empty
         /\ \A key : Intake!FirstTruthy(payload, <<key>>) = Intake!FirstText(payload, <<key>>)
         /\ \A key \in Intake!NumberKeys :
              Intake!FirstNumber(payload, <<key>>) =
                IF key \in DOMAIN payload THEN payload[key] ELSE Intake!Missing
<1>1. DOMAIN payload \subseteq Intake!FormKeys \cup {"external_id", "source"}
  BY DEF Intake!Shared, Intake!SharedKeys
<1>2. /\ \A key \in DOMAIN payload \ Intake!NumberKeys : Intake!Plain(payload[key])
      /\ \A key \in DOMAIN payload \cap Intake!NumberKeys : payload[key] # Intake!Blank
  BY DEF Intake!Shared
<1>3. \A key : LET text == IF key \in DOMAIN payload
                           THEN Intake!Strip(payload[key]) ELSE Intake!Empty
               IN  /\ Intake!FirstText(payload, <<key>>) = text
                   /\ Intake!FirstTruthy(payload, <<key>>) = text
  BY LoneText, KeysOf
<1>4. \A key : Intake!FirstNumber(payload, <<key>>) =
                 IF key \in DOMAIN payload /\ payload[key] # Intake!Blank
                 THEN payload[key] ELSE Intake!Missing
  BY LoneNumber, KeysOf
<1> QED
  BY <1>1, <1>2, <1>3, <1>4, PlainText

LEMMA ManualAgrees ==
  ASSUME Intake!Shared, source = "manual"
  PROVE  /\ Intake!JsonListing(source, payload) = Intake!CrawlerListing(source, payload)
         /\ "form" \in Intake!Readers =>
              Intake!FormListing(source, payload) = Intake!CrawlerListing(source, payload)
<1> DEFINE Text(key) == Intake!FirstText(payload, <<key>>)
           Number(key) == Intake!FirstNumber(payload, <<key>>)
           ref == payload["external_id"]
           listing == [id |-> [prefix |-> Intake!Prefix(ref), body |-> ref.body,
                               spaced |-> ref.spaced],
                       source |-> "manual",
                       title |-> <<IF "title" \in DOMAIN payload
                                   THEN payload["title"] ELSE Intake!Empty>>,
                       description |-> Text("description"),
                       url |-> Text("url"),
                       year |-> Number("year"),
                       make |-> Text("make"),
                       model |-> Text("model"),
                       mileage |-> Number("mileage_km"),
                       price |-> Number("asking_price"),
                       currency |-> Intake!Or(Text("currency"), Intake!Text("USD")),
                       images |-> Text("image_urls")]
<1>1. /\ "external_id" \in DOMAIN payload /\ Intake!Plain(ref)
      /\ DOMAIN payload \cap Intake!ReferenceKeys = {"external_id"}
  BY SharedReference
<1>2. "source" \in DOMAIN payload /\ payload["source"].body = "manual"
  BY DEF Intake!Shared
<1>3. \A key \in {"description", "url", "make", "model", "currency", "image_urls"} :
        (IF key \in DOMAIN payload THEN payload[key] ELSE Intake!Empty) = Text(key)
  BY ManualValues DEF Intake!NumberKeys, Intake!PriceKeys
<1>4. \A key \in {"year", "mileage_km", "asking_price"} :
        (IF key \notin DOMAIN payload THEN Intake!Missing
         ELSE IF payload[key] = Intake!Blank THEN Intake!Bad ELSE payload[key]) = Number(key)
  BY ManualValues DEF Intake!NumberKeys, Intake!PriceKeys, Intake!Shared
<1> HIDE DEF Text, Number, ref
<1>5. \A default : Intake!Validated(payload, default) = Intake!Accepted(listing)
  BY <1>1, <1>2, <1>3, <1>4 DEF Intake!Validated, ref
<1>6. Intake!Accepted(listing) = {} \/ Intake!Accepted(listing) = {listing}
  BY DEF Intake!Accepted
<1>7. [listing EXCEPT !.source = IF @ = "other" THEN "manual" ELSE @] = listing
  OBVIOUS
<1>8. Intake!CrawlerListing(source, payload) = Intake!Accepted(listing)
  <2>1. Intake!CrawlerListing(source, payload) = Intake!ManualListing(payload)
    BY DEF Intake!CrawlerListing, Intake!Auctions
  <2> HIDE DEF listing
  <2>2. Intake!ManualListing(payload)
          = {[l EXCEPT !.source = IF @ = "other" THEN "manual" ELSE @] :
               l \in Intake!Accepted(listing)}
    BY <1>5 DEF Intake!ManualListing
  <2> QED
    BY <1>6, <1>7, <2>1, <2>2
<1>9. Intake!JsonListing(source, payload) = Intake!Accepted(listing)
  <2>1. ~Intake!Names(payload, "copart") /\ ~Intake!Names(payload, "iaai")
    <3>1. /\ Intake!Range(Intake!Vocabulary["copart"].ref)
               = {"lotNumber", "lot_number", "lot"}
          /\ Intake!Range(Intake!Vocabulary["iaai"].ref)
               = {"stockNumber", "stock_number", "stock"}
      BY KeysOf DEF Intake!Vocabulary
    <3> QED
      BY <1>1, <3>1, ReferenceKeysAre DEF Intake!Names
  <2> HIDE DEF listing
  <2>2. Intake!Validated(payload, "other") = Intake!Accepted(listing)
    BY <1>5
  <2> QED
    BY <2>1, <2>2 DEF Intake!JsonListing
<1>10. ASSUME "form" \in Intake!Readers
       PROVE  Intake!FormListing(source, payload) = Intake!Accepted(listing)
  <2>1. Intake!Reference("manual", payload) = ref /\ ref # Intake!Empty
    BY <1>1, ManualValues, ReferenceKeysAre
       DEF Intake!Reference, Intake!Auctions, Intake!NumberKeys, Intake!PriceKeys, ref
  <2>2. Intake!DealerId("manual", ref)
          = [prefix |-> Intake!Prefix(ref), body |-> ref.body, spaced |-> ref.spaced]
    BY <1>1, PlainText DEF Intake!DealerId, Intake!Auctions
  <2>3. Intake!Title(payload, Text("title")) = <<payload["title"]>> /\ "title" \in DOMAIN payload
    BY <1>10, FormReads, ManualValues
       DEF Intake!Title, Text, Intake!NumberKeys, Intake!PriceKeys
  <2>4. Intake!FirstTruthy(payload, <<"image_urls">>) = Text("image_urls")
    BY ManualValues DEF Text
  <2> QED
    BY <2>1, <2>2, <2>3, <2>4 DEF Intake!FormListing, Text, Number
<1> QED
  BY <1>8, <1>9, <1>10

\* So for a shared payload the entries that read it are one.
LEMMA ReadersAgree ==
  ASSUME Intake!Shared, NEW entry \in Intake!Readers, source \in Intake!Sources
  PROVE  Intake!Listings(entry) = Intake!Listings("crawler")
<1>1. source \in {"copart", "iaai", "manual"}
  BY DEF Intake!Sources, Intake!Auctions
<1>2. /\ Intake!JsonListing(source, payload) = Intake!CrawlerListing(source, payload)
      /\ "form" \in Intake!Readers =>
           Intake!FormListing(source, payload) = Intake!CrawlerListing(source, payload)
  BY <1>1, CopartAgrees, IaaiAgrees, ManualAgrees
<1>3. entry \in {"crawler", "json", "form"}
  BY DEF Intake!Readers, Intake!Entries
<1>4. CASE entry = "crawler"
  BY <1>4
<1>5. CASE entry = "json"
  BY <1>2, <1>5 DEF Intake!Listings
<1>6. CASE entry = "form"
  BY <1>2, <1>6 DEF Intake!Listings
<1> QED
  BY <1>3, <1>4, <1>5, <1>6

\* A translation makes one listing of a payload, or none.
LEMMA OneForEach ==
  \A l, k \in Intake!Listings("crawler") : l = k
<1>1. \A listing : \A l, k \in Intake!Accepted(listing) : l = k
  BY DEF Intake!Accepted
<1>2. \A l, k \in Intake!AuctionListing(source, payload) : l = k
  BY <1>1 DEF Intake!AuctionListing
<1>3. \A l, k \in Intake!Validated(payload, "manual") : l = k
  BY <1>1 DEF Intake!Validated
<1>4. \A l, k \in Intake!ManualListing(payload) : l = k
  BY <1>3 DEF Intake!ManualListing
<1> QED
  BY <1>2, <1>4 DEF Intake!Listings, Intake!CrawlerListing

-------------------------------------------------------------------------------
(* The store of the entries                                                *)

\* An upsert leaves one document for each external id, whatever was submitted.
LEMMA IntakeTypesStep == Intake!TypeOK /\ [Intake!Next]_(Intake!vars) => Intake!TypeOK'
<1> SUFFICES ASSUME Intake!TypeOK, [Intake!Next]_(Intake!vars) PROVE Intake!TypeOK'
  OBVIOUS
<1> USE DEF Intake!TypeOK
<1>1. ASSUME NEW entry \in Intake!Entries,
             Intake!Submit(entry) \/ Intake!ReplyLost(entry)
      PROVE  Intake!TypeOK'
  BY <1>1 DEF Intake!Submit, Intake!ReplyLost, Intake!Upserted
<1>2. ASSUME NEW entry \in Intake!Entries,
             Intake!Unreachable(entry) \/ Intake!Refuse(entry)
      PROVE  Intake!TypeOK'
  BY <1>2 DEF Intake!Unreachable, Intake!Refuse
<1>3. CASE UNCHANGED Intake!vars
  BY <1>3 DEF Intake!vars
<1> QED
  BY <1>1, <1>2, <1>3 DEF Intake!Next

LEMMA IntakeInit == Intake!Init => IntakeInv
BY DEF Intake!Init, IntakeInv, Intake!TypeOK, AnswersKnown, OneListing, AllRead

LEMMA AnswersStep == Intake!TypeOK /\ AnswersKnown /\ [Intake!Next]_(Intake!vars) => AnswersKnown'
<1> SUFFICES ASSUME Intake!TypeOK, AnswersKnown, [Intake!Next]_(Intake!vars)
             PROVE  AnswersKnown'
  OBVIOUS
<1>1. UNCHANGED <<payload, source>>
  BY DEF Intake!Next, Intake!Submit, Intake!ReplyLost, Intake!Unreachable, Intake!Refuse,
         Intake!vars
<1>2. \A entry : Intake!Listings(entry)' = Intake!Listings(entry)
  BY <1>1 DEF Intake!Listings
<1>3. ASSUME NEW entry \in Intake!Entries, Intake!Submit(entry) PROVE AnswersKnown'
  <2>1. Intake!Listings(entry) # {}
    BY <1>3 DEF Intake!Submit
  <2> QED
    BY <1>2, <1>3, <2>1 DEF Intake!Submit, AnswersKnown, Intake!TypeOK
<1>4. ASSUME NEW entry \in Intake!Entries, Intake!ReplyLost(entry) \/ Intake!Unreachable(entry)
      PROVE  AnswersKnown'
  BY <1>2, <1>4 DEF Intake!ReplyLost, Intake!Unreachable, AnswersKnown, Intake!TypeOK
<1>5. ASSUME NEW entry \in Intake!Entries, Intake!Refuse(entry) PROVE AnswersKnown'
  BY <1>2, <1>5 DEF Intake!Refuse, AnswersKnown, Intake!TypeOK
<1>6. CASE UNCHANGED Intake!vars
  BY <1>2, <1>6 DEF Intake!vars, AnswersKnown
<1> QED
  BY <1>3, <1>4, <1>5, <1>6 DEF Intake!Next

\* An upsert puts the listing in the place of itself, or in an empty store.
LEMMA UpsertedIsSame ==
  ASSUME IntakeInv, AllRead', [Intake!Next]_(Intake!vars)
  PROVE  /\ AllRead /\ Intake!Listings("crawler")' = Intake!Listings("crawler")
         /\ store' \subseteq Intake!Listings("crawler")
         /\ store \subseteq store'
<1>1. UNCHANGED <<payload, source>>
  BY DEF Intake!Next, Intake!Submit, Intake!ReplyLost, Intake!Unreachable, Intake!Refuse,
         Intake!vars
<1>2. /\ Intake!Listings("crawler")' = Intake!Listings("crawler")
      /\ Intake!Shared' = Intake!Shared /\ Intake!Readers' = Intake!Readers
  BY <1>1 DEF Intake!Listings, Intake!Shared, Intake!Readers
<1>3. "crawler" \in Intake!Readers /\ "json" \in Intake!Readers
  BY DEF Intake!Readers, Intake!Entries
<1>4. ASSUME NEW entry \in Intake!Entries,
             NEW l \in Intake!Listings(entry), store' = Intake!Upserted(l),
             tried' = [tried EXCEPT ![entry] = "accepted"]
               \/ tried' = [tried EXCEPT ![entry] = "failed"]
      PROVE  /\ AllRead /\ store' \subseteq Intake!Listings("crawler") /\ store \subseteq store'
  <2>1. entry \in Intake!Readers /\ AllRead
    BY <1>2, <1>3, <1>4 DEF AllRead, IntakeInv, Intake!TypeOK, Intake!Entries
  <2>2. l \in Intake!Listings("crawler")
    BY <1>4, <2>1, ReadersAgree DEF AllRead, IntakeInv, Intake!TypeOK
  <2>3. store \subseteq Intake!Listings("crawler")
    BY <2>1 DEF IntakeInv, OneListing
  <2>4. store \subseteq {l} /\ Intake!Upserted(l) = {l}
    BY <2>2, <2>3, OneForEach DEF Intake!Upserted
  <2> QED
    BY <1>4, <2>1, <2>2, <2>4
<1>5. ASSUME NEW entry \in Intake!Entries, Intake!Submit(entry) \/ Intake!ReplyLost(entry)
      PROVE  /\ AllRead /\ store' \subseteq Intake!Listings("crawler") /\ store \subseteq store'
  BY <1>4, <1>5 DEF Intake!Submit, Intake!ReplyLost
<1>6. ASSUME NEW entry \in Intake!Entries, Intake!Unreachable(entry) \/ Intake!Refuse(entry)
      PROVE  /\ AllRead /\ store' \subseteq Intake!Listings("crawler") /\ store \subseteq store'
  <2>1. UNCHANGED store /\ (tried'["form"] = "no" => tried["form"] = "no")
    BY <1>6 DEF Intake!Unreachable, Intake!Refuse, IntakeInv, Intake!TypeOK, Intake!Entries
  <2>2. AllRead
    BY <1>2, <2>1 DEF AllRead
  <2> QED
    BY <2>1, <2>2 DEF IntakeInv, OneListing
<1>7. CASE UNCHANGED Intake!vars
  BY <1>2, <1>7 DEF Intake!vars, AllRead, IntakeInv, OneListing
<1> QED
  BY <1>2, <1>5, <1>6, <1>7 DEF Intake!Next

-------------------------------------------------------------------------------
(* The theorems                                                            *)

\* One of the two runs, and it takes steps of its own.
LEMMA DeskInit == Init => \/ desk = "intake" /\ Intake!Init
                          \/ desk = "pages" /\ Pages!Init
BY DEF Init, AtIntake, AtPages

LEMMA DeskStep ==
  [Next]_vars => /\ desk' = desk
                 /\ desk = "intake" => [Intake!Next]_(Intake!vars)
                 /\ desk = "pages" => [Pages!Next]_(Pages!vars)
BY DEF Next, vars, intakeVars, pagesVars, Intake!vars, Pages!vars

\* The types of both parts; one document per external id and, in the lists, stamps
\* and cursors that are past.
THEOREM DeskTypes == Spec => []TypeOK
<1> DEFINE Types == /\ desk \in {"intake", "pages"}
                    /\ desk = "intake" => Intake!TypeOK
                    /\ desk = "pages" => PagesTypes
<1>1. Init => Types
  BY DeskInit, PagesTypesInit DEF Intake!Init, Intake!TypeOK
<1>2. Types /\ [Next]_vars => Types'
  BY DeskStep, IntakeTypesStep, PagesTypesStep
<1>3. Types => TypeOK
  BY DEF TypeOK, PagesTypes
<1> QED
  BY <1>1, <1>2, <1>3, PTL DEF Spec

LEMMA OnceHolds == Spec => []OnceOnPages
<1>1. Init => OnceOnPages
  BY DeskInit, PagesTypesInit, ListedInit DEF OnceOnPages, OnceInv
<1>2. OnceOnPages /\ [Next]_vars => OnceOnPages'
  BY DeskStep, PagesTypesStep, OneWriteStep, ListedStep DEF OnceOnPages, OnceInv
<1> QED
  BY <1>1, <1>2, PTL DEF Spec

\* While an administrator reads page after page, a row whose writes did not overlap
\* is not shown on two of them: each has a later stamp than the one before, which
\* moves the row away from the cursor.
THEOREM NoRowListedTwice == Spec => []ListsOnce
<1>1. OnceOnPages => ListsOnce
  BY DEF OnceOnPages, OnceInv, ListedPassed, Steady, ListsOnce, Pages!ListsOnce
<1> QED
  BY <1>1, OnceHolds, PTL

\* By the end of the list, each row that matches the filter, was not written since
\* the first page was asked for and shared its stamp with no other has been shown.
THEOREM UnwrittenRowsAreListed == Spec => []ListsUnwritten
<1>1. Init => UnwrittenOnPages
  BY DeskInit, PagesTypesInit, ListedInit, UnwrittenInit
     DEF UnwrittenOnPages, UnwrittenInv, OnceInv
<1>2. UnwrittenOnPages /\ [Next]_vars => UnwrittenOnPages'
  BY DeskStep, PagesTypesStep, OneWriteStep, ListedStep, ApartStep, PassedStep, UnwrittenStep
     DEF UnwrittenOnPages, UnwrittenInv, OnceInv
<1>3. UnwrittenOnPages => ListsUnwritten
  BY DEF UnwrittenOnPages, UnwrittenInv, ListsUnwritten
<1> QED
  BY <1>1, <1>2, <1>3, PTL DEF Spec

LEMMA AgreedHolds == Spec => []AgreedAtIntake
<1>1. Init => AgreedAtIntake
  BY DeskInit, IntakeInit DEF AgreedAtIntake
<1>2. AgreedAtIntake /\ [Next]_vars => AgreedAtIntake'
  <2> SUFFICES ASSUME IntakeInv, [Intake!Next]_(Intake!vars) PROVE IntakeInv'
    BY DeskStep DEF AgreedAtIntake
  <2>1. Intake!TypeOK' /\ AnswersKnown'
    BY IntakeTypesStep, AnswersStep DEF IntakeInv
  <2>2. OneListing'
    <3>1. AllRead' => store' \subseteq Intake!Listings("crawler")'
      BY UpsertedIsSame
    <3> QED
      BY <3>1 DEF OneListing
  <2> QED
    BY <2>1, <2>2 DEF IntakeInv
<1> QED
  BY <1>1, <1>2, PTL DEF Spec

\* A set with one element at most.
LEMMA SmallSet ==
  ASSUME NEW S, \A x, y \in S : x = y
  PROVE  Intake!Cardinality(S) <= 1
<1>1. CASE S = {}
  BY <1>1, FS_EmptySet, SameCount
<1>2. CASE S # {}
  <2>1. PICK x : S = {x}
    BY <1>2
  <2> QED
    BY <2>1, FS_Singleton, SameCount
<1> QED
  BY <1>1, <1>2

\* Whichever way a payload that all entries understand comes in, and however often,
\* it is one document, and no entry refuses what another one takes.
THEOREM EntriesAreOneDocument == Spec => []EntriesAgree
<1>1. IntakeInv => Intake!EntriesAgree
  <2> SUFFICES ASSUME IntakeInv, Intake!Shared PROVE Intake!EntriesAgree
    BY DEF Intake!EntriesAgree
  <2> DEFINE answers == {tried[entry] : entry \in Intake!Readers} \ {"no", "failed"}
  <2>1. Intake!Readers \subseteq Intake!Entries
    BY DEF Intake!Readers, Intake!Entries
  <2>2. \A x, y \in answers : x = y
    <3>1. \A entry \in Intake!Readers :
            /\ tried[entry] \in {"no", "accepted", "failed", "rejected"}
            /\ tried[entry] = "accepted" => Intake!Listings("crawler") # {}
            /\ tried[entry] = "rejected" => Intake!Listings("crawler") = {}
      BY <2>1, ReadersAgree DEF IntakeInv, AnswersKnown, Intake!TypeOK
    <3> QED
      BY <3>1
  <2>3. AllRead => \A x, y \in store : x = y
    BY OneForEach DEF IntakeInv, OneListing
  <2> HIDE DEF answers
  <2>4. Intake!Cardinality(answers) <= 1 /\ (AllRead => Intake!Cardinality(store) <= 1)
    BY <2>2, <2>3, SmallSet
  <2> QED
    BY <2>4 DEF Intake!EntriesAgree, AllRead, answers
<1>2. AgreedAtIntake => EntriesAgree
  BY <1>1 DEF AgreedAtIntake, EntriesAgree
<1> QED
  BY <1>2, AgreedHolds, PTL

\* Submitting such a payload again, the same way or another, leaves the stored inputs
\* as they are.
THEOREM ResubmissionChangesNothing == Spec => ResubmitKeepsInputs
<1>1. AgreedAtIntake /\ [Next]_vars => [desk = "intake" => Intake!KeepsInputs]_intakeVars
  <2> SUFFICES ASSUME AgreedAtIntake, [Next]_vars, desk = "intake" PROVE Intake!KeepsInputs
    OBVIOUS
  <2>1. IntakeInv /\ [Intake!Next]_(Intake!vars)
    BY DeskStep DEF AgreedAtIntake
  <2>2. Intake!Readers' = Intake!Readers /\ Intake!Shared' = Intake!Shared
    <3>1. UNCHANGED <<payload, source>>
      BY <2>1 DEF Intake!Next, Intake!Submit, Intake!ReplyLost, Intake!Unreachable,
                  Intake!Refuse, Intake!vars
    <3> QED
      BY <3>1 DEF Intake!Readers, Intake!Shared
  <2>3. AllRead' => store \subseteq store'
    BY <2>1, UpsertedIsSame
  <2> QED
    BY <2>2, <2>3 DEF Intake!KeepsInputs, AllRead
<1> QED
  BY <1>1, AgreedHolds, PTL DEF Spec, ResubmitKeepsInputs
=============================================================================
