----------------------------- MODULE AdminPages -----------------------------
(***************************************************************************)
(* The admin lists of both services: listings by updated_at                *)
(* (enrichment ListingRepository.list_recent behind AdminService) and      *)
(* results by priced_at (PricingRepository.list_recent behind              *)
(* PricerAdminService). A reader follows next_cursor from page to page     *)
(* while listings are written. A write takes the time first and stores the *)
(* row with it awaits later, and so may another write of the row.          *)
(***************************************************************************)
EXTENDS Integers, FiniteSets, FiniteSetsExt

CONSTANTS Ids,         \* external ids
          Writers,     \* who writes listings or results: handlers and submissions
          MaxTime,     \* bound on the clock
          MaxLimit     \* the largest page; 100 in the code

VARIABLES clock,       \* the time, at the resolution of the stamps
          rows,        \* rows[id]: what is stored
          writing,     \* the writes that have their stamp and are not stored yet
          reader,      \* the admin who follows the cursor
          listed,      \* listed[id]: how often the pages showed the row; 2 is "more"
          alone,       \* history: the rows that, since the first page was asked
                       \* for, were not written and shared no row's stamp
          overlapped   \* history: the rows that had two writes under way at a time

vars == <<clock, rows, writing, reader, listed, alone, overlapped>>

Row == [stored : {TRUE}, stamp : 0..MaxTime, enriched : BOOLEAN]
NoRow == [stored |-> FALSE]
PendingWrite == [by : Writers, id : Ids, stamp : 0..MaxTime]
NoCursor == -1

Filters == {"all", "enriched", "partial"}

TypeOK == /\ clock \in 0..MaxTime
          /\ \A id \in Ids : rows[id] # NoRow => rows[id] \in Row /\ rows[id].stamp <= clock
          /\ writing \subseteq PendingWrite
          /\ \A w, v \in writing : w.stamp <= clock /\ (w.by = v.by => w = v)
          /\ reader.at \in {"away", "reading", "end"}
          /\ reader.cursor \in -1..clock
          /\ listed \in [Ids -> 0..2]
          /\ alone \subseteq Ids
          /\ overlapped \subseteq Ids

Init == /\ clock = 0
        /\ rows = [id \in Ids |-> NoRow]
        /\ writing = {}
        /\ reader \in [at : {"away"}, cursor : {NoCursor}, filter : Filters,
                        limit : {0, MaxLimit + 1}]
        /\ listed = [id \in Ids |-> 0]
        /\ alone = {}
        /\ overlapped = {}

Tick == /\ clock < MaxTime
        /\ clock' = clock + 1
        /\ UNCHANGED <<rows, writing, reader, listed, alone, overlapped>>

\* datetime.now becomes the stamp of the document or the result, to the
\* millisecond in MongoDB and to the second in a DATETIME column, so that
\* writes may share it. What happens when the reader has left does not matter.
TakeStamp(writer, id) ==
  /\ reader.at # "end"
  /\ \A w \in writing : w.by # writer
  /\ writing' = writing \cup {[by |-> writer, id |-> id, stamp |-> clock]}
  /\ overlapped' = overlapped \cup {w.id : w \in {v \in writing : v.id = id}}
  /\ UNCHANGED <<clock, rows, reader, listed, alone>>

\* The awaited upsert, whatever the row holds by now: no condition on the old
\* stamp. A listing is enriched when llm_done and cv_done hold.
StoreRow(w) ==
  /\ reader.at # "end"
  /\ \E done \in BOOLEAN :
       rows' = [rows EXCEPT ![w.id] = [stored |-> TRUE, stamp |-> w.stamp, enriched |-> done]]
  /\ writing' = writing \ {w}
  /\ alone' = {id \in alone \ {w.id} : rows[id].stamp # w.stamp}
  /\ UNCHANGED <<clock, reader, listed, overlapped>>

\* The store refuses it, or the writer dies.
WriteFails(w) ==
  /\ reader.at # "end"
  /\ writing' = writing \ {w}
  /\ UNCHANGED <<clock, rows, reader, listed, alone, overlapped>>

Stored == {id \in Ids : rows[id].stored}
\* The pricer's list has no filter.
Matches(id) ==
  CASE reader.filter = "all" -> TRUE
    [] reader.filter = "enriched" -> rows[id].enriched
    [] reader.filter = "partial" -> ~rows[id].enriched

\* Faulty: the row the cursor was taken from is read again.
BeforeCursor_Inclusive(id) == reader.cursor = NoCursor \/ rows[id].stamp <= reader.cursor

BeforeCursor(id) == reader.cursor = NoCursor \/ rows[id].stamp < reader.cursor

Found == {id \in Stored : Matches(id) /\ BeforeCursor(id)}

\* max(1, min(limit, 100)): no limit would mean all rows to MongoDB and none
\* to MySQL.
PageSize == Max({1, Min({reader.limit, MaxLimit})})

\* Faulty: the oldest rows come first.
Page_Ascending(ids) ==
  /\ ids \subseteq Found
  /\ Cardinality(ids) = Min({PageSize, Cardinality(Found)})
  /\ \A id \in ids, other \in Found \ ids : rows[id].stamp <= rows[other].stamp

\* Sorted by descending stamp and cut; the order of equal stamps is open.
Page(ids) ==
  /\ ids \subseteq Found
  /\ Cardinality(ids) = Min({PageSize, Cardinality(Found)})
  /\ \A id \in ids, other \in Found \ ids : rows[id].stamp >= rows[other].stamp

OpenList == /\ reader.at = "away"
            /\ reader' = [reader EXCEPT !.at = "reading"]
            /\ alone' = {id \in Stored : \A other \in Stored \ {id} :
                                         rows[other].stamp # rows[id].stamp}
            /\ UNCHANGED <<clock, rows, writing, listed, overlapped>>

\* next_cursor is the stamp of the last row of the page.
NextPage == /\ reader.at = "reading" /\ Found # {}
            /\ \E ids \in SUBSET Ids :
                 /\ Page(ids)
                 /\ listed' = [id \in Ids |-> IF id \in ids THEN Min({2, listed[id] + 1})
                                                         ELSE listed[id]]
                 /\ reader' = [reader EXCEPT !.cursor = Min({rows[id].stamp : id \in ids})]
            /\ UNCHANGED <<clock, rows, writing, alone, overlapped>>

\* An empty page has no next_cursor.
LastPage == /\ reader.at = "reading" /\ Found = {}
            /\ reader' = [reader EXCEPT !.at = "end"]
            /\ UNCHANGED <<clock, rows, writing, listed, alone, overlapped>>

Next == \/ Tick \/ OpenList \/ NextPage \/ LastPage
        \/ \E writer \in Writers, id \in Ids : TakeStamp(writer, id)
        \/ \E w \in writing : StoreRow(w) \/ WriteFails(w)

Spec == Init /\ [][Next]_vars

-----------------------------------------------------------------------------
\* A row that is written while the pages are read is not listed again, unless
\* two of its writes overlapped: then the older stamp may be stored last and
\* take a row that was listed back below the cursor.
ListsOnce == \A id \in Ids \ overlapped : listed[id] <= 1

\* By the last page every matching row that was not written meanwhile has been
\* listed, if no other row had its stamp: a cursor skips the rest of the rows
\* that share the stamp of a page's last row.
ListsUnwritten ==
  reader.at = "end" => \A id \in alone : Matches(id) => listed[id] = 1
=============================================================================
