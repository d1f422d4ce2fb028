-------------------------------- MODULE Desk_inv --------------------------------
(***************************************************************************)
(* The inductive invariants behind the safety properties of AdminPages and *)
(* ListingIntake, in the variables of MCDesk, which runs them. Desk_proofs *)
(* proves them.                                                            *)
(***************************************************************************)
EXTENDS MCDesk, Integers

Reader == [at : {"away", "reading", "end"}, cursor : -1..MaxTime,
           filter : Pages!Filters, limit : {0, MaxLimit + 1}]

\* TypeOK says what a stored row is; here every id has one or none, the lists have
\* not begun before they are opened, and there is no cursor before the first page.
PagesTypes ==
  /\ Pages!TypeOK
  /\ rows \in [Ids -> Pages!Row \cup {Pages!NoRow}]
  /\ reader \in Reader
  /\ reader.at = "away" => /\ reader.cursor = Pages!NoCursor /\ alone = {}
                            /\ \A id \in Ids : listed[id] = 0

\* Where no writes of a row overlapped, one is under way at most, and its stamp is
\* not older than the row's.
OneWrite ==
  \A w \in writing : w.id \notin overlapped =>
    /\ \A v \in writing : v.id = w.id => v = w
    /\ w.id \in Pages!Stored => w.stamp >= rows[w.id].stamp

\* The rows whose stamps only grow, and those that keep theirs.
Steady == (Ids \ overlapped) \cup alone

\* The cursor has passed what was listed of these: such a row has the cursor's
\* stamp or a later one, and a write only makes it later.
ListedPassed ==
  \A id \in Steady :
    /\ listed[id] <= 1
    /\ listed[id] = 1 => /\ reader.cursor # Pages!NoCursor
                         /\ id \in Pages!Stored
                         /\ rows[id].stamp >= reader.cursor

\* A row that was left alone keeps a stamp of its own.
AloneApart ==
  \A id \in alone : /\ id \in Pages!Stored
                    /\ \A other \in Pages!Stored \ {id} : rows[other].stamp # rows[id].stamp

\* The cursor does not pass such a row without listing it.
PassedListed ==
  reader.cursor # Pages!NoCursor =>
    \A id \in alone : Pages!Matches(id) /\ rows[id].stamp >= reader.cursor => listed[id] = 1

OnceInv == PagesTypes /\ OneWrite /\ ListedPassed
UnwrittenInv == OnceInv /\ AloneApart /\ PassedListed /\ Pages!ListsUnwritten

-----------------------------------------------------------------------------
\* What an entry last answered is what its translation makes of the payload.
AnswersKnown ==
  \A entry \in Intake!Entries :
    /\ tried[entry] = "accepted" => Intake!Listings(entry) # {}
    /\ tried[entry] = "rejected" => Intake!Listings(entry) = {}

\* Only entries that read the whole payload have been used.
AllRead == Intake!Shared /\ (tried["form"] = "no" \/ "form" \in Intake!Readers)

\* So the store holds the listing that they all make of it, and no other one.
OneListing == AllRead => store \subseteq Intake!Listings("crawler")

IntakeInv == Intake!TypeOK /\ AnswersKnown /\ OneListing

-----------------------------------------------------------------------------
\* The invariants of the desk that runs.
AgreedAtIntake == desk = "intake" => IntakeInv
OnceOnPages == desk = "pages" => OnceInv
UnwrittenOnPages == desk = "pages" => UnwrittenInv
=============================================================================
