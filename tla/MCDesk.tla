------------------------------- MODULE MCDesk -------------------------------
(* The way in and the way out of the store, one at a time: the entries of    *)
(* ListingIntake on small payloads, or the lists of AdminPages.              *)
EXTENDS Naturals, FiniteSets

LOCAL INSTANCE TLC

CONSTANTS Payloads, Ids, Writers, MaxTime, MaxLimit

\* A store has finitely many rows, and a page at least one.
ASSUME PagesAssumption == IsFiniteSet(Ids) /\ MaxTime \in Nat /\ MaxLimit \in Nat \ {0}

VARIABLES desk,                                  \* which of the two; never changes
          payload, source, store, tried,
          clock, rows, writing, reader, listed, alone, overlapped

intakeVars == <<payload, source, store, tried>>
pagesVars == <<clock, rows, writing, reader, listed, alone, overlapped>>
vars == <<desk, intakeVars, pagesVars>>

Ref(body, prefix, spaced) == [body |-> body, prefix |-> prefix, spaced |-> spaced]
Plain(body) == Ref(body, "", FALSE)
WhiteSpace == Ref("", "", TRUE)
Num(n) == <<"number", n>>
BadUrl == Plain("bad")

\* Pairs of a key and a value: of these a payload has up to three keys, one
\* of them a reference.
References ==
  ({"lotNumber"} \X {Plain("7"), Ref("7", "copart", FALSE), Ref("7", "", TRUE), WhiteSpace})
  \cup ({"lot", "stock"} \X {Plain("7")})
  \cup ({"stockNumber"} \X {Plain("7"), Ref("7", "iaai", FALSE)})
  \cup ({"external_id"} \X {Plain("7"), Ref("7", "copart", FALSE)})
Numbers ==
  ({"year", "mileage_km"} \X {Num(5), <<"bad">>})
  \cup ({"highBid", "asking_price"} \X {Num(9), <<"blank">>})
  \cup ({"preBidPrice"} \X {Num(8)})
  \cup ({"odometer"} \X {Num(10)})
Texts ==
  ({"odometerUnit"} \X {Plain("km"), Plain("kilometers"), Plain("mi"), Plain("furlong")})
  \cup ({"source"} \X {Plain("manual")})
  \cup ({"title", "lotTitle"} \X {Plain("t")})
  \cup ({"url"} \X {Plain("u"), BadUrl})
  \cup ({"lotUrl"} \X {Plain("u"), WhiteSpace})

PayloadOf(pairs) ==
  [key \in {x[1] : x \in pairs} |-> (CHOOSE x \in pairs : x[1] = key)[2]]

SmallPayloads == {PayloadOf({a, b, c}) : a \in References, b \in Numbers, c \in Texts \cup References}

\* Rows and writers are interchangeable; payloads name neither.
PagesSymmetry == Permutations(Ids) \cup Permutations(Writers)

Intake == INSTANCE ListingIntake
Pages == INSTANCE AdminPages

AtIntake == /\ desk = "intake"
            /\ Intake!Init
            /\ clock = 0 /\ rows = <<>> /\ listed = <<>>
            /\ writing = {} /\ alone = {} /\ overlapped = {}
            /\ reader = [at |-> "away"]
AtPages == /\ desk = "pages"
           /\ Pages!Init
           /\ payload = <<>> /\ source = "copart" /\ store = {} /\ tried = <<>>

Init == AtIntake \/ AtPages

Next == \/ desk = "intake" /\ Intake!Next /\ UNCHANGED <<desk, pagesVars>>
        \/ desk = "pages" /\ Pages!Next /\ UNCHANGED <<desk, intakeVars>>

Spec == Init /\ [][Next]_vars

\* Both modules' types.
TypeOK == IF desk = "intake" THEN Intake!TypeOK ELSE Pages!TypeOK

\* A payload that every entry understands is one document, whichever way it
\* comes in.
EntriesAgree == desk = "intake" => Intake!EntriesAgree

\* Submitting it again leaves the stored inputs as they are.
ResubmitKeepsInputs == [][desk = "intake" => Intake!KeepsInputs]_intakeVars

\* No row is listed twice, even one that is written meanwhile, unless two of its
\* writes overlapped.
ListsOnce == desk = "pages" => Pages!ListsOnce

\* By the last page, the rows that were left alone have all been listed.
ListsUnwritten == desk = "pages" => Pages!ListsUnwritten
=============================================================================
