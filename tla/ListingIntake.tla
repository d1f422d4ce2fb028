---------------------------- MODULE ListingIntake ----------------------------
(***************************************************************************)
(* The ways a vehicle enters the system: the crawler's source adapters     *)
(* (crawler/app/adapters), the dealer's pasted JSON and the dealer's form  *)
(* (enrichment/app/dealer/normalize.py). Each makes a RawListing of one    *)
(* vendor payload, and OrchestratorEnricher.enqueue_raw stores it under    *)
(* its external id. The crawler and the dealer desk normalise on their     *)
(* own: whether they agree decides whether a vehicle is one document.      *)
(*                                                                         *)
(* A text is a record: its visible part, a source prefix it starts with,   *)
(* and whether white space surrounds or divides it. A number is a tuple,   *)
(* so that absent, blank and unparsable values compare with the others.    *)
(***************************************************************************)
EXTENDS Integers, Sequences, FiniteSets, FiniteSetsExt, Functions

CONSTANTS Payloads,    \* vendor payloads: functions from keys to texts and numbers
          BadUrl       \* the text of an invalid URL

VARIABLES payload,     \* the payload of one vehicle; never changes
          source,      \* the source it is submitted as; never changes
          store,       \* the raw listings the entries stored, one per external id
          tried        \* what each entry last answered

vars == <<payload, source, store, tried>>

Auctions == {"copart", "iaai"}
Sources == Auctions \cup {"manual"}
Entries == {"crawler", "json", "form"}

Text(body) == [body |-> body, prefix |-> "", spaced |-> FALSE]
Empty == Text("")
Number(n) == <<"number", n>>
Blank == <<"blank">>
Bad == <<"bad">>
Missing == <<"missing">>

\* str.strip: white space inside the text stays.
Strip(text) == IF text.body = "" THEN Empty ELSE text

White == [Empty EXCEPT !.spaced = TRUE]

\* The value of the first of `keys` that has one not in `skipped`, or `default`.
FirstOf(p, keys, default, skipped) ==
  LET Given == {i \in DOMAIN keys : keys[i] \in DOMAIN p /\ p[keys[i]] \notin skipped}
  IN  IF Given = {} THEN default ELSE p[keys[Min(Given)]]

\* optional_str skips blank texts; `a or b` skips empty ones only.
FirstText(p, keys) == Strip(FirstOf(p, keys, Empty, {Empty, White}))
FirstTruthy(p, keys) == Strip(FirstOf(p, keys, Empty, {Empty}))
FirstNumber(p, keys) == FirstOf(p, keys, Missing, {Blank})

Or(text, default) == IF text = Empty THEN default ELSE text

\* int(round(miles * 1.60934))
MilesToKm(miles) == (miles * 160934 + 50000) \div 100000

DefaultTitle(p) ==
  <<FirstNumber(p, <<"year">>), FirstText(p, <<"make">>), FirstText(p, <<"model">>)>>

Title(p, text) == IF text = Empty THEN DefaultTitle(p) ELSE <<text>>

Prefix(text) == IF text.prefix = "" THEN <<>> ELSE <<text.prefix>>

\* The listing made of a payload: none when its values are rejected.
Accepted(listing) ==
  IF \/ Bad \in {listing.year, listing.mileage, listing.price}
     \/ BadUrl \in {listing.url, listing.images}
  THEN {} ELSE {listing}

------------------------------------------------------------------------------
(* The crawler's adapters                                                   *)

Vocabulary ==
  [copart |->
     [ref |-> <<"lotNumber", "lot_number", "lot">>,
      title |-> <<"title", "lotTitle">>,
      description |-> <<"description", "damageDescription">>,
      url |-> <<"lotUrl", "url", "href">>,
      price |-> <<"highBid", "buyNowPrice", "asking_price", "currentBid">>,
      currency |-> <<"currencyCode", "currency">>,
      images |-> <<"imageUrls", "image_urls">>],
   iaai |->
     [ref |-> <<"stockNumber", "stock_number", "stock">>,
      title |-> <<"title", "vehicleTitle">>,
      description |-> <<"description", "notes">>,
      url |-> <<"vehicleUrl", "url", "href">>,
      price |-> <<"preBidPrice", "buyNowPrice", "asking_price", "highBid">>,
      currency |-> <<"currency", "currencyCode">>,
      images |-> <<"images", "imageUrls", "image_urls">>]]

Kilometres == {"km", "kilometers", "kilometres"}
Miles == {"mi", "mile", "miles"}

CrawlerMileage(p) ==
  LET direct == FirstNumber(p, <<"mileage_km", "odometerKm">>)
      odometer == FirstNumber(p, <<"odometer", "odometerReading">>)
      unit == Or(FirstText(p, <<"odometerUnit", "odometer_unit">>), Text("mi")).body
  IN  CASE direct # Missing -> direct
        [] direct = Missing /\ odometer \in {Missing, Bad} -> odometer
        [] OTHER -> CASE unit \in Kilometres -> odometer
                      [] unit \in Miles -> Number(MilesToKm(odometer[2]))
                      [] OTHER -> Bad

CrawlerId(src, ref) == [prefix |-> <<src>> \o Prefix(ref), body |-> ref.body, spaced |-> ref.spaced]

AuctionListing(src, p) ==
  LET keys == Vocabulary[src]
      ref == FirstText(p, keys.ref)
  IN  IF ref = Empty
      THEN {}
      ELSE Accepted([id |-> CrawlerId(src, ref),
                     source |-> src,
                     title |-> Title(p, FirstText(p, keys.title)),
                     description |-> FirstText(p, keys.description),
                     url |-> FirstText(p, keys.url),
                     year |-> FirstNumber(p, <<"year">>),
                     make |-> FirstText(p, <<"make">>),
                     model |-> FirstText(p, <<"model">>),
                     mileage |-> CrawlerMileage(p),
                     price |-> FirstNumber(p, keys.price),
                     currency |-> Or(FirstText(p, keys.currency), Text("USD")),
                     images |-> FirstTruthy(p, keys.images)])

\* RawListing.model_validate: the field names of the schema, unstripped; a
\* blank is no number.
Validated(p, default) ==
  LET Given(key) == IF key \in DOMAIN p THEN p[key] ELSE Empty
      Num(key) == IF key \notin DOMAIN p THEN Missing ELSE IF p[key] = Blank THEN Bad ELSE p[key]
      id == Given("external_id")
  IN  IF "external_id" \notin DOMAIN p
      THEN {}
      ELSE Accepted([id |-> [prefix |-> Prefix(id), body |-> id.body, spaced |-> id.spaced],
                     source |-> IF "source" \in DOMAIN p THEN p["source"].body ELSE default,
                     title |-> <<Given("title")>>,
                     description |-> Given("description"),
                     url |-> Given("url"),
                     year |-> Num("year"),
                     make |-> Given("make"),
                     model |-> Given("model"),
                     mileage |-> Num("mileage_km"),
                     price |-> Num("asking_price"),
                     currency |-> Or(Given("currency"), Text("USD")),
                     images |-> Given("image_urls")])

ManualListing(p) ==
  {[l EXCEPT !.source = IF @ = "other" THEN "manual" ELSE @] : l \in Validated(p, "manual")}

CrawlerListing(src, p) == IF src \in Auctions THEN AuctionListing(src, p) ELSE ManualListing(p)

------------------------------------------------------------------------------
(* The dealer's desk                                                        *)

\* Faulty: the reference is the external id of every source.
DealerId_Bare(src, ref) == [prefix |-> Prefix(ref), body |-> ref.body, spaced |-> FALSE]

\* White space is removed, and a prefix that is there is not repeated.
DealerId(src, ref) ==
  [prefix |-> IF src \in Auctions /\ Prefix(ref) # <<src>>
              THEN <<src>> \o Prefix(ref)
              ELSE Prefix(ref),
   body |-> ref.body,
   spaced |-> FALSE]

\* Faulty: the unit is not read, every odometer counts miles.
DealerMileage_IgnoresUnit(p) ==
  LET direct == FirstNumber(p, <<"mileage_km">>)
      odometer == FirstNumber(p, <<"odometer">>)
  IN  IF direct # Missing \/ odometer \in {Missing, Bad}
      THEN IF direct # Missing THEN direct ELSE odometer
      ELSE Number(MilesToKm(odometer[2]))

\* Fewer keys than the crawler's are known here, and every unit that does not
\* start with "km" counts as miles.
DealerMileage(p) ==
  LET direct == FirstNumber(p, <<"mileage_km">>)
      odometer == FirstNumber(p, <<"odometer">>)
      unit == Or(FirstText(p, <<"odometerUnit">>), Text("mi")).body
  IN  CASE direct # Missing -> direct
        [] direct = Missing /\ odometer \in {Missing, Bad} -> odometer
        [] OTHER -> IF unit = "km" THEN odometer ELSE Number(MilesToKm(odometer[2]))

VendorListing(src, ref, p) ==
  Accepted([id |-> DealerId(src, ref),
            source |-> src,
            title |-> Title(p, FirstText(p, <<"title">>)),
            description |-> FirstText(p, <<"description">>),
            url |-> FirstTruthy(p, <<"lotUrl", "vehicleUrl", "url">>),
            year |-> FirstNumber(p, <<"year">>),
            make |-> FirstText(p, <<"make">>),
            model |-> FirstText(p, <<"model">>),
            mileage |-> DealerMileage(p),
            price |-> FirstNumber(p, <<"highBid", "buyNowPrice", "preBidPrice",
                                       "asking_price", "currentBid">>),
            currency |-> Or(FirstTruthy(p, <<"currencyCode", "currency">>), Text("USD")),
            images |-> FirstTruthy(p, <<"imageUrls", "image_urls", "images">>)])

\* Whether one of the source's reference keys holds a truthy value, be it
\* white space only.
Names(p, src) ==
  \E key \in Range(Vocabulary[src].ref) \cap DOMAIN p : p[key] # Empty

\* listing_from_json_text: a RawListing if it is one, else a vendor payload
\* whose keys outweigh the source the dealer chose.
JsonListing(hint, p) ==
  LET raw == Validated(p, "other")
      ref == FirstTruthy(p, <<"external_id">>)
  IN  CASE raw # {} -> raw
        [] raw = {} /\ Names(p, "copart") ->
             VendorListing("copart", FirstTruthy(p, Vocabulary.copart.ref), p)
        [] raw = {} /\ ~Names(p, "copart") /\ Names(p, "iaai") ->
             VendorListing("iaai", FirstTruthy(p, Vocabulary.iaai.ref), p)
        [] OTHER -> IF ref = Empty \/ hint = "manual" THEN {} ELSE VendorListing(hint, ref, p)

\* The dealer types the payload into the form: its reference, and the values
\* the form has a field for.
Reference(src, p) ==
  FirstText(p, IF src \in Auctions THEN Vocabulary[src].ref ELSE <<"external_id">>)

FormListing(src, p) ==
  IF Reference(src, p) = Empty
  THEN {}
  ELSE Accepted([id |-> DealerId(src, Reference(src, p)),
                 source |-> src,
                 title |-> Title(p, FirstText(p, <<"title">>)),
                 description |-> FirstText(p, <<"description">>),
                 url |-> FirstText(p, <<"url">>),
                 year |-> FirstNumber(p, <<"year">>),
                 make |-> FirstText(p, <<"make">>),
                 model |-> FirstText(p, <<"model">>),
                 mileage |-> FirstNumber(p, <<"mileage_km">>),
                 price |-> FirstNumber(p, <<"asking_price">>),
                 currency |-> Or(FirstText(p, <<"currency">>), Text("USD")),
                 images |-> FirstTruthy(p, <<"image_urls">>)])

------------------------------------------------------------------------------
Listings(entry) ==
  CASE entry = "crawler" -> CrawlerListing(source, payload)
    [] entry = "json" -> JsonListing(source, payload)
    [] entry = "form" -> FormListing(source, payload)

Init == /\ payload \in Payloads
        /\ source \in Sources
        /\ store = {}
        /\ tried = [e \in Entries |-> "no"]

\* Faulty: every submission is a document of its own.
Submit_Inserts(entry) ==
  /\ \E l \in Listings(entry) : store' = store \cup {l}
  /\ tried' = [tried EXCEPT ![entry] = "accepted"]
  /\ UNCHANGED <<payload, source>>

\* The listing is upserted under its external id.
Upserted(l) == {k \in store : k.id # l.id} \cup {l}

Submit(entry) ==
  /\ \E l \in Listings(entry) : store' = Upserted(l)
  /\ tried' = [tried EXCEPT ![entry] = "accepted"]
  /\ UNCHANGED <<payload, source>>

\* The document is stored, but its event is not published, or the answer does
\* not come in time or names no event: the client sees an error.
ReplyLost(entry) ==
  /\ \E l \in Listings(entry) : store' = Upserted(l)
  /\ tried' = [tried EXCEPT ![entry] = "failed"]
  /\ UNCHANGED <<payload, source>>

\* The next service, or the store, is not there.
Unreachable(entry) ==
  /\ Listings(entry) # {}
  /\ tried' = [tried EXCEPT ![entry] = "failed"]
  /\ UNCHANGED <<payload, source, store>>

\* UnknownSourceError, AdapterError or DealerSubmitError: 404 or 422.
Refuse(entry) ==
  /\ Listings(entry) = {}
  /\ tried' = [tried EXCEPT ![entry] = "rejected"]
  /\ UNCHANGED <<payload, source, store>>

\* A client may submit again, the same way or another.
Next == \E entry \in Entries :
          Submit(entry) \/ ReplyLost(entry) \/ Unreachable(entry) \/ Refuse(entry)

Spec == Init /\ [][Next]_vars

------------------------------------------------------------------------------
(* What both desks understand: one plain reference of the chosen source,   *)
(* at most one price, the mileage under the two shared keys and in a unit  *)
(* both know, the other texts under the shared keys; of a manual listing,  *)
(* plain texts, no blank number, and the source it is submitted as.        *)

PriceKeys == {"highBid", "buyNowPrice", "preBidPrice", "asking_price", "currentBid"}
FormKeys == {"title", "description", "url", "year", "make", "model", "mileage_km",
             "asking_price", "currency", "image_urls"}

ReferenceKeys == {"external_id"} \cup
                 UNION {Range(Vocabulary[src].ref) : src \in Auctions}
NumberKeys == PriceKeys \cup {"year", "mileage_km", "odometer"}

Plain(text) == text.body # "" /\ text = Text(text.body)

SharedKeys(src) ==
  IF src = "manual"
  THEN FormKeys \cup {"external_id", "source"}
  ELSE FormKeys \cup Range(Vocabulary[src].ref)
       \cup Range(Vocabulary[src].price)
       \cup {"odometer", "odometerUnit", "currencyCode", Vocabulary[src].url[1]}

Shared ==
  /\ DOMAIN payload \subseteq SharedKeys(source)
  /\ \E key \in ReferenceKeys : DOMAIN payload \cap ReferenceKeys = {key} /\ Plain(payload[key])
  /\ Cardinality(DOMAIN payload \cap PriceKeys) <= 1
  /\ "odometerUnit" \in DOMAIN payload =>
       payload["odometerUnit"].body \in Miles \cup {"km", ""}
  /\ Cardinality(DOMAIN payload \cap {"url", "lotUrl", "vehicleUrl"}) <= 1
  /\ Cardinality(DOMAIN payload \cap {"currency", "currencyCode"}) <= 1
  /\ source = "manual" =>
       /\ "source" \in DOMAIN payload /\ payload["source"].body = "manual"
       /\ \A key \in DOMAIN payload \cap NumberKeys : payload[key] # Blank
       /\ \A key \in DOMAIN payload \ NumberKeys : Plain(payload[key])

VendorKeys == {"lotUrl", "vehicleUrl", "currencyCode", "odometer", "odometerUnit"}

\* The entries that read every key of the payload. A missing title is made up
\* by all but the two that take a manual listing as it is.
Readers ==
  IF /\ DOMAIN payload \cap VendorKeys = {}
     /\ DOMAIN payload \cap PriceKeys \subseteq {"asking_price"}
     /\ source = "manual" => "title" \in DOMAIN payload
  THEN Entries
  ELSE {"crawler", "json"}

TypeOK == /\ source \in Sources
          /\ tried \in [Entries -> {"no", "accepted", "failed", "rejected"}]
          /\ \A k, l \in store : k.id = l.id => k = l

\* Whichever way a payload that all entries understand comes in, and however
\* often, it is one document of the store, and no entry refuses what another
\* one takes.
EntriesAgree ==
  Shared =>
    LET answers == {tried[e] : e \in Readers}
    IN  /\ Cardinality(answers \ {"no", "failed"}) <= 1
        /\ tried["form"] = "no" \/ "form" \in Readers => Cardinality(store) <= 1

\* Submitting such a payload again, the same way or another, leaves the
\* stored inputs as they are. The document's stages start over each time; but
\* an event of the earlier submission still carries the inputs that the
\* document has, so its handler goes on with the document.
KeepsInputs ==
  Shared /\ (tried'["form"] = "no" \/ "form" \in Readers) => store \subseteq store'
ResubmitKeepsInputs == [][KeepsInputs]_vars
==============================================================================
