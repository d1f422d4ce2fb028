---------------------- MODULE MCEnrichedListingConsumer ----------------------
(* Small instances of EnrichedListingConsumer.                               *)
EXTENDS EnrichedListingConsumer, TLC

CONSTANTS e1, e2, e3, m1, m2, m3, w1, w2, p1, p2, car

OneEach == (w1 :> p1) @@ (w2 :> p2)
OneCar == [e \in Events |-> car]

With(faults, events, msgs) == [faults |-> faults, events |-> events, msgs |-> msgs]

PricerSettings ==
  {With({"crash", "lease", "duplicate", "store"}, {e1}, {m1, m2}),
   With({"restart", "duplicate", "publish"}, {e1}, {m1, m2}),
   With({"lease", "claim", "release", "reply", "duplicate"}, {e1}, {m1, m2}),
   With({"duplicate", "drain", "publish"}, {e1, e2}, {m1, m2}),
   With({"crash", "store", "drain"}, {e1}, {m1, m2}),
   With({"store", "drain"}, {e1, e2}, {m1, m2, m3}),
   With({}, {e3}, {m1})}
==============================================================================
