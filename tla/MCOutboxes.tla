------------------------------ MODULE MCOutboxes ------------------------------
(* Small instances of both outboxes: the setting decides which store runs.   *)
EXTENDS Outbox

CONSTANTS MaxRows, enriched, failed, d1, d2

Mongo == INSTANCE EnrichmentOutbox
Sql   == INSTANCE PricerOutbox

DrainStep(d) == \/ setting.store = "mongo" /\ Mongo!DrainStep(d)
                \/ setting.store = "sql" /\ Sql!DrainStep(d)

Next == \/ setting.store = "mongo" /\ Mongo!Next
        \/ setting.store = "sql" /\ Sql!Next

Failure(d) == Mongo!Failure(d) \/ Sql!Failure(d)

\* The timer starts drains again and again, every await of a drain is bounded by
\* a client timeout, and time passes.
Fairness == /\ \A d \in Drainers : WF_vars(StartDrain(d)) /\ WF_vars(DrainStep(d))
            /\ \A i \in 1..MaxRows : WF_vars(i \in DOMAIN rows /\ ClaimExpires(i))

FairSpec == Init /\ [][Next]_vars /\ Fairness

\* _enqueue_and_drain: broker hiccups do not matter, a later drain or another
\* replica publishes the row; as long as a batch has room for one row besides
\* those that can never be published.
EventuallyPublished ==
  /\ <>[][\A d \in Drainers : ~Failure(d)]_vars
  /\ []<>(Cardinality(UnroutableRows) < Limit)
  => \A i \in 1..MaxRows : (i \in DOMAIN rows /\ Routable(i)) ~> IsPublished(i)

\* The same without that condition, as the comments of the code put it.
PublishedDespiteHiccups ==
  <>[][\A d \in Drainers : ~Failure(d)]_vars =>
    \A i \in 1..MaxRows : (i \in DOMAIN rows /\ Routable(i)) ~> IsPublished(i)

-------------------------------------------------------------------------------
AllFaults == {"crash", "lease", "broker", "confirm", "store"}
NoLease == {"crash", "broker", "confirm", "store"}
Row(k, s) == [key |-> k, status |-> s]

With(store, faults, old, room) ==
  [store |-> store, faults |-> faults, old |-> old, room |-> room]

BothStores == {With("mongo", AllFaults, <<Row(enriched, "legacy")>>, 2),
               With("mongo", {"broker"}, <<>>, 3),
               With("sql", AllFaults, <<Row(enriched, "published")>>, 2),
               With("sql", NoLease, <<>>, 2),
               With("sql", {"broker"}, <<Row(enriched, "pending")>>, 3)}

OnlyMongo == {With("mongo", {}, <<>>, 3)}
===============================================================================
