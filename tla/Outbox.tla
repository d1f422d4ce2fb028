-------------------------------- MODULE Outbox --------------------------------
(***************************************************************************)
(* What the outboxes of the enrichment service (Mongo) and of the pricer   *)
(* (MySQL) have in common: rows that the business path stores, drains that *)
(* claim a batch of them, publish it row by row with confirms, and mark or *)
(* release each row.  EnrichmentOutbox and PricerOutbox add the calls of   *)
(* their stores.                                                           *)
(*                                                                         *)
(* A drainer is one running drain() coroutine: the one that follows a      *)
(* handler, the periodic one, or that of another replica.  Rows are        *)
(* numbered in the order the stores claim them in.                         *)
(***************************************************************************)
EXTENDS Naturals, Sequences, SequencesExt, FiniteSets

CONSTANTS Keys,        \* routing keys
          Unroutable,  \* those no queue is bound to
          Drainers,
          Limit,       \* rows a drain claims at most
          MaxCopies,   \* bound: broker messages counted per row; more count as MaxCopies
          Settings     \* the combinations of store, faults and rows to consider

FaultKinds == {"crash",    \* a drainer dies between any two steps
               "lease",    \* a drain outlives _CLAIM_STALE_AFTER
               "broker",   \* the broker nacks or is unreachable
               "confirm",  \* a message is stored but its confirm is lost
               "store"}    \* a store call of the drain raises

Statuses == {"legacy", "pending", "processing", "stale", "published"}
RowType == [key : Keys, status : Statuses]
Setting == [store : {"mongo", "sql"}, faults : SUBSET FaultKinds,
            old : Seq(RowType),  \* rows already stored
            room : Nat]          \* bound: rows there may ever be

ASSUME OutboxAssumption == /\ Unroutable \subseteq Keys
                           /\ Limit \in Nat \ {0}
                           /\ MaxCopies \in Nat \ {0}
                           /\ \A s \in Settings : s \in Setting

VARIABLES rows,    \* the outbox rows; "stale" is an expired "processing"
          copies,  \* copies[i]: messages the broker stored for row i
          pc,      \* pc[d]: the call drain d is in
          batch,   \* batch[d]: claimed rows d has not dealt with, in claim order
          seen,    \* seen[d]: the status the transaction of d has read, or "none"
          setting  \* chosen once, in Init

vars == <<rows, copies, pc, batch, seen, setting>>

Fault(f) == f \in setting.faults

\* A row that was published before the start has reached the broker once.
Init == /\ setting \in Settings
        /\ rows = setting.old
        /\ copies = [i \in DOMAIN rows |-> IF rows[i].status = "published" THEN 1 ELSE 0]
        /\ pc = [d \in Drainers |-> "idle"]
        /\ batch = [d \in Drainers |-> <<>>]
        /\ seen = [d \in Drainers |-> "none"]

Current(d) == Head(batch[d])
Goto(d, l) == pc' = [pc EXCEPT ![d] = l]
SetStatus(i, s) == rows' = [rows EXCEPT ![i].status = s]
Claimed(i) == rows[i].status \in {"processing", "stale"}

-------------------------------------------------------------------------------
\* The business path stores a row, pending, in a write that it waits for.
Enqueue(k) == /\ Len(rows) < setting.room
              /\ rows' = Append(rows, [key |-> k, status |-> "pending"])
              /\ copies' = Append(copies, 0)
              /\ UNCHANGED <<pc, batch, seen, setting>>

\* drain is entered: after a handler, by the timer, at start-up or shutdown.
StartDrain(d) == /\ pc[d] = "idle"
                 /\ Goto(d, "claim")
                 /\ UNCHANGED <<rows, copies, batch, seen, setting>>

Oldest(S) == {i \in S : \A j \in S : i <= j}

Routable(i) == rows[i].key \notin Unroutable
Store(i) == copies' = [copies EXCEPT ![i] = IF @ < MaxCopies THEN @ + 1 ELSE @]

\* Faulty: a message no queue takes counts as published.
PublishConfirmed_Unchecked(d) == /\ pc[d] = "publish"
                                 /\ IF Routable(Current(d)) THEN Store(Current(d))
                                                            ELSE UNCHANGED copies
                                 /\ Goto(d, "mark")
                                 /\ UNCHANGED <<rows, batch, seen, setting>>

\* The broker stored the message and confirmed it.
PublishConfirmed(d) == /\ pc[d] = "publish"
                       /\ Routable(Current(d))
                       /\ Store(Current(d))
                       /\ Goto(d, "mark")
                       /\ UNCHANGED <<rows, batch, seen, setting>>

\* The publish raises: no queue takes the message (mandatory), a nack, a lost
\* connection or a lost confirm.
PublishFails(d) == /\ pc[d] = "publish"
                   /\ \/ ~Routable(Current(d)) /\ UNCHANGED copies
                      \/ Fault("broker") /\ UNCHANGED copies
                      \/ Fault("confirm") /\ Routable(Current(d)) /\ Store(Current(d))
                   /\ Goto(d, "release")
                   /\ UNCHANGED <<rows, batch, seen, setting>>

\* Faulty: the end of the batch goes unnoticed.
NextRow_KeepsPhase(d) == /\ batch' = [batch EXCEPT ![d] = Tail(@)]
                         /\ Goto(d, "publish")
                         /\ seen' = [seen EXCEPT ![d] = "none"]

\* drain turns to the next row of its batch.
NextRow(d) == /\ batch' = [batch EXCEPT ![d] = Tail(@)]
              /\ Goto(d, IF Tail(batch[d]) = <<>> THEN "idle" ELSE "publish")
              /\ seen' = [seen EXCEPT ![d] = "none"]

\* drain ends by an exception or with its process, its batch not dealt with.
Abandon(d) == /\ Goto(d, "idle")
              /\ batch' = [batch EXCEPT ![d] = <<>>]
              /\ seen' = [seen EXCEPT ![d] = "none"]
              /\ UNCHANGED <<copies, setting>>

\* mark_published raises: what was read is rolled back.
MarkFails(d) == /\ pc[d] \in {"mark", "marking"}
                /\ Fault("store")
                /\ Goto(d, "release")
                /\ seen' = [seen EXCEPT ![d] = "none"]
                /\ UNCHANGED <<rows, copies, batch, setting>>

\* The release raises out of drain: the rest of the batch stays processing.
ReleaseFails(d) == /\ pc[d] \in {"release", "releasing"}
                   /\ Fault("store")
                   /\ Abandon(d)
                   /\ UNCHANGED rows

Crash(d) == /\ Fault("crash")
            /\ pc[d] # "idle"
            /\ Abandon(d)
            /\ UNCHANGED rows

\* Five minutes pass since row i was claimed.
ClaimExpires(i) == /\ rows[i].status = "processing"
                   /\ Fault("lease") \/ \A d \in Drainers : ~Contains(batch[d], i)
                   /\ SetStatus(i, "stale")
                   /\ UNCHANGED <<copies, pc, batch, seen, setting>>

-------------------------------------------------------------------------------
TypeOK == /\ setting \in Settings
          /\ rows \in Seq(RowType)
          /\ copies \in [DOMAIN rows -> Nat]
          /\ pc \in [Drainers -> {"idle", "claim", "publish", "mark", "marking",
                                  "release", "releasing"}]
          /\ batch \in [Drainers -> Seq(DOMAIN rows)]
          /\ seen \in [Drainers -> Statuses \cup {"none"}]
          /\ \A d \in Drainers : pc[d] \notin {"idle", "claim"} => batch[d] # <<>>

\* A published row has reached the broker: no row is marked on the strength of
\* another drainer's attempt, a lost claim or an unroutable message.
PublishedWasStored == \A i \in DOMAIN rows : rows[i].status = "published" => copies[i] > 0

\* claim_pending: each row is claimed by at most one caller, by an atomic update
\* or under a row lock.  While no drain outlives its lease, a row is in one batch
\* only, and from the end of the claim on it is processing.
ClaimedOnce ==
  ~Fault("lease") =>
    \A d1, d2 \in Drainers : \A i \in DOMAIN rows :
      Contains(batch[d1], i) =>
        /\ pc[d1] # "claim" => rows[i].status \in {"processing", "published"}
        /\ Contains(batch[d2], i) => d1 = d2

\* With that, and with no failure after the broker took a message, a row is
\* published once however many replicas drain.
PublishedOnce == setting.faults \subseteq {"broker"} => \A i \in DOMAIN rows : copies[i] <= 1

\* A published row is never offered again, and a row's place and key never change.
\* Not so in the pricer when a drain outlives its lease: release_outbox_claim
\* writes what it decided on an older read, and may set a published row back.
PublishedIsFinal ==
  [][\A i \in DOMAIN rows :
       /\ i \in DOMAIN rows'
       /\ rows'[i].key = rows[i].key
       /\ rows[i].status = "published" /\ (setting.store = "sql" => ~Fault("lease"))
            => rows'[i] = rows[i]]_vars

UnroutableRows == {i \in DOMAIN rows : ~Routable(i)}
IsPublished(i) == i \in DOMAIN rows /\ rows[i].status = "published"
===============================================================================
