------------------------ MODULE EnrichedListingConsumer ------------------------
(***************************************************************************)
(* The pricer's consumer: _on_message / handle_message of                  *)
(* EnrichedListingConsumer, PricingService.price, and the inbox and save   *)
(* of PricingRepository on MySQL.                                          *)
(*                                                                         *)
(* Queues, deliveries, retries, channels and processes are those of        *)
(* RawListingConsumer (the two services declare the same topology), of     *)
(* which this module uses the delivery actions.  What differs is the       *)
(* store: a call is a transaction that reads and then writes by primary    *)
(* key, so other transactions may come in between.                         *)
(***************************************************************************)
EXTENDS Naturals, FiniteSets

CONSTANTS Events, Malformed, Msgs, Workers, Procs, ProcOf, MaxRetries, NoJob, NoBody,
          Faults,     \* every fault that some setting has
          ListingOf,  \* the external_id an event is about
          MaxPriced,  \* bound: saves counted per event; more count as MaxPriced
          Settings    \* the combinations of faults, events and copies to consider

FaultKinds == {"crash", "restart", "lease", "duplicate", "publish", "claim", "release",
               "store",  \* a transaction of save or mark_completed is refused
               "drain",  \* the drain after the completion raises
               "reply"}  \* a transaction commits and its caller gets an error

ASSUME PricerAssumption ==
  /\ Malformed \subseteq Events
  /\ ProcOf \in [Workers -> Procs]
  /\ MaxRetries \in Nat \ {0}
  /\ MaxPriced \in Nat \ {0}
  /\ Faults \subseteq FaultKinds
  /\ Settings \subseteq [faults : SUBSET Faults, events : SUBSET Events,
                          msgs : SUBSET Msgs]

VARIABLES at, body, published, pc, job, chan,  \* as in RawListingConsumer
          inbox,   \* inbox[e]: the row of processed_events; "stale" is an expired "processing"
          priced,  \* priced[e]: rows in outbox_messages that carry a result of e
          result,  \* the listings with a row in pricing_results
          seen,    \* seen[w]: what the transaction of w has read, or "none"
          setting  \* chosen once, in Init

queueVars == <<at, body, published, pc, job, chan>>
storeVars == <<inbox, priced, result>>
vars == <<at, body, published, pc, job, chan, inbox, priced, result, seen, setting>>

Delivery == INSTANCE RawListingConsumer
              WITH LegacyEvents <- {}, inbox <- [e \in Events |-> "absent"],
                   enriched <- {}, failures <- {}

ASSUME DeliveryAssumption ==
  /\ Workers \cap Delivery!Places = {}
  /\ NoBody \notin Delivery!Body
  /\ NoJob \notin Delivery!Job

Rows == {"absent", "processing", "stale", "completed"}
PCs == {"idle", "claim", "reclaim", "save", "commit", "complete", "completing", "drain",
        "release", "releasing", "retry", "ack", "reject", "stuck"}

Init == /\ Delivery!Init
        /\ inbox = [e \in Events |-> "absent"]
        /\ priced = [e \in Events |-> 0]
        /\ result = {}
        /\ seen = [w \in Workers |-> "none"]
        /\ setting \in Settings

Fault(f) == f \in setting.faults
Goto(w, l) == pc' = [pc EXCEPT ![w] = l]
Row(w) == inbox[job[w].event]
SetRow(w, status) == inbox' = [inbox EXCEPT ![job[w].event] = status]
See(w, x) == seen' = [seen EXCEPT ![w] = x]
Raise(w, l, err) == /\ Goto(w, l)
                    /\ job' = [job EXCEPT ![w].err = err]

-------------------------------------------------------------------------------
(* handle_message, one action per statement the database executes.         *)

\* Where an exception that leaves handle_message takes _on_message: unlike the
\* enrichment consumer it announces no failure.
AfterError(w, err) ==
  IF err = "retryable" /\ job[w].retry + 1 < MaxRetries THEN "retry" ELSE "reject"

\* The body does not parse: MalformedMessageError, before the inbox is touched.
ParseFails(w) == /\ pc[w] = "claim"
                 /\ job[w].event \in Malformed
                 /\ Raise(w, "reject", "permanent")
                 /\ UNCHANGED <<at, body, published, chan, storeVars, seen, setting>>

\* try_claim: INSERT and commit, or IntegrityError and rollback.
InsertClaim(w) == /\ pc[w] = "claim"
                  /\ job[w].event \notin Malformed
                  /\ IF Row(w) = "absent"
                     THEN SetRow(w, "processing") /\ Goto(w, "save")
                     ELSE Goto(w, "reclaim") /\ UNCHANGED inbox
                  /\ UNCHANGED <<at, body, published, job, chan, priced, result, seen, setting>>

\* Faulty: a completed event is claimed again.
Reclaimable_Completed(w) == Row(w) \in {"stale", "completed"}

\* Faulty: the age of the lease is ignored.
Reclaimable_AnyLease(w) == Row(w) \in {"processing", "stale"}

\* The rows the UPDATE of try_claim matches.
Reclaimable(w) == Row(w) \in IF job[w].redelivered THEN {"processing", "stale"} ELSE {"stale"}

\* try_claim: rowcount of UPDATE ... WHERE; 0 means that this is a duplicate.
ReclaimRow(w) == /\ pc[w] = "reclaim"
                 /\ IF Reclaimable(w)
                    THEN SetRow(w, "processing") /\ Goto(w, "save")
                    ELSE Goto(w, "ack") /\ UNCHANGED inbox
                 /\ UNCHANGED <<at, body, published, job, chan, priced, result, seen, setting>>

\* try_claim raises: nothing is released, though the INSERT may have committed.
ClaimFails(w) == /\ Fault("claim")
                 /\ pc[w] \in {"claim", "reclaim"}
                 /\ job[w].event \notin Malformed
                 /\ Raise(w, AfterError(w, "retryable"), "retryable")
                 /\ \/ UNCHANGED inbox
                    \/ /\ Fault("reply") /\ pc[w] = "claim" /\ Row(w) = "absent"
                       /\ SetRow(w, "processing")
                 /\ UNCHANGED <<at, body, published, chan, priced, result, seen, setting>>

Listing(w) == ListingOf[job[w].event]
Count(w) == priced' = [priced EXCEPT ![job[w].event] = IF @ < MaxPriced THEN @ + 1 ELSE @]

\* price evaluates the listing; save reads the row of its external_id.
SaveReads(w) == /\ pc[w] = "save"
                /\ See(w, IF Listing(w) \in result THEN "row" ELSE "absent")
                /\ Goto(w, "commit")
                /\ UNCHANGED <<at, body, published, job, chan, storeVars, setting>>

\* The engine raises.
EvaluateFails(w, err) == /\ pc[w] = "save"
                         /\ Raise(w, "release", err)
                         /\ UNCHANGED <<at, body, published, chan, storeVars, seen, setting>>

\* save inserts or updates the row of the listing and inserts its outbox row, in
\* one commit; an insert fails if another handler inserted the listing since.
SaveCommits(w) == /\ pc[w] = "commit"
                  /\ seen[w] = "row" \/ Listing(w) \notin result
                  /\ result' = result \cup {Listing(w)}
                  /\ Count(w)
                  /\ See(w, "none")
                  /\ Goto(w, "complete")
                  /\ UNCHANGED <<at, body, published, job, chan, inbox, setting>>

\* Faulty: a conflicting insert counts as saved.
SaveFails_Swallowed(w) == /\ pc[w] = "commit"
                          /\ seen[w] = "absent" /\ Listing(w) \in result
                          /\ See(w, "none")
                          /\ Goto(w, "complete")
                          /\ UNCHANGED <<at, body, published, job, chan, storeVars, setting>>

\* The commit raises: the insert conflicts, or the transaction is refused.
SaveFails(w) == /\ pc[w] = "commit"
                /\ \/ seen[w] = "absent" /\ Listing(w) \in result /\ UNCHANGED <<priced, result>>
                   \/ Fault("store") /\ UNCHANGED <<priced, result>>
                   \/ /\ Fault("reply")
                      /\ seen[w] = "row" \/ Listing(w) \notin result
                      /\ Count(w) /\ result' = result \cup {Listing(w)}
                /\ See(w, "none")
                /\ Raise(w, "release", "retryable")
                /\ UNCHANGED <<at, body, published, chan, inbox, setting>>

\* mark_completed gets the row of the event.
CompleteReads(w) == /\ pc[w] = "complete"
                    /\ See(w, Row(w))
                    /\ Goto(w, "completing")
                    /\ UNCHANGED <<at, body, published, job, chan, storeVars, setting>>

\* The write of mark_completed applies: an INSERT if it saw no row and there is
\* none, an UPDATE by primary key if it saw one and there still is one.
Applies(w) == (seen[w] = "absent") <=> (Row(w) = "absent")

\* Commit of mark_completed; the status is written unless it was read as completed.
CompleteCommits(w) == /\ pc[w] = "completing"
                      /\ Applies(w)
                      /\ IF seen[w] # "completed" THEN SetRow(w, "completed") ELSE UNCHANGED inbox
                      /\ See(w, "none")
                      /\ Goto(w, "drain")
                      /\ UNCHANGED <<at, body, published, job, chan, priced, result, setting>>

\* mark_completed raises: IntegrityError, StaleDataError, or the store refuses.
CompleteFails(w) == /\ pc[w] = "completing"
                    /\ \/ ~Applies(w) /\ UNCHANGED inbox
                       \/ Fault("store") /\ UNCHANGED inbox
                       \/ Fault("reply") /\ Applies(w) /\ SetRow(w, "completed")
                    /\ See(w, "none")
                    /\ Raise(w, "release", "retryable")
                    /\ UNCHANGED <<at, body, published, chan, priced, result, setting>>

\* The drain after the completion (PricerOutbox); an error of it goes the way of
\* every other error although the event is completed.
Drain(w) == /\ pc[w] = "drain"
            /\ \/ Goto(w, "ack") /\ UNCHANGED job
               \/ Fault("drain") /\ Raise(w, "release", "retryable")
            /\ UNCHANGED <<at, body, published, chan, storeVars, seen, setting>>

\* Faulty: the row is deleted whatever its status.
ReleaseReads_AnyRow(w) == /\ pc[w] = "release"
                          /\ Row(w) # "absent"
                          /\ See(w, Row(w))
                          /\ Goto(w, "releasing")
                          /\ UNCHANGED <<at, body, published, job, chan, storeVars, setting>>

\* release_claim gets the row and finds it processing.
ReleaseReads(w) == /\ pc[w] = "release"
                   /\ Row(w) \in {"processing", "stale"}
                   /\ See(w, Row(w))
                   /\ Goto(w, "releasing")
                   /\ UNCHANGED <<at, body, published, job, chan, storeVars, setting>>

\* release_claim finds no row, or a completed one, and leaves it.
ReleaseSkips(w) == /\ pc[w] = "release"
                   /\ Row(w) \in {"absent", "completed"}
                   /\ Goto(w, AfterError(w, job[w].err))
                   /\ UNCHANGED <<at, body, published, job, chan, storeVars, seen, setting>>

\* Faulty: the delete commits nothing.
ReleaseDeletes_Keeps(w) == /\ pc[w] = "releasing"
                           /\ See(w, "none")
                           /\ Goto(w, AfterError(w, job[w].err))
                           /\ UNCHANGED <<at, body, published, job, chan, storeVars, setting>>

\* The DELETE by primary key, whatever has become of the row since.
ReleaseDeletes(w) == /\ pc[w] = "releasing"
                     /\ SetRow(w, "absent")
                     /\ See(w, "none")
                     /\ Goto(w, AfterError(w, job[w].err))
                     /\ UNCHANGED <<at, body, published, job, chan, priced, result, setting>>

\* release_claim raises inside the except clause and replaces the error.
ReleaseFails(w) == /\ pc[w] \in {"release", "releasing"}
                   /\ Fault("release")
                   /\ See(w, "none")
                   /\ Raise(w, AfterError(w, "retryable"), "retryable")
                   /\ UNCHANGED <<at, body, published, chan, storeVars, setting>>

-------------------------------------------------------------------------------
(* The delivery machinery, as far as this consumer uses it.                *)

KeepStore == UNCHANGED <<storeVars, seen, setting>>

\* The enrichment outbox publishes car.enriched.success.
Publish(e, m) == /\ e \in setting.events /\ m \in setting.msgs
                 /\ e \in published => Fault("duplicate")
                 /\ KeepStore /\ Delivery!Publish(e, m)

RetryExpires(m) == KeepStore /\ Delivery!RetryExpires(m)
Deliver(w, m) == KeepStore /\ Delivery!Deliver(w, m)
NackStopping(p, m) == KeepStore /\ Delivery!NackStopping(p, m)

\* Faulty: the retry count is not raised.
ScheduleRetry_SameCount(w, m) ==
  m \in setting.msgs /\ KeepStore /\ Delivery!ScheduleRetry_SameCount(w, m)

\* _schedule_retry through the retry queue, then the ack.
ScheduleRetry(w, m) == m \in setting.msgs /\ KeepStore /\ Delivery!ScheduleRetry(w, m)
ScheduleRetryFails(w, m) == /\ Fault("publish")
                            /\ m \in setting.msgs
                            /\ KeepStore /\ Delivery!ScheduleRetryFails(w, m)

Settle(w) == KeepStore /\ (Delivery!Ack(w) \/ Delivery!StuckEnds(w))
Reject(w) == KeepStore /\ Delivery!Reject(w)

Stop(p) == Fault("restart") /\ KeepStore /\ Delivery!Stop(p)

\* Faulty: a transaction outlives its handler.
Rollback_KeepsOpen(p) == UNCHANGED <<seen, storeVars, setting>>

\* Handlers of a closed channel or a dead process are gone, their transactions
\* rolled back.
Rollback(p) == /\ seen' = [w \in Workers |-> IF ProcOf[w] = p THEN "none" ELSE seen[w]]
               /\ UNCHANGED <<storeVars, setting>>

CloseChannel(p) == Fault("restart") /\ Rollback(p) /\ Delivery!CloseChannel(p)
Crash(p) == Fault("crash") /\ Rollback(p) /\ Delivery!Crash(p)
Start(p) == KeepStore /\ Delivery!Start(p)

\* Five minutes pass since the claim.
LeaseExpires(e) == /\ Fault("lease")
                   /\ inbox[e] = "processing"
                   /\ inbox' = [inbox EXCEPT ![e] = "stale"]
                   /\ UNCHANGED <<queueVars, priced, result, seen, setting>>

-------------------------------------------------------------------------------
HandlerStep(w) ==
  \/ ParseFails(w) \/ InsertClaim(w) \/ ReclaimRow(w) \/ ClaimFails(w)
  \/ SaveReads(w) \/ (\E err \in {"retryable", "permanent"} : EvaluateFails(w, err))
  \/ SaveCommits(w) \/ SaveFails(w)
  \/ CompleteReads(w) \/ CompleteCommits(w) \/ CompleteFails(w) \/ Drain(w)
  \/ ReleaseReads(w) \/ ReleaseSkips(w) \/ ReleaseDeletes(w) \/ ReleaseFails(w)
  \/ (\E m \in Msgs : ScheduleRetry(w, m) \/ ScheduleRetryFails(w, m))
  \/ Settle(w) \/ Reject(w)

BrokerStep == \E m \in Msgs : \/ \E e \in Events : Publish(e, m)
                              \/ RetryExpires(m)
                              \/ \E w \in Workers : Deliver(w, m)
                              \/ \E p \in Procs : NackStopping(p, m)

ProcessStep == \E p \in Procs : Stop(p) \/ CloseChannel(p) \/ Crash(p) \/ Start(p)

Next == \/ \E w \in Workers : HandlerStep(w)
        \/ BrokerStep
        \/ ProcessStep
        \/ \E e \in Events : LeaseExpires(e)

Spec == Init /\ [][Next]_vars

\* As for the enrichment consumer: handlers go on, the broker delivers and
\* expires, the supervisor restarts.
Fairness == /\ \A w \in Workers : WF_vars(HandlerStep(w))
            /\ \A m \in Msgs : /\ WF_vars(RetryExpires(m))
                               /\ SF_vars(\E w \in Workers : Deliver(w, m))
            /\ \A p \in Procs : WF_vars(Start(p))

FairSpec == Spec /\ Fairness

-------------------------------------------------------------------------------
(* What the pricer must guarantee.                                         *)

\* Types; a transaction is open in the calls that read before they write.
TypeOK == /\ at \in [Msgs -> Delivery!Places \cup Workers]
          /\ body \in [Msgs -> Delivery!Body \cup {NoBody}]
          /\ \A m \in Msgs : (at[m] = "absent") <=> (body[m] = NoBody)
          /\ published \subseteq Events
          /\ pc \in [Workers -> PCs]
          /\ job \in [Workers -> Delivery!Job \cup {NoJob}]
          /\ \A w \in Workers : (pc[w] = "idle") <=> (job[w] = NoJob)
          /\ chan \in [Procs -> {"open", "stopping", "closed"}]
          /\ inbox \in [Events -> Rows]
          /\ priced \in [Events -> 0..MaxPriced]
          /\ result \subseteq {ListingOf[e] : e \in Events}
          /\ seen \in [Workers -> Rows \cup {"none", "row"}]
          /\ \A w \in Workers :
               (seen[w] # "none") <=> (pc[w] \in {"commit", "completing", "releasing"})
          /\ setting \in Settings

Copies(e) == {m \in Msgs : at[m] # "absent" /\ body[m].event = e}
Settled(e) == inbox[e] = "completed" \/ \E m \in Copies(e) : at[m] = "dlq"

\* The ack rule of the pricer: the last copy of an event leaves the broker only
\* when the event has been priced and its priced event is in the outbox.  The
\* claim itself must not fail: see LossByFailedClaim.
NoLoss == {"claim", "release", "reply"} \cap setting.faults = {} =>
            \A e \in published : priced[e] > 0 \/ Copies(e) # {}

\* A completed event has a priced event in the outbox and its listing a result.
CompletedHasOutput ==
  \A e \in Events : inbox[e] = "completed" => priced[e] > 0 /\ ListingOf[e] \in result

\* While processes and leases last and the store does not fail after a save, an
\* event is priced once: repeated copies, conflicts with another event of the
\* listing, errors of the engine and errors of the drain do not price it again.
PricedOnce == setting.faults \subseteq {"duplicate", "drain", "publish"} =>
                \A e \in Events : priced[e] <= 1

\* The claim makes handlers of one event exclusive, unless a redelivery or an
\* expired lease lets a second one take the claim over.
Takeovers == {"crash", "restart", "lease"} \cap setting.faults # {}
Working(w, e) == /\ job[w] # NoJob /\ job[w].event = e
                 /\ pc[w] \in {"save", "commit", "complete", "completing"}
ExclusivePricing ==
  ~Takeovers => \A v, w \in Workers : \A e \in Events :
                  Working(v, e) /\ Working(w, e) => v = w

\* Completion is never undone, unless claims are taken over: then release_claim,
\* which deletes by primary key what it read as processing, may delete the
\* completion of the handler that took over.
CompletedIsPermanent ==
  [][~Takeovers => \A e \in Events : inbox[e] = "completed" => inbox'[e] = "completed"]_vars

\* While processes crash only finitely often, there is always a later moment at
\* which every published event is completed or dead-lettered: retries after
\* refused transactions and failing drains, takeovers, and conflicts of two
\* handlers over the row of one listing end.
EventuallySettled ==
  /\ setting.faults \subseteq {"crash", "store", "drain"}
  /\ <>[][\A p \in Procs : ~Crash(p)]_vars
  => []<>(\A e \in published : Settled(e))
===============================================================================
