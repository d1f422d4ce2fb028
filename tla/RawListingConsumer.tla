-------------------------- MODULE RawListingConsumer --------------------------
(***************************************************************************)
(* The enrichment consumer: _on_message / handle_message of                *)
(* RawListingConsumer, the Mongo inbox it claims events in, and the        *)
(* RabbitMQ topology around it (work queue, TTL retry queue that           *)
(* dead-letters back to work, dead-letter queue).                          *)
(*                                                                         *)
(* A copy is one broker message; several copies may carry the same event   *)
(* (republished by the outbox, scheduled as a retry, requeued).  A worker  *)
(* is one prefetch slot of a process: one running _on_message coroutine.   *)
(***************************************************************************)
EXTENDS Naturals

CONSTANTS Events,        \* event_ids
          Malformed,     \* those whose body does not parse
          LegacyEvents,  \* those with an inbox row older than the status field
          Msgs,          \* broker copies; an acked copy may be used again
          Workers, Procs, ProcOf,  \* prefetch slots, processes, slot -> process
          MaxRetries,    \* enrichment_max_retries
          Faults,        \* what the environment may do, from FaultKinds
          NoJob, NoBody

FaultKinds == {"crash",      \* a process dies between any two steps
               "restart",    \* a channel closes: connection loss or stop()
               "zombie",     \* handlers run on after their channel closed
               "lease",      \* a handler outlives _CLAIM_STALE_AFTER
               "duplicate",  \* the outbox publishes an event more than once
               "publish",    \* publish_retry or publish_failure raises
               "claim",      \* try_claim raises
               "release",    \* release_claim raises
               "reply"}      \* a write is applied and its caller gets an error

Places == {"absent", "work", "retry", "dlq"}

ASSUME ConsumerAssumption ==
  /\ Malformed \subseteq Events
  /\ LegacyEvents \subseteq Events
  /\ ProcOf \in [Workers -> Procs]
  /\ MaxRetries \in Nat \ {0}
  /\ Faults \subseteq FaultKinds
  /\ Workers \cap Places = {}

Body == [event : Events, retry : Nat, redelivered : BOOLEAN]

ASSUME NoBodyAssumption == NoBody \notin Body

VARIABLES at,         \* at[m]: the queue a copy is in, or the worker it is delivered to
          body,       \* body[m]: what the copy carries
          published,  \* events raw.created was published for
          pc,         \* pc[w]: the await a handler is suspended at
          job,        \* job[w]: the delivery it handles, with the error it carries
          chan,       \* chan[p]: the consume channel of a process
          inbox,      \* inbox[e]: the inbox row; "stale" is an expired "processing"
          enriched,   \* events with an enriched row in the outbox
          failures    \* events with an enrichment.failed row in the outbox

brokerVars == <<at, body, published>>
storeVars  == <<inbox, enriched, failures>>
vars == <<at, body, published, pc, job, chan, inbox, enriched, failures>>

Errors == {"none", "retryable", "permanent"}
Job == [msg : Msgs, event : Events, retry : Nat, redelivered : BOOLEAN, err : Errors]

ASSUME NoJobAssumption == NoJob \notin Job

PCs == {"idle", "claim", "reclaim", "enrich", "complete", "release",
        "retry", "exhaust", "ack", "reject", "stuck"}
Rows == {"absent", "legacy", "processing", "stale", "completed"}

Init == /\ at = [m \in Msgs |-> "absent"]
        /\ body = [m \in Msgs |-> NoBody]
        /\ published = {}
        /\ pc = [w \in Workers |-> "idle"]
        /\ job = [w \in Workers |-> NoJob]
        /\ chan = [p \in Procs |-> "open"]
        /\ inbox = [e \in Events |-> IF e \in LegacyEvents THEN "legacy" ELSE "absent"]
        /\ enriched = {}
        /\ failures = {}

Fault(f) == f \in Faults

-------------------------------------------------------------------------------
(* The producer and the broker.                                            *)

NewBody(e, n) == [event |-> e, retry |-> n, redelivered |-> FALSE]

Place(m, q, b) == /\ at' = [at EXCEPT ![m] = q]
                  /\ body' = [body EXCEPT ![m] = b]

\* The outbox publishes car.raw.created; a republished row has the same event_id.
Publish(e, m) == /\ at[m] = "absent"
                 /\ e \in published => Fault("duplicate")
                 /\ Place(m, "work", NewBody(e, 0))
                 /\ published' = published \cup {e}
                 /\ UNCHANGED <<pc, job, chan, storeVars>>

\* The TTL of a retry copy ends and the broker dead-letters it to the work queue.
RetryExpires(m) == /\ at[m] = "retry"
                   /\ at' = [at EXCEPT ![m] = "work"]
                   /\ UNCHANGED <<body, published, pc, job, chan, storeVars>>

\* _on_message starts for a delivery.
Deliver(w, m) == /\ pc[w] = "idle"
                 /\ chan[ProcOf[w]] = "open"
                 /\ at[m] = "work"
                 /\ at' = [at EXCEPT ![m] = w]
                 /\ pc' = [pc EXCEPT ![w] = "claim"]
                 /\ job' = [job EXCEPT ![w] =
                              [msg |-> m, event |-> body[m].event, retry |-> body[m].retry,
                               redelivered |-> body[m].redelivered, err |-> "none"]]
                 /\ UNCHANGED <<body, published, chan, storeVars>>

\* A delivery that reaches a stopping consumer is nacked with requeue.
NackStopping(p, m) == /\ chan[p] = "stopping"
                      /\ at[m] = "work"
                      /\ body' = [body EXCEPT ![m].redelivered = TRUE]
                      /\ UNCHANGED <<at, published, pc, job, chan, storeVars>>

-------------------------------------------------------------------------------
(* handle_message: one action per await.                                   *)

Goto(w, l) == pc' = [pc EXCEPT ![w] = l]
Raise(w, l, err) == /\ Goto(w, l)
                    /\ job' = [job EXCEPT ![w].err = err]

\* Faulty: acks instead of scheduling the retry.
AfterError_Acks(w, err) ==
  IF err = "retryable" /\ job[w].retry + 1 < MaxRetries THEN "ack" ELSE "exhaust"

\* Faulty: rejects without announcing the failure.
AfterError_Silent(w, err) ==
  IF err = "retryable" /\ job[w].retry + 1 < MaxRetries THEN "retry" ELSE "reject"

\* Where an exception that leaves handle_message takes _on_message.
AfterError(w, err) ==
  IF err = "retryable" /\ job[w].retry + 1 < MaxRetries THEN "retry" ELSE "exhaust"

Row(w) == inbox[job[w].event]
SetRow(w, status) == inbox' = [inbox EXCEPT ![job[w].event] = status]

\* The body does not parse: MalformedMessageError, before the inbox is touched.
ParseFails(w) == /\ pc[w] = "claim"
                 /\ job[w].event \in Malformed
                 /\ Raise(w, "exhaust", "permanent")
                 /\ UNCHANGED <<brokerVars, chan, storeVars>>

\* Faulty: the claim already marks the event as done.
InsertClaim_Completes(w) ==
  /\ pc[w] = "claim"
  /\ job[w].event \notin Malformed
  /\ IF Row(w) = "absent" THEN SetRow(w, "completed") /\ Goto(w, "enrich")
                          ELSE Goto(w, "reclaim") /\ UNCHANGED inbox
  /\ UNCHANGED <<brokerVars, job, chan, enriched, failures>>

\* try_claim, first call: insert_one, or DuplicateKeyError.
InsertClaim(w) == /\ pc[w] = "claim"
                  /\ job[w].event \notin Malformed
                  /\ IF Row(w) = "absent"
                     THEN SetRow(w, "processing") /\ Goto(w, "enrich")
                     ELSE Goto(w, "reclaim") /\ UNCHANGED inbox
                  /\ UNCHANGED <<brokerVars, job, chan, enriched, failures>>

\* Faulty: reclaim_processing is ignored.
Reclaimable_NoRedelivery(w) == Row(w) \in {"stale", "legacy"}

\* Faulty: the age of the lease is ignored.
Reclaimable_AnyLease(w) == Row(w) \in {"processing", "stale", "legacy"}

\* The rows find_one_and_update matches: any processing row for a redelivery,
\* else an expired lease or a legacy row.
Reclaimable(w) == Row(w) \in IF job[w].redelivered THEN {"processing", "stale"}
                                                   ELSE {"stale", "legacy"}

\* try_claim, second call, matching.
ReclaimRow(w) == /\ pc[w] = "reclaim"
                 /\ Reclaimable(w)
                 /\ SetRow(w, "processing")
                 /\ Goto(w, "enrich")
                 /\ UNCHANGED <<brokerVars, job, chan, enriched, failures>>

\* try_claim, second call, matching nothing: the delivery counts as a duplicate.
SkipDuplicate(w) == /\ pc[w] = "reclaim"
                    /\ ~Reclaimable(w)
                    /\ Goto(w, "ack")
                    /\ UNCHANGED <<brokerVars, job, chan, storeVars>>

\* try_claim raises: claimed is still False, so no release follows.  The insert
\* may have been applied all the same.
ClaimFails(w) == /\ Fault("claim")
                 /\ pc[w] \in {"claim", "reclaim"}
                 /\ job[w].event \notin Malformed
                 /\ Raise(w, AfterError(w, "retryable"), "retryable")
                 /\ \/ UNCHANGED inbox
                    \/ /\ Fault("reply") /\ pc[w] = "claim" /\ Row(w) = "absent"
                       /\ SetRow(w, "processing")
                 /\ UNCHANGED <<brokerVars, chan, enriched, failures>>

\* orchestrator.enrich returns: the listing is stored and its outbox row enqueued.
EnrichSucceeds(w) == /\ pc[w] = "enrich"
                     /\ enriched' = enriched \cup {job[w].event}
                     /\ Goto(w, "complete")
                     /\ UNCHANGED <<brokerVars, job, chan, inbox, failures>>

\* enrich raises; a failed enqueue may have been applied all the same.
EnrichFails(w, err) ==
  /\ pc[w] = "enrich"
  /\ Raise(w, "release", err)
  /\ \/ UNCHANGED enriched
     \/ Fault("reply") /\ err = "retryable" /\ enriched' = enriched \cup {job[w].event}
  /\ UNCHANGED <<brokerVars, chan, inbox, failures>>

\* mark_completed: an unconditional upsert.
MarkCompleted(w) == /\ pc[w] = "complete"
                    /\ SetRow(w, "completed")
                    /\ Goto(w, "ack")
                    /\ UNCHANGED <<brokerVars, job, chan, enriched, failures>>

MarkFails(w) == /\ pc[w] = "complete"
                /\ Raise(w, "release", "retryable")
                /\ \/ UNCHANGED inbox
                   \/ Fault("reply") /\ SetRow(w, "completed")
                /\ UNCHANGED <<brokerVars, chan, enriched, failures>>

\* Faulty: the row is deleted whatever its status.
ReleaseClaim_AnyRow(w) == /\ pc[w] = "release"
                          /\ SetRow(w, "absent")
                          /\ Goto(w, AfterError(w, job[w].err))
                          /\ UNCHANGED <<brokerVars, job, chan, enriched, failures>>

\* release_claim: deletes the row if it is processing, whoever claimed it.
ReleaseClaim(w) == /\ pc[w] = "release"
                   /\ IF Row(w) \in {"processing", "stale"} THEN SetRow(w, "absent")
                                                            ELSE UNCHANGED inbox
                   /\ Goto(w, AfterError(w, job[w].err))
                   /\ UNCHANGED <<brokerVars, job, chan, enriched, failures>>

\* release_claim raises inside the except clause: its error, which is
\* retryable, replaces the one being handled.
ReleaseFails(w) == /\ pc[w] = "release"
                   /\ Fault("release")
                   /\ Raise(w, AfterError(w, "retryable"), "retryable")
                   /\ UNCHANGED <<brokerVars, chan, storeVars>>

-------------------------------------------------------------------------------
(* _on_message after handle_message.                                       *)

\* A delivery can be settled only on the channel it came in on.
Holds(w) == at[job[w].msg] = w

\* Faulty: the retry count is not raised.
ScheduleRetry_SameCount(w, m) == /\ pc[w] = "retry"
                                 /\ at[m] = "absent"
                                 /\ Place(m, "retry", NewBody(job[w].event, job[w].retry))
                                 /\ Goto(w, "ack")
                                 /\ UNCHANGED <<published, job, chan, storeVars>>

\* _schedule_retry: the same event, one more retry, through the retry queue.
ScheduleRetry(w, m) == /\ pc[w] = "retry"
                       /\ at[m] = "absent"
                       /\ Place(m, "retry", NewBody(job[w].event, job[w].retry + 1))
                       /\ Goto(w, "ack")
                       /\ UNCHANGED <<published, job, chan, storeVars>>

\* The publish raises, perhaps after the broker took the message.  Nothing
\* catches it: the delivery stays unacked until its channel closes.
ScheduleRetryFails(w, m) ==
  /\ pc[w] = "retry"
  /\ Fault("publish")
  /\ at[m] = "absent"
  /\ \/ UNCHANGED <<at, body>>
     \/ Fault("reply") /\ Place(m, "retry", NewBody(job[w].event, job[w].retry + 1))
  /\ Goto(w, "stuck")
  /\ UNCHANGED <<published, job, chan, storeVars>>

\* _handle_exhausted enqueues car.enrichment.failed, before the reject.
HandleExhausted(w) == /\ pc[w] = "exhaust"
                      /\ failures' = failures \cup {job[w].event}
                      /\ Goto(w, "reject")
                      /\ UNCHANGED <<brokerVars, job, chan, inbox, enriched>>

HandleExhaustedFails(w) ==
  /\ pc[w] = "exhaust"
  /\ Fault("publish")
  /\ \/ UNCHANGED failures
     \/ Fault("reply") /\ failures' = failures \cup {job[w].event}
  /\ Goto(w, "stuck")
  /\ UNCHANGED <<brokerVars, job, chan, inbox, enriched>>

\* Faulty: the job outlives its handler.
Finish_KeepsJob(w) == Goto(w, "idle") /\ UNCHANGED job

Finish(w) == /\ Goto(w, "idle")
             /\ job' = [job EXCEPT ![w] = NoJob]

Ack(w) == /\ pc[w] = "ack"
          /\ IF Holds(w) THEN Place(job[w].msg, "absent", NoBody)
                         ELSE UNCHANGED <<at, body>>
          /\ Finish(w)
          /\ UNCHANGED <<published, chan, storeVars>>

\* reject(requeue=False): the work queue dead-letters the copy to the DLQ.
Reject(w) == /\ pc[w] = "reject"
             /\ IF Holds(w) THEN at' = [at EXCEPT ![job[w].msg] = "dlq"]
                            ELSE UNCHANGED at
             /\ Finish(w)
             /\ UNCHANGED <<body, published, chan, storeVars>>

\* The coroutine died with its delivery unacked; once the channel is closed
\* nothing is left of it.
StuckEnds(w) == /\ pc[w] = "stuck"
                /\ ~Holds(w)
                /\ Finish(w)
                /\ UNCHANGED <<brokerVars, chan, storeVars>>

-------------------------------------------------------------------------------
(* Time and processes.                                                     *)

LeaseExpires(e) == /\ Fault("lease")
                   /\ inbox[e] = "processing"
                   /\ inbox' = [inbox EXCEPT ![e] = "stale"]
                   /\ UNCHANGED <<brokerVars, pc, job, chan, enriched, failures>>

\* The broker requeues what was delivered on the channel of p.
Requeue(p) ==
  LET lost == {m \in Msgs : at[m] \in Workers /\ ProcOf[at[m]] = p}
  IN  /\ at' = [m \in Msgs |-> IF m \in lost THEN "work" ELSE at[m]]
      /\ body' = [m \in Msgs |-> IF m \in lost THEN [body[m] EXCEPT !.redelivered = TRUE]
                                               ELSE body[m]]

DropHandlers(p) == /\ pc' = [w \in Workers |-> IF ProcOf[w] = p THEN "idle" ELSE pc[w]]
                   /\ job' = [w \in Workers |-> IF ProcOf[w] = p THEN NoJob ELSE job[w]]

\* stop() begins: _stopping is set, the consumer not yet cancelled.
Stop(p) == /\ Fault("restart")
           /\ chan[p] = "open"
           /\ chan' = [chan EXCEPT ![p] = "stopping"]
           /\ UNCHANGED <<brokerVars, pc, job, storeVars>>

\* The channel closes under the running handlers, by stop() or by the network.
CloseChannel(p) == /\ Fault("restart")
                   /\ chan[p] # "closed"
                   /\ chan' = [chan EXCEPT ![p] = "closed"]
                   /\ Requeue(p)
                   /\ IF Fault("zombie") THEN UNCHANGED <<pc, job>> ELSE DropHandlers(p)
                   /\ UNCHANGED <<published, storeVars>>

Crash(p) == /\ Fault("crash")
            /\ chan' = [chan EXCEPT ![p] = "closed"]
            /\ Requeue(p)
            /\ DropHandlers(p)
            /\ UNCHANGED <<published, storeVars>>

\* start(): a fresh channel, bound to the work queue.
Start(p) == /\ chan[p] = "closed"
            /\ chan' = [chan EXCEPT ![p] = "open"]
            /\ UNCHANGED <<brokerVars, pc, job, storeVars>>

-------------------------------------------------------------------------------
HandlerStep(w) ==
  \/ ParseFails(w) \/ InsertClaim(w) \/ ReclaimRow(w) \/ SkipDuplicate(w) \/ ClaimFails(w)
  \/ EnrichSucceeds(w) \/ (\E err \in {"retryable", "permanent"} : EnrichFails(w, err))
  \/ MarkCompleted(w) \/ MarkFails(w) \/ ReleaseClaim(w) \/ ReleaseFails(w)
  \/ (\E m \in Msgs : ScheduleRetry(w, m) \/ ScheduleRetryFails(w, m))
  \/ HandleExhausted(w) \/ HandleExhaustedFails(w)
  \/ Ack(w) \/ Reject(w) \/ StuckEnds(w)

BrokerStep == \E m \in Msgs : \/ \E e \in Events : Publish(e, m)
                              \/ RetryExpires(m)
                              \/ \E w \in Workers : Deliver(w, m)
                              \/ \E p \in Procs : NackStopping(p, m)

ProcessStep == \E p \in Procs : Stop(p) \/ CloseChannel(p) \/ Crash(p) \/ Start(p)

Next == \/ \E w \in Workers : HandlerStep(w)
        \/ BrokerStep
        \/ ProcessStep
        \/ \E e \in Events : LeaseExpires(e)

Spec == Init /\ [][Next]_vars

\* asyncio resumes every coroutine whose await is over, and every await here is
\* bounded by a client timeout; the broker delivers in order (no copy is passed
\* over for ever), expires retries, and the supervisor restarts processes.
Fairness == /\ \A w \in Workers : WF_vars(HandlerStep(w))
            /\ \A m \in Msgs : /\ WF_vars(RetryExpires(m))
                               /\ SF_vars(\E w \in Workers : Deliver(w, m))
            /\ \A p \in Procs : WF_vars(Start(p))

FairSpec == Spec /\ Fairness

-------------------------------------------------------------------------------
(* What the consumer must guarantee.                                       *)

\* Types, and a worker without a job is idle.
TypeOK == /\ at \in [Msgs -> Places \cup Workers]
          /\ body \in [Msgs -> Body \cup {NoBody}]
          /\ \A m \in Msgs : (at[m] = "absent") <=> (body[m] = NoBody)
          /\ published \subseteq Events
          /\ pc \in [Workers -> PCs]
          /\ job \in [Workers -> Job \cup {NoJob}]
          /\ \A w \in Workers : (pc[w] = "idle") <=> (job[w] = NoJob)
          /\ chan \in [Procs -> {"open", "stopping", "closed"}]
          /\ inbox \in [Events -> Rows]
          /\ enriched \subseteq Events
          /\ failures \subseteq Events

Copies(e) == {m \in Msgs : at[m] # "absent" /\ body[m].event = e}
Settled(e) == \/ inbox[e] = "completed"
              \/ \E m \in Copies(e) : at[m] = "dlq"

\* The ack rule (docs/architecture.md): the last copy of an event leaves the
\* broker only after the event is completed in the inbox.  In particular a
\* delivery skipped as a duplicate is never the only one left.
NoLoss == \A e \in published \ LegacyEvents : inbox[e] = "completed" \/ Copies(e) # {}

\* mark_completed runs only once the enriched row is durable in the outbox.
CompletedHasOutput == \A e \in Events : inbox[e] = "completed" => e \in enriched

\* A copy in the dead-letter queue has been announced as car.enrichment.failed.
DeadLettersAnnounced == \A m \in Msgs : at[m] = "dlq" => body[m].event \in failures

\* The claim makes handlers of one event exclusive, unless a redelivery or an
\* expired lease lets a second one take the claim over.
Working(w, e) == pc[w] \in {"enrich", "complete", "release"} /\ job[w].event = e
ExclusiveProcessing ==
  Faults \cap {"crash", "restart", "lease"} = {} =>
    \A v, w \in Workers : \A e \in Events : Working(v, e) /\ Working(w, e) => v = w

\* "completed is permanent": no crash, late release or takeover undoes it.
CompletedIsPermanent ==
  [][\A e \in Events : inbox[e] = "completed" => inbox'[e] = "completed"]_vars

\* At-least-once delivery: the consumer implements EventDelivery.
Status(e) == IF inbox[e] = "completed" THEN "done"
             ELSE IF \E m \in Copies(e) : at[m] # "dlq" THEN "open"
             ELSE IF Copies(e) # {} THEN "dead"
             ELSE "new"
Delivery == INSTANCE EventDelivery WITH status  <- [e \in Events |-> Status(e)],
                                        outputs <- enriched
DeliversAtLeastOnce == Delivery!Spec

\* While processes crash only finitely often, every published event is
\* eventually completed or dead-lettered: retries are bounded, and no claim or
\* requeue blocks an event for ever.
EventuallySettled ==
  <>[][\A p \in Procs : ~Crash(p)]_vars =>
    \A e \in Events : e \in published ~> Settled(e)
===============================================================================
