# AutoPulse: TLA+ models, TLC runs and TLAPS proofs

AutoPulse collects auction listings of cars, enriches them with an LLM and a CV
pipeline, and prices them for dealers. The services talk through RabbitMQ and
keep their state in MongoDB (enrichment) and MySQL (pricer). What is hard about
the program is not any one computation but the promise that holds it together:
**an event is processed at least once, its effects are applied once, and it is
never forgotten**, across several replicas, crashes, closed channels, failing
stores, lost confirms and bounded retries. This project models the code that
keeps that promise. Paths below are relative to the repository.

## 1. The system

```
 crawler ──HTTP──▶ enrichment API ─┐
                                   ▼
                    [outbox (Mongo)] ──drain──▶ car.raw.created ──▶ work queue
                                                                      │  ▲ TTL
                              RawListingConsumer ◀────────────────────┘  │
                  inbox (Mongo) ◀─ claim/complete/release                │
                               │            └─ retry copy ──▶ retry queue┘
                               ▼            └─ reject ──▶ dead-letter queue
                    orchestrator: LLM ∥ CV ─▶ listings (Mongo)
                               │
                    [outbox (Mongo)] ──drain──▶ car.enriched.success
                                                       │
                    EnrichedListingConsumer ◀──────────┘   (same pattern, MySQL)
                               │
                    pricing_results, inbox, outbox (MySQL) ──▶ car.pricing.completed
```

### Inventory

| Component (code) | State it keeps | Operations | Hard behaviour | What makes it correct |
|---|---|---|---|---|
| Enrichment consumer and inbox (`services/enrichment/app/consumers`, `repositories/messaging_store.py`, `messaging/retry.py`, `topology.py`) | an inbox row per `event_id` (`processing` with a time stamp, `completed`), copies in the work, retry and dead-letter queues, prefetch slots | start, stop, deliver, claim (insert, then conditional update), enrich, complete, release, schedule retry, dead-letter, ack | interleaved replicas, redelivery, five-minute leases, an error in every await, handlers cut off with their channel | no event is lost; one handler at a time; output before completion, announcement before burial; completion is final; everything settles |
| Enrichment outbox (`messaging/outbox_sink.py`, `event_publisher.py`, `OutboxRepository`) | a row per event: pending, processing, published | enqueue, claim a batch, publish with confirm, mark, release, periodic drain | several drains at once, expired claims, lost confirms, unroutable keys | published means stored by the broker; every routable row is published |
| LLM service and circuit breaker (`llm/`, `core/circuit_breaker.py`) | breaker state, failure count, opening time | before_call, record_success, record_failure, bounded request retries | late results of calls admitted before a trip, cancelled probes | trips at its threshold, one probe, recovers |
| Orchestrator and listing store (`enrichment/orchestrator.py`, `listing_repository.py`) | one document per `external_id` with `llm_done`, `cv_done`, `enriched_at`, options, defects | enqueue_raw, enrich (short cut, prepare, two concurrent stages, finalize, publish), list_recent | overlapping handlers write whole documents, crash between stages, stale short cut | a published listing is complete and belongs to its event; finished stages are kept; the document ends complete |
| Process start and stop (`bootstrap/`, `worker.py`, `main.py` of both services) | what is open, the drainer task and its stop event, the HTTP clients, the metrics server | start in each run mode, attach messaging, drain, shut down under a timeout | handlers and the drainer run while resources close; any await may fail or be cancelled | nothing is used after it is closed; everything is closed; drained before exit; a shutdown ends |
| Pricer consumer, inbox, store (`services/pricer/app/consumers`, `services/pricing_service.py`, `repositories/pricing_repository.py`) | MySQL inbox, `pricing_results` (unique `external_id`), outbox rows | claim, price (result and outbox row in one transaction), complete, drain, release, reject | transactions that read and then write by key; drain errors after completion; unique-key conflicts | as for enrichment; priced once; one result per listing |
| Pricer outbox (`messaging/outbox_publisher.py`, `PricingRepository`) | SQL outbox rows | claim batch with SKIP LOCKED, publish, mark, release | unconditional marks, late releases | published means stored |
| CV pipeline (`cv/service.py`, `analyzer.py`, `yolo_onnx.py`) | the download semaphore, lazily loaded ONNX sessions | download, inspect one photo per thread, load a detector | threads share unlocked attributes; cancelled calls | slots come back; a loaded detector sees every photo |
| Crawler (`services/crawler`) and dealer UI (`dealer/`, `api/dealer_ui.py`) | none of their own: the listing stored under its external id | translate a vendor payload, submit it | two independent translations of the same payload; lost replies | one vehicle is one document, whichever way it came in |
| Admin lists (`admin/`, `list_recent` of both repositories) | none (read the stores) | page by time stamp, re-enrich | rows are written while pages are read, with stamps taken before the awaited write; ties | no row listed twice unless its writes overlap, none left out |
| Pricing engines (`services/margin_rules.py`, `sklearn_engine.py`) | none | evaluate | boundaries of the rules | arithmetic, left to unit tests |
| Shared schemas, metrics, logging, auth, configuration, migrations, deployment | none that matters here | | | |

Interactions: the API and the handlers write outbox rows; a drain publishes them;
the broker delivers copies to handlers; a handler calls the orchestrator, which
calls the LLM through the breaker and the CV pipeline and writes the listing and
the next outbox row; retries and dead letters go back through the broker; the
lifecycle opens and closes the channels under all of them.

The hazards of the code, each with its line and the properties aimed at it, are
the `hazards` of `PROJECT.json`.

## 2. Modules

| Module | What it is |
|---|---|
| `EventDelivery` | abstract specification: at-least-once delivery as a producer sees it (submit, emit, finish, bury) |
| `RawListingConsumer` | the enrichment consumer, its inbox and the queues around it |
| `RawListingConsumer_inv` | the inductive invariants behind its safety properties |
| `RawListingConsumer_proofs` | seven theorems about it, the refinement of `EventDelivery` among them |
| `MCRawListingConsumer` | small instances |
| `Outbox` | what both outboxes share: rows, drains, confirmed publishing, the properties |
| `EnrichmentOutbox`, `PricerOutbox` | the calls of the Mongo and of the SQL store, each over `Outbox` |
| `Outbox_proofs`, `EnrichmentOutbox_proofs`, `PricerOutbox_proofs` | the shared lemmas and invariants; five theorems about each store |
| `MCOutboxes` | both outboxes on small instances, fairness and liveness |
| `ListingAggregation` | the orchestrator over the document of one listing |
| `ListingAggregation_inv` | the inductive invariants behind its safety properties |
| `ListingAggregation_proofs` | three theorems about it |
| `MCListingAggregation` | small instances |
| `EnrichedListingConsumer` | the pricer's consumer over SQL transactions, with the queues of `RawListingConsumer` |
| `EnrichedListingConsumer_inv` | the inductive invariants behind its safety properties |
| `EnrichedListingConsumer_proofs` | six theorems about it |
| `MCEnrichedListingConsumer` | small instances |
| `CircuitBreaker` | the breaker and the calls of `LlmService.extract_options` |
| `Runtime` | start and stop of both services in every run mode |
| `CvPipeline` | photo downloads, threads and lazily loaded detectors |
| `MCProcess` | `CircuitBreaker`, `Runtime` or `CvPipeline` on small instances |
| `Process_inv` | the inductive invariants behind the safety properties of `Runtime` and `CvPipeline` |
| `Process_proofs` | nine theorems about the three of them |
| `ListingIntake` | the translations of crawler, dealer JSON and dealer form, and submission |
| `AdminPages` | the paged lists of both services |
| `MCDesk` | `ListingIntake` or `AdminPages` on small instances |
| `Desk_inv` | the inductive invariants behind the safety properties of both |
| `Desk_proofs` | five theorems about them |

A module that instantiates several parts (`MCOutboxes`, `MCProcess`, `MCDesk`) runs one
of them in each behaviour: the choice is a variable fixed by `Init`, and so is a
`setting` (which faults, which rows, which events) where several combinations
matter. One run then covers all combinations, and a property states the
setting it needs as its hypothesis.

### RawListingConsumer

*State.* `at[m]` says where a broker copy is (a queue, or the worker it is
delivered to) and `body[m]` what it carries; a worker is one prefetch slot and
`pc[w]` the await its coroutine is suspended at; `job[w]` holds what the coroutine
has read from the delivery, and the error it carries. `inbox[e]` is the Mongo row:
`absent`, `processing`, `stale` (a `processing` row older than
`_CLAIM_STALE_AFTER`), `completed`, or `legacy` (a row written before the
`status` field existed). `enriched` and `failures` are the events that have a row
for `car.enriched.success` and `car.enrichment.failed` in the outbox. `chan[p]`
is the consume channel of a process.

*Actions.* Every await of `handle_message` and `_on_message` is one action, with a
second action for the await raising:

| Code | Actions |
|---|---|
| `handle_message` 103-106, parse | `ParseFails` |
| `try_claim`: insert, then `find_one_and_update` | `InsertClaim`, `ReclaimRow`, `SkipDuplicate`, `ClaimFails` |
| `orchestrator.enrich` with `publish_enriched` | `EnrichSucceeds`, `EnrichFails` (retryable or permanent) |
| `mark_completed` | `MarkCompleted`, `MarkFails` |
| `release_claim` in the `except` clause | `ReleaseClaim`, `ReleaseFails` |
| `_on_message` 157-192 | `AfterError`, `ScheduleRetry`, `HandleExhausted`, their failures, `Ack`, `Reject`, `StuckEnds` |
| `stop`, `_release_consume_resources`, `start` | `Stop`, `NackStopping`, `CloseChannel`, `Start` |
| the outbox's publish, the broker, time, death | `Publish`, `Deliver`, `RetryExpires`, `LeaseExpires`, `Crash` |

The claim is two calls, as in the code, so another handler may act in between;
`release_claim` deletes a `processing` row whoever claimed it; `mark_completed`
is an unconditional upsert; a release that raises *replaces* the error being
handled; an error of `publish_retry` or `publish_failure` is caught by nobody, so
the delivery stays unacked in its slot (`stuck`) until the channel closes.

What the environment may do is the constant `Faults`, so that a property can be
checked, and proved, under exactly the failures it survives. `"zombie"` is kept
apart: whether a handler runs on after its channel closed is decided by aiormq,
which is not part of the repository. The runs about losing events let handlers end
with their channel; `ConsumerAllFaults` lets them run on. `"reply"` is a write that
was applied although its caller saw an error.

*Abstracted.* The enrichment is one step that yields an outbox row or an error;
bodies are an event, a retry count and the redelivered flag; the retry delay is
any delay (`RetryExpires` may take any retry copy, which includes the queue's own
order); headers, metrics and logs are left out.

### Outbox, EnrichmentOutbox, PricerOutbox

`rows` is the table in the order the store claims it in, `pc[d]` and `batch[d]` one
running `drain()`: the one after a handler, the periodic one, or one of another
replica. A drain claims a batch, then publishes, marks or releases its rows one at
a time. `copies[i]` counts what the broker stored for a row. A message is published
with `mandatory` and a confirm, so one that no queue takes raises.

The two stores differ in what is atomic. In `EnrichmentOutbox` each row is claimed by
a `find_one_and_update` of its own, and marks and releases are conditional updates.
In `PricerOutbox` a batch is claimed in one transaction under `FOR UPDATE SKIP
LOCKED`, and `mark_published` and `release_outbox_claim` read a row (`seen[d]`) and
then write it by primary key whatever has become of it. A store error in the claim
or the release ends the drain; rows it holds wait for their claim to expire.

### ListingAggregation

`EnrichSucceeds` and `EnrichFails` of `RawListingConsumer`, looked into. `doc` is the
document of one `external_id`; a submission `e` is one event, with what it
`carries` and its `status`; `pc[h]`, `event[h]`, `state[h]`, `stage[h]` are the
locals of a running `enrich()`, and `published` the enriched rows of the outbox. A
result is represented by the inputs it was computed from, so that "the options of
this listing" can be told from "the options of its previous version".

| Code | Actions |
|---|---|
| `enqueue_raw` 72-73, the upsert; 75, `publish_raw` | `SaveRaw`; `PublishRaw`, `PublishRawFails` |
| `enrich` 93-107, `get_optional` and the short cut; `_prepare_state` | `Read`; `Prepare` |
| `_run_stages`, `run_llm` and `run_cv` with their upserts | `StageSucceeds`, `StageFails` |
| `gather`; `_finalize_aggregation`; `_publish_enriched` | `Gather`; `Finalize`; `PublishEnriched` |
| the consumer around it | `Start`, `Complete`, `Fails`, `Crash` |

Documents are written whole, from the working copy, so a slow handler may overwrite
what another one, or a submission, has written since its read. `Concurrency` states
which handlers may run together: `"per_event"` is what the inbox grants while no
claim is taken over (two events of one listing do overlap), `"any"` adds
takeovers, `"one"` is a listing whose events come one after the other.

### EnrichedListingConsumer

The two services declare the same topology and settle deliveries alike, so the
delivery actions are those of `RawListingConsumer`, instantiated with its stores
fixed; the guard of each is repeated in the wrapper when a setting restricts it. The
store is what differs: `seen[w]` is what the transaction of a handler has read, and
each call is a read and a write.

| Code | Actions |
|---|---|
| `try_claim`: INSERT, then `UPDATE ... WHERE` | `InsertClaim`, `ReclaimRow`, `ClaimFails` |
| `PricingService.price` and `save` | `EvaluateFails`; `SaveReads`, `SaveCommits`, `SaveFails` (also a conflict on the unique `external_id`) |
| `mark_completed` | `CompleteReads`, `CompleteCommits`, `CompleteFails` |
| the drain after it | `Drain` |
| `release_claim` | `ReleaseReads`, `ReleaseSkips`, `ReleaseDeletes`, `ReleaseFails` |
| `_on_message`, `start`, `stop`, death | `AfterError` and the delivery actions; `Rollback` undoes open transactions |

A result is an element of `result`, its outbox rows are counted in `priced[e]`.

### CircuitBreaker

`state`, `failures` and `opened_at` are the breaker's attributes; the lock is never
held across an await, so each method is one step. `attempt[c]` is the request a
call waits for (tenacity's retries), `admitted[c]` the state that let it in, a
history variable for the properties. `Rejected` is `before_call` raising. `Init`
chooses what differs between deployments: whether a call may outlast
`recovery_timeout_sec` (`slow`) and whether handlers may be cancelled (`cancels`).
`failures` is counted up to `Threshold`, since the code asks nothing but
`>= failure_threshold`.

### Runtime

`main` is the await the main coroutine is at, from the metrics server over the store,
the broker connection, the publisher channel, the first drain, the consumer and the
desks' HTTP clients to the same in reverse. Beside it run the periodic drainer task
and one handler or HTTP request, each with a `drain` of its own over `rows`. `mode`
is the service and its `RUN_MODE`; the pricer in mode `api` attaches no messaging.
Every await may raise: in startup that goes to the `finally` that shuts down, in the
shutdown to the one that stops metrics. The timeout of the shutdown is `Timeout`, and
`TimeoutSwallowed` where `_stop_outbox_drainer` suppresses the cancellation. Closing
the consume channel cancels the handler, or, if its task is detached, leaves it
running (`outlived`). `faults` and `outlived` are history variables: the properties
say which faults they survive.

### CvPipeline

`call[c]` is a running `detect_defects`, `photo[c][p]` the download and then the
thread of one photo, `turn` the detector its thread is at. Threads take a step for
each shared attribute of `OnnxYoloDetector` they touch (`_session`, `_load_attempted`,
`_input_name`), as nothing locks them. A thread that raises ends the `gather`, not the
other threads; a cancelled call loses its downloads and the threads not yet started.
What a photo shows is left out.

### ListingIntake

A payload is a function from the vendor's keys to texts and numbers. A text is
what can be told of it here: its visible part, a source prefix, and whether white
space surrounds or divides it; a number parses, is blank or does not.
`CrawlerListing`, `JsonListing` and `FormListing` are the three translations; each
yields the listing or refuses. `Submit` stores it under its external id, `ReplyLost`
stores it and reports an error (publish failed, time-out, reply without an event
id), `Unreachable` stores nothing, `Refuse` is a 404 or 422. `Shared` says which
payloads all translations understand, and the properties are about these: the
others are listed below as observations. `store` holds inputs only: that `enqueue_raw`
resets both stages with each submission is in `ListingAggregation` (`SaveRaw`). That the
inputs stay as they are (`ResubmitKeepsInputs`) still matters there: an event of the
earlier submission has the fingerprint of the document, so its handler goes on with
it where a changed input would make it start over.

### AdminPages

`clock` is the time at the resolution of the stamps, so that two writes may share
one. A write is two steps: `TakeStamp` is `datetime.now` in `_to_document`, or the
`priced_at` of an evaluated result; `StoreRow` is the awaited upsert or commit, which
asks nothing of the stamp that the row has by then; `WriteFails` is an error or a crash
in between. `writing` holds the writes between the two. The history variable
`overlapped` names the rows that had two of them under way at once (handlers of two
events of one listing, a submission beside a handler), `alone` those that were not
written since the list was opened. `reader` follows `next_cursor` meanwhile; `Page`
leaves the order of equal stamps open. The limit is clamped as in the code (`PageSize`).

## 3. Runs

| Run | Question | Result |
|---|---|---|
| `ConsumerCrash` | two processes, three copies; crashes, closed channels, expired leases, repeated publishes, failing retries: is an event ever lost, and is this at-least-once delivery? | `NoLoss`; implements `EventDelivery` (`DeliversAtLeastOnce`) |
| `ConsumerNoCrash` | one process with two slots, failing claims, a malformed event: does the claim exclude a second handler? | `ExclusiveProcessing` |
| `ConsumerAllFaults` | every fault at once, zombies, lost replies and a legacy row included | `TypeOK`, `CompletedHasOutput`, `DeadLettersAnnounced`, `CompletedIsPermanent` |
| `ConsumerLive` | do retries, requeues and takeovers end? | `EventuallySettled` |
| `AggregationOverlap` | two events of one listing, two handlers, failing stages and upserts, crashes: what is published, and where does the document end? | `TypeOK`, `PublishedComplete`, `EventuallyEnriched` |
| `Outboxes` | both stores, two drains; crashes, expired claims, store errors, lost confirms, unroutable rows, a row written before the start | `TypeOK`, `PublishedWasStored`, `ClaimedOnce`, `PublishedOnce`, `PublishedIsFinal`, `EventuallyPublished` |
| `Pricer` | two processes over SQL transactions; crashes, expired leases, rolled back and lost transactions, drain errors, two events of one listing: is an event lost, priced twice, completed without its price, or never settled? | `TypeOK`, `NoLoss`, `CompletedHasOutput`, `PricedOnce`, `ExclusivePricing`, `CompletedIsPermanent`, `EventuallySettled` |
| `Process` | the breaker with slow and cancelled calls; start and stop in each mode, failing or timing out anywhere; photos of two listings | `TypesOK`, `TripsAtThreshold`, `OneProbe`, `HalfOpenHasProbe`, `BreakerRecovers`; `ClosesEverything`, `DrainsOnOpenChannel`, `CleanExitDrains`, `ShutdownEnds`; `SkipsOnlyWhileLoading`, `DetectionEnds` |
| `Desk` | payloads that come in by crawler, JSON and form, again and again; pages read while rows are written | `TypeOK`, `EntriesAgree`, `ResubmitKeepsInputs`; `ListsOnce`, `ListsUnwritten` |

Three runs show a place where the code does not do what its documentation says:

* `LossByFailedClaim` violates `NoLoss`. A process dies after its claim. The
  redelivery's `try_claim` raises (the store is briefly unreachable); `claimed` is
  still `False`, so nothing is released, and the retry copy is not marked
  redelivered: it finds a fresh `processing` row and is acked as a duplicate. No
  copy is left and the event is not completed. The retry must come within the
  five-minute lease, which the default delays of seconds do.
* `OutboxStarved` violates `PublishedDespiteHiccups`. Rows with a routing key that no
  queue is bound to (`car.enrichment.failed`, in this repository) are released and
  stay the oldest; once a batch holds only such rows, no later row is ever claimed.
* `DetectorSkips` violates `EveryPhotoChecked`. `_ensure_session` sets `_load_attempted`
  before it loads the model. While one thread loads it, the threads of the other
  photos find the attempt made and no session, and return no detection although
  the weights are there; the stage is stored as done. Once the model is loaded no
  photo is passed over (`SkipsOnlyWhileLoading`).

Other observations came out of the same models and have no run of their own:

* An error of `enrich` whose `release_claim` fails too leaves the row `processing`,
  and the retry copy is acked as a duplicate: the same loss as `LossByFailedClaim`,
  without a crash.
* Between the two calls of `try_claim` the row may be released, so a delivery can be
  skipped although nobody holds the event; the releasing handler schedules its own
  retry, so nothing is lost (`NoLoss` holds in `ConsumerCrash` and `ConsumerNoCrash`,
  where this happens).
* A probe that is cancelled with its handler leaves the breaker half-open for ever:
  `CancelledError` is no `Exception`, nothing is recorded, and every call is rejected
  until the process restarts. `HalfOpenHasProbe` and `BreakerRecovers` therefore
  assume `~cancels`.
* With slow calls a second probe can run beside the first (see `OneProbeAtATime`).
* A handler that stops between its second stage and `_finalize_aggregation` leaves a
  complete document without `enriched_at`; its redelivery takes the short cut and
  publishes it as it is.
* `StageKept` needs its hypothesis: with overlapping handlers of two events, the one
  that read first undoes a stage that the other has finished. The work is done
  again, and `EventuallyEnriched` shows that the document ends complete. With a
  takeover beside a handler that still runs (`Concurrency = "any"`) that is lost
  too: the slow handler may write its partial copy last, and crash.
* Pricer: an error of the drain after `mark_completed` goes to the retry path although
  the event is done (the retry is skipped as a duplicate). With takeovers,
  `release_claim` may delete a completion it has not seen, and the event is priced
  again; a late release may set a published outbox row back to pending.
* Runtime: the shutdown timeout, when it strikes in `_stop_outbox_drainer`, is
  swallowed there and the rest of the shutdown runs without one. An error of
  `consumer.stop` leaves publisher and store open (metrics are stopped). When the
  pricer's consumer does not start, its drainer keeps draining on a closed channel
  until it is stopped. `suppress(Exception)` around the last drain does not cover a
  cancellation. Readiness asks about the publisher only.
* CV: `letterbox` scales a photo 1280 times as high as wide to width 0, and
  `cv2.resize` raises; the stage fails again on each retry.
* Intake, outside of `Shared`: the crawler repeats a prefix the reference already has
  (`copart-copart-7`) and keeps inner white space, the dealer desk does neither. Dealer
  JSON takes a `lotNumber` of white space only as `copart-`. An odometer in
  `kilometers` or an unknown unit counts as miles for the dealer, and the crawler
  converts the first and refuses the second. Several keys (`odometerKm`,
  `odometerReading`, `odometer_unit`, `lotTitle`, `vehicleTitle`, `damageDescription`,
  `notes`, `href`) only the crawler knows; of several prices or image lists the two
  prefer different ones. A manual listing without a title gets one from the form
  only, and stays `other` or becomes `manual` depending on the way it came in; its
  blank texts, and white space around others, are kept by JSON and crawler and
  dropped by the form. `Shared` asks for plain texts and the source `manual` there:
  the run has no others, and the proof for all payloads needs it.
* Pages: of two overlapping writes of one row the older stamp may be stored last. A row
  that has been listed can so come back below the cursor and be listed again, and its
  `updated_at` or `priced_at` goes back in time. `ListsOnce` excepts the rows with such
  writes and shows that nothing else lists a row twice. Within one call of `enrich` the
  two stages do not overlap, as `persist_lock` is held over stamp and write.
* Pages: the cursor is `<` on the stamp, so rows that share the stamp of a page's last
  row are left out (a MySQL `DATETIME` has seconds). `ListsUnwritten` excepts them.
* A resubmission of unchanged inputs starts both stages over (`enqueue_raw` upserts a
  fresh document), although the outcome of the earlier one is stored.
* `re_enrich` submits what it read, so a submission in between is overwritten.

### Bounds

* One event suffices for the consumer's safety: rows, copies and outputs of
  different events share nothing but slots. `ConsumerNoCrash` adds a second,
  malformed event. Two workers are the least that interleave; three copies allow
  the original, its retry and a duplicate at once; `MaxRetries` 2 or 3 reaches
  both the retry and the exhausted branch. Retry counts are bounded by the code.
  An acked copy may be used again, so `Msgs` bounds copies alive at once, not
  events ever published.
* Two inputs, two events and two handlers are the least for a change of the inputs, a
  resubmission, and an overlap. A third event or handler adds no new kind of
  overlap, since a write depends on one working copy and one document. The theorems
  have no such bound.
* Outboxes: two drains, a batch of 2 and 2 or 3 rows reach a batch that is full, cut
  short and claimed twice. The settings combine each store with every fault, with
  broker errors only, and (SQL) with all but expired leases; some start with a legacy
  or a published row. `room` bounds rows enqueued, `MaxCopies` the counting of copies,
  since only `> 0` and `<= 1` are asked.
* Pricer: as for the consumer, in seven settings of faults and events; two events of one
  listing collide on its result row. `MaxPriced` is 2, since `<= 1` is asked.
* Breaker: three callers, a threshold of 4 and two requests per call let a trip, a late
  result and a probe be in flight together.
* Runtime: one handler, one drainer and two rows: a drain may be cut short between
  its rows, and one row be claimed while another is enqueued.
* CV: one listing with two photos and one with a single one, one download slot, one
  detector (two in `DetectorSkips`): a load may be overtaken by a thread of the same
  listing and of another one. Detectors share no attribute.
* Desk: payloads of two or three keys (a reference, a number, a text or a second
  reference) over the values that decide a branch, so that a reference meets each of
  the others. Three rows, a clock of 3 values and pages of 1 or 2 give full, short and
  tied pages; two `Writers`, the writes under way at a time, are the least that overlap.
* Symmetry: copies (consumer), rows and writers (`Desk`) are interchangeable, and only
  used so where no liveness is checked.

### Deadlock

Deadlock is checked in `ConsumerCrash`, `ConsumerAllFaults` and `LossByFailedClaim`.
The other models really stop: once every event is settled and nothing is
republished, once every slot is stuck on a failed publish with no channel closing,
once all submissions have ended (`AggregationOverlap`), once all rows are published
and drains have nothing left, once a process has ended or its calls have returned
(`Process`, `DetectorSkips`), and once the reader has seen the last page (`Desk`).

### Fairness

* Consumer: weak fairness of each handler's next step (every await is bounded by a
  client timeout and asyncio resumes it), of a retry's expiry (TTL) and of a
  restart (supervisor); strong fairness of each copy's delivery, because queues are
  first-in first-out and a copy cannot be passed over for ever while slots keep
  opening. `EventuallySettled` assumes that crashes are finite, and nothing about
  whether enrichment succeeds.
* Orchestrator: weak fairness of each handler's next step (bounded awaits, as above);
  strong fairness of starting an event that is open, which is `EventuallySettled` of
  the consumer seen from here. `EventuallyEnriched` assumes that from some point no
  attempt fails or crashes, and excepts a listing with a submission that failed
  between its upsert and its publish, and one whose event was dead-lettered.
* Outbox: the periodic drainer starts drains again and again; each drain proceeds;
  time passes. `EventuallyPublished` assumes that failures cease, and that a batch
  has room beside the unroutable rows; these may keep failing for ever.
* Pricer: as for the consumer. `EventuallySettled` covers the settings with crashes,
  refused transactions and failing drains, which may go on for ever, and two events
  that conflict on the result row of one listing.
* Breaker: messages keep coming, every request ends (client timeout), time passes.
  `BreakerRecovers` assumes that from some point no call fails and none is cancelled.
* Runtime: each await of the shutdown and of a drain returns or raises, and the
  drainer looks at its stop event. Neither the handler nor the timeout is assumed
  to do anything, so `ShutdownEnds` needs no timeout.
* CV: downloads have a time limit and a size limit, threads run.

## 4. Proofs

All theorems hold for every value of the constants allowed by the assumptions
named in the modules (`ConsumerAssumption`, `NoBodyAssumption`, `NoJobAssumption`,
`PricerAssumption`, `DeliveryAssumption`, `BreakerAssumption`, `PhotosAssumption`,
`AggregationAssumption`, `OutboxAssumption`, `PagesAssumption`): any number of
events, copies, workers, processes, rows, callers, photos or payloads. Each invariant
and each action property of the passing runs is stated by a theorem; where a theorem
has a hypothesis of its own, it is named below.

**RawListingConsumer_proofs**

* `TypeCorrect`: `TypeOK`, inductive as it stands.
* `CompletionFollowsOutput`, `DeadLettersFollowAnnouncement`: under *every* set of
  faults. The properties speak of the stores, yet are made true two awaits earlier,
  so the inductive invariant `OutputInv` adds what holds in between: a handler about
  to complete has its event in `enriched`, one about to reject has it in `failures`,
  and a delivered copy is the one its handler works on (`DeliveryKnown`).
* `CompletionIsPermanent`: under every set of faults, from types alone.
* `NothingIsLost`: `[]NoLoss`, assuming `ClaimCallsWork`: the calls of the inbox do
  not fail and handlers end with their channel. Crashes, closed channels, expired
  leases, duplicates and failing publishes are all allowed. `NoLoss` is far from
  inductive: a copy may be acked if another one carries the event. `LossInv` says
  which: `Carried` (an event not completed has a copy that will not be acked
  before the event is completed, retried or buried) needs `ClaimCovered` (a row
  that is `processing` or `stale` always has a copy whose handler will end the claim
  or whose redelivery will take it over), which needs `Held` and `DeliveryKnown`.
  The run `LossByFailedClaim` shows that the assumption cannot be dropped.
* `ConsumerDeliversAtLeastOnce`: every behaviour of the consumer with its inbox and
  queues is one of `EventDelivery`, under `ClaimCallsWork` and without a legacy row.
  Each action is a submit, emit, finish or bury of the abstract event, or a stutter:
  a finish needs `CompletedHasOutput`, a bury `DeadLettersAnnounced`, and that only
  published events come back needs `CopiesPublished`.
* `ProcessingIsExclusive`: `[]ExclusiveProcessing`, whose hypothesis (no crashes,
  closed channels or expired leases) is in the property. `ExclusionInv` adds that
  nothing is then ever redelivered or stale, and that who works on an event finds
  it claimed or completed.

**ListingAggregation_proofs**

* `AggregationTypes`: `TypeOK` says that a copy past the stages is complete, which
  needs `StagesInCopy` (a stage that ended well is in the copy) and `EventsFixed`
  (what an event carries does not change once it is submitted); `TypeInv` is their
  conjunction.
* `PublishedIsComplete`: `[]PublishedComplete` for every overlap. `ResultInv` adds
  `DocOwn` and `CopiesOwn`: whoever wrote last, every result in the document belongs
  to the inputs in the document, and a working copy to the event of its handler.
* `ProgressIsKept`: `StageKept`. `ProgressInv` adds that there is one handler and that
  its copy is never behind the document.

**EnrichedListingConsumer_proofs**

The arguments follow those of the enrichment consumer; what differs is that each call
is a read and a write, and that a write goes by primary key.

* `PricerTypes`: what a transaction has read (`seen`) included.
* `CompletionFollowsSave`: under every set of faults. `OutputFirst` covers the handlers
  between the commit of the result and the completion.
* `NothingIsLost`: `[]NoLoss`, if claims and releases work. `LossInv` as above; an event
  is safe once it is priced, so a drain that fails afterwards does no harm.
* `PricingIsExclusive`: `RowsOwned` says that without takeovers what a transaction has
  read of an inbox row still holds when it commits, `OneOwner` that it is its
  owner's alone.
* `CompletionIsPermanent`: from the same invariant, since a late release would delete
  the row it has read, whatever it has become.
* `PricedAtMostOnce`: with duplicates, failing publishes and failing drains. `FirstSave`
  and `SavedOnce`: a handler about to save is the first, and after it the event is
  completed or about to be.

**Process_proofs**

The breaker:

* `BreakerTypes`, `TripsExactlyAtThreshold`: for any callers and thresholds, slow
  and cancelled calls included.
* `ProbeInFlight`: a half-open breaker has its probe, if no call is cancelled
  (the assumption is needed: see the observations).
* `OneProbeAtATime`: if calls end before the recovery timeout, by the invariant
  `Alone`: when an open breaker's timeout has passed, no call from before is left.
  Without the assumption a call that was admitted before the trip and fails late
  re-opens the half-open breaker, whose next probe runs beside the first.

Start and stop of a process:

* `EverythingIsClosed`: `CloseInv` says for each await of the start what it can have
  opened so far, for each await of the shutdown what is no longer open, and how long
  the drainer lives.
* `DrainsMeetOpenChannel`: `DrainInv` adds how long a handler lives (within its consumer,
  or within the requests of the API) and that the publisher is open while messaging is
  attached. A handler that outlives its channel and a pricer whose consumer did not
  start are excepted in the property: the code does close the channel under them.
* `CleanExitIsDrained`: `Drained`, once the last drain has taken its batch no row is
  pending, because nobody is left to enqueue one.

Photos:

* `PartTypes`: the semaphore counts: free slots and downloads add up to `Slots`
  (`SlotsKept`), by the cardinality of the set of holders. A thread that asks a session
  for its input name has one (`Loaded`).
* `SkipsWhileLoadingOnly`: `UsesReady` follows each thread through the list of detectors: it
  has inspected its photo with each of those it is past that were loaded at the start
  of its call, and it takes the short path through those.

**Desk_proofs**

* `EntriesAreOneDocument`, `ResubmissionChangesNothing`: for *every* payload that `Shared`
  admits, whatever keys and values it has; the run has the small ones. The key lemma,
  `SameValue`, says that two translations that look for a value under different lists of
  keys find the same one, if the payload has at most one of the keys and the same of
  either list. `CopartAgrees`, `IaaiAgrees` and `ManualAgrees` apply it field by field:
  the three translations of such a payload are equal (`ReadersAgree`). So the store
  holds nothing but that listing (`OneListing`).
* `NoRowListedTwice`, for rows whose writes did not overlap: `OneWrite`, the only write
  of such a row that is under way has a stamp not older than the row's; so `StoreRow`
  moves the row away from the cursor, and what was listed stays behind it
  (`ListedPassed`). The next page takes rows before the cursor.
* `UnwrittenRowsAreListed`: a row left alone that the cursor has passed was listed
  (`PassedListed`), since a page is the latest rows before the cursor and such a row
  shares no stamp with the last of them (`AloneApart`). Of other rows it needs nothing:
  their stamps may go back, and a row is `Steady` if it was left alone or never had
  overlapping writes.
* `DeskTypes`: with one document for each external id.

**EnrichmentOutbox_proofs, PricerOutbox_proofs** (over `Outbox_proofs`)

The two stores take most steps alike, so `Outbox_proofs` states the invariants, with the
facts about batches they need, and proves that the shared steps preserve them; each
store adds its own claims, marks and releases.

* `EnrichmentOutboxTypes`, `PricerOutboxTypes`: `TypeOK`, with the fact that a drain that
  does not run has no batch (`TypeInv`).
* `EnrichmentPublishedMeansStored`, `PricerPublishedMeansStored`: under every fault. The
  status and the broker's copies change in different steps; `Confirmed` says that a
  drain about to mark its row has had it confirmed.
* `EnrichmentRowsClaimedOnce`, `PricerRowsClaimedOnce`: `Owned` adds that a batch repeats no
  row and what status its rows have: processing at once with MongoDB, still pending
  or stale, and locked, until the SQL claim commits.
* `EnrichmentPublishedIsFinal`: under every fault, since each write asks for the status it
  changes. `PricerPublishedIsFinal` needs that no drain outlives its lease: then nobody
  writes a row between the read and the write of a mark or a release (`ReadsHold`).
* `EnrichmentRowsPublishedOnce`, `PricerRowsPublishedOnce`: with broker errors only. A row the
  broker has is published or about to be marked (`StoredOnce`), and by `Owned` by the
  only drain that holds it.

Only model-checked: liveness (`EventuallySettled` of both consumers,
`EventuallyPublished`, `EventuallyEnriched`, `BreakerRecovers`, `ShutdownEnds`,
`DetectionEnds`), since fairness and `ENABLED` are out of the prover's reach. What a
recursive definition computes for all inputs could not be proved either (induction
over data), which is why no module has `RECURSIVE` operators. The inductive
invariants were checked by TLC on the instances of the runs before they were proved.

## 5. Plan

1. *Done*: the modules of section 2 with their runs, and the theorems of section 4.
2. An abstract aggregation in one atomic step, refined by the stages of
   `ListingAggregation`.
3. The pricer's consumer as a refinement of `EventDelivery`, for the faults of
   `NothingIsLost`.
4. Runs for `StageKept` with one handler and for the unstamped short cut.

## 6. Not modelled

* Pixel, model and prompt work (`cv/yolo_preprocess.py`, scoring, `llm/heuristic.py`,
  `margin_rules.py`, `sklearn_engine.py`): stateless computation on data the
  properties do not tell apart.
* Pages of the UIs that only read (overview, queue alerts, pipeline, result), whose
  numbers come from separate queries and promise no consistency.
* The order of the retry queue: `RetryExpires` may take any retry copy.
* Clocks of several hosts that differ: `AdminPages` has one clock.
* A cancellation during startup, and an error of `channel.close` while the error of a
  consumer's start is handled.
* Serialization, bounds of fields, logging, metrics, authentication,
  configuration: no state the properties depend on.
* The broker's and stores' own replication and durability: a message in a queue and
  a committed write stay.
* In-memory stores: doubles for tests, in one process.
* Migrations, deployment and scripts.

## 7. Running

```
tlc -config ConsumerCrash.cfg MCRawListingConsumer.tla     # likewise the other Consumer*, Loss*
tlc -config AggregationOverlap.cfg MCListingAggregation.tla
tlc -config Outboxes.cfg      MCOutboxes.tla               # likewise OutboxStarved
tlc -config Pricer.cfg        MCEnrichedListingConsumer.tla
tlc -config Process.cfg       MCProcess.tla                # likewise DetectorSkips
tlc -config Desk.cfg          MCDesk.tla
tlapm RawListingConsumer_proofs.tla
tlapm ListingAggregation_proofs.tla
tlapm EnrichedListingConsumer_proofs.tla
tlapm Process_proofs.tla
tlapm Desk_proofs.tla
tlapm EnrichmentOutbox_proofs.tla                          # likewise PricerOutbox_proofs
```

`ConsumerAllFaults` is the largest run (about 3.3 million states). Definitions marked *Faulty* in a
module are single plausible bugs, one per property: with one in place of the
definition it follows, the property named in `PROJECT.json` fails, which shows that
the property can notice it.
