-------------------------- MODULE ListingAggregation --------------------------
(***************************************************************************)
(* EnrichmentOrchestrator over the document of one listing in              *)
(* ListingRepository.  Submissions reset the document; handlers read it,   *)
(* run the LLM and the CV stage, and write it back whole after every step. *)
(*                                                                         *)
(* The result of a stage is represented by the inputs it was computed      *)
(* from: the fields of _enrichment_fingerprint.  Other fields are left out.*)
(***************************************************************************)
EXTENDS Naturals

CONSTANTS Inputs,      \* values of the fingerprinted fields
          NoResult,    \* a stage that is not done
          NoDoc,       \* no document, or no working copy
          Events,      \* submissions of the listing, one event_id each
          NoEvent,
          Handlers,    \* running enrich() coroutines
          Concurrency  \* which handlers may run at once: "one", "per_event" or "any"

Stages == {"llm", "cv"}
Results == Inputs \cup {NoResult}
Doc == [inputs : Inputs, llm : Results, cv : Results, stamped : BOOLEAN]
Published == [event : Events, listing : Doc]

ASSUME AggregationAssumption == /\ NoResult \notin Inputs
                                /\ NoDoc \notin Doc
                                /\ NoEvent \notin Events
                                /\ Concurrency \in {"one", "per_event", "any"}

VARIABLES doc,       \* the stored document
          carries,   \* carries[e]: the inputs event e carries
          status,    \* status[e]: "new", "saved", "failed", "open", "done" or "dead"
          pc,        \* pc[h]: the await h is suspended at
          event,     \* event[h]: the event h works on
          state,     \* state[h]: its working copy
          stage,     \* stage[h][s]: "run", "done" or "failed"
          published  \* the enriched events in the outbox

handlerVars == <<pc, event, state, stage>>
vars == <<doc, carries, status, handlerVars, published>>

Fresh(i) == [inputs |-> i, llm |-> NoResult, cv |-> NoResult, stamped |-> FALSE]
Full(d) == \A s \in Stages : d[s] # NoResult
Stamp(d, b) == [d EXCEPT !.stamped = b]   \* enriched_at is set or absent
Settled(d) == [s \in Stages |-> IF d[s] = NoResult THEN "run" ELSE "done"]

Init == /\ doc = NoDoc
        /\ carries = [e \in Events |-> NoResult]
        /\ status = [e \in Events |-> "new"]
        /\ pc = [h \in Handlers |-> "idle"]
        /\ event = [h \in Handlers |-> NoEvent]
        /\ state = [h \in Handlers |-> NoDoc]
        /\ stage = [h \in Handlers |-> [s \in Stages |-> "run"]]
        /\ published = {}

Goto(h, l) == pc' = [pc EXCEPT ![h] = l]
SetStatus(e, s) == status' = [status EXCEPT ![e] = s]
Listing(h) == carries[event[h]]

-------------------------------------------------------------------------------
(* enqueue_raw, by the ingest API, a dealer or re_enrich.                  *)

SaveRaw(e, i) == /\ status[e] = "new"
                 /\ SetStatus(e, "saved")
                 /\ carries' = [carries EXCEPT ![e] = i]
                 /\ doc' = Fresh(i)
                 /\ UNCHANGED <<handlerVars, published>>

PublishRaw(e) == /\ status[e] = "saved"
                 /\ SetStatus(e, "open")
                 /\ UNCHANGED <<doc, carries, handlerVars, published>>

\* publish_raw raises, or the process dies before it: the document stays reset.
PublishRawFails(e) == /\ status[e] = "saved"
                      /\ SetStatus(e, "failed")
                      /\ UNCHANGED <<doc, carries, handlerVars, published>>

-------------------------------------------------------------------------------
(* enrich.                                                                 *)

\* A handler claims e.  The inbox admits one handler per event unless a claim is
\* taken over from one that still runs.
MayStart(h, e) ==
  \A g \in Handlers \ {h} : \/ pc[g] = "idle"
                            \/ (Concurrency = "per_event" /\ event[g] # e)
                            \/ Concurrency = "any"

Start(h, e) == /\ pc[h] = "idle"
               /\ status[e] = "open"
               /\ MayStart(h, e)
               /\ Goto(h, "read")
               /\ event' = [event EXCEPT ![h] = e]
               /\ UNCHANGED <<doc, carries, status, state, stage, published>>

\* Faulty: a finished document is taken for this event whatever its inputs.
Resumed_AnyInputs(h) == IF doc # NoDoc THEN doc ELSE Fresh(Listing(h))

\* The working copy: the results of the stored document, if its inputs are the same.
Resumed(h) == IF doc # NoDoc /\ doc.inputs = Listing(h) THEN doc ELSE Fresh(Listing(h))

\* get_optional, and _prepare_state up to its upsert.  A document with both results
\* is published as it was read; another one loses its time stamp.
Read(h) == /\ pc[h] = "read"
           /\ IF Full(Resumed(h))
              THEN Goto(h, "publish") /\ state' = [state EXCEPT ![h] = Resumed(h)]
              ELSE /\ Goto(h, "prepare")
                   /\ state' = [state EXCEPT ![h] = Stamp(Resumed(h), FALSE)]
           /\ UNCHANGED <<doc, carries, status, event, stage, published>>

Prepare(h) == /\ pc[h] = "prepare"
              /\ doc' = state[h]
              /\ stage' = [stage EXCEPT ![h] = Settled(state[h])]
              /\ Goto(h, "stages")
              /\ UNCHANGED <<carries, status, event, state, published>>

StageEnds(h, s, result) == /\ pc[h] = "stages"
                           /\ stage[h][s] = "run"
                           /\ stage' = [stage EXCEPT ![h][s] = result]
                           /\ UNCHANGED <<carries, status, pc, event, published>>

\* run_llm or run_cv sets its result in the shared copy and upserts it under the
\* lock, so that no other write of h comes in between.
Keep(h, s) == state' = [state EXCEPT ![h][s] = Listing(h)]
StageSucceeds(h, s) == /\ StageEnds(h, s, "done")
                       /\ Keep(h, s)
                       /\ doc' = state'[h]

\* The extraction raises, or the upsert does, applied or not: then the result stays
\* in the shared copy and the other stage may still write it.
StageFails(h, s) == /\ StageEnds(h, s, "failed")
                    /\ \/ UNCHANGED <<state, doc>>
                       \/ Keep(h, s) /\ UNCHANGED doc
                       \/ Keep(h, s) /\ doc' = state'[h]

\* Faulty: the errors gathered are not looked at.
Gather_IgnoresErrors(h) == /\ pc[h] = "stages"
                           /\ \A s \in Stages : stage[h][s] # "run"
                           /\ Goto(h, "finalize")
                           /\ UNCHANGED <<doc, carries, status, event, state, stage, published>>

\* gather returns: both stages have ended, and none of them raised.
Gather(h) == /\ pc[h] = "stages"
             /\ \A s \in Stages : stage[h][s] = "done"
             /\ Goto(h, "finalize")
             /\ UNCHANGED <<doc, carries, status, event, state, stage, published>>

Finalize(h) == /\ pc[h] = "finalize"
               /\ state' = [state EXCEPT ![h] = Stamp(@, TRUE)]
               /\ doc' = state'[h]
               /\ Goto(h, "publish")
               /\ UNCHANGED <<carries, status, event, stage, published>>

\* _publish_enriched: an outbox row under the event_id of the delivery.
PublishEnriched(h) == /\ pc[h] = "publish"
                      /\ published' = published \cup {[event |-> event[h], listing |-> state[h]]}
                      /\ Goto(h, "complete")
                      /\ UNCHANGED <<doc, carries, status, event, state, stage>>

Leave(h) == /\ Goto(h, "idle")
            /\ event' = [event EXCEPT ![h] = NoEvent]
            /\ state' = [state EXCEPT ![h] = NoDoc]
            /\ stage' = [stage EXCEPT ![h] = [s \in Stages |-> "run"]]
            /\ UNCHANGED <<doc, carries, published>>

\* The consumer marks the event as completed.
Complete(h) == /\ pc[h] = "complete"
               /\ SetStatus(event[h], "done")
               /\ Leave(h)

\* Faulty: a failed attempt is acked.
Fails_Acks(h) == /\ pc[h] \in {"read", "prepare", "stages", "finalize", "publish", "complete"}
                 /\ pc[h] = "stages" => \E s \in Stages : stage[h][s] = "failed"
                 /\ SetStatus(event[h], "done")
                 /\ Leave(h)

\* An error leaves enrich (after both stages have ended), and the event is retried
\* or dead-lettered.  An error whose write was applied comes one step later.
Fails(h) == /\ pc[h] # "idle"
            /\ pc[h] = "stages" => /\ \A s \in Stages : stage[h][s] # "run"
                                   /\ \E s \in Stages : stage[h][s] = "failed"
            /\ \/ UNCHANGED status
               \/ status[event[h]] = "open" /\ SetStatus(event[h], "dead")
            /\ Leave(h)

\* The handler's process dies, or the handler is cancelled with its channel; an
\* open event is redelivered.
Crash(h) == /\ pc[h] # "idle"
            /\ Leave(h)
            /\ UNCHANGED status

-------------------------------------------------------------------------------
HandlerStep(h) == \/ Read(h) \/ Prepare(h) \/ Gather(h) \/ Finalize(h)
                  \/ (\E s \in Stages : StageSucceeds(h, s) \/ StageFails(h, s))
                  \/ PublishEnriched(h) \/ Complete(h) \/ Fails(h)

Next == \/ \E e \in Events : \/ (\E i \in Inputs : SaveRaw(e, i))
                             \/ PublishRaw(e) \/ PublishRawFails(e)
        \/ \E h \in Handlers : \/ (\E e \in Events : Start(h, e))
                               \/ HandlerStep(h) \/ Crash(h)

Spec == Init /\ [][Next]_vars

\* Every await is bounded by a timeout; the broker offers an open event until it
\* is taken.
Fairness == /\ \A h \in Handlers : WF_vars(HandlerStep(h))
            /\ \A e \in Events : SF_vars(\E h \in Handlers : Start(h, e))

FairSpec == Spec /\ Fairness

-------------------------------------------------------------------------------
\* Types; past the stages the working copy has both results.
TypeOK ==
  /\ doc \in Doc \cup {NoDoc}
  /\ carries \in [Events -> Results]
  /\ status \in [Events -> {"new", "saved", "failed", "open", "done", "dead"}]
  /\ pc \in [Handlers -> {"idle", "read", "prepare", "stages", "finalize", "publish", "complete"}]
  /\ event \in [Handlers -> Events \cup {NoEvent}]
  /\ state \in [Handlers -> Doc \cup {NoDoc}]
  /\ stage \in [Handlers -> [Stages -> {"run", "done", "failed"}]]
  /\ published \subseteq Published
  /\ \A h \in Handlers : (pc[h] = "idle") <=> (event[h] = NoEvent)
  /\ \A h \in Handlers : (pc[h] \in {"idle", "read"}) <=> (state[h] = NoDoc)
  /\ \A h \in Handlers : pc[h] \in {"finalize", "publish", "complete"} => Full(state[h])

\* ADR 002: an enriched event is published only with both stages done; and both
\* were computed from the inputs that this very event carries, however handlers
\* and submissions of the listing interleave over the shared document.
PublishedComplete == \A p \in published : \A s \in Stages :
                       p.listing[s] = carries[p.event] /\ p.listing.inputs = carries[p.event]

Submits == \E e \in Events : status[e] = "new" /\ status'[e] = "saved"
KeepsStages == \A s \in Stages : doc # NoDoc /\ doc'.inputs = doc.inputs /\ doc[s] # NoResult =>
                                   doc'[s] = doc[s]

\* ADR 002: partial progress is not lost.  Only a new submission, or other inputs,
\* undo a finished stage, as long as the listing has one handler at a time.
StageKept == [][Concurrency = "one" => Submits \/ KeepsStages]_vars

\* Once no attempt fails any more, the document ends with both stages done, unless
\* a submission failed half-way or an event was dead-lettered.
EventuallyEnriched ==
  <>[][\A h \in Handlers : ~Crash(h) /\ ~Fails(h)]_vars =>
    <>[](\/ doc = NoDoc
         \/ \E e \in Events : status[e] \in {"saved", "failed", "dead"}
         \/ Full(doc))
===============================================================================
