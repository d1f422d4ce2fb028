------------------------ MODULE RawListingConsumer_inv ------------------------
(***************************************************************************)
(* The inductive invariants behind the safety properties of                *)
(* RawListingConsumer, each a conjunction of the facts one property rests  *)
(* on.  RawListingConsumer_proofs proves them.                             *)
(***************************************************************************)
EXTENDS RawListingConsumer

\* A copy delivered to a worker is the one its handler works on.
DeliveryKnown == \A m \in Msgs : at[m] \in Workers =>
                   /\ pc[at[m]] # "idle"
                   /\ job[at[m]].msg = m
                   /\ job[at[m]].event = body[m].event

\* Between two awaits: the output precedes the completion, the announcement the reject.
OutputFirst   == \A w \in Workers : pc[w] = "complete" => job[w].event \in enriched
AnnounceFirst == \A w \in Workers : pc[w] = "reject" => job[w].event \in failures

OutputInv == /\ DeliveryKnown
             /\ OutputFirst /\ CompletedHasOutput
             /\ AnnounceFirst /\ DeadLettersAnnounced

-------------------------------------------------------------------------------
(* No loss, with a store whose claim calls do not fail and handlers that   *)
(* end with their channel.                                                 *)

ClaimCallsWork == Faults \cap {"zombie", "claim", "release", "reply"} = {}

Leased(e) == inbox[e] \in {"processing", "stale"}

Owning == {"enrich", "complete", "release"}

\* A copy whose handler will end or take over the claim of its event.
Resumes(m) == \/ at[m] = "work" /\ body[m].redelivered
              \/ /\ at[m] \in Workers
                 /\ \/ pc[at[m]] \in Owning
                    \/ pc[at[m]] \in {"claim", "reclaim"} /\ job[at[m]].redelivered

\* A copy that will not be acked before its event is completed, retried or buried.
Carries(m) == \/ at[m] \in {"work", "retry", "dlq"}
              \/ /\ at[m] \in Workers
                 /\ \/ pc[at[m]] \in PCs \ {"idle", "reclaim", "ack"}
                    \/ /\ pc[at[m]] = "reclaim"
                       /\ job[at[m]].redelivered
                       /\ Leased(body[m].event)

\* A handler works on the copy delivered to it.
Held == \A w \in Workers : pc[w] # "idle" => at[job[w].msg] = w

\* The inbox is touched for parsable events only; a legacy row is an old one.
ParsedOnly == /\ \A w \in Workers : pc[w] \in Owning \cup {"reclaim"} =>
                                      job[w].event \notin Malformed
              /\ \A e \in Malformed : ~Leased(e)
LegacyOnly == \A e \in Events : inbox[e] = "legacy" => e \in LegacyEvents

ClaimCovered == \A e \in Events : Leased(e) => \E m \in Copies(e) : Resumes(m)
Carried == \A e \in published \ LegacyEvents :
             inbox[e] = "completed" \/ \E m \in Copies(e) : Carries(m)

\* What is in the broker was published.
CopiesPublished == \A m \in Msgs : at[m] # "absent" => body[m].event \in published

LossInv == DeliveryKnown /\ Held /\ ParsedOnly /\ LegacyOnly /\ ClaimCovered /\ Carried

-------------------------------------------------------------------------------
(* Exclusive processing, without crashes, closed channels or expired leases. *)

Undisturbed == Faults \cap {"crash", "restart", "lease"} = {}

\* Nothing is ever redelivered, and no lease is old.
FirstDeliveries == /\ \A p \in Procs : chan[p] = "open"
                   /\ \A m \in Msgs : body[m] # NoBody => ~body[m].redelivered
                   /\ \A w \in Workers : pc[w] # "idle" => ~job[w].redelivered
                   /\ \A e \in Events : inbox[e] # "stale"

WorkIsClaimed == \A w \in Workers : pc[w] \in Owning =>
                   inbox[job[w].event] \in {"processing", "completed"}

OneWorks == \A v, w \in Workers : \A e \in Events : Working(v, e) /\ Working(w, e) => v = w

ExclusionInv == FirstDeliveries /\ WorkIsClaimed /\ OneWorks
===============================================================================
