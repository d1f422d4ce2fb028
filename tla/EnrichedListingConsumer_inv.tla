---------------------- MODULE EnrichedListingConsumer_inv ----------------------
(***************************************************************************)
(* The inductive invariants behind the safety properties of                *)
(* EnrichedListingConsumer, each a conjunction of the facts one property   *)
(* rests on.  EnrichedListingConsumer_proofs proves them.                  *)
(***************************************************************************)
EXTENDS EnrichedListingConsumer

\* A copy delivered to a worker is the one its handler works on, and a handler
\* works on the copy delivered to it: here handlers end with their channel.
DeliveryKnown == \A m \in Msgs : at[m] \in Workers =>
                   /\ pc[at[m]] # "idle"
                   /\ job[at[m]].msg = m
                   /\ job[at[m]].event = body[m].event
Held == \A w \in Workers : pc[w] # "idle" => at[job[w].msg] = w

\* From the commit of save on.
HasOutput(e) == priced[e] > 0 /\ ListingOf[e] \in result
OutputFirst ==
  \A w \in Workers : pc[w] \in {"complete", "completing", "drain"} => HasOutput(job[w].event)

OutputInv == OutputFirst /\ CompletedHasOutput

-------------------------------------------------------------------------------
(* No loss, while the calls that claim and release work.                   *)

ClaimCallsWork == {"claim", "release", "reply"} \cap setting.faults = {}

Leased(e) == inbox[e] \in {"processing", "stale"}

\* The states of a handler that has claimed its event, and those of them in
\* which it may not have saved a result.
Owning == {"save", "commit", "complete", "completing", "drain", "release", "releasing"}
Unsaved == {"save", "commit", "release", "releasing"}

\* A copy whose handler will end or take over the claim of its event.
Resumes(m) == \/ at[m] = "work" /\ body[m].redelivered
              \/ /\ at[m] \in Workers
                 /\ \/ pc[at[m]] \in Unsaved
                    \/ pc[at[m]] \in {"claim", "reclaim"} /\ job[at[m]].redelivered

\* A copy that will not be acked before its event is priced, retried or buried.
Carries(m) == \/ at[m] \in {"work", "retry", "dlq"}
              \/ /\ at[m] \in Workers
                 /\ \/ pc[at[m]] \in PCs \ {"idle", "reclaim", "ack"}
                    \/ /\ pc[at[m]] = "reclaim"
                       /\ job[at[m]].redelivered
                       /\ Leased(body[m].event)

\* The inbox is touched for parsable events only.
ParsedOnly == /\ \A w \in Workers : pc[w] \in Owning \cup {"reclaim"} =>
                                      job[w].event \notin Malformed
              /\ \A e \in Malformed : ~Leased(e)

ClaimCovered == \A e \in Events : Leased(e) /\ priced[e] = 0 =>
                                    \E m \in Copies(e) : Resumes(m)
Carried == \A e \in published : priced[e] = 0 => \E m \in Copies(e) : Carries(m)

LossInv == ClaimCallsWork => ParsedOnly /\ ClaimCovered /\ Carried

-------------------------------------------------------------------------------
(* Exclusive pricing and permanent completion, without takeovers.          *)

\* Nothing is ever redelivered, and no lease is old.
FirstDeliveries == /\ \A p \in Procs : chan[p] = "open"
                   /\ \A m \in Msgs : body[m] # NoBody => ~body[m].redelivered
                   /\ \A w \in Workers : pc[w] # "idle" => ~job[w].redelivered
                   /\ \A e \in Events : inbox[e] # "stale"

\* The row of an event is its owner's alone, so what a transaction has read of
\* it still holds when it commits.
RowsOwned == \A w \in Workers :
  /\ pc[w] \in {"save", "commit", "complete", "completing", "releasing"} =>
       inbox[job[w].event] = "processing"
  /\ pc[w] \in {"drain", "release"} => inbox[job[w].event] \in {"processing", "completed"}
  /\ pc[w] = "completing" => seen[w] = "processing"

OneOwner == \A v, w \in Workers :
  /\ pc[v] \in Owning /\ pc[w] \in Owning /\ job[v].event = job[w].event
  => v = w

ExclusionInv == ~Takeovers => FirstDeliveries /\ RowsOwned /\ OneOwner

-------------------------------------------------------------------------------
(* Pricing once, without a failure between the save and the completion.    *)

SavesLast == setting.faults \subseteq {"duplicate", "drain", "publish"}

\* A handler that is about to save is the first; a priced event is completed, or
\* will be by the handler that has just saved it.
FirstSave == \A w \in Workers : pc[w] \in {"save", "commit"} => priced[job[w].event] = 0
SavedOnce == \A e \in Events :
  /\ priced[e] <= 1
  /\ priced[e] = 1 => \/ inbox[e] = "completed"
                      \/ \E w \in Workers : /\ pc[w] \in {"complete", "completing"}
                                            /\ job[w].event = e

OnceInv == SavesLast => FirstSave /\ SavedOnce
===============================================================================
