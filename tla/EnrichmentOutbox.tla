--------------------------- MODULE EnrichmentOutbox ---------------------------
(***************************************************************************)
(* The outbox of the enrichment service: OutboxRepository on Mongo, where  *)
(* every call is one atomic update of one document, and the drain of       *)
(* OutboxEventSink.                                                        *)
(***************************************************************************)
EXTENDS Outbox

\* Faulty: a row being published is claimable.
Claimable_Processing(d) == {i \in DOMAIN rows : rows[i].status # "published"
                                                  /\ ~Contains(batch[d], i)}

\* Faulty: an expired claim is not offered again.
Claimable_NotStale(d) == {i \in DOMAIN rows : rows[i].status \in {"legacy", "pending"}}

\* The rows the filter of claim_pending matches.  A row of its own batch was
\* claimed at the batch's own clock reading and cannot be stale for it.
Claimable(d) == {i \in DOMAIN rows : /\ rows[i].status \in {"legacy", "pending", "stale"}
                                     /\ ~Contains(batch[d], i)}

\* One find_one_and_update of claim_pending, oldest row first.
ClaimNext(d) == /\ pc[d] = "claim"
                /\ Len(batch[d]) < Limit
                /\ \E i \in Oldest(Claimable(d)) :
                     /\ SetStatus(i, "processing")
                     /\ batch' = [batch EXCEPT ![d] = Append(@, i)]
                /\ UNCHANGED <<copies, pc, seen, setting>>

\* claim_pending returns.
ClaimEnds(d) == /\ pc[d] = "claim"
                /\ Len(batch[d]) = Limit \/ Claimable(d) = {}
                /\ Goto(d, IF batch[d] = <<>> THEN "idle" ELSE "publish")
                /\ UNCHANGED <<rows, copies, batch, seen, setting>>

\* claim_pending raises: what it claimed so far stays processing.
ClaimFails(d) == /\ pc[d] = "claim"
                 /\ Fault("store")
                 /\ Abandon(d)
                 /\ UNCHANGED rows

\* mark_published updates the row only if it is still processing.
MarkPublished(d) == /\ pc[d] = "mark"
                    /\ IF Claimed(Current(d)) THEN SetStatus(Current(d), "published")
                                              ELSE UNCHANGED rows
                    /\ NextRow(d)
                    /\ UNCHANGED <<copies, setting>>

\* Faulty: the row is set back whatever its status.
ReleaseClaim_AnyRow(d) == /\ pc[d] = "release"
                          /\ SetStatus(Current(d), "pending")
                          /\ NextRow(d)
                          /\ UNCHANGED <<copies, setting>>

\* release_claim: back to pending, if the row is still processing.
ReleaseClaim(d) == /\ pc[d] = "release"
                   /\ IF Claimed(Current(d)) THEN SetStatus(Current(d), "pending")
                                             ELSE UNCHANGED rows
                   /\ NextRow(d)
                   /\ UNCHANGED <<copies, setting>>

-------------------------------------------------------------------------------
DrainStep(d) == \/ ClaimNext(d) \/ ClaimEnds(d) \/ ClaimFails(d)
                \/ PublishConfirmed(d) \/ PublishFails(d)
                \/ MarkPublished(d) \/ MarkFails(d)
                \/ ReleaseClaim(d) \/ ReleaseFails(d)

Next == \/ \E k \in Keys : Enqueue(k)
        \/ \E d \in Drainers : StartDrain(d) \/ DrainStep(d) \/ Crash(d)
        \/ \E i \in DOMAIN rows : ClaimExpires(i)

Spec == Init /\ [][Next]_vars

\* A step that goes wrong though the row could be published.
Failure(d) == \/ Crash(d) \/ ClaimFails(d) \/ MarkFails(d) \/ ReleaseFails(d)
              \/ PublishFails(d) /\ Routable(Current(d))
===============================================================================
