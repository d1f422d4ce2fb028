----------------------------- MODULE PricerOutbox -----------------------------
(***************************************************************************)
(* The outbox of the pricer: PricingRepository on MySQL and the drain of   *)
(* OutboxPublisher.  A batch is claimed in one transaction under row locks *)
(* that other claims skip; a mark or a release reads the row, decides, and *)
(* then writes by primary key, in two steps of another transaction.        *)
(***************************************************************************)
EXTENDS Outbox

\* Faulty: SELECT without FOR UPDATE SKIP LOCKED.
Locked_Never(i) == FALSE

\* The rows locked by a claim_pending that has not committed.
Locked(i) == \E d \in Drainers : pc[d] = "claim" /\ Contains(batch[d], i)

\* The rows its SELECT ... FOR UPDATE SKIP LOCKED matches.
Claimable(d) == {i \in DOMAIN rows : /\ rows[i].status \in {"pending", "stale"}
                                     /\ ~Contains(batch[d], i)
                                     /\ ~Locked(i)}

\* One SELECT of claim_pending: the row is locked; its update waits for the commit.
ClaimNext(d) == /\ pc[d] = "claim"
                /\ Len(batch[d]) < Limit
                /\ \E i \in Oldest(Claimable(d)) : batch' = [batch EXCEPT ![d] = Append(@, i)]
                /\ UNCHANGED <<rows, copies, pc, seen, setting>>

\* claim_pending commits.
ClaimCommits(d) ==
  /\ pc[d] = "claim"
  /\ Len(batch[d]) = Limit \/ Claimable(d) = {}
  /\ rows' = [i \in DOMAIN rows |-> IF Contains(batch[d], i)
                                    THEN [rows[i] EXCEPT !.status = "processing"]
                                    ELSE rows[i]]
  /\ Goto(d, IF batch[d] = <<>> THEN "idle" ELSE "publish")
  /\ UNCHANGED <<copies, batch, seen, setting>>

\* claim_pending raises: the transaction is rolled back and claims nothing.
ClaimFails(d) == /\ pc[d] = "claim"
                 /\ Fault("store")
                 /\ Abandon(d)
                 /\ UNCHANGED rows

Read(d, l) == /\ seen' = [seen EXCEPT ![d] = rows[Current(d)].status]
              /\ Goto(d, l)
              /\ UNCHANGED <<rows, copies, batch, setting>>

\* mark_published gets the row.
MarkReads(d) == pc[d] = "mark" /\ Read(d, "marking")

\* Its UPDATE waits for a claim that holds the row.  It names the columns that
\* differ from what was read: the status is not one if it was published already.
MarkWrites(d) == /\ pc[d] = "marking"
                 /\ ~Locked(Current(d))
                 /\ IF seen[d] # "published" THEN SetStatus(Current(d), "published")
                                             ELSE UNCHANGED rows
                 /\ NextRow(d)
                 /\ UNCHANGED <<copies, setting>>

\* release_outbox_claim gets the row and finds it processing.
ReleaseReads(d) == /\ pc[d] = "release"
                   /\ Claimed(Current(d))
                   /\ Read(d, "releasing")

\* release_outbox_claim finds the row in another status and leaves it.
ReleaseSkips(d) == /\ pc[d] = "release"
                   /\ ~Claimed(Current(d))
                   /\ NextRow(d)
                   /\ UNCHANGED <<rows, copies, setting>>

\* Its UPDATE by primary key, whatever has become of the row since.
ReleaseWrites(d) == /\ pc[d] = "releasing"
                    /\ ~Locked(Current(d))
                    /\ SetStatus(Current(d), "pending")
                    /\ NextRow(d)
                    /\ UNCHANGED <<copies, setting>>

-------------------------------------------------------------------------------
DrainStep(d) == \/ ClaimNext(d) \/ ClaimCommits(d) \/ ClaimFails(d)
                \/ PublishConfirmed(d) \/ PublishFails(d)
                \/ MarkReads(d) \/ MarkWrites(d) \/ MarkFails(d)
                \/ ReleaseReads(d) \/ ReleaseSkips(d) \/ ReleaseWrites(d) \/ ReleaseFails(d)

Next == \/ \E k \in Keys : Enqueue(k)
        \/ \E d \in Drainers : StartDrain(d) \/ DrainStep(d) \/ Crash(d)
        \/ \E i \in DOMAIN rows : ClaimExpires(i)

Spec == Init /\ [][Next]_vars

\* A step that goes wrong though the row could be published.
Failure(d) == \/ Crash(d) \/ ClaimFails(d) \/ MarkFails(d) \/ ReleaseFails(d)
              \/ PublishFails(d) /\ Routable(Current(d))
===============================================================================
