--------------------- MODULE EnrichedListingConsumer_proofs ---------------------
(* Theorems about EnrichedListingConsumer, for every number of events,      *)
(* copies, workers and processes and every set of settings.                 *)
EXTENDS EnrichedListingConsumer_inv, TLAPS

-------------------------------------------------------------------------------
(* What the steps do, in terms of the variables alone.                      *)

\* A new copy in the retry queue, one retry later.
RetryCopy(w, m) ==
  /\ at[m] = "absent"
  /\ Delivery!Place(m, "retry", Delivery!NewBody(job[w].event, job[w].retry + 1))

\* w goes from one state to another.
Goes(w, from, to) == pc[w] \in from /\ pc'[w] \in to
KeepsRow(w) == inbox'[job[w].event] = inbox[job[w].event]
Writes(w, status) == inbox'[job[w].event] = status
KeepsResults == UNCHANGED <<priced, result>>
Saves(w) == /\ priced'[job[w].event] =
                 IF priced[job[w].event] < MaxPriced THEN priced[job[w].event] + 1
                                                     ELSE priced[job[w].event]
            /\ result' = result \cup {ListingOf[job[w].event]}
            /\ UNCHANGED inbox
Parsed(w) == job[w].event \notin Malformed
Failed == {"retry", "reject"}

LEMMA TypeBusy ==
  ASSUME TypeOK, NEW w \in Workers, pc[w] # "idle"
  PROVE  /\ job[w] \in Delivery!Job
         /\ job[w].msg \in Msgs
         /\ job[w].event \in Events
         /\ job[w].retry \in Nat
         /\ job[w].redelivered \in BOOLEAN
         /\ job[w].err \in Delivery!Errors
BY DEF TypeOK, Delivery!Job

LEMMA AfterErrorFails ==
  ASSUME NEW w \in Workers, NEW err
  PROVE  AfterError(w, err) \in Failed
BY DEF AfterError, Failed

\* A handler moves itself only, and keeps its job until it ends.
OwnStep(w) ==
  /\ \A v \in Workers \ {w} : pc'[v] = pc[v] /\ job'[v] = job[v] /\ seen'[v] = seen[v]
  /\ \/ /\ pc'[w] # "idle"
        /\ job'[w].msg = job[w].msg
        /\ job'[w].event = job[w].event
        /\ job'[w].redelivered = job[w].redelivered
     \/ pc'[w] = "idle" /\ pc[w] \in {"ack", "reject", "stuck"}
  /\ \A f \in Events \ {job[w].event} : inbox'[f] = inbox[f] /\ priced'[f] = priced[f]
  /\ UNCHANGED <<published, chan, setting>>

\* The paths of a handler through the store.
StorePath(w) ==
  \/ Goes(w, {"claim"}, {"reject"}) /\ ~Parsed(w) /\ KeepsRow(w) /\ KeepsResults
  \/ /\ Goes(w, {"claim"}, {"save"}) /\ Parsed(w) /\ KeepsResults
     /\ Row(w) = "absent" /\ Writes(w, "processing")
  \/ Goes(w, {"claim"}, {"reclaim"}) /\ Parsed(w) /\ Row(w) # "absent" /\ KeepsRow(w) /\ KeepsResults
  \/ Goes(w, {"reclaim"}, {"save"}) /\ Reclaimable(w) /\ Writes(w, "processing") /\ KeepsResults
  \/ Goes(w, {"reclaim"}, {"ack"}) /\ ~Reclaimable(w) /\ KeepsRow(w) /\ KeepsResults
  \/ /\ Goes(w, {"claim", "reclaim"}, Failed) /\ Fault("claim") /\ KeepsResults
     /\ Parsed(w)
     /\ KeepsRow(w) \/ (Row(w) = "absent" /\ Writes(w, "processing"))
  \/ Goes(w, {"save"}, {"commit", "release"}) /\ KeepsRow(w) /\ KeepsResults
  \/ Goes(w, {"commit"}, {"complete"}) /\ Saves(w)
  \/ /\ Goes(w, {"commit"}, {"release"}) /\ KeepsRow(w)
     /\ KeepsResults \/ (Fault("reply") /\ Saves(w))
  \/ /\ Goes(w, {"complete"}, {"completing"}) /\ KeepsRow(w) /\ KeepsResults
     /\ seen'[w] = Row(w)
  \/ /\ Goes(w, {"completing"}, {"drain"}) /\ Applies(w) /\ KeepsResults
     /\ Writes(w, "completed") \/ (seen[w] = "completed" /\ KeepsRow(w))
  \/ /\ Goes(w, {"completing"}, {"release"}) /\ KeepsResults
     /\ \/ KeepsRow(w) /\ (~Applies(w) \/ Fault("store"))
        \/ Fault("reply") /\ Writes(w, "completed")
  \/ Goes(w, {"drain"}, {"ack", "release"}) /\ KeepsRow(w) /\ KeepsResults
  \/ /\ Goes(w, {"release"}, {"releasing"}) /\ KeepsRow(w) /\ KeepsResults
     /\ Row(w) \in {"processing", "stale"}
  \/ /\ Goes(w, {"release"}, Failed) /\ KeepsRow(w) /\ KeepsResults
     /\ Row(w) \in {"absent", "completed"} \/ Fault("release")
  \/ Goes(w, {"releasing"}, Failed) /\ Writes(w, "absent") /\ KeepsResults
  \/ Goes(w, {"releasing"}, Failed) /\ Fault("release") /\ KeepsRow(w) /\ KeepsResults

\* The paths that settle a delivery.
SettlePath(w) ==
  /\ KeepsRow(w) /\ KeepsResults
  /\ \/ Goes(w, {"retry"}, {"ack"}) /\ \E m \in Msgs : RetryCopy(w, m)
     \/ Goes(w, {"retry"}, {"stuck"}) /\ (UNCHANGED <<at, body>> \/ \E m \in Msgs : RetryCopy(w, m))
     \/ /\ Goes(w, {"ack"}, {"idle"})
        /\ \/ Delivery!Holds(w) /\ Delivery!Place(job[w].msg, "absent", NoBody)
           \/ ~Delivery!Holds(w) /\ UNCHANGED <<at, body>>
     \/ /\ Goes(w, {"reject"}, {"idle"}) /\ UNCHANGED body
        /\ \/ Delivery!Holds(w) /\ at' = [at EXCEPT ![job[w].msg] = "dlq"]
           \/ ~Delivery!Holds(w) /\ UNCHANGED at
     \/ Goes(w, {"stuck"}, {"idle"}) /\ ~Delivery!Holds(w) /\ UNCHANGED <<at, body>>

StoreStep(w) ==
  \/ ParseFails(w) \/ InsertClaim(w) \/ ReclaimRow(w) \/ ClaimFails(w)
  \/ SaveReads(w) \/ (\E err \in {"retryable", "permanent"} : EvaluateFails(w, err))
  \/ SaveCommits(w) \/ SaveFails(w)
  \/ CompleteReads(w) \/ CompleteCommits(w) \/ CompleteFails(w) \/ Drain(w)
  \/ ReleaseReads(w) \/ ReleaseSkips(w) \/ ReleaseDeletes(w) \/ ReleaseFails(w)

LEMMA StoreMoves ==
  ASSUME TypeOK, NEW w \in Workers, StoreStep(w)
  PROVE  pc[w] # "idle" /\ OwnStep(w) /\ StorePath(w) /\ UNCHANGED <<at, body>>
<1>0. pc[w] # "idle" /\ UNCHANGED <<at, body, published, chan, setting>>
  BY DEF StoreStep, ParseFails, InsertClaim, ReclaimRow, ClaimFails, SaveReads, EvaluateFails,
         SaveCommits, SaveFails, CompleteReads, CompleteCommits, CompleteFails, Drain,
         ReleaseReads, ReleaseSkips, ReleaseDeletes, ReleaseFails
<1>1. /\ job[w] \in Delivery!Job /\ job[w].event \in Events
      /\ \A err : /\ [job[w] EXCEPT !.err = err].msg = job[w].msg
                  /\ [job[w] EXCEPT !.err = err].event = job[w].event
                  /\ [job[w] EXCEPT !.err = err].redelivered = job[w].redelivered
  BY <1>0, TypeBusy DEF Delivery!Job
<1>2. ASSUME NEW l \in PCs \ {"idle"}, NEW err, Raise(w, l, err) \/ (Goto(w, l) /\ UNCHANGED job)
      PROVE  /\ pc'[w] = l /\ pc'[w] # "idle"
             /\ \A v \in Workers \ {w} : pc'[v] = pc[v] /\ job'[v] = job[v]
             /\ job'[w].msg = job[w].msg
             /\ job'[w].event = job[w].event
             /\ job'[w].redelivered = job[w].redelivered
  BY <1>1, <1>2 DEF Raise, Goto, TypeOK, Delivery!Job
<1>3. ASSUME NEW s, SetRow(w, s)
      PROVE  Writes(w, s) /\ \A f \in Events \ {job[w].event} : inbox'[f] = inbox[f]
  BY <1>1, <1>3 DEF SetRow, Writes, TypeOK
<1>4. ASSUME NEW x, See(w, x)
      PROVE  seen'[w] = x /\ \A v \in Workers \ {w} : seen'[v] = seen[v]
  BY <1>4 DEF See, TypeOK
<1>5. ASSUME Count(w)
      PROVE  /\ priced'[job[w].event] =
                  IF priced[job[w].event] < MaxPriced THEN priced[job[w].event] + 1
                                                      ELSE priced[job[w].event]
             /\ \A f \in Events \ {job[w].event} : priced'[f] = priced[f]
  BY <1>1, <1>5 DEF Count, TypeOK
<1> USE DEF OwnStep, StorePath, Goes, KeepsRow, KeepsResults, Parsed, storeVars
<1>6. CASE ParseFails(w)
  BY <1>0, <1>2, <1>6 DEF ParseFails, PCs
<1>7. CASE InsertClaim(w)
  BY <1>0, <1>2, <1>3, <1>7 DEF InsertClaim, PCs
<1>8. CASE ReclaimRow(w)
  BY <1>0, <1>2, <1>3, <1>8 DEF ReclaimRow, PCs
<1>9. CASE ClaimFails(w)
  BY <1>0, <1>2, <1>3, <1>9, AfterErrorFails DEF ClaimFails, PCs, Failed
<1>10. CASE SaveReads(w)
  BY <1>0, <1>2, <1>4, <1>10 DEF SaveReads, PCs
<1>11. CASE \E err \in {"retryable", "permanent"} : EvaluateFails(w, err)
  BY <1>0, <1>2, <1>11 DEF EvaluateFails, PCs
<1>12. CASE SaveCommits(w)
  BY <1>0, <1>2, <1>4, <1>5, <1>12 DEF SaveCommits, Saves, Listing, PCs
<1>13. CASE SaveFails(w)
  BY <1>0, <1>2, <1>4, <1>5, <1>13 DEF SaveFails, Saves, Listing, PCs
<1>14. CASE CompleteReads(w)
  BY <1>0, <1>2, <1>4, <1>14 DEF CompleteReads, PCs
<1>15. CASE CompleteCommits(w)
  BY <1>0, <1>2, <1>3, <1>4, <1>15 DEF CompleteCommits, PCs
<1>16. CASE CompleteFails(w)
  BY <1>0, <1>2, <1>3, <1>4, <1>16 DEF CompleteFails, PCs
<1>17. CASE Drain(w)
  BY <1>0, <1>2, <1>17 DEF Drain, PCs
<1>18. CASE ReleaseReads(w)
  BY <1>0, <1>2, <1>4, <1>18 DEF ReleaseReads, PCs
<1>19. CASE ReleaseSkips(w)
  BY <1>0, <1>2, <1>19, AfterErrorFails DEF ReleaseSkips, PCs, Failed
<1>20. CASE ReleaseDeletes(w)
  BY <1>0, <1>2, <1>3, <1>4, <1>20, AfterErrorFails DEF ReleaseDeletes, PCs, Failed
<1>21. CASE ReleaseFails(w)
  BY <1>0, <1>2, <1>4, <1>21, AfterErrorFails DEF ReleaseFails, PCs, Failed
<1> QED
  BY <1>6, <1>7, <1>8, <1>9, <1>10, <1>11, <1>12, <1>13, <1>14, <1>15, <1>16, <1>17, <1>18,
     <1>19, <1>20, <1>21 DEF StoreStep

LEMMA SettleMoves ==
  ASSUME TypeOK, NEW w \in Workers,
         \/ \E m \in Msgs : ScheduleRetry(w, m) \/ ScheduleRetryFails(w, m)
         \/ Settle(w) \/ Reject(w)
  PROVE  pc[w] # "idle" /\ OwnStep(w) /\ SettlePath(w)
<1> USE DEF OwnStep, SettlePath, Goes, KeepsRow, KeepsResults, KeepStore, storeVars, TypeOK
<1>1. CASE \E m \in Msgs : ScheduleRetry(w, m)
  BY <1>1 DEF ScheduleRetry, Delivery!ScheduleRetry, Delivery!Goto, RetryCopy
<1>2. CASE \E m \in Msgs : ScheduleRetryFails(w, m)
  BY <1>2 DEF ScheduleRetryFails, Delivery!ScheduleRetryFails, Delivery!Goto, RetryCopy
<1>3. CASE Settle(w)
  BY <1>3 DEF Settle, Delivery!Ack, Delivery!StuckEnds, Delivery!Finish, Delivery!Goto,
              Delivery!brokerVars
<1>4. CASE Reject(w)
  BY <1>4 DEF Reject, Delivery!Reject, Delivery!Finish, Delivery!Goto
<1> QED
  BY <1>1, <1>2, <1>3, <1>4

\* Every step of a handler.
LEMMA HandlerMoves ==
  ASSUME TypeOK, NEW w \in Workers, HandlerStep(w)
  PROVE  /\ pc[w] # "idle" /\ OwnStep(w)
         /\ (StorePath(w) /\ UNCHANGED <<at, body>>) \/ SettlePath(w)
BY StoreMoves, SettleMoves DEF HandlerStep, StoreStep

-------------------------------------------------------------------------------
(* Type correctness.                                                        *)

LEMMA TypeInit == Init => TypeOK
BY PricerAssumption
   DEF Init, Delivery!Init, TypeOK, Delivery!Places, PCs, Rows

LEMMA BodyRedelivered ==
  ASSUME NEW b \in Delivery!Body
  PROVE  /\ [b EXCEPT !.redelivered = TRUE] \in Delivery!Body
         /\ [b EXCEPT !.redelivered = TRUE].event = b.event
         /\ [b EXCEPT !.redelivered = TRUE].redelivered
BY DEF Delivery!Body

\* A closed channel turns its deliveries into redelivered copies of the work queue.
LEMMA RequeuedCopies ==
  ASSUME TypeOK, NEW p \in Procs, Delivery!Requeue(p), NEW m \in Msgs
  PROVE  \/ /\ at[m] \in Workers /\ ProcOf[at[m]] = p
            /\ at'[m] = "work"
            /\ body'[m] \in Delivery!Body
            /\ body'[m].event = body[m].event
            /\ body'[m].redelivered
         \/ /\ ~(at[m] \in Workers /\ ProcOf[at[m]] = p)
            /\ at'[m] = at[m] /\ body'[m] = body[m]
<1>1. CASE at[m] \in Workers /\ ProcOf[at[m]] = p
  <2>1. body[m] \in Delivery!Body
    BY <1>1, DeliveryAssumption DEF TypeOK, Delivery!Places
  <2>2. at'[m] = "work" /\ body'[m] = [body[m] EXCEPT !.redelivered = TRUE]
    BY <1>1 DEF Delivery!Requeue
  <2> QED
    BY <1>1, <2>1, <2>2, BodyRedelivered
<1>2. CASE ~(at[m] \in Workers /\ ProcOf[at[m]] = p)
  BY <1>2 DEF Delivery!Requeue
<1> QED
  BY <1>1, <1>2

TypedCopies == /\ at \in [Msgs -> Delivery!Places \cup Workers]
               /\ body \in [Msgs -> Delivery!Body \cup {NoBody}]
               /\ \A m \in Msgs : (at[m] = "absent") <=> (body[m] = NoBody)
TypedHandlers == /\ pc \in [Workers -> PCs]
                 /\ job \in [Workers -> Delivery!Job \cup {NoJob}]
                 /\ \A w \in Workers : (pc[w] = "idle") <=> (job[w] = NoJob)
TypedStore == /\ inbox \in [Events -> Rows]
              /\ priced \in [Events -> 0..MaxPriced]
              /\ result \subseteq {ListingOf[e] : e \in Events}

LEMMA TypeRetryCopy ==
  ASSUME TypeOK, NEW w \in Workers, NEW m \in Msgs, pc[w] # "idle", RetryCopy(w, m)
  PROVE  TypedCopies'
<1>1. Delivery!NewBody(job[w].event, job[w].retry + 1) \in Delivery!Body
  BY TypeBusy DEF Delivery!NewBody, Delivery!Body
<1> QED
  BY <1>1, DeliveryAssumption DEF TypeOK, TypedCopies, RetryCopy, Delivery!Place, Delivery!Places

LEMMA TypeClose ==
  ASSUME TypeOK, NEW p \in Procs, Delivery!Requeue(p), Delivery!DropHandlers(p), Rollback(p)
  PROVE  TypedCopies' /\ TypedHandlers'
         /\ seen' \in [Workers -> Rows \cup {"none", "row"}]
         /\ \A w \in Workers : (seen'[w] # "none") <=> (pc'[w] \in {"commit", "completing", "releasing"})
<1>1. \A m \in Msgs : /\ at'[m] \in Delivery!Places \cup Workers
                      /\ body'[m] \in Delivery!Body \cup {NoBody}
                      /\ (at'[m] = "absent") <=> (body'[m] = NoBody)
  BY RequeuedCopies, DeliveryAssumption DEF TypeOK, Delivery!Places
<1>2. at' = [m \in Msgs |-> at'[m]] /\ body' = [m \in Msgs |-> body'[m]]
  BY DEF Delivery!Requeue
<1>3. TypedCopies'
  BY <1>1, <1>2 DEF TypedCopies
<1>4. TypedHandlers'
  BY DEF TypeOK, TypedHandlers, Delivery!DropHandlers, PCs
<1> QED
  BY <1>3, <1>4 DEF TypeOK, Rollback, Delivery!DropHandlers

\* The variables of the store stay typed, whatever a handler writes.
LEMMA TypeStore ==
  ASSUME TypeOK, NEW w \in Workers, StoreStep(w)
  PROVE  TypedStore'
<1>1. job[w].event \in Events
  BY StoreMoves, TypeBusy
<1>2. \A s \in Rows : SetRow(w, s) => inbox' \in [Events -> Rows]
  BY DEF SetRow, TypeOK
<1>3. Count(w) => priced' \in [Events -> 0..MaxPriced]
  BY <1>1, PricerAssumption DEF Count, TypeOK
<1>4. result \cup {Listing(w)} \subseteq {ListingOf[e] : e \in Events}
  BY <1>1 DEF Listing, TypeOK
<1> USE DEF TypedStore, TypeOK, storeVars, Rows
<1> QED
  BY <1>2, <1>3, <1>4 DEF StoreStep, ParseFails, InsertClaim, ReclaimRow, ClaimFails, SaveReads,
         EvaluateFails, SaveCommits, SaveFails, CompleteReads, CompleteCommits, CompleteFails,
         Drain, ReleaseReads, ReleaseSkips, ReleaseDeletes, ReleaseFails

LEMMA TypeHandlers ==
  ASSUME TypeOK, NEW w \in Workers, StoreStep(w)
  PROVE  TypedHandlers'
<1>1. pc[w] # "idle" /\ job[w] \in Delivery!Job
  BY StoreMoves, TypeBusy
<1>2. ASSUME NEW l \in PCs \ {"idle"}, Goto(w, l), UNCHANGED job
      PROVE  TypedHandlers'
  BY <1>1, <1>2 DEF Goto, TypeOK, TypedHandlers
<1>3. ASSUME NEW l \in PCs \ {"idle"}, NEW err \in Delivery!Errors, Raise(w, l, err)
      PROVE  TypedHandlers'
  <2>1. [job[w] EXCEPT !.err = err] \in Delivery!Job
    BY <1>1 DEF Delivery!Job
  <2> QED
    BY <1>1, <1>3, <2>1, DeliveryAssumption DEF Raise, Goto, TypeOK, TypedHandlers
<1>4. {"permanent", "retryable"} \subseteq Delivery!Errors
  BY DEF Delivery!Errors
<1>5. \A err : AfterError(w, err) \in PCs \ {"idle"}
  BY AfterErrorFails DEF Failed, PCs
<1>6. CASE InsertClaim(w) \/ ReclaimRow(w) \/ SaveReads(w) \/ SaveCommits(w) \/ CompleteReads(w)
  BY <1>2, <1>6 DEF InsertClaim, ReclaimRow, SaveReads, SaveCommits, CompleteReads, PCs
<1>7. CASE CompleteCommits(w) \/ ReleaseReads(w) \/ ReleaseSkips(w) \/ ReleaseDeletes(w)
  BY <1>2, <1>5, <1>7 DEF CompleteCommits, ReleaseReads, ReleaseSkips, ReleaseDeletes, PCs
<1>8. CASE ParseFails(w) \/ ClaimFails(w) \/ SaveFails(w) \/ CompleteFails(w) \/ ReleaseFails(w)
  BY <1>3, <1>4, <1>5, <1>8 DEF ParseFails, ClaimFails, SaveFails, CompleteFails, ReleaseFails, PCs
<1>9. CASE Drain(w) \/ \E err \in {"retryable", "permanent"} : EvaluateFails(w, err)
  BY <1>2, <1>3, <1>4, <1>9 DEF Drain, EvaluateFails, PCs
<1> QED
  BY <1>6, <1>7, <1>8, <1>9 DEF StoreStep

\* A transaction is open exactly between its read and its commit.
LEMMA TypeSeen ==
  ASSUME TypeOK, NEW w \in Workers, StoreStep(w)
  PROVE  /\ seen' \in [Workers -> Rows \cup {"none", "row"}]
         /\ \A v \in Workers : (seen'[v] # "none") <=> (pc'[v] \in {"commit", "completing", "releasing"})
<1>1. \A x \in Rows \cup {"none", "row"} :
        See(w, x) => seen' \in [Workers -> Rows \cup {"none", "row"}] /\ seen'[w] = x
  BY DEF See, TypeOK
<1>2. Row(w) \in Rows /\ Row(w) # "none"
  BY StoreMoves, TypeBusy DEF Row, TypeOK, Rows
<1>3. /\ \A l : Goto(w, l) => pc'[w] = l
      /\ \A l, err : Raise(w, l, err) => pc'[w] = l
  BY DEF Goto, Raise, TypeOK
<1>4. \A v \in Workers \ {w} : pc'[v] = pc[v] /\ seen'[v] = seen[v]
  BY StoreMoves DEF OwnStep
<1>5. /\ seen' \in [Workers -> Rows \cup {"none", "row"}]
      /\ (seen'[w] # "none") <=> (pc'[w] \in {"commit", "completing", "releasing"})
  <2>1. CASE ParseFails(w) \/ InsertClaim(w) \/ ReclaimRow(w) \/ ClaimFails(w)
    BY <1>3, <2>1, AfterErrorFails DEF ParseFails, InsertClaim, ReclaimRow, ClaimFails, TypeOK, Failed
  <2>2. CASE SaveReads(w) \/ (\E err \in {"retryable", "permanent"} : EvaluateFails(w, err))
    BY <1>1, <1>3, <2>2 DEF SaveReads, EvaluateFails, TypeOK, Rows
  <2>3. CASE SaveCommits(w) \/ SaveFails(w) \/ CompleteCommits(w) \/ CompleteFails(w)
    BY <1>1, <1>3, <2>3 DEF SaveCommits, SaveFails, CompleteCommits, CompleteFails
  <2>4. CASE CompleteReads(w) \/ ReleaseReads(w)
    BY <1>1, <1>2, <1>3, <2>4 DEF CompleteReads, ReleaseReads
  <2>5. CASE Drain(w) \/ ReleaseSkips(w)
    BY <1>3, <2>5, AfterErrorFails DEF Drain, ReleaseSkips, TypeOK, Failed
  <2>6. CASE ReleaseDeletes(w) \/ ReleaseFails(w)
    BY <1>1, <1>3, <2>6, AfterErrorFails DEF ReleaseDeletes, ReleaseFails, Failed
  <2> QED
    BY <2>1, <2>2, <2>3, <2>4, <2>5, <2>6 DEF StoreStep
<1> QED
  BY <1>4, <1>5 DEF TypeOK

LEMMA TypeSettle ==
  ASSUME TypeOK, NEW w \in Workers,
         \/ \E m \in Msgs : ScheduleRetry(w, m) \/ ScheduleRetryFails(w, m)
         \/ Settle(w) \/ Reject(w)
  PROVE  TypeOK'
<1> USE DEF TypeOK, KeepStore, storeVars
<1>1. pc[w] # "idle" /\ job[w].msg \in Msgs
  BY SettleMoves, TypeBusy
<1>2. CASE \E m \in Msgs : ScheduleRetry(w, m) \/ ScheduleRetryFails(w, m)
  <2> PICK m \in Msgs : ScheduleRetry(w, m) \/ ScheduleRetryFails(w, m)
    BY <1>2
  <2>1. /\ RetryCopy(w, m) \/ UNCHANGED <<at, body>>
        /\ pc' = [pc EXCEPT ![w] = "ack"] \/ pc' = [pc EXCEPT ![w] = "stuck"]
        /\ pc[w] = "retry"
        /\ UNCHANGED <<published, job, chan, storeVars, seen, setting>>
    BY DEF ScheduleRetry, ScheduleRetryFails, Delivery!ScheduleRetry, Delivery!ScheduleRetryFails,
           Delivery!Goto, RetryCopy
  <2>2. TypedCopies'
    BY <1>1, <2>1, TypeRetryCopy DEF TypedCopies
  <2> QED
    BY <2>1, <2>2 DEF TypedCopies, PCs
<1>3. CASE Settle(w) \/ Reject(w)
  <2>1. /\ pc[w] \in {"ack", "stuck", "reject"}
        /\ pc' = [pc EXCEPT ![w] = "idle"] /\ job' = [job EXCEPT ![w] = NoJob]
        /\ UNCHANGED <<published, chan, storeVars, seen, setting>>
        /\ \/ UNCHANGED <<at, body>>
           \/ Delivery!Place(job[w].msg, "absent", NoBody)
           \/ /\ at[job[w].msg] = w /\ at' = [at EXCEPT ![job[w].msg] = "dlq"]
              /\ UNCHANGED body
    BY <1>3 DEF Settle, Reject, Delivery!Ack, Delivery!StuckEnds, Delivery!Reject, Delivery!Holds,
                Delivery!Finish, Delivery!Goto, Delivery!brokerVars
  <2>2. TypedCopies'
    BY <1>1, <2>1, DeliveryAssumption DEF TypedCopies, Delivery!Place, Delivery!Places
  <2> QED
    BY <2>1, <2>2 DEF TypedCopies, PCs
<1> QED
  BY <1>2, <1>3

LEMMA TypeBroker ==
  ASSUME TypeOK, BrokerStep
  PROVE  TypeOK'
<1> USE DEF TypeOK, KeepStore, storeVars
<1>1. ASSUME NEW m \in Msgs, NEW e \in Events, Publish(e, m) PROVE TypeOK'
  <2>1. Delivery!NewBody(e, 0) \in Delivery!Body
    BY DEF Delivery!NewBody, Delivery!Body
  <2> QED
    BY <1>1, <2>1, DeliveryAssumption DEF Publish, Delivery!Publish, Delivery!Place, Delivery!Places
<1>2. ASSUME NEW m \in Msgs, RetryExpires(m) PROVE TypeOK'
  BY <1>2 DEF RetryExpires, Delivery!RetryExpires, Delivery!Places
<1>3. ASSUME NEW m \in Msgs, NEW w \in Workers, Deliver(w, m) PROVE TypeOK'
  <2> DEFINE new == [msg |-> m, event |-> body[m].event, retry |-> body[m].retry,
                     redelivered |-> body[m].redelivered, err |-> "none"]
  <2>1. /\ at[m] = "work" /\ pc[w] = "idle" /\ job' = [job EXCEPT ![w] = new]
        /\ at' = [at EXCEPT ![m] = w] /\ pc' = [pc EXCEPT ![w] = "claim"]
        /\ UNCHANGED <<body, published, chan, storeVars, seen, setting>>
    BY <1>3 DEF Deliver, Delivery!Deliver
  <2>2. body[m] \in Delivery!Body /\ w # "absent" /\ at[m] # "absent"
    BY <2>1, DeliveryAssumption DEF Delivery!Places
  <2>3. new \in Delivery!Job
    BY <2>2 DEF Delivery!Body, Delivery!Job, Delivery!Errors
  <2> HIDE DEF new
  <2> QED
    BY <2>1, <2>2, <2>3, DeliveryAssumption DEF PCs
<1>4. ASSUME NEW m \in Msgs, NEW p \in Procs, NackStopping(p, m) PROVE TypeOK'
  <2>1. /\ body[m] \in Delivery!Body /\ at[m] # "absent"
        /\ body' = [body EXCEPT ![m] = [body[m] EXCEPT !.redelivered = TRUE]]
        /\ UNCHANGED <<at, published, pc, job, chan, storeVars, seen, setting>>
    BY <1>4 DEF NackStopping, Delivery!NackStopping
  <2> QED
    BY <2>1, BodyRedelivered, DeliveryAssumption
<1> QED
  BY <1>1, <1>2, <1>3, <1>4 DEF BrokerStep

LEMMA TypeStep == TypeOK /\ [Next]_vars => TypeOK'
<1> SUFFICES ASSUME TypeOK, [Next]_vars PROVE TypeOK'
  OBVIOUS
<1>1. ASSUME NEW w \in Workers, StoreStep(w) PROVE TypeOK'
  <2>1. UNCHANGED <<at, body, published, chan, setting>>
    BY <1>1, StoreMoves DEF OwnStep
  <2> QED
    BY <1>1, <2>1, TypeStore, TypeHandlers, TypeSeen DEF TypeOK, TypedStore, TypedHandlers
<1>2. CASE \E w \in Workers : HandlerStep(w)
  BY <1>1, <1>2, TypeSettle DEF HandlerStep, StoreStep
<1>3. ASSUME NEW p \in Procs, CloseChannel(p) \/ Crash(p) PROVE TypeOK'
  <2>1. /\ Delivery!Requeue(p) /\ Delivery!DropHandlers(p) /\ Rollback(p)
        /\ chan' = [chan EXCEPT ![p] = "closed"]
        /\ UNCHANGED <<published, storeVars, setting>>
    BY <1>3, PricerAssumption
       DEF CloseChannel, Crash, Delivery!CloseChannel, Delivery!Crash, Rollback, Delivery!Fault,
           FaultKinds
  <2> QED
    BY <2>1, TypeClose DEF TypeOK, TypedCopies, TypedHandlers, storeVars
<1>4. ASSUME NEW p \in Procs, Stop(p) \/ Start(p) PROVE TypeOK'
  BY <1>4 DEF Stop, Start, Delivery!Stop, Delivery!Start, Delivery!brokerVars, KeepStore,
              storeVars, TypeOK
<1>5. CASE \E e \in Events : LeaseExpires(e)
  BY <1>5 DEF LeaseExpires, queueVars, TypeOK, Rows
<1>6. CASE UNCHANGED vars
  BY <1>6 DEF vars, TypeOK
<1> QED
  BY <1>2, <1>3, <1>4, <1>5, <1>6, TypeBroker DEF Next, ProcessStep

\* The types of TypeOK hold in every behaviour; in particular a transaction is
\* open exactly while its handler is between the read and the commit.
THEOREM PricerTypes == Spec => []TypeOK
BY TypeInit, TypeStep, PTL DEF Spec

-------------------------------------------------------------------------------
(* Handlers and the copies delivered to them.                               *)

\* No delivery: a copy appears, moves on, or is marked redelivered.
CopiesMove ==
  /\ UNCHANGED <<pc, job>> /\ published \subseteq published'
  /\ \A m \in Msgs : at[m] # "absent" =>
       /\ at'[m] = at[m] \/ (at[m] = "retry" /\ at'[m] = "work")
       /\ body'[m].event = body[m].event
       /\ body[m].redelivered => body'[m].redelivered
  /\ \A m \in Msgs : at'[m] \in Workers => at'[m] = at[m]
  /\ \A e \in published' \ published : \E m \in Msgs : at'[m] = "work" /\ body'[m].event = e

\* w starts on m.
Starts(w, m) ==
  /\ pc[w] = "idle" /\ at[m] = "work" /\ pc'[w] = "claim" /\ at'[m] = w
  /\ job'[w].msg = m /\ job'[w].event = body[m].event
  /\ job'[w].redelivered = body[m].redelivered
  /\ \A v \in Workers \ {w} : pc'[v] = pc[v] /\ job'[v] = job[v]
  /\ \A n \in Msgs \ {m} : at'[n] = at[n]
  /\ UNCHANGED <<body, published>>

\* A channel of p closes.
Closes(p) ==
  /\ Delivery!Requeue(p) /\ Delivery!DropHandlers(p)
  /\ UNCHANGED <<published, storeVars, setting>>

LEMMA NoPlaceWorks == \A w \in Workers : w \notin Delivery!Places
BY DeliveryAssumption

LEMMA BrokerMoves ==
  ASSUME TypeOK, BrokerStep
  PROVE  /\ UNCHANGED <<storeVars, seen, setting, chan>>
         /\ CopiesMove \/ \E w \in Workers, m \in Msgs : Starts(w, m)
<1> USE NoPlaceWorks DEF KeepStore, TypeOK, Delivery!Places
<1>0. UNCHANGED <<storeVars, seen, setting, chan>>
  BY DEF BrokerStep, Publish, Delivery!Publish, RetryExpires, Delivery!RetryExpires, Deliver,
         Delivery!Deliver, NackStopping, Delivery!NackStopping
<1>1. ASSUME NEW m \in Msgs, NEW e \in Events, Publish(e, m) PROVE CopiesMove
  BY <1>1 DEF Publish, Delivery!Publish, Delivery!Place, Delivery!NewBody, CopiesMove
<1>2. ASSUME NEW m \in Msgs, RetryExpires(m) PROVE CopiesMove
  BY <1>2 DEF RetryExpires, Delivery!RetryExpires, CopiesMove
<1>3. ASSUME NEW m \in Msgs, NEW w \in Workers, Deliver(w, m) PROVE Starts(w, m)
  BY <1>3 DEF Deliver, Delivery!Deliver, Starts
<1>4. ASSUME NEW m \in Msgs, NEW p \in Procs, NackStopping(p, m) PROVE CopiesMove
  <2>1. /\ body[m] \in Delivery!Body /\ at[m] = "work"
        /\ body' = [body EXCEPT ![m] = [body[m] EXCEPT !.redelivered = TRUE]]
        /\ UNCHANGED <<at, published, pc, job>>
    BY <1>4 DEF NackStopping, Delivery!NackStopping
  <2> QED
    BY <2>1, BodyRedelivered DEF CopiesMove
<1> QED
  BY <1>0, <1>1, <1>2, <1>3, <1>4 DEF BrokerStep

\* The remaining steps of Next.
LEMMA OtherMoves ==
  ASSUME TypeOK, [Next]_vars
  PROVE  \/ \E w \in Workers : HandlerStep(w)
         \/ BrokerStep
         \/ \E p \in Procs : CloseChannel(p) \/ Crash(p)
         \/ \E p \in Procs : Stop(p) \/ Start(p)
         \/ \E e \in Events : LeaseExpires(e)
         \/ UNCHANGED vars
BY DEF Next, ProcessStep

LEMMA CloseMoves ==
  ASSUME TypeOK, NEW p \in Procs, CloseChannel(p) \/ Crash(p)
  PROVE  /\ Closes(p)
         /\ \A v \in Workers : \/ pc'[v] = "idle" /\ ProcOf[v] = p
                               \/ /\ ProcOf[v] # p
                                  /\ pc'[v] = pc[v] /\ job'[v] = job[v] /\ seen'[v] = seen[v]
<1>1. Closes(p) /\ Rollback(p)
  BY PricerAssumption
     DEF CloseChannel, Crash, Delivery!CloseChannel, Delivery!Crash, Rollback, Delivery!Fault,
         FaultKinds, Closes
<1> QED
  BY <1>1 DEF Closes, Delivery!DropHandlers, Rollback

\* The only copies a handler touches are its own, when it settles it, and a free one.
LEMMA HandlerOwnCopy ==
  ASSUME TypeOK, DeliveryKnown, Held, NEW w \in Workers, HandlerStep(w)
  PROVE  /\ job[w].msg \in Msgs /\ at[job[w].msg] = w /\ job[w].event \in Events
         /\ body[job[w].msg].event = job[w].event
         /\ \A m \in Msgs : at[m] = w => m = job[w].msg
         /\ \A m \in Msgs \ {job[w].msg} :
              at[m] # "absent" => at'[m] = at[m] /\ body'[m] = body[m]
         /\ pc'[w] # "idle" => /\ at'[job[w].msg] = w
                               /\ body'[job[w].msg] = body[job[w].msg]
         /\ pc[w] = "reject" => /\ at'[job[w].msg] = "dlq"
                                /\ body'[job[w].msg] = body[job[w].msg]
         /\ pc'[w] = "idle" => at'[job[w].msg] \in {"absent", "dlq"}
         /\ pc[w] # "stuck"
<1>1. /\ pc[w] # "idle" /\ job[w].msg \in Msgs /\ job[w].event \in Events
      /\ (StorePath(w) /\ UNCHANGED <<at, body>>) \/ SettlePath(w)
  BY HandlerMoves, TypeBusy
<1>2. at[job[w].msg] = w /\ w \notin Delivery!Places
  BY <1>1, NoPlaceWorks DEF Held
<1>3. /\ body[job[w].msg].event = job[w].event
      /\ \A m \in Msgs : at[m] = w => m = job[w].msg
  BY <1>1, <1>2 DEF DeliveryKnown
<1>4. CASE StorePath(w) /\ UNCHANGED <<at, body>>
  BY <1>1, <1>2, <1>3, <1>4 DEF StorePath, Goes, Failed
<1>5. CASE SettlePath(w)
  BY <1>1, <1>2, <1>3, <1>5
     DEF SettlePath, Goes, RetryCopy, Delivery!Place, Delivery!Places, Delivery!Holds, TypeOK
<1> QED
  BY <1>1, <1>4, <1>5

LEMMA DeliveryStep ==
  TypeOK /\ DeliveryKnown /\ Held /\ [Next]_vars => DeliveryKnown' /\ Held'
<1> SUFFICES ASSUME TypeOK, DeliveryKnown, Held, [Next]_vars PROVE DeliveryKnown' /\ Held'
  OBVIOUS
<1>0. /\ \A v \in Workers : pc[v] # "idle" => job[v].msg \in Msgs /\ at[job[v].msg] = v
      /\ \A v \in Workers : v \notin Delivery!Places
  BY TypeBusy, NoPlaceWorks DEF Held
<1>1. ASSUME NEW w \in Workers, HandlerStep(w) PROVE DeliveryKnown' /\ Held'
  <2>1. OwnStep(w) /\ pc[w] # "idle"
    BY <1>1, HandlerMoves
  <2>2. ASSUME NEW m \in Msgs, at'[m] \in Workers
        PROVE  /\ pc'[at'[m]] # "idle"
               /\ job'[at'[m]].msg = m
               /\ job'[at'[m]].event = body'[m].event
    <3>1. at'[m] = at[m] /\ body'[m] = body[m] /\ (at[m] = w => pc'[w] # "idle")
      <4>1. CASE m = job[w].msg
        <5>1. pc'[w] # "idle"
          BY <1>0, <1>1, <2>2, <4>1, HandlerOwnCopy DEF Delivery!Places
        <5> QED
          BY <1>1, <4>1, <5>1, HandlerOwnCopy
      <4>2. CASE m # job[w].msg
        <5>1. at[m] # "absent"
          BY <1>0, <1>1, <2>2, HandlerMoves
             DEF SettlePath, RetryCopy, Delivery!Place, Delivery!Places, TypeOK
        <5> QED
          BY <1>1, <4>2, <5>1, HandlerOwnCopy
      <4> QED
        BY <4>1, <4>2
    <3> QED
      BY <2>1, <2>2, <3>1 DEF DeliveryKnown, OwnStep
  <2>3. ASSUME NEW v \in Workers, pc'[v] # "idle" PROVE at'[job'[v].msg] = v
    <3>1. CASE v = w
      BY <1>1, <2>1, <2>3, <3>1, HandlerOwnCopy DEF OwnStep
    <3>2. CASE v # w
      <4>1. pc[v] # "idle" /\ job'[v] = job[v]
        BY <2>1, <2>3, <3>2 DEF OwnStep
      <4>2. job[v].msg # job[w].msg /\ at[job[v].msg] # "absent"
        BY <1>0, <1>1, <3>2, <4>1, HandlerOwnCopy DEF Delivery!Places
      <4> QED
        BY <1>0, <1>1, <4>1, <4>2, HandlerOwnCopy
    <3> QED
      BY <3>1, <3>2
  <2> QED
    BY <2>2, <2>3 DEF DeliveryKnown, Held
<1>2. CASE CopiesMove
  BY <1>0, <1>2 DEF CopiesMove, DeliveryKnown, Held, Delivery!Places
<1>3. ASSUME NEW w \in Workers, NEW m \in Msgs, Starts(w, m) PROVE DeliveryKnown' /\ Held'
  BY <1>0, <1>3 DEF Starts, DeliveryKnown, Held, Delivery!Places
<1>4. ASSUME NEW p \in Procs, CloseChannel(p) \/ Crash(p) PROVE DeliveryKnown' /\ Held'
  <2>1. \A m \in Msgs :
          \/ at'[m] = "work" /\ at[m] \in Workers /\ ProcOf[at[m]] = p
          \/ ~(at[m] \in Workers /\ ProcOf[at[m]] = p) /\ at'[m] = at[m] /\ body'[m] = body[m]
    BY <1>4, CloseMoves, RequeuedCopies DEF Closes
  <2> QED
    BY <1>0, <1>4, <2>1, CloseMoves DEF DeliveryKnown, Held, Delivery!Places
<1>5. CASE \/ \E p \in Procs : Stop(p) \/ Start(p)
           \/ \E e \in Events : LeaseExpires(e)
           \/ UNCHANGED vars
  BY <1>5 DEF Stop, Start, Delivery!Stop, Delivery!Start, Delivery!brokerVars, LeaseExpires,
              queueVars, vars, DeliveryKnown, Held
<1> QED
  BY <1>1, <1>2, <1>3, <1>4, <1>5, OtherMoves, BrokerMoves

-------------------------------------------------------------------------------
(* The result and its outbox row come before the completion.                *)

\* What is saved stays, and an event is completed by a handler that saved it.
LEMMA OutputMoves ==
  ASSUME TypeOK, NEW w \in Workers, HandlerStep(w), NEW e \in Events
  PROVE  /\ HasOutput(e) => HasOutput(e)'
         /\ pc[w] = "commit" /\ pc'[w] = "complete" /\ job[w].event = e => HasOutput(e)'
         /\ pc'[w] \in {"complete", "completing", "drain"} =>
              pc[w] \in {"commit", "complete", "completing"}
         /\ inbox'[e] = "completed" /\ inbox[e] # "completed" =>
              pc[w] = "completing" /\ job[w].event = e
<1>1. /\ OwnStep(w) /\ (StorePath(w) \/ SettlePath(w))
      /\ job[w].event \in Events /\ priced[e] \in 0..MaxPriced
  BY HandlerMoves, TypeBusy DEF TypeOK
<1>2. CASE StorePath(w)
  BY <1>1, <1>2, PricerAssumption
     DEF StorePath, OwnStep, Goes, KeepsRow, Writes, KeepsResults, Saves, HasOutput, Failed
<1>3. CASE SettlePath(w)
  BY <1>1, <1>3 DEF SettlePath, OwnStep, Goes, KeepsRow, KeepsResults, HasOutput
<1> QED
  BY <1>1, <1>2, <1>3

LEMMA OutputStep == TypeOK /\ OutputInv /\ [Next]_vars => OutputInv'
<1> SUFFICES ASSUME TypeOK, OutputInv, [Next]_vars PROVE OutputFirst' /\ CompletedHasOutput'
  BY DEF OutputInv
<1> USE DEF OutputInv
<1>0. \A v \in Workers : pc[v] # "idle" => job[v].event \in Events
  BY TypeBusy
<1>1. ASSUME NEW w \in Workers, HandlerStep(w) PROVE OutputFirst' /\ CompletedHasOutput'
  <2>1. OwnStep(w) /\ pc[w] # "idle"
    BY <1>1, HandlerMoves
  <2>2. ASSUME NEW v \in Workers, pc'[v] \in {"complete", "completing", "drain"}
        PROVE  HasOutput(job[v].event)' /\ job'[v].event = job[v].event
    <3>1. CASE v = w
      <4>1. pc[w] \in {"commit", "complete", "completing"} /\ job'[w].event = job[w].event
        BY <1>0, <1>1, <2>1, <2>2, <3>1, OutputMoves DEF OwnStep
      <4>2. pc[w] = "commit" => pc'[w] = "complete"
        BY <1>1, <2>2, <3>1, HandlerMoves DEF StorePath, SettlePath, Goes
      <4> QED
        BY <1>0, <1>1, <2>1, <2>2, <3>1, <4>1, <4>2, OutputMoves DEF OutputFirst, HasOutput
    <3>2. CASE v # w
      BY <1>0, <1>1, <2>1, <2>2, <3>2, OutputMoves DEF OwnStep, OutputFirst, HasOutput
    <3> QED
      BY <3>1, <3>2
  <2>3. OutputFirst'
    BY <2>2 DEF OutputFirst, HasOutput
  <2>4. CompletedHasOutput'
    BY <1>1, OutputMoves DEF CompletedHasOutput, OutputFirst, HasOutput
  <2> QED
    BY <2>3, <2>4
<1>2. CASE BrokerStep
  <2>1. \A v \in Workers : \/ pc'[v] = pc[v] /\ job'[v] = job[v]
                           \/ pc'[v] = "claim"
    BY <1>2, BrokerMoves DEF CopiesMove, Starts
  <2> QED
    BY <1>2, <2>1, BrokerMoves DEF storeVars, OutputFirst, CompletedHasOutput, HasOutput
<1>3. ASSUME NEW p \in Procs, CloseChannel(p) \/ Crash(p)
      PROVE  OutputFirst' /\ CompletedHasOutput'
  BY <1>3, CloseMoves DEF Closes, storeVars, OutputFirst, CompletedHasOutput, HasOutput
<1>4. CASE \/ \E p \in Procs : Stop(p) \/ Start(p)
           \/ UNCHANGED vars
  BY <1>4 DEF Stop, Start, Delivery!Stop, Delivery!Start, KeepStore, storeVars, vars, OutputFirst,
              CompletedHasOutput, HasOutput
<1>5. CASE \E e \in Events : LeaseExpires(e)
  BY <1>5 DEF LeaseExpires, queueVars, TypeOK, OutputFirst, CompletedHasOutput, HasOutput
<1> QED
  BY <1>1, <1>2, <1>3, <1>4, <1>5, OtherMoves

LEMMA OutputInvariant == Spec => [](TypeOK /\ DeliveryKnown /\ Held /\ OutputInv)
<1>1. Init => DeliveryKnown /\ Held /\ OutputInv
  BY NoPlaceWorks DEF Init, Delivery!Init, DeliveryKnown, Held, OutputInv, OutputFirst,
     CompletedHasOutput, Delivery!Places
<1> QED
  BY <1>1, TypeInit, TypeStep, DeliveryStep, OutputStep, PTL DEF Spec

\* No event is completed before its result and its priced event are committed,
\* although each is a transaction of its own, whatever fails between them.
THEOREM CompletionFollowsSave == Spec => []CompletedHasOutput
<1>1. OutputInv => CompletedHasOutput
  BY DEF OutputInv
<1> QED
  BY <1>1, OutputInvariant, PTL

-------------------------------------------------------------------------------
(* No loss.                                                                 *)

LEMMA SettingKept == TypeOK /\ [Next]_vars => UNCHANGED setting
BY OtherMoves, HandlerMoves, BrokerMoves, CloseMoves
   DEF OwnStep, Closes, Stop, Start, KeepStore, LeaseExpires, vars

\* The paths of a handler while claim calls work and its event is not priced.
LossPath(w) ==
  \/ Goes(w, {"claim"}, {"reject"}) /\ ~Parsed(w) /\ KeepsRow(w)
  \/ /\ Goes(w, {"claim"}, {"save"}) /\ Parsed(w)
     /\ Row(w) = "absent" /\ Writes(w, "processing")
  \/ Goes(w, {"claim"}, {"reclaim"}) /\ Parsed(w) /\ Row(w) # "absent" /\ KeepsRow(w)
  \/ Goes(w, {"reclaim"}, {"save"}) /\ Writes(w, "processing")
  \/ Goes(w, {"reclaim"}, {"ack"}) /\ ~Reclaimable(w) /\ KeepsRow(w)
  \/ Goes(w, Unsaved, Unsaved) /\ KeepsRow(w)
  \/ Goes(w, {"release"}, Failed) /\ ~Leased(job[w].event) /\ KeepsRow(w)
  \/ Goes(w, {"releasing"}, Failed) /\ Writes(w, "absent")
  \/ Goes(w, {"retry"}, {"ack"}) /\ KeepsRow(w) /\ \E m \in Msgs : RetryCopy(w, m)
  \/ Goes(w, {"retry"}, {"stuck"}) /\ KeepsRow(w)
  \/ Goes(w, {"ack", "reject", "stuck"}, {"idle"}) /\ KeepsRow(w)

LEMMA LossPaths ==
  ASSUME TypeOK, OutputInv, ClaimCallsWork, NEW w \in Workers, HandlerStep(w),
         priced'[job[w].event] = 0
  PROVE  priced[job[w].event] = 0 /\ LossPath(w)
<1>0. /\ job[w].event \in Events /\ priced[job[w].event] \in 0..MaxPriced
      /\ StorePath(w) \/ SettlePath(w)
  BY HandlerMoves, TypeBusy DEF TypeOK
<1>e. PICK e \in Events : e = job[w].event
  BY <1>0
<1>f. HasOutput(e) => priced'[e] > 0
  BY OutputMoves DEF HasOutput
<1>1. /\ ~Fault("claim") /\ ~Fault("release") /\ ~Fault("reply")
  BY DEF ClaimCallsWork, Fault
<1>2. ~Saves(w)
  BY <1>0, PricerAssumption DEF Saves
<1>3. pc[w] \notin {"complete", "completing", "drain"}
  BY <1>e, <1>f DEF OutputInv, OutputFirst
<1>4. CASE StorePath(w)
  BY <1>1, <1>2, <1>3, <1>4
     DEF StorePath, LossPath, Goes, KeepsResults, Unsaved, Leased, Row
<1>5. CASE SettlePath(w)
  BY <1>5 DEF SettlePath, LossPath, Goes, KeepsResults
<1> QED
  BY <1>0, <1>4, <1>5

LEMMA ParsedHandler ==
  ASSUME TypeOK, ParsedOnly, NEW w \in Workers, HandlerStep(w)
  PROVE  ParsedOnly'
<1>0. /\ job[w].event \in Events /\ pc[w] # "idle" /\ OwnStep(w)
      /\ StorePath(w) \/ SettlePath(w)
  BY HandlerMoves, TypeBusy
<1>1. /\ pc'[w] \in Owning \cup {"reclaim"} => Parsed(w)
      /\ KeepsRow(w) \/ (Writes(w, "processing") /\ Parsed(w))
                     \/ Writes(w, "completed") \/ Writes(w, "absent")
  <2>1. CASE StorePath(w)
    BY <2>1 DEF StorePath, Goes, Owning, ParsedOnly, Parsed, Saves, KeepsRow, Failed
  <2>2. CASE SettlePath(w)
    BY <2>2 DEF SettlePath, Goes, Owning
  <2> QED
    BY <1>0, <2>1, <2>2
<1>2. \A v \in Workers : pc'[v] \in Owning \cup {"reclaim"} => job'[v].event \notin Malformed
  BY <1>0, <1>1 DEF OwnStep, Owning, Parsed, ParsedOnly
<1>3. \A e \in Malformed : ~Leased(e)'
  BY <1>0, <1>1, PricerAssumption DEF OwnStep, KeepsRow, Writes, Parsed, ParsedOnly, Leased
<1> QED
  BY <1>2, <1>3 DEF ParsedOnly

\* A step of w leaves the other copies, and the handlers they are with, alone.
LEMMA OtherCopies ==
  ASSUME TypeOK, DeliveryKnown, Held, NEW w \in Workers, HandlerStep(w),
         NEW e, NEW m \in Copies(e), at[m] # w
  PROVE  /\ m \in Copies(e)' /\ at'[m] = at[m] /\ body'[m] = body[m]
         /\ at[m] \in Workers => pc'[at[m]] = pc[at[m]] /\ job'[at[m]] = job[at[m]]
         /\ Resumes(m) => Resumes(m)'
<1>1. m \in Msgs /\ m # job[w].msg /\ at[m] # "absent"
  BY HandlerOwnCopy DEF Copies
<1>2. at'[m] = at[m] /\ body'[m] = body[m]
  BY <1>1, HandlerOwnCopy
<1>3. at[m] \in Workers => pc'[at[m]] = pc[at[m]] /\ job'[at[m]] = job[at[m]]
  BY HandlerMoves DEF OwnStep
<1>4. m \in Copies(e)'
  BY <1>1, <1>2 DEF Copies
<1> QED
  BY <1>2, <1>3, <1>4 DEF Resumes

\* The copy in the hands of handler w keeps its claim covered until the claim ends.
LEMMA CoverHandler ==
  ASSUME TypeOK, DeliveryKnown, Held, OutputInv, ClaimCallsWork, ParsedOnly, ClaimCovered,
         NEW w \in Workers, HandlerStep(w)
  PROVE  ClaimCovered'
<1> SUFFICES ASSUME NEW e \in Events, Leased(e)', priced'[e] = 0
             PROVE  \E m \in Copies(e)' : Resumes(m)'
  BY DEF ClaimCovered
<1>0. /\ pc[w] # "idle" /\ job[w].event \in Events /\ OwnStep(w)
      /\ \A v \in Workers : v \notin Delivery!Places
  BY HandlerMoves, TypeBusy, NoPlaceWorks
<1>1. priced[e] = 0 /\ (job[w].event = e => LossPath(w))
  BY <1>0, LossPaths DEF OwnStep
<1> PICK own \in Msgs : own = job[w].msg
  BY HandlerOwnCopy
<1>2. CASE job[w].event = e /\ pc'[w] \in Unsaved
  <2>1. own \in Copies(e)' /\ at'[own] = w
    BY <1>0, <1>2, HandlerOwnCopy DEF Copies, Unsaved, Delivery!Places
  <2> QED
    BY <1>2, <2>1 DEF Resumes
<1>3. CASE ~(job[w].event = e /\ pc'[w] \in Unsaved)
  <2>1. Leased(e)
    BY <1>0, <1>1, <1>3 DEF LossPath, Goes, KeepsRow, Writes, OwnStep, Leased, Unsaved, Failed
  <2>2. PICK m \in Copies(e) : Resumes(m)
    BY <1>1, <2>1 DEF ClaimCovered
  <2>3. CASE at[m] # w
    BY <2>2, <2>3, OtherCopies
  <2>4. CASE at[m] = w
    <3>1. m = own /\ job[w].event = e
      BY <2>2, <2>4, HandlerOwnCopy DEF Copies
    <3>2. \/ pc[w] \in Unsaved
          \/ pc[w] \in {"claim", "reclaim"} /\ job[w].redelivered
      BY <1>0, <2>2, <2>4 DEF Resumes, Delivery!Places
    <3>3. pc'[w] = "reclaim" /\ job[w].redelivered
      BY <1>0, <1>1, <1>3, <2>1, <3>1, <3>2, PricerAssumption
         DEF LossPath, Goes, KeepsRow, Writes, Leased, Unsaved, ParsedOnly, Parsed, Reclaimable, Row
    <3>4. job'[w].redelivered
      BY <1>0, <3>3 DEF OwnStep
    <3>5. at'[own] = w /\ body'[own].event = e /\ w # "absent"
      BY <1>0, <3>1, <3>3, HandlerOwnCopy DEF Delivery!Places
    <3> QED
      BY <3>1, <3>3, <3>4, <3>5 DEF Copies, Resumes
  <2> QED
    BY <2>3, <2>4
<1> QED
  BY <1>2, <1>3

\* An event that is not priced is carried on by every step of a handler.
LEMMA CarryHandler ==
  ASSUME TypeOK, DeliveryKnown, Held, OutputInv, ClaimCallsWork, ClaimCovered, Carried,
         NEW w \in Workers, HandlerStep(w)
  PROVE  Carried'
<1>0. /\ pc[w] # "idle" /\ job[w].event \in Events /\ OwnStep(w)
      /\ pc'[w] \in PCs
      /\ \A v \in Workers : v \notin Delivery!Places
  BY HandlerMoves, TypeBusy, TypeStep, NoPlaceWorks DEF Next, TypeOK
<1> SUFFICES ASSUME NEW e \in published, priced'[e] = 0
             PROVE  \E m \in Copies(e)' : Carries(m)'
  BY <1>0 DEF Carried, OwnStep
<1>1. e \in Events
  BY DEF TypeOK
<1>2. priced[e] = 0 /\ (job[w].event = e => LossPath(w))
  BY <1>0, <1>1, LossPaths DEF OwnStep
<1> PICK own \in Msgs : own = job[w].msg
  BY HandlerOwnCopy
\* The handler's own copy is still there, or is now in the dead-letter queue.
<1>3. CASE job[w].event = e /\ pc'[w] \in PCs \ {"idle", "reclaim", "ack"}
  <2>1. own \in Copies(e)' /\ at'[own] = w
    BY <1>0, <1>3, HandlerOwnCopy DEF Copies, Delivery!Places
  <2> QED
    BY <1>3, <2>1 DEF Carries
<1>4. CASE job[w].event = e /\ pc[w] = "reject"
  <2>1. own \in Copies(e)' /\ Carries(own)'
    BY <1>4, HandlerOwnCopy DEF Copies, Carries
  <2> QED
    BY <2>1
\* The retry copy takes over.
<1>5. CASE job[w].event = e /\ \E m \in Msgs : RetryCopy(w, m)
  <2>1. PICK m \in Msgs : RetryCopy(w, m)
    BY <1>5
  <2>2. at'[m] = "retry" /\ body'[m].event = e
    BY <1>5, <2>1 DEF RetryCopy, Delivery!Place, Delivery!NewBody, TypeOK
  <2> QED
    BY <2>2 DEF Copies, Carries
\* The insert met a row: whoever has the claim carries the event.
<1>6. CASE job[w].event = e /\ pc[w] = "claim" /\ pc'[w] = "reclaim"
  <2>1. Leased(e) /\ Leased(e)'
    <3>1. inbox'[e] = inbox[e] /\ inbox[e] # "absent"
      BY <1>2, <1>6 DEF LossPath, Goes, KeepsRow, Row, Unsaved, Failed
    <3>2. inbox[e] # "completed"
      BY <1>1, <1>2 DEF OutputInv, CompletedHasOutput
    <3> QED
      BY <1>1, <3>1, <3>2 DEF Leased, TypeOK, Rows
  <2>2. PICK m \in Copies(e) : Resumes(m)
    BY <1>1, <1>2, <2>1 DEF ClaimCovered
  <2>3. CASE at[m] # w
    <3>1. m \in Copies(e)' /\ Resumes(m)' /\ body'[m].event = e
      BY <2>2, <2>3, OtherCopies DEF Copies
    <3> QED
      BY <2>1, <3>1 DEF Resumes, Carries, PCs, Unsaved
  <2>4. CASE at[m] = w
    <3>1. m = own /\ job[w].redelivered
      BY <1>0, <1>6, <2>2, <2>4, HandlerOwnCopy DEF Resumes, Copies, Unsaved, Delivery!Places
    <3>2. at'[own] = w /\ body'[own].event = e /\ w # "absent"
      BY <1>0, <1>6, HandlerOwnCopy DEF Delivery!Places
    <3>3. job'[w].redelivered
      BY <1>6, <1>0, <3>1 DEF OwnStep
    <3> QED
      BY <1>6, <2>1, <3>2, <3>3 DEF Carries, Copies, Leased
  <2> QED
    BY <2>3, <2>4
\* Otherwise the copy that carried the event before still does.
<1>7. CASE \/ job[w].event # e
           \/ pc[w] = "reclaim" /\ ~Reclaimable(w) /\ KeepsRow(w)
           \/ pc[w] = "ack" /\ KeepsRow(w)
  <2>1. PICK m \in Copies(e) : Carries(m)
    BY <1>2 DEF Carried
  <2>2. at[m] # w
    <3> SUFFICES ASSUME at[m] = w PROVE FALSE
      OBVIOUS
    <3>1. m = own /\ job[w].event = e /\ body[m].event = e
      BY <2>1, HandlerOwnCopy DEF Copies
    <3>2. \/ pc[w] \in PCs \ {"idle", "reclaim", "ack"}
          \/ pc[w] = "reclaim" /\ Reclaimable(w)
      BY <1>0, <2>1, <3>1 DEF Carries, Delivery!Places, Reclaimable, Row, Leased
    <3> QED
      BY <1>7, <3>1, <3>2
  <2>3. inbox'[e] = inbox[e]
    BY <1>0, <1>1, <1>7 DEF OwnStep, KeepsRow
  <2>4. /\ m \in Copies(e)' /\ at'[m] = at[m] /\ body'[m] = body[m] /\ body[m].event = e
        /\ at[m] \in Workers => pc'[at[m]] = pc[at[m]] /\ job'[at[m]] = job[at[m]]
    BY <2>1, <2>2, OtherCopies DEF Copies
  <2> QED
    BY <2>1, <2>3, <2>4 DEF Carries, Leased
<1>8. ASSUME job[w].event = e
      PROVE  \/ pc'[w] \in PCs \ {"idle", "reclaim", "ack"}
             \/ pc[w] = "claim" /\ pc'[w] = "reclaim"
             \/ pc[w] = "reclaim" /\ ~Reclaimable(w) /\ KeepsRow(w)
             \/ \E m \in Msgs : RetryCopy(w, m)
             \/ pc[w] = "reject"
             \/ pc[w] = "ack" /\ KeepsRow(w)
  BY <1>0, <1>2, <1>8, HandlerOwnCopy DEF LossPath, Goes, Unsaved, Failed
<1> QED
  BY <1>3, <1>4, <1>5, <1>6, <1>7, <1>8

LEMMA LossBroker ==
  ASSUME TypeOK, DeliveryKnown, ParsedOnly, ClaimCovered, Carried, BrokerStep
  PROVE  ParsedOnly' /\ ClaimCovered' /\ Carried'
<1>0. UNCHANGED <<inbox, priced>> /\ \A v \in Workers : v \notin Delivery!Places
  BY BrokerMoves, NoPlaceWorks DEF storeVars
<1>1. CASE CopiesMove
  <2>1. ParsedOnly'
    BY <1>0, <1>1 DEF CopiesMove, ParsedOnly, Leased
  <2>2. \A e : Copies(e) \subseteq Copies(e)'
    BY <1>1 DEF CopiesMove, Copies
  <2>3. \A e : \A m \in Copies(e) : (Resumes(m) => Resumes(m)') /\ (Carries(m) => Carries(m)')
    BY <1>0, <1>1 DEF CopiesMove, Copies, Resumes, Carries, Leased, Delivery!Places
  <2>4. ClaimCovered'
    BY <1>0, <2>2, <2>3 DEF ClaimCovered, Leased
  <2>5. \A e \in published' \ published : \E m \in Copies(e)' : Carries(m)'
    BY <1>1 DEF CopiesMove, Copies, Carries
  <2>6. Carried'
    BY <1>0, <2>2, <2>3, <2>5 DEF Carried
  <2> QED
    BY <2>1, <2>4, <2>6
<1>2. ASSUME NEW w \in Workers, NEW n \in Msgs, Starts(w, n)
      PROVE  ParsedOnly' /\ ClaimCovered' /\ Carried'
  <2>1. ParsedOnly'
    BY <1>0, <1>2 DEF Starts, ParsedOnly, Leased, Owning
  <2>2. \A m \in Msgs : at[m] # w
    BY <1>2 DEF DeliveryKnown, Starts
  <2>3. \A e : Copies(e) \subseteq Copies(e)'
    BY <1>0, <1>2 DEF Starts, Copies, Delivery!Places
  <2>4. \A m \in Msgs : (Resumes(m) => Resumes(m)') /\ (Carries(m) => Carries(m)')
    BY <1>0, <1>2, <2>2 DEF Starts, Resumes, Carries, Leased, Delivery!Places, PCs
  <2>5. ClaimCovered'
    BY <1>0, <2>3, <2>4 DEF ClaimCovered, Leased, Copies
  <2>6. Carried'
    BY <1>0, <1>2, <2>3, <2>4 DEF Starts, Carried, Copies
  <2> QED
    BY <2>1, <2>5, <2>6
<1> QED
  BY <1>1, <1>2, BrokerMoves

\* A closed channel hands every copy and every claim of its handlers to a redelivery.
LEMMA LossClose ==
  ASSUME TypeOK, ParsedOnly, ClaimCovered, Carried, NEW p \in Procs,
         CloseChannel(p) \/ Crash(p)
  PROVE  ParsedOnly' /\ ClaimCovered' /\ Carried'
<1>1. /\ Delivery!Requeue(p) /\ UNCHANGED <<published, inbox, priced>>
      /\ \A v \in Workers : v \notin Delivery!Places
  BY CloseMoves, NoPlaceWorks DEF Closes, storeVars
<1>2. ParsedOnly'
  BY <1>1, CloseMoves DEF ParsedOnly, Leased, Owning
<1>3. \A e : Copies(e) \subseteq Copies(e)'
  BY <1>1, RequeuedCopies DEF Copies, Delivery!Places
<1>4. ASSUME NEW m \in Msgs PROVE (Resumes(m) => Resumes(m)') /\ (Carries(m) => Carries(m)')
  <2>1. CASE at[m] \in Workers /\ ProcOf[at[m]] = p
    BY <1>1, <2>1, RequeuedCopies DEF Resumes, Carries
  <2>2. CASE ~(at[m] \in Workers /\ ProcOf[at[m]] = p)
    BY <1>1, <2>2, RequeuedCopies, CloseMoves DEF Resumes, Carries, Leased
  <2> QED
    BY <2>1, <2>2
<1>5. ClaimCovered'
  BY <1>1, <1>3, <1>4 DEF ClaimCovered, Leased, Copies
<1>6. Carried'
  BY <1>1, <1>3, <1>4 DEF Carried, Copies
<1> QED
  BY <1>2, <1>5, <1>6

LEMMA LossStep ==
  TypeOK /\ DeliveryKnown /\ Held /\ OutputInv /\ LossInv /\ [Next]_vars => LossInv'
<1> SUFFICES ASSUME TypeOK, DeliveryKnown, Held, OutputInv, LossInv, [Next]_vars, ClaimCallsWork'
             PROVE  ParsedOnly' /\ ClaimCovered' /\ Carried'
  BY DEF LossInv
<1>0. ClaimCallsWork /\ ParsedOnly /\ ClaimCovered /\ Carried
  BY SettingKept DEF LossInv, ClaimCallsWork
<1>1. ASSUME NEW w \in Workers, HandlerStep(w) PROVE ParsedOnly' /\ ClaimCovered' /\ Carried'
  BY <1>0, <1>1, ParsedHandler, CoverHandler, CarryHandler
<1>2. CASE BrokerStep
  BY <1>0, <1>2, LossBroker
<1>3. ASSUME NEW p \in Procs, CloseChannel(p) \/ Crash(p)
      PROVE  ParsedOnly' /\ ClaimCovered' /\ Carried'
  BY <1>0, <1>3, LossClose
<1>4. CASE \/ \E p \in Procs : Stop(p) \/ Start(p)
           \/ \E e \in Events : LeaseExpires(e)
           \/ UNCHANGED vars
  <2>1. /\ UNCHANGED <<at, body, published, pc, job, priced>>
        /\ \A e \in Events : Leased(e)' <=> Leased(e)
    BY <1>4 DEF Stop, Start, Delivery!Stop, Delivery!Start, Delivery!brokerVars, KeepStore,
                storeVars, vars, LeaseExpires, queueVars, TypeOK, Leased
  <2>2. ParsedOnly'
    BY <1>0, <2>1, PricerAssumption DEF ParsedOnly
  <2>3. \A e : Copies(e)' = Copies(e)
    BY <2>1 DEF Copies
  <2>4. \A m \in Msgs : Resumes(m)' <=> Resumes(m)
    BY <2>1 DEF Resumes
  <2>5. \A e \in Events : \A m \in Copies(e) : Carries(m) => Carries(m)'
    BY <2>1 DEF Copies, Carries
  <2>6. ClaimCovered'
    BY <1>0, <2>1, <2>3, <2>4 DEF ClaimCovered, Copies
  <2>7. Carried'
    BY <1>0, <2>1, <2>3, <2>5 DEF Carried, TypeOK
  <2> QED
    BY <2>2, <2>6, <2>7
<1> QED
  BY <1>1, <1>2, <1>3, <1>4, OtherMoves

\* No published event is lost while the calls that claim and release work,
\* whatever crashes, stops, expires, conflicts or is published twice: an event
\* that is not priced has a copy in the broker.
THEOREM NothingIsLost == Spec => []NoLoss
<1>1. Init => LossInv
  BY PricerAssumption
     DEF Init, Delivery!Init, LossInv, ParsedOnly, ClaimCovered, Carried, Leased, Owning
<1>2. TypeOK /\ LossInv => NoLoss
  <2> SUFFICES ASSUME TypeOK, LossInv, ClaimCallsWork, NEW e \in published, Copies(e) = {}
               PROVE  priced[e] > 0
    BY DEF NoLoss, ClaimCallsWork
  <2> QED
    BY DEF LossInv, Carried, TypeOK
<1> QED
  BY <1>1, <1>2, LossStep, OutputInvariant, PTL DEF Spec

-------------------------------------------------------------------------------
(* Exclusive pricing.                                                       *)

\* Without takeovers only handlers and the broker move.
LEMMA UndisturbedMoves ==
  ASSUME TypeOK, FirstDeliveries, ~Takeovers, [Next]_vars
  PROVE  (\E w \in Workers : HandlerStep(w)) \/ BrokerStep \/ UNCHANGED vars
<1>1. ~Fault("crash") /\ ~Fault("restart") /\ ~Fault("lease")
  BY DEF Takeovers, Fault
<1>2. ~\E p \in Procs : Start(p)
  BY DEF Start, Delivery!Start, FirstDeliveries
<1> QED
  BY <1>1, <1>2, OtherMoves DEF CloseChannel, Crash, Stop, LeaseExpires

LEMMA FirstDeliveriesStep ==
  ASSUME TypeOK, FirstDeliveries, ~Takeovers, [Next]_vars
  PROVE  FirstDeliveries'
<1>1. ASSUME NEW w \in Workers, HandlerStep(w) PROVE FirstDeliveries'
  <2>0. /\ pc[w] # "idle" /\ OwnStep(w) /\ job[w].event \in Events /\ job[w].msg \in Msgs
        /\ (StorePath(w) /\ UNCHANGED <<at, body>>) \/ SettlePath(w)
    BY <1>1, HandlerMoves, TypeBusy
  <2>1. UNCHANGED chan
    BY <2>0 DEF OwnStep
  <2>2. \A m \in Msgs : body'[m] # NoBody => ~body'[m].redelivered
    BY <2>0 DEF SettlePath, RetryCopy, Delivery!Place, Delivery!NewBody, TypeOK, FirstDeliveries
  <2>3. \A v \in Workers : pc'[v] # "idle" => ~job'[v].redelivered
    BY <2>0 DEF OwnStep, FirstDeliveries
  <2>4. inbox'[job[w].event] # "stale"
    BY <2>0 DEF StorePath, SettlePath, KeepsRow, Writes, Saves, FirstDeliveries
  <2>5. \A e \in Events : inbox'[e] # "stale"
    BY <2>0, <2>4 DEF OwnStep, FirstDeliveries
  <2> QED
    BY <2>1, <2>2, <2>3, <2>5 DEF FirstDeliveries
<1>2. CASE BrokerStep
  <2>1. UNCHANGED <<inbox, chan>>
    BY <1>2, BrokerMoves DEF storeVars
  <2>2. ASSUME NEW m \in Msgs, NEW e \in Events, Publish(e, m) PROVE FirstDeliveries'
    BY <2>1, <2>2
       DEF Publish, Delivery!Publish, Delivery!Place, Delivery!NewBody, TypeOK, FirstDeliveries
  <2>3. ASSUME NEW m \in Msgs, RetryExpires(m) PROVE FirstDeliveries'
    BY <2>1, <2>3 DEF RetryExpires, Delivery!RetryExpires, FirstDeliveries
  <2>4. ASSUME NEW m \in Msgs, NEW w \in Workers, Deliver(w, m) PROVE FirstDeliveries'
    BY <2>1, <2>4 DEF Deliver, Delivery!Deliver, FirstDeliveries, TypeOK
  <2>5. ~\E m \in Msgs, p \in Procs : NackStopping(p, m)
    BY DEF NackStopping, Delivery!NackStopping, FirstDeliveries
  <2> QED
    BY <1>2, <2>2, <2>3, <2>4, <2>5 DEF BrokerStep
<1>3. CASE UNCHANGED vars
  BY <1>3 DEF vars, FirstDeliveries
<1> QED
  BY <1>1, <1>2, <1>3, UndisturbedMoves

\* What a step of w does to the row of its event, when its claim is its own.
LEMMA OwnerMoves ==
  ASSUME TypeOK, FirstDeliveries, RowsOwned, NEW w \in Workers, HandlerStep(w)
  PROVE  /\ pc'[w] \in Owning => pc[w] \in Owning \/ Row(w) = "absent"
         /\ KeepsRow(w) \/ Row(w) = "absent" \/ pc[w] \in Owning
         /\ pc'[w] \in {"save", "commit", "complete", "completing", "releasing"} =>
              inbox'[job[w].event] = "processing"
         /\ pc'[w] \in {"drain", "release"} =>
              inbox'[job[w].event] \in {"processing", "completed"}
         /\ pc'[w] = "completing" => seen'[w] = "processing"
         /\ Row(w) = "completed" => inbox'[job[w].event] = "completed"
<1>1. /\ pc[w] # "idle" /\ job[w].event \in Events
      /\ StorePath(w) \/ SettlePath(w)
  BY HandlerMoves, TypeBusy
<1>2. Row(w) # "stale" /\ ~job[w].redelivered
  BY <1>1 DEF Row, FirstDeliveries
<1>3. CASE StorePath(w)
  BY <1>1, <1>2, <1>3
     DEF StorePath, RowsOwned, Goes, KeepsRow, Writes, Saves, Row, Reclaimable, Owning, Failed,
         Applies
<1>4. CASE SettlePath(w)
  BY <1>4 DEF SettlePath, Goes, KeepsRow, Owning, Row
<1> QED
  BY <1>1, <1>3, <1>4

LEMMA ExclusionHandler ==
  ASSUME TypeOK, FirstDeliveries, RowsOwned, OneOwner, NEW w \in Workers, HandlerStep(w)
  PROVE  RowsOwned' /\ OneOwner'
<1>0. /\ OwnStep(w) /\ job[w].event \in Events
      /\ \A v \in Workers : pc[v] \in Owning =>
           /\ job[v].event \in Events
           /\ inbox[job[v].event] \in {"processing", "completed"}
  BY HandlerMoves, TypeBusy DEF RowsOwned, Owning
<1>1. \A v \in Workers : pc'[v] \in Owning => job'[v].event = job[v].event
  BY <1>0 DEF OwnStep, Owning
\* Another owner is on another event, or finds its row as it was.
<1>2. ASSUME NEW v \in Workers \ {w}, pc[v] \in Owning
      PROVE  /\ inbox'[job[v].event] = inbox[job[v].event]
             /\ pc'[w] \in Owning => job[v].event # job[w].event
  <2>1. CASE job[v].event = job[w].event
    <3>1. Row(w) # "absent" /\ pc[w] \notin Owning
      BY <1>0, <1>2, <2>1 DEF Row, OneOwner
    <3> QED
      BY <2>1, <3>1, OwnerMoves DEF KeepsRow
  <2>2. CASE job[v].event # job[w].event
    BY <1>0, <1>2, <2>2 DEF OwnStep
  <2> QED
    BY <2>1, <2>2
<1>3. RowsOwned'
  <2> SUFFICES ASSUME NEW v \in Workers, pc'[v] \in Owning
               PROVE  /\ pc'[v] \in {"save", "commit", "complete", "completing", "releasing"} =>
                           inbox'[job'[v].event] = "processing"
                      /\ pc'[v] \in {"drain", "release"} =>
                           inbox'[job'[v].event] \in {"processing", "completed"}
                      /\ pc'[v] = "completing" => seen'[v] = "processing"
    BY DEF RowsOwned, Owning
  <2>1. CASE v = w
    BY <1>1, <2>1, OwnerMoves
  <2>2. CASE v # w
    BY <1>0, <1>1, <1>2, <2>2 DEF OwnStep, RowsOwned
  <2> QED
    BY <2>1, <2>2
<1>4. OneOwner'
  <2> SUFFICES ASSUME NEW u \in Workers, NEW v \in Workers, pc'[u] \in Owning, pc'[v] \in Owning,
                      job'[u].event = job'[v].event
               PROVE  u = v
    BY DEF OneOwner
  <2> QED
    BY <1>0, <1>1, <1>2 DEF OwnStep, OneOwner
<1> QED
  BY <1>3, <1>4

LEMMA ExclusionStep == TypeOK /\ ExclusionInv /\ [Next]_vars => ExclusionInv'
<1> SUFFICES ASSUME TypeOK, ExclusionInv, [Next]_vars, ~Takeovers'
             PROVE  RowsOwned' /\ OneOwner'
  BY FirstDeliveriesStep, SettingKept DEF ExclusionInv, Takeovers
<1>0. ~Takeovers /\ FirstDeliveries /\ RowsOwned /\ OneOwner
  BY SettingKept DEF ExclusionInv, Takeovers
<1>1. CASE \E w \in Workers : HandlerStep(w)
  BY <1>0, <1>1, ExclusionHandler
<1>2. CASE BrokerStep
  <2>1. /\ UNCHANGED <<inbox, seen>>
        /\ \A v \in Workers : \/ pc'[v] = pc[v] /\ job'[v] = job[v]
                              \/ pc'[v] = "claim"
    BY <1>2, BrokerMoves DEF CopiesMove, Starts, storeVars
  <2> QED
    BY <1>0, <2>1 DEF RowsOwned, OneOwner, Owning
<1>3. CASE UNCHANGED vars
  BY <1>0, <1>3 DEF vars, RowsOwned, OneOwner
<1> QED
  BY <1>0, <1>1, <1>2, <1>3, UndisturbedMoves

LEMMA ExclusionInit == Init => ExclusionInv
BY DEF Init, Delivery!Init, ExclusionInv, FirstDeliveries, RowsOwned, OneOwner, Owning

LEMMA ExclusionInvariant == Spec => [](TypeOK /\ ExclusionInv)
BY TypeInit, TypeStep, ExclusionInit, ExclusionStep, PTL DEF Spec

\* As long as no process dies, no channel closes and no lease expires, one handler
\* at a time is pricing an event, although every call of the claim is a
\* transaction of its own.
THEOREM PricingIsExclusive == Spec => []ExclusivePricing
<1>1. ExclusionInv => ExclusivePricing
  BY DEF ExclusionInv, ExclusivePricing, OneOwner, Working, Owning
<1> QED
  BY <1>1, ExclusionInvariant, PTL

-------------------------------------------------------------------------------
(* Permanent completion.                                                    *)

LEMMA CompletedStays ==
  ASSUME TypeOK, ExclusionInv, [Next]_vars, ~Takeovers, NEW e \in Events,
         inbox[e] = "completed"
  PROVE  inbox'[e] = "completed"
<1>0. FirstDeliveries /\ RowsOwned
  BY DEF ExclusionInv
<1>1. ASSUME NEW w \in Workers, HandlerStep(w) PROVE inbox'[e] = "completed"
  <2>1. CASE job[w].event = e
    BY <1>0, <1>1, <2>1, OwnerMoves DEF Row
  <2>2. CASE job[w].event # e
    BY <1>1, <2>2, HandlerMoves DEF OwnStep
  <2> QED
    BY <2>1, <2>2
<1>2. CASE BrokerStep \/ UNCHANGED vars
  BY <1>2, BrokerMoves DEF storeVars, vars
<1> QED
  BY <1>0, <1>1, <1>2, UndisturbedMoves

\* Without takeovers a completed event stays completed: the release deletes by
\* primary key what it has read as processing, but the row is its handler's own.
THEOREM CompletionIsPermanent == Spec => CompletedIsPermanent
<1>1. TypeOK /\ ExclusionInv /\ [Next]_vars =>
        [~Takeovers => \A e \in Events : inbox[e] = "completed" => inbox'[e] = "completed"]_vars
  BY CompletedStays
<1> QED
  BY <1>1, ExclusionInvariant, PTL DEF Spec, CompletedIsPermanent

-------------------------------------------------------------------------------
(* Pricing once.                                                            *)

\* The steps of a handler that completes what it saves.
LEMMA OnceMoves ==
  ASSUME TypeOK, FirstDeliveries, RowsOwned, SavesLast, NEW w \in Workers, HandlerStep(w)
  PROVE  \/ /\ pc[w] = "claim" /\ Row(w) = "absent" /\ KeepsResults
            /\ pc'[w] \in Failed \cup {"save"}
         \/ pc[w] = "commit" /\ pc'[w] = "complete" /\ Saves(w)
         \/ pc[w] = "complete" /\ pc'[w] = "completing" /\ KeepsRow(w) /\ KeepsResults
         \/ /\ pc[w] = "completing" /\ pc'[w] = "drain"
            /\ Writes(w, "completed") /\ KeepsResults
         \/ pc[w] = "releasing" /\ KeepsResults /\ pc'[w] \in Failed
         \/ /\ KeepsRow(w) /\ KeepsResults /\ pc[w] \notin {"complete", "completing"}
            /\ pc'[w] = "commit" => pc[w] = "save"
            /\ pc'[w] # "save"
<1>1. /\ pc[w] # "idle" /\ job[w].event \in Events
      /\ StorePath(w) \/ SettlePath(w)
  BY HandlerMoves, TypeBusy
<1>2. ~Fault("claim") /\ ~Fault("store") /\ ~Fault("reply")
  BY DEF SavesLast, Fault
<1>3. Row(w) # "stale" /\ ~job[w].redelivered
  BY <1>1 DEF Row, FirstDeliveries
<1>4. pc[w] = "completing" => Row(w) = "processing" /\ seen[w] = "processing"
  BY DEF RowsOwned, Row
<1>5. CASE StorePath(w)
  BY <1>2, <1>3, <1>4, <1>5 DEF StorePath, Goes, Applies, Reclaimable, Failed
<1>6. CASE SettlePath(w)
  BY <1>6 DEF SettlePath, Goes
<1> QED
  BY <1>1, <1>5, <1>6

\* Whoever saves is the first, because nobody else owns the row it holds.
LEMMA OnceHandler ==
  ASSUME TypeOK, FirstDeliveries, RowsOwned, OneOwner, SavesLast, FirstSave, SavedOnce,
         NEW w \in Workers, HandlerStep(w)
  PROVE  FirstSave' /\ SavedOnce'
<1>0. /\ OwnStep(w) /\ job[w].event \in Events /\ pc[w] # "idle"
      /\ \A v \in Workers : pc[v] # "idle" => job[v].event \in Events
      /\ \A e \in Events : priced[e] \in 0..MaxPriced
  BY HandlerMoves, TypeBusy DEF TypeOK
<1>1. \A v \in Workers : pc'[v] \in Owning => pc[v] # "idle" /\ job'[v].event = job[v].event
  BY <1>0 DEF OwnStep, Owning
\* A row no handler holds, or one that is about to be released, is not priced.
<1>2. Row(w) = "absent" \/ pc[w] \in {"save", "commit", "releasing"} => priced[job[w].event] = 0
  <2> SUFFICES ASSUME Row(w) = "absent" \/ pc[w] \in {"save", "commit", "releasing"},
                      priced[job[w].event] # 0
               PROVE  FALSE
    OBVIOUS
  <2>1. priced[job[w].event] = 1
    BY <1>0 DEF SavedOnce
  <2>2. Row(w) # "completed"
    BY DEF RowsOwned, Row
  <2>3. PICK v \in Workers : pc[v] \in {"complete", "completing"} /\ job[v].event = job[w].event
    BY <1>0, <2>1, <2>2 DEF SavedOnce, Row
  <2>4. Row(w) = "processing"
    BY <2>3 DEF RowsOwned, Row
  <2>5. v = w
    BY <2>3, <2>4 DEF OneOwner, Owning
  <2> QED
    BY <2>3, <2>4, <2>5
<1>3. \A v \in Workers \ {w} : pc[v] \in Owning /\ job[v].event = job[w].event =>
        pc[w] \notin Owning /\ Row(w) # "absent"
  BY DEF OneOwner, RowsOwned, Row, Owning
<1>4. FirstSave'
  <2> SUFFICES ASSUME NEW v \in Workers, pc'[v] \in {"save", "commit"}
               PROVE  priced'[job[v].event] = 0
    BY <1>1 DEF FirstSave, Owning
  <2>1. CASE v = w
    BY <1>2, <2>1, OnceMoves DEF KeepsResults, Failed, FirstSave
  <2>2. CASE v # w
    <3>1. pc[v] \in {"save", "commit"} /\ priced[job[v].event] = 0 /\ job[v].event \in Events
      BY <1>0, <2>2 DEF OwnStep, FirstSave
    <3>2. CASE job[v].event = job[w].event
      BY <1>3, <2>2, <3>1, <3>2, OnceMoves DEF KeepsResults, Owning
    <3>3. CASE job[v].event # job[w].event
      BY <1>0, <3>1, <3>3 DEF OwnStep
    <3> QED
      BY <3>2, <3>3
  <2> QED
    BY <2>1, <2>2
<1>5. ASSUME NEW e \in Events
      PROVE  /\ priced'[e] <= 1
             /\ priced'[e] = 1 => \/ inbox'[e] = "completed"
                                  \/ \E v \in Workers : /\ pc'[v] \in {"complete", "completing"}
                                                        /\ job'[v].event = e
  \* Another event: its completion, or the handler that will complete it, is as before.
  <2>1. CASE job[w].event # e
    <3>1. inbox'[e] = inbox[e] /\ priced'[e] = priced[e]
      BY <1>0, <2>1 DEF OwnStep
    <3>2. \A v \in Workers : job[v].event = e => pc'[v] = pc[v] /\ job'[v] = job[v]
      BY <1>0, <2>1 DEF OwnStep
    <3> QED
      BY <3>1, <3>2 DEF SavedOnce
  <2>2. CASE job[w].event = e /\ pc[w] = "commit" /\ pc'[w] = "complete" /\ Saves(w)
    <3>1. priced'[e] = 1
      BY <1>2, <2>2, PricerAssumption DEF Saves
    <3>2. job'[w].event = e
      BY <1>1, <2>2 DEF Owning
    <3> QED
      BY <2>2, <3>1, <3>2
  <2>3. CASE job[w].event = e /\ pc[w] = "complete" /\ pc'[w] = "completing" /\ KeepsResults
    <3>1. job'[w].event = e /\ priced'[e] = priced[e]
      BY <1>1, <2>3 DEF Owning, KeepsResults
    <3> QED
      BY <2>3, <3>1 DEF SavedOnce
  <2>4. CASE job[w].event = e /\ Writes(w, "completed") /\ KeepsResults
    BY <2>4 DEF Writes, KeepsResults, SavedOnce
  <2>5. CASE /\ job[w].event = e /\ KeepsResults
             /\ Row(w) = "absent" \/ pc[w] = "releasing"
    BY <1>2, <2>5 DEF KeepsResults
  <2>6. CASE /\ job[w].event = e /\ KeepsRow(w) /\ KeepsResults
             /\ pc[w] \notin {"complete", "completing"}
    <3>1. inbox'[e] = inbox[e] /\ priced'[e] = priced[e]
      BY <2>6 DEF KeepsRow, KeepsResults
    <3>2. \A v \in Workers : pc[v] \in {"complete", "completing"} =>
            pc'[v] = pc[v] /\ job'[v] = job[v]
      BY <1>0, <2>6 DEF OwnStep
    <3> QED
      BY <3>1, <3>2 DEF SavedOnce
  <2> QED
    BY <2>1, <2>2, <2>3, <2>4, <2>5, <2>6, OnceMoves
<1> QED
  BY <1>4, <1>5 DEF SavedOnce

LEMMA OnceStep == TypeOK /\ ExclusionInv /\ OnceInv /\ [Next]_vars => OnceInv'
<1> SUFFICES ASSUME TypeOK, ExclusionInv, OnceInv, [Next]_vars, SavesLast'
             PROVE  FirstSave' /\ SavedOnce'
  BY DEF OnceInv
<1>0. SavesLast /\ FirstSave /\ SavedOnce
  BY SettingKept DEF OnceInv, SavesLast
<1>1. ~Takeovers /\ FirstDeliveries /\ RowsOwned /\ OneOwner
  BY <1>0 DEF SavesLast, Takeovers, ExclusionInv
<1>2. CASE \E w \in Workers : HandlerStep(w)
  BY <1>0, <1>1, <1>2, OnceHandler
<1>3. CASE BrokerStep
  <2>1. /\ UNCHANGED <<inbox, priced>>
        /\ \A v \in Workers : \/ pc'[v] = pc[v] /\ job'[v] = job[v]
                              \/ pc[v] = "idle" /\ pc'[v] = "claim"
    BY <1>3, BrokerMoves DEF CopiesMove, Starts, storeVars
  <2>2. FirstSave'
    BY <1>0, <2>1 DEF FirstSave
  <2>3. SavedOnce'
    BY <1>0, <2>1 DEF SavedOnce
  <2> QED
    BY <2>2, <2>3
<1>4. CASE UNCHANGED vars
  BY <1>0, <1>4 DEF vars, FirstSave, SavedOnce
<1> QED
  BY <1>1, <1>2, <1>3, <1>4, UndisturbedMoves

\* While processes and leases last and no transaction fails after a save, an
\* event has at most one priced event in the outbox, however often its copies are
\* repeated or its listing conflicts.
THEOREM PricedAtMostOnce == Spec => []PricedOnce
<1>1. Init => OnceInv
  BY DEF Init, Delivery!Init, OnceInv, FirstSave, SavedOnce
<1>2. OnceInv => PricedOnce
  BY DEF OnceInv, SavesLast, SavedOnce, PricedOnce
<1> QED
  BY <1>1, <1>2, OnceStep, ExclusionInvariant, PTL DEF Spec
===============================================================================
