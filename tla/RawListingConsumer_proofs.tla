----------------------- MODULE RawListingConsumer_proofs -----------------------
(* Theorems about RawListingConsumer, for every number of events, copies,   *)
(* workers and processes and every set of faults a theorem does not exclude.*)
EXTENDS RawListingConsumer_inv, TLAPS

-------------------------------------------------------------------------------
(* Type correctness.                                                        *)

LEMMA TypeInit == Init => TypeOK
BY ConsumerAssumption DEF Init, TypeOK, Places, PCs, Rows

LEMMA BodyRedelivered ==
  ASSUME NEW b \in Body
  PROVE  [b EXCEPT !.redelivered = TRUE] \in Body
BY DEF Body

LEMMA TypeRequeue ==
  ASSUME TypeOK, NEW p \in Procs, Requeue(p)
  PROVE  /\ at' \in [Msgs -> Places \cup Workers]
         /\ body' \in [Msgs -> Body \cup {NoBody}]
         /\ \A m \in Msgs : (at'[m] = "absent") <=> (body'[m] = NoBody)
<1> DEFINE lost == {m \in Msgs : at[m] \in Workers /\ ProcOf[at[m]] = p}
<1>1. \A m \in lost : /\ body[m] \in Body
                      /\ [body[m] EXCEPT !.redelivered = TRUE] \in Body
  BY ConsumerAssumption, BodyRedelivered DEF TypeOK, Places
<1>2. /\ at' = [m \in Msgs |-> IF m \in lost THEN "work" ELSE at[m]]
      /\ body' = [m \in Msgs |-> IF m \in lost THEN [body[m] EXCEPT !.redelivered = TRUE]
                                               ELSE body[m]]
  BY DEF Requeue
<1> HIDE DEF lost
<1>3. \A m \in Msgs : /\ at'[m] \in Places \cup Workers
                      /\ body'[m] \in Body \cup {NoBody}
                      /\ (at'[m] = "absent") <=> (body'[m] = NoBody)
  BY <1>1, <1>2, NoBodyAssumption DEF TypeOK, Places
<1> QED
  BY <1>2, <1>3

LEMMA TypeDrop ==
  ASSUME TypeOK, NEW p \in Procs, DropHandlers(p)
  PROVE  /\ pc' \in [Workers -> PCs]
         /\ job' \in [Workers -> Job \cup {NoJob}]
         /\ \A w \in Workers : (pc'[w] = "idle") <=> (job'[w] = NoJob)
BY DEF TypeOK, DropHandlers, PCs

LEMMA TypeBusy ==
  ASSUME TypeOK, NEW w \in Workers, pc[w] # "idle"
  PROVE  /\ job[w] \in Job
         /\ job[w].msg \in Msgs
         /\ job[w].event \in Events
         /\ job[w].retry \in Nat
         /\ job[w].redelivered \in BOOLEAN
         /\ job[w].err \in Errors
BY DEF TypeOK, Job

LEMMA TypeAfterError ==
  ASSUME NEW w \in Workers, NEW err
  PROVE  AfterError(w, err) \in {"retry", "exhaust"}
BY DEF AfterError

LEMMA TypeHandler ==
  ASSUME TypeOK, NEW w \in Workers, HandlerStep(w)
  PROVE  TypeOK'
<1> USE DEF TypeOK
<1>0. ASSUME pc[w] # "idle",
             NEW l \in PCs \ {"idle"}, NEW err \in Errors
      PROVE  /\ Goto(w, l) /\ UNCHANGED job =>
                  /\ pc' \in [Workers -> PCs] /\ job' \in [Workers -> Job \cup {NoJob}]
                  /\ \A v \in Workers : (pc'[v] = "idle") <=> (job'[v] = NoJob)
             /\ Raise(w, l, err) =>
                  /\ pc' \in [Workers -> PCs] /\ job' \in [Workers -> Job \cup {NoJob}]
                  /\ \A v \in Workers : (pc'[v] = "idle") <=> (job'[v] = NoJob)
  <2>1. job[w] \in Job /\ [job[w] EXCEPT !.err = err] \in Job
    BY <1>0, TypeBusy DEF Job
  <2> QED
    BY <1>0, <2>1, NoJobAssumption DEF Goto, Raise
<1>1. ASSUME Finish(w)
      PROVE  /\ pc' \in [Workers -> PCs] /\ job' \in [Workers -> Job \cup {NoJob}]
             /\ \A v \in Workers : (pc'[v] = "idle") <=> (job'[v] = NoJob)
  BY <1>1 DEF Finish, Goto, PCs
<1>2. CASE ParseFails(w)
  BY <1>2, <1>0 DEF ParseFails, brokerVars, storeVars, PCs, Errors
<1>3. CASE InsertClaim(w)
  BY <1>3, <1>0, TypeBusy DEF InsertClaim, Row, SetRow, brokerVars, PCs, Errors, Rows
<1>4. CASE ReclaimRow(w)
  BY <1>4, <1>0, TypeBusy DEF ReclaimRow, Row, SetRow, brokerVars, PCs, Errors, Rows
<1>5. CASE SkipDuplicate(w)
  BY <1>5, <1>0 DEF SkipDuplicate, brokerVars, storeVars, PCs, Errors
<1>6. CASE ClaimFails(w)
  BY <1>6, <1>0, TypeBusy, TypeAfterError
     DEF ClaimFails, Row, SetRow, brokerVars, PCs, Errors, Rows
<1>7. CASE EnrichSucceeds(w)
  BY <1>7, <1>0, TypeBusy DEF EnrichSucceeds, brokerVars, PCs, Errors
<1>8. CASE \E err \in {"retryable", "permanent"} : EnrichFails(w, err)
  BY <1>8, <1>0, TypeBusy DEF EnrichFails, brokerVars, PCs, Errors
<1>9. CASE MarkCompleted(w)
  BY <1>9, <1>0, TypeBusy DEF MarkCompleted, SetRow, brokerVars, PCs, Errors, Rows
<1>10. CASE MarkFails(w)
  BY <1>10, <1>0, TypeBusy DEF MarkFails, SetRow, brokerVars, PCs, Errors, Rows
<1>11. CASE ReleaseClaim(w)
  BY <1>11, <1>0, TypeBusy, TypeAfterError
     DEF ReleaseClaim, Row, SetRow, brokerVars, PCs, Errors, Rows
<1>12. CASE ReleaseFails(w)
  BY <1>12, <1>0, TypeAfterError DEF ReleaseFails, brokerVars, storeVars, PCs, Errors
<1>13. CASE \E m \in Msgs : ScheduleRetry(w, m) \/ ScheduleRetryFails(w, m)
  <2> PICK m \in Msgs : ScheduleRetry(w, m) \/ ScheduleRetryFails(w, m)
    BY <1>13
  <2>1. pc[w] = "retry" /\ (Goto(w, "ack") \/ Goto(w, "stuck"))
        /\ UNCHANGED <<published, job, chan, storeVars>>
    BY DEF ScheduleRetry, ScheduleRetryFails
  <2>2. NewBody(job[w].event, job[w].retry + 1) \in Body
    BY <2>1, TypeBusy DEF NewBody, Body
  <2>3. \/ UNCHANGED <<at, body>>
        \/ Place(m, "retry", NewBody(job[w].event, job[w].retry + 1))
    BY DEF ScheduleRetry, ScheduleRetryFails
  <2>4. /\ at' \in [Msgs -> Places \cup Workers]
        /\ body' \in [Msgs -> Body \cup {NoBody}]
        /\ \A n \in Msgs : (at'[n] = "absent") <=> (body'[n] = NoBody)
    BY <2>2, <2>3, NoBodyAssumption DEF Place, Places
  <2> QED
    BY <2>1, <2>4, <1>0 DEF storeVars, PCs, Errors
<1>14. CASE HandleExhausted(w)
  BY <1>14, <1>0, TypeBusy DEF HandleExhausted, brokerVars, PCs, Errors
<1>15. CASE HandleExhaustedFails(w)
  BY <1>15, <1>0, TypeBusy DEF HandleExhaustedFails, brokerVars, PCs, Errors
<1>16. CASE Ack(w)
  BY <1>16, <1>1, TypeBusy DEF Ack, Place, Places, storeVars
<1>17. CASE Reject(w)
  BY <1>17, <1>1, TypeBusy, ConsumerAssumption DEF Reject, Holds, Places, storeVars
<1>18. CASE StuckEnds(w)
  BY <1>18, <1>1 DEF StuckEnds, brokerVars, storeVars
<1> QED
  BY <1>2, <1>3, <1>4, <1>5, <1>6, <1>7, <1>8, <1>9, <1>10, <1>11, <1>12, <1>13,
     <1>14, <1>15, <1>16, <1>17, <1>18 DEF HandlerStep

LEMMA TypeStep == TypeOK /\ [Next]_vars => TypeOK'
<1> SUFFICES ASSUME TypeOK, [Next]_vars PROVE TypeOK'
  OBVIOUS
<1>1. CASE \E w \in Workers : HandlerStep(w)
  BY <1>1, TypeHandler
<1>2. CASE BrokerStep
  <2> USE DEF TypeOK
  <2>1. ASSUME NEW m \in Msgs, NEW e \in Events, Publish(e, m) PROVE TypeOK'
    <3>1. NewBody(e, 0) \in Body
      BY DEF NewBody, Body
    <3> QED
      BY <2>1, <3>1, NoBodyAssumption DEF Publish, Place, Places, storeVars
  <2>2. ASSUME NEW m \in Msgs, RetryExpires(m) PROVE TypeOK'
    BY <2>2 DEF RetryExpires, Places, storeVars
  <2>3. ASSUME NEW m \in Msgs, NEW w \in Workers, Deliver(w, m) PROVE TypeOK'
    <3>1. body[m] \in Body /\ w # "absent" /\ at[m] # "absent"
      BY <2>3, ConsumerAssumption DEF Deliver, Places
    <3> DEFINE new == [msg |-> m, event |-> body[m].event, retry |-> body[m].retry,
                       redelivered |-> body[m].redelivered, err |-> "none"]
    <3>2. new \in Job
      BY <3>1 DEF Body, Job, Errors
    <3>3. job' = [job EXCEPT ![w] = new]
      BY <2>3 DEF Deliver
    <3> HIDE DEF new
    <3> QED
      BY <2>3, <3>1, <3>2, <3>3, NoJobAssumption DEF Deliver, PCs, storeVars
  <2>4. ASSUME NEW m \in Msgs, NEW p \in Procs, NackStopping(p, m) PROVE TypeOK'
    <3>1. body[m] \in Body /\ [body[m] EXCEPT !.redelivered = TRUE] \in Body
      BY <2>4, BodyRedelivered DEF NackStopping
    <3> QED
      BY <2>4, <3>1, NoBodyAssumption DEF NackStopping, storeVars
  <2> QED
    BY <1>2, <2>1, <2>2, <2>3, <2>4 DEF BrokerStep
<1>3. CASE ProcessStep
  <2> PICK p \in Procs : Stop(p) \/ CloseChannel(p) \/ Crash(p) \/ Start(p)
    BY <1>3 DEF ProcessStep
  <2>1. CASE Stop(p) \/ Start(p)
    BY <2>1 DEF TypeOK, Stop, Start, brokerVars, storeVars
  <2>2. CASE CloseChannel(p) \/ Crash(p)
    <3>1. /\ Requeue(p) /\ (DropHandlers(p) \/ UNCHANGED <<pc, job>>)
          /\ chan' = [chan EXCEPT ![p] = "closed"]
          /\ UNCHANGED <<published, storeVars>>
      BY <2>2 DEF CloseChannel, Crash
    <3> QED
      BY <3>1, TypeRequeue, TypeDrop DEF TypeOK, storeVars
  <2> QED
    BY <2>1, <2>2
<1>4. CASE \E e \in Events : LeaseExpires(e)
  BY <1>4 DEF TypeOK, LeaseExpires, brokerVars, Rows
<1>5. CASE UNCHANGED vars
  BY <1>5 DEF TypeOK, vars
<1> QED
  BY <1>1, <1>2, <1>3, <1>4, <1>5 DEF Next

\* The types of TypeOK hold in every behaviour.
THEOREM TypeCorrect == Spec => []TypeOK
BY TypeInit, TypeStep, PTL DEF Spec

-------------------------------------------------------------------------------
(* completed is permanent.                                                  *)

LEMMA CompletedStays ==
  ASSUME TypeOK, [Next]_vars, NEW e \in Events, inbox[e] = "completed"
  PROVE  inbox'[e] = "completed"
<1>1. ASSUME NEW w \in Workers, HandlerStep(w) PROVE inbox'[e] = "completed"
  <2>1. CASE UNCHANGED inbox
    BY <2>1
  <2>2. CASE SetRow(w, "completed")
    BY <2>2 DEF SetRow, TypeOK
  <2>3. CASE SetRow(w, "processing") /\ Row(w) \in {"absent", "stale", "legacy", "processing"}
    BY <2>3 DEF SetRow, Row, TypeOK
  <2>4. CASE SetRow(w, "absent") /\ Row(w) \in {"processing", "stale"}
    BY <2>4 DEF SetRow, Row, TypeOK
  <2> QED
    BY <1>1, <2>1, <2>2, <2>3, <2>4
       DEF HandlerStep, ParseFails, InsertClaim, ReclaimRow, Reclaimable, SkipDuplicate, ClaimFails,
           EnrichSucceeds, EnrichFails, MarkCompleted, MarkFails, ReleaseClaim,
           ReleaseFails, ScheduleRetry, ScheduleRetryFails, HandleExhausted,
           HandleExhaustedFails, Ack, Reject, StuckEnds, storeVars
<1>2. CASE BrokerStep
  BY <1>2 DEF BrokerStep, Publish, RetryExpires, Deliver, NackStopping, storeVars
<1>3. CASE ProcessStep
  BY <1>3 DEF ProcessStep, Stop, CloseChannel, Crash, Start, storeVars
<1>4. CASE \E f \in Events : LeaseExpires(f)
  BY <1>4 DEF LeaseExpires, TypeOK
<1>5. CASE UNCHANGED vars
  BY <1>5 DEF vars
<1> QED
  BY <1>1, <1>2, <1>3, <1>4, <1>5 DEF Next

\* A completed event stays completed, whatever fails: no late release, expired
\* lease, redelivery or takeover re-opens it.
THEOREM CompletionIsPermanent == Spec => CompletedIsPermanent
<1>1. TypeOK /\ [Next]_vars =>
        [\A e \in Events : inbox[e] = "completed" => inbox'[e] = "completed"]_vars
  BY CompletedStays
<1> QED
  BY <1>1, TypeCorrect, PTL DEF Spec, CompletedIsPermanent

-------------------------------------------------------------------------------
(* What a handler's step can do to handlers and copies.                     *)

\* A handler moves itself only; it keeps its job until it ends.
LEMMA HandlerMoves ==
  ASSUME TypeOK, NEW w \in Workers, HandlerStep(w)
  PROVE  /\ pc[w] # "idle"
         /\ \A v \in Workers \ {w} : pc'[v] = pc[v] /\ job'[v] = job[v]
         /\ \/ /\ pc'[w] # "idle"
               /\ job'[w].msg = job[w].msg
               /\ job'[w].event = job[w].event
               /\ job'[w].redelivered = job[w].redelivered
            \/ pc'[w] = "idle" /\ pc[w] \in {"ack", "reject"}
            \/ pc'[w] = "idle" /\ pc[w] = "stuck" /\ ~Holds(w)
         /\ UNCHANGED <<published, chan>>
<1>1. ASSUME pc[w] # "idle",
             NEW l \in PCs \ {"idle"}, NEW err,
             Raise(w, l, err) \/ (Goto(w, l) /\ UNCHANGED job)
      PROVE  /\ pc'[w] # "idle"
             /\ \A v \in Workers \ {w} : pc'[v] = pc[v] /\ job'[v] = job[v]
             /\ job'[w].msg = job[w].msg
             /\ job'[w].event = job[w].event
             /\ job'[w].redelivered = job[w].redelivered
  <2>1. job[w] \in Job
    BY <1>1, TypeBusy
  <2> QED
    BY <1>1, <2>1 DEF Raise, Goto, TypeOK, PCs, Job
<1>2. CASE ParseFails(w) \/ (\E err \in {"retryable", "permanent"} : EnrichFails(w, err))
  BY <1>2, <1>1 DEF ParseFails, EnrichFails, brokerVars, PCs
<1>3. CASE InsertClaim(w)
  BY <1>3, <1>1 DEF InsertClaim, brokerVars, PCs
<1>4. CASE ReclaimRow(w) \/ SkipDuplicate(w) \/ EnrichSucceeds(w) \/ MarkCompleted(w)
  BY <1>4, <1>1 DEF ReclaimRow, SkipDuplicate, EnrichSucceeds, MarkCompleted, brokerVars, PCs
<1>5. CASE MarkFails(w) \/ HandleExhausted(w) \/ HandleExhaustedFails(w)
  BY <1>5, <1>1 DEF MarkFails, HandleExhausted, HandleExhaustedFails, brokerVars, PCs
<1>6. CASE \E m \in Msgs : ScheduleRetry(w, m) \/ ScheduleRetryFails(w, m)
  BY <1>6, <1>1 DEF ScheduleRetry, ScheduleRetryFails, PCs
<1>7. CASE ClaimFails(w) \/ ReleaseClaim(w) \/ ReleaseFails(w)
  BY <1>7, <1>1, TypeAfterError DEF ClaimFails, ReleaseClaim, ReleaseFails, brokerVars, PCs
<1>8. CASE Ack(w) \/ Reject(w) \/ StuckEnds(w)
  BY <1>8 DEF Ack, Reject, StuckEnds, Finish, Goto, TypeOK, brokerVars
<1> QED
  BY <1>2, <1>3, <1>4, <1>5, <1>6, <1>7, <1>8 DEF HandlerStep

\* A handler adds a retry copy, or settles the copy delivered to it.
LEMMA HandlerCopies ==
  ASSUME TypeOK, NEW w \in Workers, HandlerStep(w)
  PROVE  \/ /\ UNCHANGED <<at, body>>
            /\ pc[w] \in {"ack", "reject"} => ~Holds(w)
         \/ /\ pc[w] = "retry"
            /\ \E m \in Msgs : /\ at[m] = "absent"
                                /\ Place(m, "retry", NewBody(job[w].event, job[w].retry + 1))
         \/ pc[w] = "ack" /\ Holds(w) /\ Place(job[w].msg, "absent", NoBody)
         \/ /\ pc[w] = "reject" /\ Holds(w)
            /\ at' = [at EXCEPT ![job[w].msg] = "dlq"] /\ UNCHANGED body
BY DEF HandlerStep, ParseFails, InsertClaim, ReclaimRow, SkipDuplicate, ClaimFails,
       EnrichSucceeds, EnrichFails, MarkCompleted, MarkFails, ReleaseClaim, ReleaseFails,
       ScheduleRetry, ScheduleRetryFails, HandleExhausted, HandleExhaustedFails,
       Ack, Reject, StuckEnds, brokerVars

\* A closed channel turns its deliveries into redelivered copies of the work queue.
LEMMA RequeuedCopies ==
  ASSUME TypeOK, NEW p \in Procs, Requeue(p), NEW m \in Msgs
  PROVE  \/ /\ at[m] \in Workers /\ ProcOf[at[m]] = p
            /\ at'[m] = "work"
            /\ body'[m] \in Body
            /\ body'[m].event = body[m].event
            /\ body'[m].redelivered
         \/ /\ ~(at[m] \in Workers /\ ProcOf[at[m]] = p)
            /\ at'[m] = at[m] /\ body'[m] = body[m]
<1>1. CASE at[m] \in Workers /\ ProcOf[at[m]] = p
  <2>1. body[m] \in Body
    BY <1>1, ConsumerAssumption DEF TypeOK, Places
  <2>2. at'[m] = "work" /\ body'[m] = [body[m] EXCEPT !.redelivered = TRUE]
    BY <1>1 DEF Requeue
  <2> QED
    BY <1>1, <2>1, <2>2 DEF Body
<1>2. CASE ~(at[m] \in Workers /\ ProcOf[at[m]] = p)
  BY <1>2 DEF Requeue
<1> QED
  BY <1>1, <1>2

LEMMA DeliveryKnownStep ==
  ASSUME TypeOK, DeliveryKnown, [Next]_vars
  PROVE  DeliveryKnown'
<1> SUFFICES ASSUME NEW m \in Msgs, at'[m] \in Workers
             PROVE  /\ pc'[at'[m]] # "idle"
                    /\ job'[at'[m]].msg = m
                    /\ job'[at'[m]].event = body'[m].event
  BY DEF DeliveryKnown
<1>0. \A w \in Workers : w \notin Places
  BY ConsumerAssumption
<1>1. ASSUME NEW w \in Workers, HandlerStep(w)
      PROVE  /\ pc'[at'[m]] # "idle"
             /\ job'[at'[m]].msg = m
             /\ job'[at'[m]].event = body'[m].event
  <2>1. /\ at'[m] = at[m] /\ body'[m] = body[m]
        /\ pc[w] \in {"ack", "reject"} => at[m] # w
    <3>1. pc[w] # "idle" /\ job[w].msg \in Msgs
      BY <1>1, HandlerMoves, TypeBusy
    <3> QED
      BY <1>0, <1>1, <3>1, HandlerCopies DEF Place, Places, TypeOK, DeliveryKnown, Holds
  <2>2. CASE at[m] = w
    BY <1>1, <2>1, <2>2, HandlerMoves DEF DeliveryKnown, Holds
  <2>3. CASE at[m] # w
    BY <1>1, <2>1, <2>3, HandlerMoves DEF DeliveryKnown
  <2> QED
    BY <2>2, <2>3
<1>2. CASE BrokerStep
  <2>1. ASSUME NEW n \in Msgs, NEW e \in Events, Publish(e, n)
        PROVE  at'[m] = at[m] /\ body'[m] = body[m] /\ UNCHANGED <<pc, job>>
    BY <1>0, <2>1 DEF Publish, Place, Places, TypeOK
  <2>2. ASSUME NEW n \in Msgs, RetryExpires(n)
        PROVE  at'[m] = at[m] /\ body'[m] = body[m] /\ UNCHANGED <<pc, job>>
    BY <1>0, <2>2 DEF RetryExpires, Places, TypeOK
  <2>3. ASSUME NEW n \in Msgs, NEW w \in Workers, Deliver(w, n)
        PROVE  /\ pc'[at'[m]] # "idle"
               /\ job'[at'[m]].msg = m
               /\ job'[at'[m]].event = body'[m].event
    BY <1>0, <2>3 DEF Deliver, Places, TypeOK, DeliveryKnown
  <2>4. ASSUME NEW n \in Msgs, NEW p \in Procs, NackStopping(p, n)
        PROVE  at'[m] = at[m] /\ body'[m] = body[m] /\ UNCHANGED <<pc, job>>
    BY <1>0, <2>4 DEF NackStopping, Places, TypeOK
  <2> QED
    BY <1>2, <2>1, <2>2, <2>3, <2>4 DEF BrokerStep, DeliveryKnown
<1>3. ASSUME NEW p \in Procs, CloseChannel(p) \/ Crash(p)
      PROVE  /\ pc'[at'[m]] # "idle"
             /\ job'[at'[m]].msg = m
             /\ job'[at'[m]].event = body'[m].event
  <2>1. Requeue(p) /\ (DropHandlers(p) \/ UNCHANGED <<pc, job>>)
    BY <1>3 DEF CloseChannel, Crash
  <2>2. at'[m] = at[m] /\ body'[m] = body[m] /\ ProcOf[at[m]] # p
    BY <1>0, <2>1, RequeuedCopies DEF Places
  <2> QED
    BY <2>1, <2>2 DEF DropHandlers, DeliveryKnown
<1>4. CASE \/ \E p \in Procs : Stop(p) \/ Start(p)
           \/ \E e \in Events : LeaseExpires(e)
           \/ UNCHANGED vars
  BY <1>4 DEF Stop, Start, LeaseExpires, brokerVars, vars, DeliveryKnown
<1> QED
  BY <1>1, <1>2, <1>3, <1>4 DEF Next, ProcessStep

-------------------------------------------------------------------------------
(* Outputs come before completion, announcements before dead letters.       *)

\* What a handler's step does to the stores, as far as the outputs go.
LEMMA HandlerOutputs ==
  ASSUME TypeOK, NEW w \in Workers, HandlerStep(w)
  PROVE  /\ enriched \subseteq enriched' /\ failures \subseteq failures'
         /\ pc'[w] = "complete" => job[w].event \in enriched'
         /\ pc'[w] = "reject" => job[w].event \in failures'
         /\ \A e \in Events : inbox'[e] = "completed" =>
              inbox[e] = "completed" \/ (pc[w] = "complete" /\ e = job[w].event)
<1>1. \A l : Goto(w, l) => pc'[w] = l
  BY DEF Goto, TypeOK
<1>2. \A l, err : Raise(w, l, err) => pc'[w] = l
  BY <1>1 DEF Raise
<1>3. \A s : SetRow(w, s) => \A e \in Events : inbox'[e] = "completed" =>
               inbox[e] = "completed" \/ (s = "completed" /\ e = job[w].event)
  BY DEF SetRow, TypeOK
<1>4. CASE UNCHANGED storeVars /\ pc'[w] \notin {"complete", "reject"}
  BY <1>4 DEF storeVars
<1>5. CASE ParseFails(w) \/ SkipDuplicate(w) \/ HandleExhaustedFails(w)
  BY <1>5, <1>4, <1>1, <1>2 DEF ParseFails, SkipDuplicate, HandleExhaustedFails
<1>6. CASE \E err \in {"retryable", "permanent"} : EnrichFails(w, err)
  BY <1>6, <1>4, <1>2 DEF EnrichFails
<1>7. CASE ReleaseFails(w)
  BY <1>7, <1>4, <1>2, TypeAfterError DEF ReleaseFails
<1>8. CASE \E m \in Msgs : ScheduleRetry(w, m) \/ ScheduleRetryFails(w, m)
  BY <1>8, <1>4, <1>1 DEF ScheduleRetry, ScheduleRetryFails
<1>9. CASE Ack(w) \/ Reject(w) \/ StuckEnds(w)
  BY <1>9, <1>4, <1>1 DEF Ack, Reject, StuckEnds, Finish
<1>10. CASE InsertClaim(w) \/ ReclaimRow(w)
  BY <1>10, <1>1, <1>3 DEF InsertClaim, ReclaimRow
<1>11. CASE ClaimFails(w)
  BY <1>11, <1>2, <1>3, TypeAfterError DEF ClaimFails
<1>12. CASE EnrichSucceeds(w) \/ HandleExhausted(w)
  BY <1>12, <1>1 DEF EnrichSucceeds, HandleExhausted
<1>13. CASE MarkCompleted(w)
  BY <1>13, <1>1, <1>3 DEF MarkCompleted
<1>14. CASE MarkFails(w)
  BY <1>14, <1>2, <1>3 DEF MarkFails
<1>15. CASE ReleaseClaim(w)
  BY <1>15, <1>1, <1>3, TypeAfterError DEF ReleaseClaim
<1> QED
  BY <1>5, <1>6, <1>7, <1>8, <1>9, <1>10, <1>11, <1>12, <1>13, <1>14, <1>15
     DEF HandlerStep

LEMMA OutputHandler ==
  ASSUME TypeOK, OutputInv, NEW w \in Workers, HandlerStep(w)
  PROVE  OutputFirst' /\ CompletedHasOutput' /\ AnnounceFirst' /\ DeadLettersAnnounced'
<1> USE DEF OutputInv
<1>1. pc[w] # "idle" /\ job[w].msg \in Msgs /\ job[w].event \in Events
  BY HandlerMoves, TypeBusy
<1>2. OutputFirst' /\ AnnounceFirst'
  <2> SUFFICES ASSUME NEW v \in Workers
               PROVE  /\ pc'[v] = "complete" => job'[v].event \in enriched'
                      /\ pc'[v] = "reject" => job'[v].event \in failures'
    BY DEF OutputFirst, AnnounceFirst
  <2>1. CASE v = w
    BY <2>1, HandlerMoves, HandlerOutputs
  <2>2. CASE v # w
    BY <2>2, HandlerMoves, HandlerOutputs DEF OutputFirst, AnnounceFirst
  <2> QED
    BY <2>1, <2>2
<1>3. CompletedHasOutput'
  BY HandlerOutputs DEF CompletedHasOutput, OutputFirst
<1>4. DeadLettersAnnounced'
  <2> SUFFICES ASSUME NEW m \in Msgs, at'[m] = "dlq" PROVE body'[m].event \in failures'
    BY DEF DeadLettersAnnounced
  <2>1. \/ at[m] = "dlq" /\ body'[m] = body[m]
        \/ pc[w] = "reject" /\ Holds(w) /\ m = job[w].msg /\ body'[m] = body[m]
    BY <1>1, HandlerCopies DEF Place, TypeOK
  <2>2. CASE at[m] = "dlq" /\ body'[m] = body[m]
    BY <2>2, HandlerOutputs DEF DeadLettersAnnounced
  <2>3. CASE pc[w] = "reject" /\ Holds(w) /\ m = job[w].msg /\ body'[m] = body[m]
    BY <1>1, <2>3, HandlerOutputs DEF Holds, DeliveryKnown, AnnounceFirst
  <2> QED
    BY <2>1, <2>2, <2>3
<1> QED
  BY <1>2, <1>3, <1>4

LEMMA OutputStep == TypeOK /\ OutputInv /\ [Next]_vars => OutputInv'
<1> SUFFICES ASSUME TypeOK, OutputInv, [Next]_vars
             PROVE  OutputFirst' /\ CompletedHasOutput' /\ AnnounceFirst' /\ DeadLettersAnnounced'
  BY DeliveryKnownStep DEF OutputInv
<1> USE DEF OutputInv, OutputFirst, CompletedHasOutput, AnnounceFirst, DeadLettersAnnounced
<1>1. CASE \E w \in Workers : HandlerStep(w)
  BY <1>1, OutputHandler
<1>2. CASE BrokerStep
  <2>1. ASSUME NEW m \in Msgs, NEW e \in Events, Publish(e, m)
        PROVE  \A n \in Msgs : at'[n] = "dlq" => at[n] = "dlq" /\ body'[n] = body[n]
    BY <2>1 DEF Publish, Place, TypeOK
  <2>2. ASSUME NEW m \in Msgs, NEW w \in Workers, Deliver(w, m)
        PROVE  /\ \A v \in Workers : \/ pc'[v] = pc[v] /\ job'[v] = job[v]
                                     \/ pc'[v] = "claim"
               /\ \A n \in Msgs : at'[n] = "dlq" => at[n] = "dlq" /\ body'[n] = body[n]
    BY <2>2, ConsumerAssumption DEF Deliver, TypeOK, Places
  <2>3. ASSUME NEW m \in Msgs,
               RetryExpires(m) \/ (\E p \in Procs : NackStopping(p, m))
        PROVE  \A n \in Msgs : at'[n] = "dlq" => at[n] = "dlq" /\ body'[n] = body[n]
    BY <2>3 DEF RetryExpires, NackStopping, TypeOK
  <2>4. UNCHANGED storeVars
    BY <1>2 DEF BrokerStep, Publish, RetryExpires, Deliver, NackStopping
  <2>5. (\E m \in Msgs, w \in Workers : Deliver(w, m)) \/ UNCHANGED <<pc, job>>
    BY <1>2 DEF BrokerStep, Publish, RetryExpires, NackStopping
  <2> QED
    BY <1>2, <2>1, <2>2, <2>3, <2>4, <2>5 DEF BrokerStep, storeVars
<1>3. ASSUME NEW p \in Procs, CloseChannel(p) \/ Crash(p)
      PROVE  OutputFirst' /\ CompletedHasOutput' /\ AnnounceFirst' /\ DeadLettersAnnounced'
  <2>1. /\ Requeue(p) /\ (DropHandlers(p) \/ UNCHANGED <<pc, job>>)
        /\ UNCHANGED storeVars
    BY <1>3 DEF CloseChannel, Crash
  <2>2. \A v \in Workers : (pc'[v] = pc[v] /\ job'[v] = job[v]) \/ pc'[v] = "idle"
    BY <2>1 DEF DropHandlers
  <2>3. \A n \in Msgs : at'[n] = "dlq" => at[n] = "dlq" /\ body'[n] = body[n]
    BY <2>1, RequeuedCopies
  <2> QED
    BY <2>1, <2>2, <2>3 DEF storeVars
<1>4. CASE \/ \E p \in Procs : Stop(p) \/ Start(p)
           \/ UNCHANGED vars
  BY <1>4 DEF Stop, Start, brokerVars, storeVars, vars
<1>5. CASE \E e \in Events : LeaseExpires(e)
  BY <1>5 DEF LeaseExpires, brokerVars, TypeOK
<1> QED
  BY <1>1, <1>2, <1>3, <1>4, <1>5 DEF Next, ProcessStep

LEMMA OutputInvariant == Spec => [](TypeOK /\ OutputInv)
<1>1. Init => OutputInv
  BY ConsumerAssumption DEF Init, OutputInv, DeliveryKnown, OutputFirst, CompletedHasOutput,
     AnnounceFirst, DeadLettersAnnounced, Places
<1> QED
  BY <1>1, TypeInit, TypeStep, OutputStep, PTL DEF Spec

\* mark_completed only ever follows a durable enriched row, whatever crashes,
\* fails or runs on in between.
THEOREM CompletionFollowsOutput == Spec => []CompletedHasOutput
<1>1. OutputInv => CompletedHasOutput
  BY DEF OutputInv
<1> QED
  BY <1>1, OutputInvariant, PTL

\* No event reaches the dead-letter queue unannounced.
THEOREM DeadLettersFollowAnnouncement == Spec => []DeadLettersAnnounced
<1>1. OutputInv => DeadLettersAnnounced
  BY DEF OutputInv
<1> QED
  BY <1>1, OutputInvariant, PTL

-------------------------------------------------------------------------------
(* No loss.                                                                 *)

\* The paths a handler can take while claim calls work, and what each does to
\* the row of its event.
LEMMA HandlerPaths ==
  ASSUME TypeOK, ClaimCallsWork, NEW w \in Workers, HandlerStep(w)
  PROVE  /\ \A f \in Events \ {job[w].event} : inbox'[f] = inbox[f]
         /\ \/ /\ pc[w] = "claim" /\ pc'[w] = "reclaim" /\ Row(w) # "absent"
               /\ job[w].event \notin Malformed /\ UNCHANGED inbox
            \/ /\ pc[w] = "claim" /\ pc'[w] = "enrich"
               /\ job[w].event \notin Malformed /\ inbox'[job[w].event] = "processing"
            \/ /\ pc[w] = "reclaim" /\ pc'[w] = "enrich"
               /\ inbox'[job[w].event] = "processing"
            \/ /\ pc[w] = "claim" /\ pc'[w] = "exhaust"
               /\ job[w].event \in Malformed /\ UNCHANGED inbox
            \/ pc[w] = "reclaim" /\ pc'[w] = "ack" /\ ~Reclaimable(w) /\ UNCHANGED inbox
            \/ /\ pc[w] \in {"enrich", "complete"} /\ pc'[w] \in {"complete", "release"}
               /\ UNCHANGED inbox
            \/ pc[w] = "complete" /\ pc'[w] = "ack" /\ inbox'[job[w].event] = "completed"
            \/ /\ pc[w] = "release" /\ pc'[w] \in {"retry", "exhaust"}
               /\ \/ inbox'[job[w].event] = "absent"
                  \/ ~Leased(job[w].event) /\ UNCHANGED inbox
            \/ /\ pc[w] = "retry" /\ pc'[w] = "ack" /\ UNCHANGED inbox
               /\ \E m \in Msgs : /\ at[m] = "absent"
                                  /\ Place(m, "retry", NewBody(job[w].event, job[w].retry + 1))
            \/ /\ pc[w] \in {"retry", "exhaust"} /\ pc'[w] \in {"stuck", "reject"}
               /\ UNCHANGED inbox
            \/ pc[w] \in {"ack", "reject", "stuck"} /\ pc'[w] = "idle" /\ UNCHANGED inbox
<1>1. \A l : Goto(w, l) => pc'[w] = l
  BY DEF Goto, TypeOK
<1>2. \A l, err : Raise(w, l, err) => pc'[w] = l
  BY <1>1 DEF Raise
<1>3. \A s : SetRow(w, s) => /\ job[w].event \in Events => inbox'[job[w].event] = s
                             /\ \A f \in Events \ {job[w].event} : inbox'[f] = inbox[f]
  BY DEF SetRow, TypeOK
<1>4. pc[w] # "idle" /\ job[w].event \in Events
  BY HandlerMoves, TypeBusy
<1>5. ~Fault("claim") /\ ~Fault("release") /\ ~Fault("reply")
  BY DEF ClaimCallsWork, Fault
<1>6. CASE ParseFails(w)
  BY <1>6, <1>2 DEF ParseFails, storeVars
<1>7. CASE InsertClaim(w)
  BY <1>7, <1>1, <1>3, <1>4 DEF InsertClaim
<1>8. CASE ReclaimRow(w)
  BY <1>8, <1>1, <1>3, <1>4 DEF ReclaimRow
<1>9. CASE SkipDuplicate(w)
  BY <1>9, <1>1 DEF SkipDuplicate, storeVars
<1>10. CASE EnrichSucceeds(w) \/ \E err \in {"retryable", "permanent"} : EnrichFails(w, err)
  BY <1>10, <1>1, <1>2 DEF EnrichSucceeds, EnrichFails, storeVars
<1>11. CASE MarkCompleted(w)
  BY <1>11, <1>1, <1>3, <1>4 DEF MarkCompleted
<1>12. CASE MarkFails(w)
  BY <1>12, <1>2, <1>5 DEF MarkFails
<1>13. CASE ReleaseClaim(w)
  BY <1>13, <1>1, <1>3, <1>4, TypeAfterError DEF ReleaseClaim, Leased, Row
<1>14. CASE \E m \in Msgs : ScheduleRetry(w, m)
  BY <1>14, <1>1 DEF ScheduleRetry, storeVars
<1>15. CASE \/ \E m \in Msgs : ScheduleRetryFails(w, m)
            \/ HandleExhausted(w) \/ HandleExhaustedFails(w)
  BY <1>15, <1>1 DEF ScheduleRetryFails, HandleExhausted, HandleExhaustedFails, storeVars
<1>16. CASE Ack(w) \/ Reject(w) \/ StuckEnds(w)
  BY <1>16, <1>1 DEF Ack, Reject, StuckEnds, Finish, storeVars
<1> QED
  BY <1>5, <1>6, <1>7, <1>8, <1>9, <1>10, <1>11, <1>12, <1>13, <1>14, <1>15, <1>16
     DEF HandlerStep, ClaimFails, ReleaseFails

\* The only copies a handler touches are its own, when it settles it, and a free one.
LEMMA HandlerOwnCopy ==
  ASSUME TypeOK, DeliveryKnown, Held, NEW w \in Workers, HandlerStep(w)
  PROVE  /\ job[w].msg \in Msgs /\ at[job[w].msg] = w
         /\ body[job[w].msg].event = job[w].event
         /\ \A m \in Msgs : at[m] = w => m = job[w].msg
         /\ \A m \in Msgs \ {job[w].msg} :
              at[m] # "absent" => at'[m] = at[m] /\ body'[m] = body[m]
         /\ pc'[w] # "idle" => /\ at'[job[w].msg] = w
                               /\ body'[job[w].msg] = body[job[w].msg]
         /\ pc[w] = "reject" => /\ at'[job[w].msg] = "dlq"
                                /\ body'[job[w].msg] = body[job[w].msg]
         /\ pc[w] # "stuck"
<1>1. pc[w] # "idle" /\ job[w].msg \in Msgs
  BY HandlerMoves, TypeBusy
<1>2. at[job[w].msg] = w /\ w # "absent"
  BY <1>1, ConsumerAssumption DEF Held, Places
<1>3. /\ body[job[w].msg].event = job[w].event
      /\ \A m \in Msgs : at[m] = w => m = job[w].msg
  BY <1>1, <1>2 DEF DeliveryKnown
<1>4. \A m \in Msgs \ {job[w].msg} : at[m] # "absent" => at'[m] = at[m] /\ body'[m] = body[m]
  BY HandlerCopies DEF Place, TypeOK
<1>5. pc[w] # "stuck"
  BY <1>2, HandlerMoves DEF HandlerStep, StuckEnds, Holds, ParseFails, InsertClaim, ReclaimRow,
     SkipDuplicate, ClaimFails, EnrichSucceeds, EnrichFails, MarkCompleted, MarkFails, ReleaseClaim,
     ReleaseFails, ScheduleRetry, ScheduleRetryFails, HandleExhausted, HandleExhaustedFails,
     Ack, Reject
<1>6. pc'[w] # "idle" => pc[w] \notin {"ack", "reject"}
  BY DEF HandlerStep, Finish, Goto, TypeOK, StuckEnds, ParseFails, InsertClaim, ReclaimRow,
     SkipDuplicate, ClaimFails, EnrichSucceeds, EnrichFails, MarkCompleted, MarkFails, ReleaseClaim,
     ReleaseFails, ScheduleRetry, ScheduleRetryFails, HandleExhausted, HandleExhaustedFails,
     Ack, Reject
<1>7. pc'[w] # "idle" => at'[job[w].msg] = w /\ body'[job[w].msg] = body[job[w].msg]
  BY <1>1, <1>2, <1>6, HandlerCopies DEF Place, TypeOK
<1>8. pc[w] = "reject" => at'[job[w].msg] = "dlq" /\ body'[job[w].msg] = body[job[w].msg]
  BY <1>1, <1>2, HandlerCopies DEF Holds, TypeOK
<1> QED
  BY <1>1, <1>2, <1>3, <1>4, <1>5, <1>7, <1>8

LEMMA HeldHandler ==
  ASSUME TypeOK, DeliveryKnown, Held, NEW w \in Workers, HandlerStep(w)
  PROVE  Held'
<1> SUFFICES ASSUME NEW v \in Workers, pc'[v] # "idle" PROVE at'[job'[v].msg] = v
  BY DEF Held
<1>1. CASE v = w
  <2>1. job'[w].msg = job[w].msg
    BY <1>1, HandlerMoves
  <2> QED
    BY <1>1, <2>1, HandlerOwnCopy
<1>2. CASE v # w
  <2>1. pc'[v] = pc[v] /\ job'[v] = job[v]
    BY <1>2, HandlerMoves
  <2>2. at[job[v].msg] = v /\ job[v].msg \in Msgs /\ v # "absent"
    BY <2>1, TypeBusy, ConsumerAssumption DEF Held, Places
  <2>3. job[v].msg # job[w].msg
    BY <1>2, <2>2, HandlerOwnCopy
  <2> QED
    BY <2>1, <2>2, <2>3, HandlerOwnCopy
<1> QED
  BY <1>1, <1>2

LEMMA RowsHandler ==
  ASSUME TypeOK, ClaimCallsWork, ParsedOnly, LegacyOnly, NEW w \in Workers, HandlerStep(w)
  PROVE  ParsedOnly' /\ LegacyOnly'
<1>0. job[w].event \in Events /\ pc[w] # "idle"
  BY HandlerMoves, TypeBusy
<1>1. \A v \in Workers : pc'[v] \in Owning \cup {"reclaim"} => job'[v].event \notin Malformed
  <2> SUFFICES ASSUME NEW v \in Workers, pc'[v] \in Owning \cup {"reclaim"}
               PROVE  job'[v].event \notin Malformed
    OBVIOUS
  <2>1. CASE v = w
    <3>1. job'[w].event = job[w].event
      BY <2>1, HandlerMoves DEF Owning
    <3>2. job[w].event \notin Malformed
      BY <2>1, HandlerPaths DEF ParsedOnly, Owning
    <3> QED
      BY <2>1, <3>1, <3>2
  <2>2. CASE v # w
    BY <2>2, HandlerMoves DEF ParsedOnly
  <2> QED
    BY <2>1, <2>2
<1>2. LET e == job[w].event
      IN  \/ inbox'[e] = inbox[e]
          \/ inbox'[e] \in {"absent", "completed"}
          \/ inbox'[e] = "processing" /\ e \notin Malformed
  BY HandlerPaths DEF ParsedOnly
<1>3. \A f \in Events \ {job[w].event} : inbox'[f] = inbox[f]
  BY HandlerPaths
<1>4. \A e \in Malformed : ~Leased(e)'
  BY <1>2, <1>3, ConsumerAssumption DEF ParsedOnly, Leased
<1>5. LegacyOnly'
  BY <1>2, <1>3 DEF LegacyOnly
<1> QED
  BY <1>1, <1>4, <1>5 DEF ParsedOnly

\* The copy in the hands of handler w keeps its claim covered until the claim ends.
LEMMA CoverHandler ==
  ASSUME TypeOK, ClaimCallsWork, LossInv, NEW w \in Workers, HandlerStep(w)
  PROVE  ClaimCovered'
<1> USE DEF LossInv
<1> SUFFICES ASSUME NEW e \in Events, Leased(e)' PROVE \E m \in Copies(e)' : Resumes(m)'
  BY DEF ClaimCovered
<1>0. /\ pc[w] # "idle" /\ job[w].event \in Events
      /\ \A v \in Workers : v \notin Places
  BY HandlerMoves, TypeBusy, ConsumerAssumption
<1>1. CASE pc'[w] \in Owning /\ job[w].event = e
  <2> PICK own \in Msgs : own = job[w].msg
    BY HandlerOwnCopy
  <2>1. own \in Copies(e)'
    BY <1>0, <1>1, HandlerOwnCopy DEF Copies, Owning, Places
  <2>2. Resumes(own)'
    BY <1>1, HandlerOwnCopy DEF Resumes, Owning
  <2> QED
    BY <2>1, <2>2
<1>2. CASE ~(pc'[w] \in Owning /\ job[w].event = e)
  <2>1. Leased(e)
    BY <1>0, <1>2, HandlerPaths DEF Leased, Owning
  <2>2. PICK m \in Copies(e) : Resumes(m)
    BY <2>1 DEF ClaimCovered
  <2>3. CASE at[m] # w
    <3>1. m \in Msgs /\ at'[m] = at[m] /\ body'[m] = body[m]
      BY <2>2, <2>3, HandlerOwnCopy DEF Copies
    <3>2. at[m] \in Workers => pc'[at[m]] = pc[at[m]] /\ job'[at[m]] = job[at[m]]
      BY <2>3, HandlerMoves
    <3> QED
      BY <2>2, <3>1, <3>2 DEF Copies, Resumes
  <2>4. CASE at[m] = w
    <3>1. m = job[w].msg /\ job[w].event = e
      BY <2>2, <2>4, HandlerOwnCopy DEF Copies
    <3>2. \/ pc[w] \in Owning
          \/ pc[w] \in {"claim", "reclaim"} /\ job[w].redelivered
      BY <1>0, <2>2, <2>4 DEF Resumes, Places
    <3>3. pc'[w] = "reclaim" /\ job[w].redelivered
      BY <1>0, <1>2, <2>1, <3>1, <3>2, HandlerPaths DEF Leased, Owning, ParsedOnly, Reclaimable, Row
    <3>4. m \in Copies(e)' /\ at'[m] = w /\ job'[w].redelivered
      BY <1>0, <2>2, <2>4, <3>1, <3>3, HandlerOwnCopy, HandlerMoves DEF Copies
    <3> QED
      BY <3>3, <3>4 DEF Resumes
  <2> QED
    BY <2>3, <2>4
<1> QED
  BY <1>1, <1>2

\* While the event of handler w is neither completed nor skipped, some copy carries it.
LEMMA CarryHandler ==
  ASSUME TypeOK, ClaimCallsWork, LossInv, NEW w \in Workers, HandlerStep(w)
  PROVE  Carried'
<1> USE DEF LossInv
<1>0. /\ pc[w] # "idle" /\ job[w].event \in Events
      /\ \A v \in Workers : v \notin Places
  BY HandlerMoves, TypeBusy, ConsumerAssumption
<1> SUFFICES ASSUME NEW e \in published \ LegacyEvents, inbox'[e] # "completed"
             PROVE  \E m \in Copies(e)' : Carries(m)'
  BY HandlerMoves DEF Carried
<1>1. e \in Events
  BY DEF TypeOK
<1>2. inbox[e] # "completed"
  BY <1>1, CompletedStays DEF Next
<1> PICK own \in Msgs : own = job[w].msg
  BY HandlerOwnCopy
\* The handler's own copy is still there, or is now in the dead-letter queue.
<1>3. CASE job[w].event = e /\ pc'[w] \in PCs \ {"idle", "reclaim", "ack"}
  <2>1. own \in Copies(e)'
    BY <1>0, <1>3, HandlerOwnCopy DEF Copies, Places
  <2>2. Carries(own)'
    BY <1>3, HandlerOwnCopy DEF Carries
  <2> QED
    BY <2>1, <2>2
<1>4. CASE job[w].event = e /\ pc[w] = "reject"
  <2>1. own \in Copies(e)' /\ Carries(own)'
    BY <1>4, HandlerOwnCopy DEF Copies, Carries
  <2> QED
    BY <2>1
\* The retry copy takes over.
<1>5. CASE job[w].event = e /\ pc[w] = "retry" /\ pc'[w] = "ack"
  <2>1. PICK m \in Msgs : Place(m, "retry", NewBody(job[w].event, job[w].retry + 1))
    BY <1>5, HandlerPaths
  <2>2. m \in Copies(e)' /\ Carries(m)'
    BY <1>5, <2>1 DEF Copies, Carries, Place, NewBody, TypeOK
  <2> QED
    BY <2>2
\* The insert met a row: whoever has the claim carries the event.
<1>6. CASE job[w].event = e /\ pc[w] = "claim" /\ pc'[w] = "reclaim"
  <2>1. Leased(e) /\ UNCHANGED inbox
    <3>1. UNCHANGED inbox /\ inbox[e] # "absent"
      BY <1>6, HandlerPaths DEF Row
    <3> QED
      BY <1>1, <1>2, <3>1 DEF LegacyOnly, Leased, TypeOK, Rows
  <2>2. PICK m \in Copies(e) : Resumes(m)
    BY <1>1, <2>1 DEF ClaimCovered
  <2>3. CASE at[m] # w
    <3>1. m \in Msgs /\ at'[m] = at[m] /\ body'[m] = body[m]
      BY <1>6, <2>2, <2>3, HandlerOwnCopy DEF Copies
    <3>2. at[m] \in Workers => pc'[at[m]] = pc[at[m]] /\ job'[at[m]] = job[at[m]]
      BY <2>3, HandlerMoves
    <3>3. body[m].event = e
      BY <2>2 DEF Copies
    <3> QED
      BY <2>1, <2>2, <3>1, <3>2, <3>3 DEF Copies, Resumes, Carries, Leased, PCs, Owning
  <2>4. CASE at[m] = w
    <3>1. m = own /\ job[w].redelivered
      BY <1>0, <1>6, <2>2, <2>4, HandlerOwnCopy DEF Resumes, Copies, Owning, Places
    <3>2. own \in Copies(e)' /\ at'[own] = w /\ job'[w].redelivered /\ body'[own].event = e
      BY <1>0, <1>6, <3>1, HandlerOwnCopy, HandlerMoves DEF Copies, Places
    <3> QED
      BY <1>6, <2>1, <3>2 DEF Carries, Leased
  <2> QED
    BY <2>3, <2>4
<1>7. \/ pc'[w] \in PCs \ {"idle", "reclaim", "ack"}
      \/ pc[w] = "claim" /\ pc'[w] = "reclaim"
      \/ pc[w] = "reclaim" /\ ~Reclaimable(w) /\ UNCHANGED inbox
      \/ pc[w] = "complete" /\ inbox'[job[w].event] = "completed"
      \/ pc[w] = "retry" /\ pc'[w] = "ack"
      \/ pc[w] \in {"ack", "reject"} /\ UNCHANGED inbox
  BY HandlerPaths, HandlerOwnCopy DEF PCs
\* Otherwise the copy that carried the event before still does.
<1>8. CASE \/ job[w].event # e
           \/ pc[w] = "reclaim" /\ ~Reclaimable(w) /\ UNCHANGED inbox
           \/ pc[w] = "ack" /\ UNCHANGED inbox
  <2>1. PICK m \in Copies(e) : Carries(m)
    BY <1>2 DEF Carried
  <2>2. at[m] # w
    <3> SUFFICES ASSUME at[m] = w PROVE FALSE
      OBVIOUS
    <3>1. m = own /\ job[w].event = e
      BY <2>1, HandlerOwnCopy DEF Copies
    <3>2. \/ pc[w] \in PCs \ {"idle", "reclaim", "ack"}
          \/ pc[w] = "reclaim" /\ Reclaimable(w)
      BY <1>0, <2>1, <3>1 DEF Carries, Copies, Places, Reclaimable, Row, Leased
    <3> QED
      BY <1>8, <3>1, <3>2
  <2>3. m \in Msgs /\ at'[m] = at[m] /\ body'[m] = body[m]
    BY <2>1, <2>2, HandlerOwnCopy DEF Copies
  <2>4. at[m] \in Workers => pc'[at[m]] = pc[at[m]] /\ job'[at[m]] = job[at[m]]
    BY <2>2, HandlerMoves
  <2>5. Leased(e) => Leased(e)'
    BY <1>1, <1>8, HandlerPaths DEF Leased
  <2>6. body[m].event = e
    BY <2>1 DEF Copies
  <2> QED
    BY <2>1, <2>3, <2>4, <2>5, <2>6 DEF Copies, Carries, Leased
<1> QED
  BY <1>3, <1>4, <1>5, <1>6, <1>7, <1>8

\* Only the steps of the broker: a copy appears, moves on, or is marked redelivered.
LEMMA LossBroker ==
  ASSUME TypeOK, LossInv, BrokerStep
  PROVE  Held' /\ ParsedOnly' /\ LegacyOnly' /\ ClaimCovered' /\ Carried'
<1> USE DEF LossInv
<1>0. UNCHANGED storeVars /\ \A v \in Workers : v \notin Places
  BY ConsumerAssumption DEF BrokerStep, Publish, RetryExpires, Deliver, NackStopping
<1>1. \A v \in Workers : pc[v] # "idle" => job[v].msg \in Msgs
  BY TypeBusy
<1>2. ASSUME \A v \in Workers : pc'[v] = pc[v] /\ job'[v] = job[v],
             \A m \in Msgs : at[m] \in Workers => at'[m] = at[m],
             \A m \in Msgs : at[m] # "absent" =>
               /\ at'[m] = at[m] \/ (at[m] = "retry" /\ at'[m] = "work")
               /\ body'[m].event = body[m].event
               /\ body[m].redelivered => body'[m].redelivered,
             \A e \in published' \ published :
               \E m \in Msgs : at'[m] = "work" /\ body'[m].event = e
      PROVE  Held' /\ ParsedOnly' /\ LegacyOnly' /\ ClaimCovered' /\ Carried'
  <2>1. Held'
    BY <1>1, <1>2 DEF Held
  <2>2. ParsedOnly' /\ LegacyOnly'
    BY <1>0, <1>2 DEF ParsedOnly, LegacyOnly, Leased, storeVars
  <2>3. \A e : Copies(e) \subseteq Copies(e)'
    BY <1>2 DEF Copies
  <2>4. \A e : \A m \in Copies(e) : (Resumes(m) => Resumes(m)') /\ (Carries(m) => Carries(m)')
    BY <1>0, <1>2 DEF Copies, Resumes, Carries, Leased, storeVars, Places
  <2>5. ClaimCovered'
    BY <1>0, <2>3, <2>4 DEF ClaimCovered, Leased, storeVars
  <2>6. \A e \in published' \ published : \E m \in Copies(e)' : Carries(m)'
    BY <1>2 DEF Copies, Carries
  <2>7. Carried'
    BY <1>0, <2>3, <2>4, <2>6 DEF Carried, storeVars
  <2> QED
    BY <2>1, <2>2, <2>5, <2>7
<1>3. ASSUME NEW n \in Msgs, NEW f \in Events, Publish(f, n)
      PROVE  Held' /\ ParsedOnly' /\ LegacyOnly' /\ ClaimCovered' /\ Carried'
  <2>1. UNCHANGED <<pc, job>> /\ \A m \in Msgs \ {n} : at'[m] = at[m] /\ body'[m] = body[m]
    BY <1>3 DEF Publish, Place, TypeOK
  <2>2. /\ at[n] = "absent" /\ at'[n] = "work" /\ body'[n].event = f
        /\ published' = published \cup {f}
    BY <1>3 DEF Publish, Place, NewBody, TypeOK
  <2>3. \A m \in Msgs : at[m] \in Workers => at'[m] = at[m]
    BY <1>0, <2>1, <2>2 DEF Places
  <2>4. \A m \in Msgs : at[m] # "absent" =>
          /\ at'[m] = at[m] \/ (at[m] = "retry" /\ at'[m] = "work")
          /\ body'[m].event = body[m].event
          /\ body[m].redelivered => body'[m].redelivered
    BY <2>1, <2>2
  <2>5. \A e \in published' \ published : \E m \in Msgs : at'[m] = "work" /\ body'[m].event = e
    BY <2>2
  <2> QED
    BY <1>2, <2>1, <2>3, <2>4, <2>5
<1>4. ASSUME NEW n \in Msgs, RetryExpires(n)
      PROVE  Held' /\ ParsedOnly' /\ LegacyOnly' /\ ClaimCovered' /\ Carried'
  <2>1. /\ UNCHANGED <<body, published, pc, job>>
        /\ \A m \in Msgs \ {n} : at'[m] = at[m]
        /\ at[n] = "retry" /\ at'[n] = "work"
    BY <1>4 DEF RetryExpires, TypeOK
  <2>2. \A m \in Msgs : at[m] \in Workers => at'[m] = at[m]
    BY <1>0, <2>1 DEF Places
  <2>3. \A m \in Msgs : at[m] # "absent" =>
          /\ at'[m] = at[m] \/ (at[m] = "retry" /\ at'[m] = "work")
          /\ body'[m].event = body[m].event
          /\ body[m].redelivered => body'[m].redelivered
    BY <2>1
  <2> QED
    BY <1>2, <2>1, <2>2, <2>3
<1>5. ASSUME NEW n \in Msgs, NEW p \in Procs, NackStopping(p, n)
      PROVE  Held' /\ ParsedOnly' /\ LegacyOnly' /\ ClaimCovered' /\ Carried'
  <2>1. body[n] \in Body /\ body' = [body EXCEPT ![n] = [body[n] EXCEPT !.redelivered = TRUE]]
    BY <1>5 DEF NackStopping, TypeOK
  <2>2. \A m \in Msgs : /\ body'[m].event = body[m].event
                        /\ body[m].redelivered => body'[m].redelivered
    BY <2>1 DEF TypeOK, Body
  <2>3. UNCHANGED <<at, published, pc, job>>
    BY <1>5 DEF NackStopping
  <2>4. \A m \in Msgs : at[m] # "absent" =>
          /\ at'[m] = at[m] \/ (at[m] = "retry" /\ at'[m] = "work")
          /\ body'[m].event = body[m].event
          /\ body[m].redelivered => body'[m].redelivered
    BY <2>2, <2>3
  <2> QED
    BY <1>2, <2>3, <2>4
<1>6. ASSUME NEW n \in Msgs, NEW w \in Workers, Deliver(w, n)
      PROVE  Held' /\ ParsedOnly' /\ LegacyOnly' /\ ClaimCovered' /\ Carried'
  <2>1. /\ pc'[w] = "claim" /\ job'[w].msg = n /\ job'[w].event = body[n].event
        /\ job'[w].redelivered = body[n].redelivered
        /\ pc[w] = "idle" /\ at[n] = "work" /\ at'[n] = w
        /\ UNCHANGED <<body, published>>
        /\ \A v \in Workers \ {w} : pc'[v] = pc[v] /\ job'[v] = job[v]
        /\ \A m \in Msgs \ {n} : at'[m] = at[m]
    BY <1>6 DEF Deliver, TypeOK
  <2>2. Held'
    BY <1>0, <1>1, <2>1 DEF Held, Places
  <2>3. ParsedOnly' /\ LegacyOnly'
    BY <1>0, <2>1 DEF ParsedOnly, LegacyOnly, Leased, storeVars, Owning
  <2>4. \A m \in Msgs : at[m] # w
    BY <2>1 DEF DeliveryKnown
  <2>5. \A e : Copies(e) \subseteq Copies(e)'
    BY <1>0, <2>1 DEF Copies, Places
  <2>6. \A m \in Msgs : (Resumes(m) => Resumes(m)') /\ (Carries(m) => Carries(m)')
    BY <1>0, <2>1, <2>4 DEF Resumes, Carries, Leased, storeVars, Places, PCs
  <2>7. ClaimCovered'
    BY <1>0, <2>5, <2>6 DEF ClaimCovered, Leased, storeVars, Copies
  <2>8. Carried'
    BY <1>0, <2>1, <2>5, <2>6 DEF Carried, storeVars, Copies
  <2> QED
    BY <2>2, <2>3, <2>7, <2>8
<1> QED
  BY <1>3, <1>4, <1>5, <1>6 DEF BrokerStep

\* A closed channel hands every copy and every claim of its handlers to a redelivery.
LEMMA LossClose ==
  ASSUME TypeOK, LossInv, NEW p \in Procs, Requeue(p), DropHandlers(p),
         UNCHANGED <<published, storeVars>>
  PROVE  Held' /\ ParsedOnly' /\ LegacyOnly' /\ ClaimCovered' /\ Carried'
<1> USE DEF LossInv
<1>1. /\ \A v \in Workers : /\ ProcOf[v] = p => pc'[v] = "idle"
                            /\ ProcOf[v] # p => pc'[v] = pc[v] /\ job'[v] = job[v]
      /\ \A v \in Workers : v \notin Places
  BY ConsumerAssumption DEF DropHandlers
<1>2. \A v \in Workers : pc[v] # "idle" => job[v].msg \in Msgs
  BY TypeBusy
<1>3. Held'
  BY <1>1, <1>2, RequeuedCopies DEF Held
<1>4. ParsedOnly' /\ LegacyOnly'
  BY <1>1 DEF ParsedOnly, LegacyOnly, Leased, storeVars, Owning
<1>5. \A e : Copies(e) \subseteq Copies(e)'
  BY <1>1, RequeuedCopies DEF Copies, Places
<1>6. ASSUME NEW m \in Msgs PROVE (Resumes(m) => Resumes(m)') /\ (Carries(m) => Carries(m)')
  <2>1. CASE at[m] \in Workers /\ ProcOf[at[m]] = p
    BY <2>1, RequeuedCopies DEF Resumes, Carries
  <2>2. CASE ~(at[m] \in Workers /\ ProcOf[at[m]] = p)
    BY <1>1, <2>2, RequeuedCopies DEF Resumes, Carries, Leased, storeVars
  <2> QED
    BY <2>1, <2>2
<1>7. ClaimCovered'
  BY <1>5, <1>6 DEF ClaimCovered, Leased, storeVars, Copies
<1>8. Carried'
  BY <1>5, <1>6 DEF Carried, storeVars, Copies
<1> QED
  BY <1>3, <1>4, <1>7, <1>8

LEMMA LossStep ==
  ASSUME ClaimCallsWork
  PROVE  TypeOK /\ LossInv /\ [Next]_vars => LossInv'
<1> SUFFICES ASSUME TypeOK, LossInv, [Next]_vars
             PROVE  Held' /\ ParsedOnly' /\ LegacyOnly' /\ ClaimCovered' /\ Carried'
  BY DeliveryKnownStep DEF LossInv
<1>1. CASE \E w \in Workers : HandlerStep(w)
  BY <1>1, HeldHandler, RowsHandler, CoverHandler, CarryHandler DEF LossInv
<1>2. CASE BrokerStep
  BY <1>2, LossBroker
<1>3. ASSUME NEW p \in Procs, CloseChannel(p) \/ Crash(p)
      PROVE  Held' /\ ParsedOnly' /\ LegacyOnly' /\ ClaimCovered' /\ Carried'
  BY <1>3, LossClose DEF CloseChannel, Crash, ClaimCallsWork, Fault
<1>4. CASE \/ \E p \in Procs : Stop(p) \/ Start(p)
           \/ UNCHANGED vars
  BY <1>4 DEF Stop, Start, brokerVars, storeVars, vars, LossInv, Held, ParsedOnly, LegacyOnly,
              ClaimCovered, Carried, Copies, Resumes, Carries, Leased
<1>5. CASE \E e \in Events : LeaseExpires(e)
  <2>1. \A e \in Events : /\ Leased(e)' <=> Leased(e)
                          /\ inbox[e] = "completed" => inbox'[e] = "completed"
                          /\ inbox'[e] = "legacy" => inbox[e] = "legacy"
    BY <1>5 DEF LeaseExpires, TypeOK, Leased
  <2>2. UNCHANGED <<brokerVars, pc, job>>
    BY <1>5 DEF LeaseExpires
  <2>3. \A e : Copies(e) \subseteq Copies(e)'
    BY <2>2 DEF brokerVars, Copies
  <2>4. \A e \in Events : \A m \in Copies(e) :
          (Resumes(m) => Resumes(m)') /\ (Carries(m) => Carries(m)')
    BY <2>1, <2>2 DEF brokerVars, Copies, Resumes, Carries
  <2>5. ASSUME NEW e \in Events, Leased(e)' PROVE \E m \in Copies(e)' : Resumes(m)'
    <3>1. PICK m \in Copies(e) : Resumes(m)
      BY <2>1, <2>5 DEF ClaimCovered, LossInv
    <3> QED
      BY <2>3, <2>4, <3>1
  <2>6. published' = published /\ published \subseteq Events
    BY <2>2 DEF brokerVars, TypeOK
  <2>7. ASSUME NEW e \in published \ LegacyEvents, inbox'[e] # "completed"
        PROVE  \E m \in Copies(e)' : Carries(m)'
    <3>1. PICK m \in Copies(e) : Carries(m)
      BY <2>1, <2>6, <2>7 DEF Carried, LossInv
    <3> QED
      BY <2>3, <2>4, <2>6, <3>1
  <2>8. ClaimCovered' /\ Carried'
    BY <2>5, <2>6, <2>7 DEF ClaimCovered, Carried
  <2> QED
    BY <2>1, <2>2, <2>8, ConsumerAssumption DEF brokerVars, LossInv, Held, ParsedOnly, LegacyOnly
<1> QED
  BY <1>1, <1>2, <1>3, <1>4, <1>5 DEF Next, ProcessStep

LEMMA LossInit == Init => LossInv
BY ConsumerAssumption DEF Init, LossInv, DeliveryKnown, Held, ParsedOnly, LegacyOnly, ClaimCovered,
   Carried, Leased, Places, Owning

\* No published event is lost while try_claim and release_claim do their work:
\* whatever crashes, closes, expires or is published twice, an event that is not
\* completed has a copy in the broker.  The run LossByFailedClaim shows that the
\* assumption is needed.
THEOREM NothingIsLost ==
  ASSUME ClaimCallsWork
  PROVE  Spec => []NoLoss
<1>1. TypeOK /\ LossInv /\ [Next]_vars => LossInv'
  BY LossStep
<1>2. LossInv => NoLoss
  BY DEF LossInv, NoLoss, Carried
<1> QED
  BY <1>1, <1>2, LossInit, TypeCorrect, PTL DEF Spec

-------------------------------------------------------------------------------
(* Exclusive processing.                                                    *)

LEMMA FirstDeliveriesStep ==
  ASSUME Undisturbed, TypeOK, FirstDeliveries, [Next]_vars
  PROVE  FirstDeliveries'
<1>0. ~Fault("crash") /\ ~Fault("restart") /\ ~Fault("lease")
  BY DEF Undisturbed, Fault
<1>1. ASSUME NEW w \in Workers, HandlerStep(w) PROVE FirstDeliveries'
  <2>1. UNCHANGED chan
    BY <1>1, HandlerMoves
  <2>2. \A m \in Msgs : body'[m] # NoBody => ~body'[m].redelivered
    BY <1>1, HandlerMoves, HandlerCopies, TypeBusy DEF Place, NewBody, TypeOK, FirstDeliveries
  <2>3. \A v \in Workers : pc'[v] # "idle" => ~job'[v].redelivered
    BY <1>1, HandlerMoves DEF FirstDeliveries
  <2>4. \A e \in Events : inbox'[e] # "stale"
    <3>1. UNCHANGED inbox \/ \E s \in Rows \ {"stale"} : SetRow(w, s)
      BY <1>1 DEF Rows, HandlerStep, ParseFails, InsertClaim, ReclaimRow, SkipDuplicate, ClaimFails,
         EnrichSucceeds, EnrichFails, MarkCompleted, MarkFails, ReleaseClaim, ReleaseFails,
         ScheduleRetry, ScheduleRetryFails, HandleExhausted, HandleExhaustedFails, Ack, Reject,
         StuckEnds, storeVars
    <3> QED
      BY <3>1 DEF SetRow, TypeOK, FirstDeliveries
  <2> QED
    BY <2>1, <2>2, <2>3, <2>4 DEF FirstDeliveries
<1>2. ASSUME NEW m \in Msgs, NEW e \in Events, Publish(e, m) PROVE FirstDeliveries'
  BY <1>2 DEF Publish, Place, NewBody, TypeOK, FirstDeliveries, storeVars
<1>3. ASSUME NEW m \in Msgs, RetryExpires(m) PROVE FirstDeliveries'
  BY <1>3 DEF RetryExpires, FirstDeliveries, storeVars
<1>4. ASSUME NEW m \in Msgs, NEW w \in Workers, Deliver(w, m) PROVE FirstDeliveries'
  BY <1>4 DEF Deliver, FirstDeliveries, TypeOK, storeVars
<1>5. ~\E m \in Msgs, p \in Procs : NackStopping(p, m)
  BY DEF NackStopping, FirstDeliveries
<1>6. ~\E p \in Procs : Stop(p) \/ CloseChannel(p) \/ Crash(p) \/ Start(p)
  BY <1>0 DEF Stop, CloseChannel, Crash, Start, FirstDeliveries
<1>7. ~\E e \in Events : LeaseExpires(e)
  BY <1>0 DEF LeaseExpires
<1>8. CASE UNCHANGED vars
  BY <1>8 DEF vars, FirstDeliveries
<1> QED
  BY <1>1, <1>2, <1>3, <1>4, <1>5, <1>6, <1>7, <1>8 DEF Next, BrokerStep, ProcessStep

\* A handler enters the working states through a row nobody else can own, and
\* the row outlasts them.
LEMMA ExclusionHandler ==
  ASSUME TypeOK, ExclusionInv, NEW w \in Workers, HandlerStep(w)
  PROVE  WorkIsClaimed' /\ OneWorks'
<1> USE DEF ExclusionInv
<1>0. pc[w] # "idle" /\ job[w].event \in Events /\ ~job[w].redelivered
  BY HandlerMoves, TypeBusy DEF FirstDeliveries
<1>1. /\ \A l : Goto(w, l) => pc'[w] = l
      /\ \A l, err : Raise(w, l, err) => pc'[w] = l
  BY DEF Goto, Raise, TypeOK
<1>2. \A s : SetRow(w, s) => /\ inbox'[job[w].event] = s
                             /\ \A e \in Events \ {job[w].event} : inbox'[e] = inbox[e]
  BY <1>0 DEF SetRow, TypeOK
<1>3. \A v \in Workers \ {w} : pc'[v] = pc[v] /\ job'[v] = job[v]
  BY HandlerMoves
<1>4. pc'[w] \in Owning => job'[w].event = job[w].event
  BY HandlerMoves DEF Owning
<1>5. \A v \in Workers : pc[v] \in Owning => job[v].event \in Events
  BY TypeBusy DEF Owning
\* The claim: until now nobody worked on the event.
<1>6. CASE /\ Row(w) \in {"absent", "legacy"}
           /\ pc'[w] \in Owning => SetRow(w, "processing")
           /\ UNCHANGED inbox \/ SetRow(w, "processing")
  <2>1. \A v \in Workers : pc[v] \in Owning => job[v].event # job[w].event
    BY <1>0, <1>6 DEF WorkIsClaimed, Row
  <2>2. WorkIsClaimed'
    BY <1>2, <1>3, <1>4, <1>5, <1>6, <2>1 DEF WorkIsClaimed
  <2>3. OneWorks'
    BY <1>3, <1>4, <2>1 DEF OneWorks, Working, Owning
  <2> QED
    BY <2>2, <2>3
\* In the working states, and out of them.
<1>7. CASE /\ pc'[w] \in Owning => pc[w] \in Owning
           /\ \/ UNCHANGED inbox
              \/ SetRow(w, "completed")
              \/ SetRow(w, "absent") /\ pc[w] \in Owning /\ pc'[w] \notin Owning
  <2>1. OneWorks'
    BY <1>3, <1>4, <1>7 DEF OneWorks, Working, Owning
  <2>2. ASSUME NEW v \in Workers, pc'[v] \in Owning
        PROVE  inbox'[job'[v].event] \in {"processing", "completed"}
    <3>1. pc[v] \in Owning /\ job'[v].event = job[v].event
      BY <1>3, <1>4, <1>7, <2>2
    <3>2. inbox[job[v].event] \in {"processing", "completed"} /\ job[v].event \in Events
      BY <1>5, <3>1 DEF WorkIsClaimed
    <3>3. CASE SetRow(w, "absent") /\ pc[w] \in Owning /\ pc'[w] \notin Owning
      <4>1. job[v].event # job[w].event
        BY <1>5, <2>2, <3>1, <3>3 DEF OneWorks, Working, Owning
      <4> QED
        BY <1>2, <3>1, <3>2, <3>3, <4>1
    <3> QED
      BY <1>2, <1>7, <3>1, <3>2, <3>3
  <2> QED
    BY <2>1, <2>2 DEF WorkIsClaimed
<1>8. CASE InsertClaim(w)
  BY <1>1, <1>6, <1>7, <1>8 DEF InsertClaim, Owning
<1>9. CASE ReclaimRow(w)
  <2>1. Row(w) = "legacy"
    BY <1>0, <1>9 DEF ReclaimRow, Reclaimable, FirstDeliveries, Row
  <2> QED
    BY <1>6, <1>9, <2>1 DEF ReclaimRow
<1>10. CASE ClaimFails(w)
  BY <1>1, <1>6, <1>7, <1>10, TypeAfterError DEF ClaimFails, Owning
<1>11. CASE ReleaseClaim(w)
  BY <1>1, <1>7, <1>11, TypeAfterError DEF ReleaseClaim, Owning
<1>12. CASE MarkCompleted(w) \/ MarkFails(w)
  BY <1>1, <1>7, <1>12 DEF MarkCompleted, MarkFails, Owning
<1>13. CASE ParseFails(w) \/ SkipDuplicate(w) \/ EnrichSucceeds(w)
  BY <1>1, <1>7, <1>13 DEF ParseFails, SkipDuplicate, EnrichSucceeds, Owning, storeVars
<1>14. CASE \E err \in {"retryable", "permanent"} : EnrichFails(w, err)
  BY <1>1, <1>7, <1>14 DEF EnrichFails, Owning, storeVars
<1>15. CASE ReleaseFails(w)
  BY <1>1, <1>7, <1>15, TypeAfterError DEF ReleaseFails, Owning, storeVars
<1>16. CASE \E m \in Msgs : ScheduleRetry(w, m) \/ ScheduleRetryFails(w, m)
  BY <1>1, <1>7, <1>16 DEF ScheduleRetry, ScheduleRetryFails, Owning, storeVars
<1>17. CASE HandleExhausted(w) \/ HandleExhaustedFails(w)
  BY <1>1, <1>7, <1>17 DEF HandleExhausted, HandleExhaustedFails, Owning, storeVars
<1>18. CASE Ack(w) \/ Reject(w) \/ StuckEnds(w)
  BY <1>1, <1>7, <1>18 DEF Ack, Reject, StuckEnds, Finish, Owning, storeVars
<1> QED
  BY <1>8, <1>9, <1>10, <1>11, <1>12, <1>13, <1>14, <1>15, <1>16, <1>17, <1>18 DEF HandlerStep

LEMMA ExclusionStep ==
  ASSUME Undisturbed
  PROVE  TypeOK /\ ExclusionInv /\ [Next]_vars => ExclusionInv'
<1> SUFFICES ASSUME TypeOK, ExclusionInv, [Next]_vars PROVE WorkIsClaimed' /\ OneWorks'
  BY FirstDeliveriesStep DEF ExclusionInv
<1> USE DEF ExclusionInv
<1>0. ~Fault("crash") /\ ~Fault("restart") /\ ~Fault("lease")
  BY DEF Undisturbed, Fault
<1>1. CASE \E w \in Workers : HandlerStep(w)
  BY <1>1, ExclusionHandler
<1>2. CASE BrokerStep
  <2>1. UNCHANGED inbox
    BY <1>2 DEF BrokerStep, Publish, RetryExpires, Deliver, NackStopping, storeVars
  <2>2. \A v \in Workers : \/ pc'[v] = pc[v] /\ job'[v] = job[v]
                           \/ pc'[v] = "claim"
    BY <1>2 DEF BrokerStep, Publish, RetryExpires, Deliver, NackStopping, TypeOK
  <2> QED
    BY <2>1, <2>2 DEF WorkIsClaimed, OneWorks, Working, Owning
<1>3. ~ProcessStep
  BY <1>0 DEF ProcessStep, Stop, CloseChannel, Crash, Start, FirstDeliveries
<1>4. ~\E e \in Events : LeaseExpires(e)
  BY <1>0 DEF LeaseExpires
<1>5. CASE UNCHANGED vars
  BY <1>5 DEF vars, WorkIsClaimed, OneWorks, Working
<1> QED
  BY <1>1, <1>2, <1>3, <1>4, <1>5 DEF Next

\* As long as no process dies, no channel closes and no lease expires, the inbox
\* lets one handler at a time work on an event, whatever the broker repeats and
\* whichever calls fail.
THEOREM ProcessingIsExclusive == Spec => []ExclusiveProcessing
<1>1. CASE Undisturbed
  <2>1. Init => ExclusionInv
    BY ConsumerAssumption, NoBodyAssumption
       DEF Init, ExclusionInv, FirstDeliveries, WorkIsClaimed, OneWorks, Working, Owning
  <2>2. TypeOK /\ ExclusionInv /\ [Next]_vars => ExclusionInv'
    BY <1>1, ExclusionStep
  <2>3. ExclusionInv => ExclusiveProcessing
    BY DEF ExclusionInv, OneWorks, ExclusiveProcessing
  <2> QED
    BY <2>1, <2>2, <2>3, TypeCorrect, PTL DEF Spec
<1>2. CASE ~Undisturbed
  <2>1. ExclusiveProcessing
    BY <1>2 DEF Undisturbed, ExclusiveProcessing
  <2> QED
    BY <2>1, PTL
<1> QED
  BY <1>1, <1>2

-------------------------------------------------------------------------------
(* The consumer implements EventDelivery.                                   *)

LEMMA PublishedStep ==
  ASSUME TypeOK, DeliveryKnown, Held, CopiesPublished, [Next]_vars
  PROVE  CopiesPublished'
<1>1. ASSUME NEW w \in Workers, HandlerStep(w) PROVE CopiesPublished'
  <2>1. job[w].event \in published /\ published' = published
    BY <1>1, HandlerOwnCopy, HandlerMoves, ConsumerAssumption DEF CopiesPublished, Places
  <2> QED
    BY <1>1, <2>1, HandlerCopies, HandlerOwnCopy
       DEF CopiesPublished, Place, NewBody, TypeOK
<1>2. ASSUME NEW m \in Msgs, NEW e \in Events, Publish(e, m) PROVE CopiesPublished'
  BY <1>2 DEF Publish, Place, NewBody, TypeOK, CopiesPublished
<1>3. ASSUME NEW m \in Msgs, RetryExpires(m) \/ \E w \in Workers : Deliver(w, m)
      PROVE  CopiesPublished'
  BY <1>3 DEF RetryExpires, Deliver, TypeOK, CopiesPublished
<1>4. ASSUME NEW n \in Msgs, NEW p \in Procs, NackStopping(p, n) PROVE CopiesPublished'
  <2>1. body[n] \in Body /\ body' = [body EXCEPT ![n] = [body[n] EXCEPT !.redelivered = TRUE]]
    BY <1>4 DEF NackStopping, TypeOK
  <2>2. \A m \in Msgs : body'[m].event = body[m].event
    BY <2>1 DEF TypeOK, Body
  <2> QED
    BY <1>4, <2>2 DEF NackStopping, CopiesPublished
<1>5. ASSUME NEW p \in Procs, CloseChannel(p) \/ Crash(p) PROVE CopiesPublished'
  <2>1. Requeue(p) /\ published' = published
    BY <1>5 DEF CloseChannel, Crash
  <2> QED
    BY <2>1, RequeuedCopies, ConsumerAssumption DEF CopiesPublished, Places
<1>6. CASE \/ \E p \in Procs : Stop(p) \/ Start(p)
           \/ \E e \in Events : LeaseExpires(e)
           \/ UNCHANGED vars
  BY <1>6 DEF Stop, Start, LeaseExpires, brokerVars, vars, CopiesPublished
<1> QED
  BY <1>1, <1>2, <1>3, <1>4, <1>5, <1>6 DEF Next, BrokerStep, ProcessStep

\* The status of an event is that of its row and of the places of its copies.
LEMMA StatusKept ==
  ASSUME NEW e \in Events,
         inbox'[e] = "completed" <=> inbox[e] = "completed",
         \A m \in Msgs : /\ m \in Copies(e)' <=> m \in Copies(e)
                         /\ m \in Copies(e) => (at'[m] = "dlq" <=> at[m] = "dlq")
  PROVE  Status(e)' = Status(e)
<1>1. Copies(e)' = Copies(e)
  BY DEF Copies
<1> QED
  BY <1>1 DEF Status, Copies

\* What a step of the consumer may do, one event at a time.
LEMMA AbstractStep ==
  ASSUME NEW e \in Events,
         \A f \in Events \ {e} : Status(f)' = Status(f),
         \/ Status(e)' = Status(e) /\ UNCHANGED enriched
         \/ Status(e) \in {"new", "dead"} /\ Status(e)' = "open" /\ UNCHANGED enriched
         \/ Status(e) = "open" /\ e \in enriched /\ Status(e)' = "done" /\ UNCHANGED enriched
         \/ Status(e) = "open" /\ Status(e)' = "dead" /\ UNCHANGED enriched
         \/ /\ Status(e) # "new" /\ Status(e)' = Status(e)
            /\ enriched' = enriched \cup {e}
  PROVE  [Delivery!Next]_Delivery!vars
<1> DEFINE old == [f \in Events |-> Status(f)]
           new == [f \in Events |-> Status(f)']
<1>1. old[e] = Status(e) /\ new = [old EXCEPT ![e] = Status(e)']
  OBVIOUS
<1>2. Status(e)' = Status(e) => new = old
  OBVIOUS
<1> HIDE DEF old, new
<1>3. \/ new = old /\ UNCHANGED enriched
      \/ old[e] \in {"new", "dead"} /\ new = [old EXCEPT ![e] = "open"] /\ UNCHANGED enriched
      \/ /\ old[e] = "open" /\ e \in enriched
         /\ new = [old EXCEPT ![e] = "done"] /\ UNCHANGED enriched
      \/ old[e] = "open" /\ new = [old EXCEPT ![e] = "dead"] /\ UNCHANGED enriched
      \/ old[e] # "new" /\ new = old /\ enriched' = enriched \cup {e}
  BY <1>1, <1>2
<1> QED
  BY <1>3 DEF old, new, Delivery!Next, Delivery!Submit, Delivery!Finish, Delivery!Bury,
              Delivery!Emit, Delivery!vars

\* An event with a copy that is not in the dead-letter queue is open or done.
LEMMA StatusLive ==
  ASSUME NEW e \in Events, NEW m \in Msgs, at[m] \notin {"absent", "dlq"}, body[m].event = e
  PROVE  Status(e) = IF inbox[e] = "completed" THEN "done" ELSE "open"
BY DEF Status, Copies

LEMMA StatusHeld ==
  ASSUME NEW e \in Events, NEW m \in Msgs, at[m] # "absent", body[m].event = e
  PROVE  Status(e) # "new" /\ (inbox[e] = "completed" => Status(e) = "done")
                           /\ (inbox[e] # "completed" => Status(e) \in {"open", "dead"})
BY DEF Status, Copies

\* A step of a handler is a step of its event, and of no other.
LEMMA AbstractHandler ==
  ASSUME TypeOK, ClaimCallsWork, LegacyEvents = {}, LossInv, OutputInv, CopiesPublished, Carried',
         NEW w \in Workers, HandlerStep(w)
  PROVE  [Delivery!Next]_Delivery!vars
<1> USE DEF LossInv
<1> PICK e \in Events : e = job[w].event
  BY HandlerMoves, TypeBusy
<1> PICK own \in Msgs : own = job[w].msg
  BY HandlerOwnCopy
<1>0. /\ at[own] = w /\ body[own].event = e /\ w \notin Places /\ e \in published
      /\ published' = published
      /\ pc'[w] # "idle" => at'[own] = w /\ body'[own] = body[own]
      /\ pc[w] = "reject" => at'[own] = "dlq" /\ body'[own] = body[own]
      /\ pc'[w] = "idle" => pc[w] \in {"ack", "reject"}
      /\ pc[w] # "idle" /\ pc[w] # "stuck"
  BY HandlerOwnCopy, HandlerMoves, ConsumerAssumption DEF CopiesPublished, Places
<1>1. ASSUME NEW f \in Events \ {e} PROVE Status(f)' = Status(f)
  <2>1. inbox'[f] = inbox[f]
    BY HandlerPaths
  <2>2. ASSUME NEW m \in Msgs
        PROVE  /\ m \in Copies(f)' <=> m \in Copies(f)
               /\ m \in Copies(f) => at'[m] = at[m]
    <3>1. CASE m = own
      <4>1. at'[own] # "absent" => body'[own].event = e
        BY <1>0, HandlerCopies DEF Place, Holds, TypeOK
      <4> QED
        BY <1>0, <3>1, <4>1 DEF Copies
    <3>2. CASE m # own /\ at[m] # "absent"
      BY <3>2, HandlerOwnCopy DEF Copies
    <3>3. CASE m # own /\ at[m] = "absent"
      <4>1. at'[m] = "absent" \/ body'[m].event = e
        BY <1>0, <3>3, HandlerCopies DEF Place, NewBody, TypeOK
      <4> QED
        BY <3>3, <4>1 DEF Copies
    <3> QED
      BY <3>1, <3>2, <3>3
  <2> QED
    BY <2>1, <2>2, StatusKept
<1>2. Status(e) = IF inbox[e] = "completed" THEN "done" ELSE "open"
  BY <1>0, StatusLive DEF Places
<1>3. inbox[e] = "completed" => inbox'[e] = "completed"
  BY CompletedStays DEF Next
<1>4. /\ pc[w] = "enrich" => \/ UNCHANGED enriched
                             \/ pc'[w] = "complete" /\ enriched' = enriched \cup {e}
      /\ pc[w] # "enrich" => UNCHANGED enriched
  BY DEF ClaimCallsWork, Fault, HandlerStep, ParseFails, InsertClaim, ReclaimRow, SkipDuplicate,
         ClaimFails, EnrichSucceeds, EnrichFails, MarkCompleted, MarkFails, ReleaseClaim,
         ReleaseFails, ScheduleRetry, ScheduleRetryFails, HandleExhausted, HandleExhaustedFails,
         Ack, Reject, StuckEnds, Goto, TypeOK, storeVars
\* mark_completed, after the output: Finish.
<1>5. CASE pc[w] = "complete" /\ pc'[w] = "ack" /\ inbox'[e] = "completed"
  <2>1. e \in enriched /\ UNCHANGED enriched
    BY <1>4, <1>5 DEF OutputInv, OutputFirst
  <2>2. Status(e)' = "done"
    BY <1>5 DEF Status
  <2> QED
    BY <1>1, <1>2, <2>1, <2>2, AbstractStep
\* The reject of the last live copy buries the event.
<1>6. CASE pc[w] = "reject"
  <2>1. UNCHANGED <<inbox, enriched>>
    BY <1>4, <1>6, HandlerPaths
  <2>2. Status(e)' # "new" /\ (inbox'[e] = "completed" => Status(e)' = "done")
                           /\ (inbox'[e] # "completed" => Status(e)' \in {"open", "dead"})
    BY <1>0, <1>6, StatusHeld DEF Status, Copies
  <2> QED
    BY <1>1, <1>2, <2>1, <2>2, AbstractStep
\* The ack leaves a copy of an event that is not completed.
<1>7. CASE pc[w] = "ack"
  <2>1. UNCHANGED <<inbox, enriched>>
    BY <1>4, <1>7, HandlerPaths
  <2>2. inbox'[e] # "completed" => \E m \in Copies(e)' : TRUE
    BY <1>0 DEF Carried
  <2>3. (inbox'[e] = "completed" => Status(e)' = "done")
        /\ (inbox'[e] # "completed" => Status(e)' \in {"open", "dead"})
    BY <2>2 DEF Status, Copies
  <2> QED
    BY <1>1, <1>2, <2>1, <2>3, AbstractStep
\* Otherwise the handler keeps its copy.
<1>8. CASE pc'[w] # "idle" /\ ~(pc[w] = "complete" /\ pc'[w] = "ack" /\ inbox'[e] = "completed")
  <2>1. inbox'[e] = "completed" => inbox[e] = "completed"
    BY <1>8, HandlerPaths
  <2>2. Status(e)' = IF inbox'[e] = "completed" THEN "done" ELSE "open"
    BY <1>0, <1>8 DEF Status, Copies, Places
  <2> QED
    BY <1>1, <1>2, <1>3, <1>4, <2>1, <2>2, AbstractStep
<1> QED
  BY <1>0, <1>5, <1>6, <1>7, <1>8

LEMMA AbstractBroker ==
  ASSUME TypeOK, DeliveryKnown, BrokerStep
  PROVE  [Delivery!Next]_Delivery!vars
<1>0. UNCHANGED storeVars /\ \A v \in Workers : v \notin Places
  BY ConsumerAssumption DEF BrokerStep, Publish, RetryExpires, Deliver, NackStopping
<1>1. ASSUME NEW n \in Msgs, NEW e \in Events, Publish(e, n) PROVE [Delivery!Next]_Delivery!vars
  <2>1. /\ at[n] = "absent" /\ at'[n] = "work" /\ body'[n].event = e
        /\ \A m \in Msgs \ {n} : at'[m] = at[m] /\ body'[m] = body[m]
    BY <1>1 DEF Publish, Place, NewBody, TypeOK
  <2>2. \A f \in Events \ {e} : Status(f)' = Status(f)
    BY <1>0, <2>1, StatusKept DEF Copies, storeVars
  <2>3. Status(e)' = IF inbox'[e] = "completed" THEN "done" ELSE "open"
    BY <2>1 DEF Status, Copies
  <2>4. /\ inbox[e] = "completed" => Status(e) = "done"
        /\ inbox[e] # "completed" => Status(e) \in {"new", "open", "dead"}
    BY DEF Status
  <2> QED
    BY <1>0, <2>2, <2>3, <2>4, AbstractStep DEF storeVars
<1>2. ASSUME UNCHANGED published,
             \A m \in Msgs : /\ at'[m] = "absent" <=> at[m] = "absent"
                             /\ at'[m] = "dlq" <=> at[m] = "dlq"
                             /\ at[m] # "absent" => body'[m].event = body[m].event
      PROVE  [Delivery!Next]_Delivery!vars
  <2>1. \A e \in Events : Status(e)' = Status(e)
    BY <1>0, <1>2, StatusKept DEF Copies, storeVars
  <2> QED
    BY <1>0, <2>1 DEF Delivery!vars, storeVars
<1>3. ASSUME NEW n \in Msgs, RetryExpires(n) PROVE [Delivery!Next]_Delivery!vars
  BY <1>2, <1>3 DEF RetryExpires, TypeOK
<1>4. ASSUME NEW n \in Msgs, NEW w \in Workers, Deliver(w, n) PROVE [Delivery!Next]_Delivery!vars
  BY <1>0, <1>2, <1>4 DEF Deliver, TypeOK, Places
<1>5. ASSUME NEW n \in Msgs, NEW p \in Procs, NackStopping(p, n)
      PROVE  [Delivery!Next]_Delivery!vars
  <2>1. body[n] \in Body /\ body' = [body EXCEPT ![n] = [body[n] EXCEPT !.redelivered = TRUE]]
    BY <1>5 DEF NackStopping, TypeOK
  <2>2. \A m \in Msgs : body'[m].event = body[m].event
    BY <2>1 DEF TypeOK, Body
  <2> QED
    BY <1>2, <1>5, <2>2 DEF NackStopping
<1> QED
  BY <1>1, <1>3, <1>4, <1>5 DEF BrokerStep

LEMMA AbstractNext ==
  ASSUME TypeOK, ClaimCallsWork, LegacyEvents = {}, LossInv, OutputInv, CopiesPublished,
         [Next]_vars
  PROVE  [Delivery!Next]_Delivery!vars
<1> USE DEF LossInv
<1>1. ASSUME NEW w \in Workers, HandlerStep(w) PROVE [Delivery!Next]_Delivery!vars
  BY <1>1, CarryHandler, AbstractHandler
<1>2. CASE BrokerStep
  BY <1>2, AbstractBroker
<1>3. ASSUME NEW p \in Procs, CloseChannel(p) \/ Crash(p) PROVE [Delivery!Next]_Delivery!vars
  <2>1. Requeue(p) /\ UNCHANGED storeVars
    BY <1>3 DEF CloseChannel, Crash
  <2>2. \A m \in Msgs : /\ at'[m] = "absent" <=> at[m] = "absent"
                        /\ at'[m] = "dlq" <=> at[m] = "dlq"
                        /\ at[m] # "absent" => body'[m].event = body[m].event
    BY <2>1, RequeuedCopies, ConsumerAssumption DEF Places
  <2>3. \A e \in Events : Status(e)' = Status(e)
    BY <2>1, <2>2, StatusKept DEF Copies, storeVars
  <2> QED
    BY <2>1, <2>3 DEF Delivery!vars, storeVars
<1>4. CASE \/ \E p \in Procs : Stop(p) \/ Start(p)
           \/ \E e \in Events : LeaseExpires(e)
           \/ UNCHANGED vars
  <2>1. UNCHANGED <<at, body, enriched>>
    BY <1>4 DEF Stop, Start, LeaseExpires, brokerVars, storeVars, vars
  <2>2. \A e \in Events : inbox'[e] = "completed" <=> inbox[e] = "completed"
    BY <1>4 DEF Stop, Start, LeaseExpires, storeVars, vars, TypeOK
  <2>3. \A e \in Events : Status(e)' = Status(e)
    BY <2>1, <2>2, StatusKept DEF Copies
  <2> QED
    BY <2>1, <2>3 DEF Delivery!vars
<1> QED
  BY <1>1, <1>2, <1>3, <1>4 DEF Next, ProcessStep

\* At-least-once delivery: if the calls of the inbox do their work and no row is
\* older than the status field, the consumer implements EventDelivery, with the
\* states of row and copies as the status of an event and the enriched rows as
\* its outputs.
THEOREM ConsumerDeliversAtLeastOnce ==
  ASSUME ClaimCallsWork, LegacyEvents = {}
  PROVE  Spec => DeliversAtLeastOnce
<1>1. Init => Delivery!Init /\ CopiesPublished
  BY DEF Init, Delivery!Init, Status, Copies, CopiesPublished
<1>2. TypeOK /\ LossInv /\ [Next]_vars => LossInv'
  BY LossStep
<1>3. TypeOK /\ LossInv /\ CopiesPublished /\ [Next]_vars => CopiesPublished'
  BY PublishedStep DEF LossInv
<1>4. TypeOK /\ LossInv /\ OutputInv /\ CopiesPublished /\ [Next]_vars
        => [Delivery!Next]_Delivery!vars
  BY AbstractNext
<1> QED
  BY <1>1, <1>2, <1>3, <1>4, LossInit, OutputInvariant, PTL
     DEF Spec, DeliversAtLeastOnce, Delivery!Spec
===============================================================================
