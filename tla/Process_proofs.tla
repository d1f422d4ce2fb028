----------------------------- MODULE Process_proofs -----------------------------
(* Theorems about CircuitBreaker, Runtime and CvPipeline, for every number of *)
(* callers, outbox rows, download slots, calls and photos, every threshold    *)
(* and every list of detectors.                                               *)
EXTENDS Process_inv, FunctionTheorems, FiniteSetTheorems, TLAPS

-------------------------------------------------------------------------------
(* Each part takes its own steps and leaves the others alone.              *)

\* A step of MCProcess is a step or a stutter of the breaker, of the process and of
\* the pipeline.
LEMMA PartsStep ==
  [PartsNext]_partVars =>
    /\ [Next]_vars
    /\ [Process!Next]_(Process!vars)
    /\ [Cv!Next]_(Cv!vars)
BY DEF PartsNext, partVars, InBreaker, InRuntime, InPhotos, runtimeVars, photoVars,
       Process!vars, Cv!vars

-------------------------------------------------------------------------------
(* CircuitBreaker, on its own                                              *)

LEMMA BreakerTypeInit == Init => TypeOK /\ TripsAtThreshold
BY BreakerAssumption DEF Init, TypeOK, TripsAtThreshold

\* Types and the trip rule are inductive together: "open" is only ever entered
\* with a full count, and only record_success empties it.
LEMMA BreakerTypeStep == TypeOK /\ TripsAtThreshold /\ [Next]_vars => TypeOK' /\ TripsAtThreshold'
<1> SUFFICES ASSUME TypeOK, TripsAtThreshold, [Next]_vars
             PROVE  TypeOK' /\ TripsAtThreshold'
  OBVIOUS
<1> USE BreakerAssumption DEF TypeOK, TripsAtThreshold, setting
<1>1. ASSUME NEW c \in Callers, Begin(c) PROVE TypeOK' /\ TripsAtThreshold'
  BY <1>1 DEF Begin, BeforeCall
<1>2. ASSUME NEW c \in Callers, RetryRequest(c) PROVE TypeOK' /\ TripsAtThreshold'
  BY <1>2 DEF RetryRequest, breaker, Calling
<1>3. ASSUME NEW c \in Callers, Answered(c) PROVE TypeOK' /\ TripsAtThreshold'
  BY <1>3 DEF Answered, RecordSuccess, End
<1>4. ASSUME NEW c \in Callers, Failed(c) PROVE TypeOK' /\ TripsAtThreshold'
  BY <1>4 DEF Failed, RecordFailure, End
<1>5. ASSUME NEW c \in Callers, Cancelled(c) PROVE TypeOK' /\ TripsAtThreshold'
  BY <1>5 DEF Cancelled, breaker, End
<1>6. CASE RecoveryElapses
  BY <1>6 DEF RecoveryElapses
<1>7. CASE UNCHANGED vars
  BY <1>7 DEF vars
<1> QED
  BY <1>1, <1>2, <1>3, <1>4, <1>5, <1>6, <1>7 DEF Next, Rejected

\* The types of TypeOK hold in every behaviour.
THEOREM BreakerTypes == Spec => []TypeOK
BY BreakerTypeInit, BreakerTypeStep, PTL DEF Spec

\* The breaker is tripped exactly while the threshold is reached: a failed probe,
\* and any late failure, re-opens it at once; a late success closes it.
THEOREM TripsExactlyAtThreshold == Spec => []TripsAtThreshold
BY BreakerTypeInit, BreakerTypeStep, PTL DEF Spec

-------------------------------------------------------------------------------
\* Whether calls may be slow or cancelled is decided once.
LEMMA SettingStays == [Next]_vars => UNCHANGED setting
BY DEF Next, vars, setting, Begin, Rejected, RetryRequest, Answered, Failed, Cancelled,
       RecoveryElapses, End

\* A half-open breaker still has its probe, if no call is cancelled.
LEMMA ProbeStep ==
  TypeOK /\ TripsAtThreshold /\ HalfOpenHasProbe /\ [Next]_vars => HalfOpenHasProbe'
<1> SUFFICES ASSUME TypeOK, TripsAtThreshold, HalfOpenHasProbe, [Next]_vars, ~cancels
             PROVE  state' = "half_open" => \E p \in Callers : Calling(p)' /\ admitted'[p] = "half_open"
  BY SettingStays DEF HalfOpenHasProbe, Probes, setting
<1> USE BreakerAssumption DEF TypeOK, TripsAtThreshold, HalfOpenHasProbe, Probes, Calling, setting
<1>1. ASSUME NEW c \in Callers, Begin(c), state' = "half_open"
      PROVE  attempt'[c] > 0 /\ admitted'[c] = "half_open"
  BY <1>1 DEF Begin, BeforeCall
<1>2. ASSUME NEW c \in Callers, RetryRequest(c), state' = "half_open"
      PROVE  \E p \in Callers : attempt'[p] > 0 /\ admitted'[p] = "half_open"
  BY <1>2 DEF RetryRequest, breaker
<1>3. ASSUME NEW c \in Callers, Answered(c) PROVE state' # "half_open"
  BY <1>3 DEF Answered, RecordSuccess
<1>4. ASSUME NEW c \in Callers, Failed(c) PROVE state' # "half_open"
  BY <1>4 DEF Failed, RecordFailure
<1>5. ASSUME NEW c \in Callers, Cancelled(c) PROVE FALSE
  BY <1>5 DEF Cancelled
<1>6. CASE RecoveryElapses
  BY <1>6 DEF RecoveryElapses
<1>7. CASE UNCHANGED vars
  BY <1>7 DEF vars
<1> QED
  BY <1>1, <1>2, <1>3, <1>4, <1>5, <1>6, <1>7 DEF Next, Rejected, vars

\* "One probe is already in flight": true of every half-open breaker as long as
\* no call is cancelled.
THEOREM ProbeInFlight == Spec => []HalfOpenHasProbe
<1>1. Init => HalfOpenHasProbe
  BY DEF Init, HalfOpenHasProbe
<1>2. TypeOK /\ TripsAtThreshold /\ HalfOpenHasProbe /\ [Next]_vars => HalfOpenHasProbe'
  BY ProbeStep
<1> QED
  BY <1>1, <1>2, BreakerTypeInit, BreakerTypeStep, PTL DEF Spec

-------------------------------------------------------------------------------
\* With calls that end before the recovery timeout: an expired open breaker has
\* no call left from before, so its probe is alone.
Alone == ~slow =>
         /\ state # "half_open" => \A c \in Callers : Calling(c) => admitted[c] = "closed"
         /\ state = "open" /\ opened_at = "past" => \A c \in Callers : ~Calling(c)
         /\ state = "half_open" => \A c, d \in Callers : Calling(c) /\ Calling(d) => c = d

LEMMA AloneStep ==
  TypeOK /\ TripsAtThreshold /\ Alone /\ [Next]_vars => Alone'
<1> SUFFICES ASSUME TypeOK, TripsAtThreshold, Alone, [Next]_vars, ~slow PROVE Alone'
  BY SettingStays DEF Alone, setting
<1> USE BreakerAssumption DEF TypeOK, TripsAtThreshold, Alone, Calling, setting
<1>1. ASSUME NEW c \in Callers, Begin(c) PROVE Alone'
  BY <1>1 DEF Begin, BeforeCall
<1>2. ASSUME NEW c \in Callers, RetryRequest(c) PROVE Alone'
  BY <1>2 DEF RetryRequest, breaker
<1>3. ASSUME NEW c \in Callers, Answered(c) PROVE Alone'
  BY <1>3 DEF Answered, RecordSuccess, End
<1>4. ASSUME NEW c \in Callers, Failed(c) PROVE Alone'
  BY <1>4 DEF Failed, RecordFailure, End
<1>5. ASSUME NEW c \in Callers, Cancelled(c) PROVE Alone'
  BY <1>5 DEF Cancelled, breaker, End
<1>6. CASE RecoveryElapses
  BY <1>6 DEF RecoveryElapses
<1>7. CASE UNCHANGED vars
  BY <1>7 DEF vars
<1> QED
  BY <1>1, <1>2, <1>3, <1>4, <1>5, <1>6, <1>7 DEF Next, Rejected

\* Stampede callers are rejected: at most one probe is in flight, provided calls
\* end before recovery_timeout_sec: a slower call that was admitted before the
\* trip may fail late, re-open the breaker and let a second probe in.
THEOREM OneProbeAtATime == Spec => []OneProbe
<1>1. Init => Alone
  BY DEF Init, Alone, Calling
<1>2. TypeOK /\ TripsAtThreshold /\ Alone /\ [Next]_vars => Alone'
  BY AloneStep
<1>3. Alone => OneProbe
  <2> SUFFICES ASSUME Alone, ~slow PROVE Cardinality(Probes) <= 1
    BY DEF OneProbe
  <2>1. CASE Probes = {}
    BY <2>1, FS_EmptySet
  <2>2. CASE Probes # {}
    <3>1. PICK p : p \in Probes
      BY <2>2
    <3>2. Probes = {p}
      BY <3>1 DEF Alone, Probes
    <3> QED
      BY <3>2, FS_Singleton
  <2> QED
    BY <2>1, <2>2
<1> QED
  BY <1>1, <1>2, <1>3, BreakerTypeInit, BreakerTypeStep, PTL DEF Spec

-------------------------------------------------------------------------------
(* Runtime                                                                 *)

LEMMA RuntimeTypeInit == Process!Init => Process!TypeOK
BY DEF Process!Init, Process!TypeOK, Process!Actors, Process!Starting, Process!Stopping

LEMMA RuntimeTypeStart ==
  ASSUME Process!TypeOK, Process!StartStep PROVE Process!TypeOK'
<1> USE DEF Process!TypeOK, Process!Actors, Process!Starting, Process!Stopping, Process!Fault, Process!Opens, Process!tasks,
         Process!Resources, Process!Messaging, Process!FaultKinds, Process!AfterMessaging, Process!Publishes
<1>1. CASE Process!StartMetrics
  BY <1>1 DEF Process!StartMetrics
<1>2. CASE Process!BuildRuntime
  BY <1>2 DEF Process!BuildRuntime
<1>3. CASE Process!BuildFails
  BY <1>3 DEF Process!BuildFails
<1>4. CASE Process!Connect
  BY <1>4 DEF Process!Connect
<1>5. CASE Process!OpenPublisher
  BY <1>5 DEF Process!OpenPublisher
<1>6. CASE Process!ConnectFails
  BY <1>6 DEF Process!ConnectFails
<1>7. CASE Process!Consume
  BY <1>7 DEF Process!Consume
<1>8. CASE Process!ConsumeFails
  BY <1>8 DEF Process!ConsumeFails
<1>9. CASE Process!BuildClients
  BY <1>9 DEF Process!BuildClients
<1>10. CASE Process!BuildClientsFails
  BY <1>10 DEF Process!BuildClientsFails
<1> QED
  BY <1>1, <1>2, <1>3, <1>4, <1>5, <1>6, <1>7, <1>8, <1>9, <1>10 DEF Process!StartStep

\* What closing the consume channel leaves of the handler's drain.
LEMMA CloseConsumerTypes ==
  ASSUME Process!TypeOK, Process!CloseConsumer
  PROVE  /\ open' \subseteq Process!Resources
         /\ outlived' \in BOOLEAN
         /\ handler' \in {"idle", "working", "draining"}
         /\ drain' \in [Process!Actors -> {"off", "claim", "rows"}]
         /\ drain'["main"] = drain["main"] /\ drain'["drainer"] = drain["drainer"]
         /\ drain'["handler"] # "off" <=> handler' = "draining"
         /\ rows' \in [Rows -> {"absent", "pending", "published", "stuck"} \cup Process!Actors]
         /\ \A a \in Process!Actors : drain'[a] # "rows" => \A r \in Rows : rows'[r] # a
<1> USE DEF Process!TypeOK, Process!Actors, Process!Abandoned
<1>1. CASE /\ handler' = "idle"
           /\ drain' = [drain EXCEPT !["handler"] = "off"]
           /\ rows' = Process!Abandoned("handler")
           /\ UNCHANGED outlived
  BY <1>1 DEF Process!CloseConsumer
<1>2. CASE outlived' = TRUE /\ UNCHANGED <<handler, drain, rows>>
  BY <1>2 DEF Process!CloseConsumer
<1> QED
  BY <1>1, <1>2 DEF Process!CloseConsumer

LEMMA RuntimeTypeStop ==
  ASSUME Process!TypeOK, Process!StopStep PROVE Process!TypeOK'
<1> USE DEF Process!TypeOK, Process!Actors, Process!Starting, Process!Stopping, Process!Fault, Process!StartDrain,
         Process!tasks, Process!FaultKinds, Process!Abandoned
<1>1. CASE Process!CloseClients
  BY <1>1 DEF Process!CloseClients
<1>2. CASE Process!StopDrainer
  BY <1>2 DEF Process!StopDrainer
<1>3. CASE Process!AwaitDrainer
  BY <1>3 DEF Process!AwaitDrainer
<1>4. CASE Process!StopConsumer
  BY <1>4, CloseConsumerTypes DEF Process!StopConsumer
<1>5. CASE Process!StartFinalDrain
  BY <1>5 DEF Process!StartFinalDrain
<1>6. CASE Process!ClosePublisher
  BY <1>6 DEF Process!ClosePublisher
<1>7. CASE Process!CloseStore
  BY <1>7 DEF Process!CloseStore
<1>8. CASE Process!ShutdownFails
  BY <1>8, CloseConsumerTypes DEF Process!ShutdownFails, Process!Aborted
<1>9. CASE Process!StopMetrics
  BY <1>9 DEF Process!StopMetrics
<1> QED
  BY <1>1, <1>2, <1>3, <1>4, <1>5, <1>6, <1>7, <1>8, <1>9 DEF Process!StopStep

LEMMA RuntimeTypeDrain ==
  ASSUME Process!TypeOK, NEW a \in Process!Actors, Process!DrainStep(a) PROVE Process!TypeOK'
<1> USE DEF Process!TypeOK, Process!Actors, Process!Starting, Process!Stopping, Process!Fault,
         Process!FaultKinds
<1>1. CASE Process!ClaimRows(a)
  BY <1>1 DEF Process!ClaimRows
<1>2. CASE Process!PublishRow(a)
  BY <1>2 DEF Process!PublishRow
<1>3. CASE Process!RowFails(a)
  BY <1>3 DEF Process!RowFails
<1>4. CASE Process!DrainEnds(a)
  BY <1>4 DEF Process!DrainEnds, Process!Continue, Process!Attach, Process!AfterMessaging
<1>5. CASE Process!DrainRaises(a)
  BY <1>5 DEF Process!DrainRaises, Process!Continue, Process!AttachFails, Process!Abandoned, Process!Messaging
<1> QED
  BY <1>1, <1>2, <1>3, <1>4, <1>5 DEF Process!DrainStep

LEMMA RuntimeTypeTasks ==
  ASSUME Process!TypeOK,
         \/ Process!RequestStop \/ Process!TimeoutSwallowed \/ Process!Timeout
         \/ Process!PeriodicDrain \/ Process!DrainerStops \/ Process!HandlerStep
  PROVE  Process!TypeOK'
<1> USE DEF Process!TypeOK, Process!Actors, Process!Starting, Process!Stopping, Process!Fault, Process!StartDrain,
         Process!tasks, Process!FaultKinds, Process!Abandoned
<1>1. CASE Process!RequestStop
  BY <1>1 DEF Process!RequestStop
<1>2. CASE Process!TimeoutSwallowed
  BY <1>2 DEF Process!TimeoutSwallowed
<1>3. CASE Process!Timeout
  <2>1. CASE main = "stopConsumer" /\ "consumer" \in open
    BY <1>3, <2>1, CloseConsumerTypes DEF Process!Timeout, Process!Aborted
  <2>2. CASE ~(main = "stopConsumer" /\ "consumer" \in open)
    BY <1>3, <2>2 DEF Process!Timeout, Process!Aborted
  <2> QED
    BY <2>1, <2>2
<1>4. CASE Process!PeriodicDrain
  BY <1>4 DEF Process!PeriodicDrain
<1>5. CASE Process!DrainerStops
  BY <1>5 DEF Process!DrainerStops
<1>6. CASE Process!HandlerStarts
  BY <1>6 DEF Process!HandlerStarts
<1>7. CASE Process!HandlerEnqueues
  BY <1>7 DEF Process!HandlerEnqueues
<1>8. CASE Process!HandlerEnds
  BY <1>8 DEF Process!HandlerEnds
<1> QED
  BY <1>1, <1>2, <1>3, <1>4, <1>5, <1>6, <1>7, <1>8 DEF Process!HandlerStep

LEMMA RuntimeTypeStep ==
  Process!TypeOK /\ [Process!Next]_(Process!vars) => Process!TypeOK'
<1> SUFFICES ASSUME Process!TypeOK, [Process!Next]_(Process!vars) PROVE Process!TypeOK'
  OBVIOUS
<1>1. CASE UNCHANGED Process!vars
  BY <1>1 DEF Process!vars, Process!TypeOK
<1> QED
  BY <1>1, RuntimeTypeStart, RuntimeTypeStop, RuntimeTypeDrain, RuntimeTypeTasks DEF Process!Next

\* Everything is closed in turn.
LEMMA CloseStart ==
  ASSUME Process!TypeOK, CloseInv, Process!StartStep PROVE CloseInv'
<1> USE DEF Process!TypeOK, CloseInv, Opened, Closed, Detached, DrainerLives, Unattached, PastDrainer,
         PastFinalDrain, Ending, Orderly, Process!Messaging, Process!Resources, Process!Opens, Process!Fault,
         Process!tasks, Process!AfterMessaging
<1>1. CASE Process!StartMetrics
  BY <1>1 DEF Process!StartMetrics
<1>2. CASE Process!BuildRuntime
  BY <1>2 DEF Process!BuildRuntime
<1>3. CASE Process!BuildFails
  BY <1>3 DEF Process!BuildFails
<1>4. CASE Process!Connect
  BY <1>4 DEF Process!Connect
<1>5. CASE Process!OpenPublisher
  BY <1>5 DEF Process!OpenPublisher
<1>6. CASE Process!ConnectFails
  BY <1>6 DEF Process!ConnectFails
<1>7. CASE Process!Consume
  BY <1>7 DEF Process!Consume
<1>8. CASE Process!ConsumeFails
  BY <1>8 DEF Process!ConsumeFails
<1>9. CASE Process!BuildClients
  BY <1>9 DEF Process!BuildClients
<1>10. CASE Process!BuildClientsFails
  BY <1>10 DEF Process!BuildClientsFails
<1> QED
  BY <1>1, <1>2, <1>3, <1>4, <1>5, <1>6, <1>7, <1>8, <1>9, <1>10 DEF Process!StartStep

LEMMA CloseStop ==
  ASSUME Process!TypeOK, CloseInv, Process!StopStep PROVE CloseInv'
<1> USE DEF Process!TypeOK, CloseInv, Opened, Closed, Detached, DrainerLives, Unattached, PastDrainer,
         PastFinalDrain, Ending, Orderly, Process!Messaging, Process!Resources, Process!Fault, Process!tasks
<1>1. CASE Process!CloseClients
  BY <1>1 DEF Process!CloseClients
<1>2. CASE Process!StopDrainer
  BY <1>2 DEF Process!StopDrainer
<1>3. CASE Process!AwaitDrainer
  BY <1>3 DEF Process!AwaitDrainer, Process!DrainerEnded
<1>4. CASE Process!StopConsumer
  BY <1>4 DEF Process!StopConsumer, Process!CloseConsumer
<1>5. CASE Process!StartFinalDrain
  BY <1>5 DEF Process!StartFinalDrain
<1>6. CASE Process!ClosePublisher
  BY <1>6 DEF Process!ClosePublisher
<1>7. CASE Process!CloseStore
  BY <1>7 DEF Process!CloseStore
<1>8. CASE Process!StopMetrics
  BY <1>8 DEF Process!StopMetrics
<1>9. CASE Process!ShutdownFails
  BY <1>9 DEF Process!ShutdownFails, Process!CloseConsumer, Process!Aborted
<1> QED
  BY <1>1, <1>2, <1>3, <1>4, <1>5, <1>6, <1>7, <1>8, <1>9 DEF Process!StopStep

\* The first drain attaches the messaging, or fails to; no other drain opens or
\* closes anything.
LEMMA FirstDrainEnds ==
  ASSUME Process!TypeOK, Process!DrainStep("main"), main = "firstDrain"
  PROVE  \/ UNCHANGED <<mode, main, open, attached, drainer, stop, handler, outlived>>
         \/ /\ attached' = TRUE /\ drainer' = "running"
            /\ main' = IF mode.consumes THEN "consume" ELSE Process!AfterMessaging
            /\ UNCHANGED <<mode, open, faults, stop, handler, outlived>>
         \/ /\ open' = open \ Process!Messaging /\ main' = "stopDrainer"
            /\ faults' = faults \cup {"start"}
            /\ UNCHANGED <<mode, attached, drainer, stop, handler, outlived>>
BY DEF Process!DrainStep, Process!ClaimRows, Process!PublishRow, Process!RowFails, Process!DrainEnds,
       Process!DrainRaises, Process!Continue, Process!Attach, Process!AttachFails, Process!Fault

LEMMA OtherDrains ==
  ASSUME Process!TypeOK, NEW a \in Process!Actors, Process!DrainStep(a),
         ~(a = "main" /\ main = "firstDrain")
  PROVE  /\ UNCHANGED <<mode, open, attached, drainer, stop, outlived>>
         /\ main' = main \/ (a = "main" /\ main = "finalDrain" /\ main' = "closePublisher")
         /\ handler' = handler \/ handler' = "idle"
BY DEF Process!DrainStep, Process!ClaimRows, Process!PublishRow, Process!RowFails, Process!DrainEnds,
       Process!DrainRaises, Process!Continue

LEMMA DrainFaults ==
  ASSUME NEW a, Process!DrainStep(a)
  PROVE  /\ Orderly' <=> Orderly
         /\ faults \subseteq faults'
BY DEF Process!DrainStep, Process!ClaimRows, Process!PublishRow, Process!RowFails, Process!DrainEnds,
       Process!DrainRaises, Process!Continue, Process!Attach, Process!AttachFails, Process!Fault, Orderly

LEMMA CloseDrain ==
  ASSUME Process!TypeOK, CloseInv, NEW a \in Process!Actors, Process!DrainStep(a) PROVE CloseInv'
<1> USE DEF CloseInv, Opened, Closed, Detached, DrainerLives, Unattached, PastDrainer, PastFinalDrain, Ending
<1>1. CASE a = "main" /\ main = "firstDrain"
  <2>1. Process!DrainStep("main")
    BY <1>1
  <2> USE DEF Process!AfterMessaging, Process!Messaging
  <2>2. CASE UNCHANGED <<mode, main, open, attached, drainer, stop, handler, outlived>>
    BY <1>1, <2>2, DrainFaults
  <2>3. CASE /\ attached' = TRUE /\ drainer' = "running"
             /\ main' = IF mode.consumes THEN "consume" ELSE Process!AfterMessaging
             /\ UNCHANGED open
    BY <1>1, <2>3
  <2>4. CASE /\ open' = open \ Process!Messaging /\ main' = "stopDrainer"
             /\ UNCHANGED <<attached, drainer>>
    BY <1>1, <2>4
  <2> QED
    BY <1>1, <2>1, <2>2, <2>3, <2>4, FirstDrainEnds
<1>2. CASE ~(a = "main" /\ main = "firstDrain")
  BY <1>2, OtherDrains, DrainFaults
<1> QED
  BY <1>1, <1>2

LEMMA CloseTasks ==
  ASSUME Process!TypeOK, CloseInv,
         \/ Process!RequestStop \/ Process!TimeoutSwallowed \/ Process!Timeout
         \/ Process!PeriodicDrain \/ Process!DrainerStops \/ Process!HandlerStep
  PROVE  CloseInv'
<1> USE DEF Process!TypeOK, CloseInv, Opened, Closed, Detached, DrainerLives, Unattached, PastDrainer,
         PastFinalDrain, Ending, Orderly, Process!Messaging, Process!Fault, Process!tasks
<1>1. CASE Process!RequestStop
  BY <1>1 DEF Process!RequestStop
<1>2. CASE Process!PeriodicDrain
  BY <1>2 DEF Process!PeriodicDrain
<1>3. CASE Process!DrainerStops
  BY <1>3 DEF Process!DrainerStops
<1>4. CASE Process!TimeoutSwallowed
  BY <1>4 DEF Process!TimeoutSwallowed
<1>5. CASE Process!Timeout
  BY <1>5 DEF Process!Timeout, Process!CloseConsumer, Process!Aborted
<1>6. CASE Process!HandlerStep
  BY <1>6 DEF Process!HandlerStep, Process!HandlerStarts, Process!HandlerEnqueues, Process!HandlerEnds
<1> QED
  BY <1>1, <1>2, <1>3, <1>4, <1>5, <1>6

LEMMA CloseStep ==
  Process!TypeOK /\ CloseInv /\ [Process!Next]_(Process!vars) => CloseInv'
<1> SUFFICES ASSUME Process!TypeOK, CloseInv, [Process!Next]_(Process!vars) PROVE CloseInv'
  OBVIOUS
<1>1. CASE UNCHANGED Process!vars
  BY <1>1 DEF Process!vars, CloseInv, Opened, Closed, Detached, DrainerLives, Orderly
<1> QED
  BY <1>1, CloseStart, CloseStop, CloseDrain, CloseTasks DEF Process!Next

\* A handler ends with its consumer or with the requests.
LEMMA HandlerStart ==
  ASSUME Process!TypeOK, CloseInv, HandlerLives, Process!StartStep PROVE HandlerLives'
<1> USE DEF Process!TypeOK, CloseInv, Opened, Closed, Detached, DrainerLives, Unattached, PastDrainer,
         PastFinalDrain, Ending, HandlerLives, Process!Messaging, Process!Fault, Process!tasks, Process!Opens, Process!AfterMessaging
<1>1. CASE Process!StartMetrics
  BY <1>1 DEF Process!StartMetrics
<1>2. CASE Process!BuildRuntime
  BY <1>2 DEF Process!BuildRuntime
<1>3. CASE Process!BuildFails
  BY <1>3 DEF Process!BuildFails
<1>4. CASE Process!Connect
  BY <1>4 DEF Process!Connect
<1>5. CASE Process!OpenPublisher
  BY <1>5 DEF Process!OpenPublisher
<1>6. CASE Process!ConnectFails
  BY <1>6 DEF Process!ConnectFails
<1>7. CASE Process!Consume
  BY <1>7 DEF Process!Consume
<1>8. CASE Process!ConsumeFails
  BY <1>8 DEF Process!ConsumeFails
<1>9. CASE Process!BuildClients
  BY <1>9 DEF Process!BuildClients
<1>10. CASE Process!BuildClientsFails
  BY <1>10 DEF Process!BuildClientsFails
<1> QED
  BY <1>1, <1>2, <1>3, <1>4, <1>5, <1>6, <1>7, <1>8, <1>9, <1>10 DEF Process!StartStep

LEMMA HandlerStop ==
  ASSUME Process!TypeOK, CloseInv, HandlerLives, Process!StopStep PROVE HandlerLives'
<1> USE DEF Process!TypeOK, CloseInv, Opened, Closed, Detached, DrainerLives, Unattached, PastDrainer,
         PastFinalDrain, Ending, HandlerLives, Process!Messaging, Process!Fault, Process!tasks
<1>1. CASE Process!CloseClients
  BY <1>1 DEF Process!CloseClients
<1>2. CASE Process!StopDrainer
  BY <1>2 DEF Process!StopDrainer
<1>3. CASE Process!AwaitDrainer
  BY <1>3 DEF Process!AwaitDrainer
<1>4. CASE Process!StopConsumer
  BY <1>4 DEF Process!StopConsumer, Process!CloseConsumer
<1>5. CASE Process!StartFinalDrain
  BY <1>5 DEF Process!StartFinalDrain
<1>6. CASE Process!ClosePublisher
  BY <1>6 DEF Process!ClosePublisher
<1>7. CASE Process!CloseStore
  BY <1>7 DEF Process!CloseStore
<1>8. CASE Process!StopMetrics
  BY <1>8 DEF Process!StopMetrics
<1>9. CASE Process!ShutdownFails
  BY <1>9 DEF Process!ShutdownFails, Process!CloseConsumer, Process!Aborted
<1> QED
  BY <1>1, <1>2, <1>3, <1>4, <1>5, <1>6, <1>7, <1>8, <1>9 DEF Process!StopStep

LEMMA HandlerTasks ==
  ASSUME Process!TypeOK, CloseInv, HandlerLives,
         \/ Process!RequestStop \/ Process!TimeoutSwallowed \/ Process!Timeout
         \/ Process!PeriodicDrain \/ Process!DrainerStops \/ Process!HandlerStep
  PROVE  HandlerLives'
<1> USE DEF Process!TypeOK, CloseInv, Opened, Closed, Detached, DrainerLives, Unattached, PastDrainer,
         PastFinalDrain, Ending, HandlerLives, Process!Messaging, Process!Fault, Process!tasks
<1>1. CASE Process!RequestStop
  BY <1>1 DEF Process!RequestStop
<1>2. CASE Process!PeriodicDrain
  BY <1>2 DEF Process!PeriodicDrain
<1>3. CASE Process!DrainerStops
  BY <1>3 DEF Process!DrainerStops
<1>4. CASE Process!TimeoutSwallowed
  BY <1>4 DEF Process!TimeoutSwallowed
<1>5. CASE Process!Timeout
  BY <1>5 DEF Process!Timeout, Process!CloseConsumer, Process!Aborted
<1>6. CASE Process!HandlerStarts
  BY <1>6 DEF Process!HandlerStarts
<1>7. CASE Process!HandlerEnqueues
  BY <1>7 DEF Process!HandlerEnqueues
<1>8. CASE Process!HandlerEnds
  BY <1>8 DEF Process!HandlerEnds
<1> QED
  BY <1>1, <1>2, <1>3, <1>4, <1>5, <1>6, <1>7, <1>8 DEF Process!HandlerStep


\* The publisher channel outlasts the drains.
LEMMA PublisherStart ==
  ASSUME Process!TypeOK, CloseInv, PublisherOpen, Process!StartStep PROVE PublisherOpen'
<1> USE DEF Process!TypeOK, CloseInv, Opened, Closed, Detached, DrainerLives, Unattached, PastDrainer,
         PastFinalDrain, Ending, PublisherOpen, Process!Messaging, Process!Fault, Process!tasks, Process!StartDrain, Process!Opens, Process!AfterMessaging
<1>1. CASE Process!StartMetrics
  BY <1>1 DEF Process!StartMetrics
<1>2. CASE Process!BuildRuntime
  BY <1>2 DEF Process!BuildRuntime
<1>3. CASE Process!BuildFails
  BY <1>3 DEF Process!BuildFails
<1>4. CASE Process!Connect
  BY <1>4 DEF Process!Connect
<1>5. CASE Process!OpenPublisher
  BY <1>5 DEF Process!OpenPublisher
<1>6. CASE Process!ConnectFails
  BY <1>6 DEF Process!ConnectFails
<1>7. CASE Process!Consume
  BY <1>7 DEF Process!Consume
<1>8. CASE Process!ConsumeFails
  BY <1>8 DEF Process!ConsumeFails
<1>9. CASE Process!BuildClients
  BY <1>9 DEF Process!BuildClients
<1>10. CASE Process!BuildClientsFails
  BY <1>10 DEF Process!BuildClientsFails
<1> QED
  BY <1>1, <1>2, <1>3, <1>4, <1>5, <1>6, <1>7, <1>8, <1>9, <1>10 DEF Process!StartStep

LEMMA PublisherStop ==
  ASSUME Process!TypeOK, CloseInv, PublisherOpen, Process!StopStep PROVE PublisherOpen'
<1> USE DEF Process!TypeOK, CloseInv, Opened, Closed, Detached, DrainerLives, Unattached, PastDrainer,
         PastFinalDrain, Ending, PublisherOpen, Process!Messaging, Process!Fault, Process!tasks, Process!StartDrain
<1>1. CASE Process!CloseClients
  BY <1>1 DEF Process!CloseClients
<1>2. CASE Process!StopDrainer
  BY <1>2 DEF Process!StopDrainer
<1>3. CASE Process!AwaitDrainer
  BY <1>3 DEF Process!AwaitDrainer
<1>4. CASE Process!StopConsumer
  BY <1>4 DEF Process!StopConsumer, Process!CloseConsumer
<1>5. CASE Process!StartFinalDrain
  BY <1>5 DEF Process!StartFinalDrain
<1>6. CASE Process!ClosePublisher
  BY <1>6 DEF Process!ClosePublisher
<1>7. CASE Process!CloseStore
  BY <1>7 DEF Process!CloseStore
<1>8. CASE Process!StopMetrics
  BY <1>8 DEF Process!StopMetrics
<1>9. CASE Process!ShutdownFails
  BY <1>9 DEF Process!ShutdownFails, Process!CloseConsumer, Process!Aborted
<1> QED
  BY <1>1, <1>2, <1>3, <1>4, <1>5, <1>6, <1>7, <1>8, <1>9 DEF Process!StopStep

LEMMA PublisherTasks ==
  ASSUME Process!TypeOK, CloseInv, PublisherOpen,
         \/ Process!RequestStop \/ Process!TimeoutSwallowed \/ Process!Timeout
         \/ Process!PeriodicDrain \/ Process!DrainerStops \/ Process!HandlerStep
  PROVE  PublisherOpen'
<1> USE DEF Process!TypeOK, CloseInv, Opened, Closed, Detached, DrainerLives, Unattached, PastDrainer,
         PastFinalDrain, Ending, PublisherOpen, Process!Messaging, Process!Fault, Process!tasks, Process!StartDrain
<1>1. CASE Process!RequestStop
  BY <1>1 DEF Process!RequestStop
<1>2. CASE Process!PeriodicDrain
  BY <1>2 DEF Process!PeriodicDrain
<1>3. CASE Process!DrainerStops
  BY <1>3 DEF Process!DrainerStops
<1>4. CASE Process!TimeoutSwallowed
  BY <1>4 DEF Process!TimeoutSwallowed
<1>5. CASE Process!Timeout
  BY <1>5 DEF Process!Timeout, Process!CloseConsumer, Process!Aborted
<1>6. CASE Process!HandlerStarts
  BY <1>6 DEF Process!HandlerStarts
<1>7. CASE Process!HandlerEnqueues
  BY <1>7 DEF Process!HandlerEnqueues
<1>8. CASE Process!HandlerEnds
  BY <1>8 DEF Process!HandlerEnds
<1> QED
  BY <1>1, <1>2, <1>3, <1>4, <1>5, <1>6, <1>7, <1>8 DEF Process!HandlerStep


LEMMA DrainOff ==
  ASSUME Process!TypeOK, NEW a \in Process!Actors, Process!DrainStep(a), NEW b \in Process!Actors
  PROVE  drain'[b] # "off" => drain[b] # "off"
BY DEF Process!TypeOK, Process!DrainStep, Process!ClaimRows, Process!PublishRow, Process!RowFails,
       Process!DrainEnds, Process!DrainRaises

LEMMA HandlerDrain ==
  ASSUME Process!TypeOK, CloseInv, HandlerLives, NEW a \in Process!Actors, Process!DrainStep(a)
  PROVE  HandlerLives'
<1> USE DEF HandlerLives, CloseInv, Opened, Closed, DrainerLives, Unattached
<1>1. CASE a = "main" /\ main = "firstDrain"
  <2>1. Process!DrainStep("main")
    BY <1>1
  <2> USE DEF Process!AfterMessaging
  <2>2. CASE UNCHANGED <<mode, main, open, attached, drainer, stop, handler, outlived>>
    BY <1>1, <2>2
  <2>3. CASE /\ attached' = TRUE /\ drainer' = "running"
             /\ main' = IF mode.consumes THEN "consume" ELSE Process!AfterMessaging
             /\ UNCHANGED <<mode, open, faults, handler, outlived>>
    BY <1>1, <2>3
  <2>4. CASE /\ open' = open \ Process!Messaging /\ main' = "stopDrainer"
             /\ UNCHANGED <<mode, attached, drainer, handler, outlived>>
    BY <1>1, <2>4
  <2> QED
    BY <1>1, <2>1, <2>2, <2>3, <2>4, FirstDrainEnds
<1>2. CASE ~(a = "main" /\ main = "firstDrain")
  BY <1>2, OtherDrains DEF Process!TypeOK
<1> QED
  BY <1>1, <1>2

LEMMA PublisherDrain ==
  ASSUME Process!TypeOK, CloseInv, PublisherOpen, NEW a \in Process!Actors, Process!DrainStep(a)
  PROVE  PublisherOpen'
<1>0. "main" \in Process!Actors
  BY DEF Process!Actors
<1> USE DEF PublisherOpen, CloseInv, DrainerLives, Unattached
<1>1. CASE a = "main" /\ main = "firstDrain"
  <2>1. Process!DrainStep("main")
    BY <1>1
  <2> USE DEF Process!AfterMessaging
  <2>2. CASE UNCHANGED <<mode, main, open, attached, drainer, stop, handler, outlived>>
    BY <1>1, <2>2, DrainFaults, DrainOff
  <2>3. CASE /\ attached' = TRUE /\ drainer' = "running"
             /\ main' = IF mode.consumes THEN "consume" ELSE Process!AfterMessaging
             /\ UNCHANGED <<mode, open, faults, handler, outlived>>
    BY <1>1, <2>3
  <2>4. CASE /\ open' = open \ Process!Messaging /\ main' = "stopDrainer"
             /\ UNCHANGED <<mode, attached, drainer, handler, outlived>>
    BY <1>1, <2>4
  <2> QED
    BY <1>1, <2>1, <2>2, <2>3, <2>4, FirstDrainEnds
<1>2. CASE ~(a = "main" /\ main = "firstDrain")
  BY <1>0, <1>2, OtherDrains, DrainFaults, DrainOff
<1> QED
  BY <1>1, <1>2

LEMMA DrainInvInit == Process!Init => DrainInv
BY DEF Process!Init, DrainInv, CloseInv, Opened, Closed, Detached, DrainerLives, HandlerLives,
       PublisherOpen, Unattached, PastDrainer, PastFinalDrain, Ending, Process!Messaging

LEMMA DrainInvStep ==
  Process!TypeOK /\ DrainInv /\ [Process!Next]_(Process!vars) => DrainInv'
<1> SUFFICES ASSUME Process!TypeOK, DrainInv, [Process!Next]_(Process!vars)
             PROVE  HandlerLives' /\ PublisherOpen'
  BY CloseStep DEF DrainInv
<1> USE DEF DrainInv
<1>1. CASE UNCHANGED Process!vars
  BY <1>1 DEF Process!vars, HandlerLives, PublisherOpen
<1>2. CASE Process!StartStep
  BY <1>2, HandlerStart, PublisherStart
<1>3. CASE Process!StopStep
  BY <1>3, HandlerStop, PublisherStop
<1>4. ASSUME NEW a \in Process!Actors, Process!DrainStep(a) PROVE HandlerLives' /\ PublisherOpen'
  BY <1>4, HandlerDrain, PublisherDrain
<1>5. CASE \/ Process!RequestStop \/ Process!TimeoutSwallowed \/ Process!Timeout
           \/ Process!PeriodicDrain \/ Process!DrainerStops \/ Process!HandlerStep
  BY <1>5, HandlerTasks, PublisherTasks
<1> QED
  BY <1>1, <1>2, <1>3, <1>4, <1>5 DEF Process!Next

\* In an undisturbed run the last drain leaves nothing to publish.
LEMMA ExitStart ==
  ASSUME Process!TypeOK, DrainInv, ExitInv,
         Process!StartStep
  PROVE  ExitInv'
<1> USE DEF Process!TypeOK, DrainInv, CloseInv, Opened, Closed, DrainerLives, HandlerLives, PublisherOpen, ExitInv, StaysAttached,
         StuckByCancel, Drained, Undisturbed, Unattached, PastDrainer, PastFinalDrain, Ending,
         Process!Actors, Process!Fault, Process!tasks, Process!StartDrain, Process!Opens, Process!AfterMessaging, Process!Publishes
<1>1. CASE Process!StartMetrics
  BY <1>1 DEF Process!StartMetrics
<1>2. CASE Process!BuildRuntime
  BY <1>2 DEF Process!BuildRuntime
<1>3. CASE Process!BuildFails
  BY <1>3 DEF Process!BuildFails
<1>4. CASE Process!Connect
  BY <1>4 DEF Process!Connect
<1>5. CASE Process!OpenPublisher
  BY <1>5 DEF Process!OpenPublisher
<1>6. CASE Process!ConnectFails
  BY <1>6 DEF Process!ConnectFails
<1>7. CASE Process!Consume
  BY <1>7 DEF Process!Consume
<1>8. CASE Process!ConsumeFails
  BY <1>8 DEF Process!ConsumeFails
<1>9. CASE Process!BuildClients
  BY <1>9 DEF Process!BuildClients
<1>10. CASE Process!BuildClientsFails
  BY <1>10 DEF Process!BuildClientsFails
<1> QED
  BY <1>1, <1>2, <1>3, <1>4, <1>5, <1>6, <1>7, <1>8, <1>9, <1>10 DEF Process!StartStep

LEMMA ExitStop ==
  ASSUME Process!TypeOK, DrainInv, ExitInv,
         Process!StopStep
  PROVE  ExitInv'
<1> USE DEF Process!TypeOK, DrainInv, CloseInv, Opened, Closed, DrainerLives, HandlerLives, PublisherOpen, ExitInv, StaysAttached,
         StuckByCancel, Drained, Undisturbed, Unattached, PastDrainer, PastFinalDrain, Ending,
         Process!Actors, Process!Fault, Process!tasks, Process!StartDrain, Process!Publishes
<1>1. CASE Process!CloseClients
  BY <1>1 DEF Process!CloseClients
<1>2. CASE Process!StopDrainer
  BY <1>2 DEF Process!StopDrainer
<1>3. CASE Process!AwaitDrainer
  BY <1>3 DEF Process!AwaitDrainer
<1>4. CASE Process!StopConsumer
  BY <1>4 DEF Process!StopConsumer, Process!CloseConsumer, Process!Abandoned
<1>5. CASE Process!StartFinalDrain
  BY <1>5 DEF Process!StartFinalDrain
<1>6. CASE Process!ClosePublisher
  BY <1>6 DEF Process!ClosePublisher
<1>7. CASE Process!CloseStore
  BY <1>7 DEF Process!CloseStore
<1>8. CASE Process!StopMetrics
  BY <1>8 DEF Process!StopMetrics
<1>9. CASE Process!ShutdownFails
  BY <1>9 DEF Process!ShutdownFails, Process!CloseConsumer, Process!Abandoned, Process!Aborted
<1> QED
  BY <1>1, <1>2, <1>3, <1>4, <1>5, <1>6, <1>7, <1>8, <1>9 DEF Process!StopStep

LEMMA ExitTasks ==
  ASSUME Process!TypeOK, DrainInv, ExitInv,
         \/ Process!RequestStop \/ Process!TimeoutSwallowed \/ Process!Timeout
         \/ Process!PeriodicDrain \/ Process!DrainerStops \/ Process!HandlerStep
  PROVE  ExitInv'
<1> USE DEF Process!TypeOK, DrainInv, CloseInv, Opened, Closed, DrainerLives, HandlerLives, PublisherOpen, ExitInv, StaysAttached,
         StuckByCancel, Drained, Undisturbed, Unattached, PastDrainer, PastFinalDrain, Ending,
         Process!Actors, Process!Fault, Process!tasks, Process!StartDrain, Process!Publishes
<1>1. CASE Process!RequestStop
  BY <1>1 DEF Process!RequestStop
<1>2. CASE Process!PeriodicDrain
  BY <1>2 DEF Process!PeriodicDrain
<1>3. CASE Process!DrainerStops
  BY <1>3 DEF Process!DrainerStops
<1>4. CASE Process!TimeoutSwallowed
  BY <1>4 DEF Process!TimeoutSwallowed, Process!Abandoned
<1>5. CASE Process!Timeout
  BY <1>5 DEF Process!Timeout, Process!CloseConsumer, Process!Abandoned, Process!Aborted
<1>6. CASE Process!HandlerStarts
  BY <1>6 DEF Process!HandlerStarts
<1>7. CASE Process!HandlerEnqueues
  BY <1>7 DEF Process!HandlerEnqueues
<1>8. CASE Process!HandlerEnds
  BY <1>8 DEF Process!HandlerEnds
<1> QED
  BY <1>1, <1>2, <1>3, <1>4, <1>5, <1>6, <1>7, <1>8 DEF Process!HandlerStep

LEMMA ExitDrain ==
  ASSUME Process!TypeOK, DrainInv, ExitInv, NEW a \in Process!Actors, Process!DrainStep(a)
  PROVE  ExitInv'
<1> USE DEF Process!TypeOK, DrainInv, CloseInv, DrainerLives, HandlerLives, Closed, ExitInv, StaysAttached, StuckByCancel,
         Drained, Undisturbed, Unattached, PastDrainer, PastFinalDrain, Ending, Process!Actors, Process!Publishes,
         Process!Fault
<1>1. CASE Process!ClaimRows(a)
  BY <1>1 DEF Process!ClaimRows
<1>2. CASE Process!PublishRow(a)
  BY <1>2 DEF Process!PublishRow
<1>3. CASE Process!RowFails(a)
  BY <1>3 DEF Process!RowFails
<1>4. CASE Process!DrainEnds(a)
  <2>1. CASE a = "main" /\ main = "firstDrain"
    BY <1>4, <2>1 DEF Process!DrainEnds, Process!Continue, Process!Attach, Process!AfterMessaging
  <2>2. CASE a = "main" /\ main = "finalDrain"
    BY <1>4, <2>2 DEF Process!DrainEnds, Process!Continue
  <2>3. CASE a # "main"
    BY <1>4, <2>3 DEF Process!DrainEnds, Process!Continue
  <2> QED
    BY <1>4, <2>1, <2>2, <2>3 DEF Process!DrainEnds, Process!Continue
<1>5. CASE Process!DrainRaises(a)
  <2>1. faults' # {}
    BY <1>5 DEF Process!DrainRaises, Process!Continue, Process!AttachFails
  <2> QED
    BY <2>1
<1> QED
  BY <1>1, <1>2, <1>3, <1>4, <1>5 DEF Process!DrainStep

LEMMA ExitInit == Process!Init => ExitInv
BY DEF Process!Init, ExitInv, StaysAttached, StuckByCancel, Drained, Unattached, PastFinalDrain

LEMMA ExitStep ==
  Process!TypeOK /\ DrainInv /\ ExitInv /\ [Process!Next]_(Process!vars) => ExitInv'
<1> SUFFICES ASSUME Process!TypeOK, DrainInv, ExitInv, [Process!Next]_(Process!vars) PROVE ExitInv'
  OBVIOUS
<1>1. CASE UNCHANGED Process!vars
  BY <1>1 DEF Process!vars, ExitInv, StaysAttached, StuckByCancel, Drained, Undisturbed, Process!Publishes
<1> QED
  BY <1>1, ExitStart, ExitStop, ExitDrain, ExitTasks DEF Process!Next

\* The types of Runtime and what its safety properties rest on.
RuntimeInv == Process!TypeOK /\ DrainInv /\ ExitInv

LEMMA RuntimeInvariant == PartsSpec => []RuntimeInv
<1>1. PartsInit => RuntimeInv
  BY RuntimeTypeInit, DrainInvInit, ExitInit DEF PartsInit, RuntimeInv
<1>2. RuntimeInv /\ [PartsNext]_partVars => RuntimeInv'
  BY PartsStep, RuntimeTypeStep, DrainInvStep, ExitStep DEF RuntimeInv
<1> QED
  BY <1>1, <1>2, PTL DEF PartsSpec

\* Whatever fails at start, and however the shutdown is cut short, the metrics port is
\* released; and an orderly shutdown leaves nothing open and no drainer task.
THEOREM EverythingIsClosed == PartsSpec => []ClosesEverything
<1>1. RuntimeInv => ClosesEverything
  BY DEF RuntimeInv, DrainInv, CloseInv, Closed, DrainerLives, PastDrainer, Ending, Orderly,
         ClosesEverything, Process!ClosesEverything
<1> QED
  BY <1>1, RuntimeInvariant, PTL

\* No drain meets a publisher channel that the shutdown, or a failed start, has closed.
THEOREM DrainsMeetOpenChannel == PartsSpec => []DrainsOnOpenChannel
<1>1. RuntimeInv => DrainsOnOpenChannel
  BY DEF RuntimeInv, Process!TypeOK, Process!Actors, DrainInv, CloseInv, DrainerLives, HandlerLives, PublisherOpen,
         DrainsOnOpenChannel, Process!DrainsOnOpenChannel
<1> QED
  BY <1>1, RuntimeInvariant, PTL

\* An undisturbed run ends with an outbox that has nothing left to publish.
THEOREM CleanExitIsDrained == PartsSpec => []CleanExitDrains
<1>1. RuntimeInv => CleanExitDrains
  BY DEF RuntimeInv, ExitInv, StuckByCancel, Drained, Undisturbed, PastFinalDrain,
         CleanExitDrains, Process!CleanExitDrains
<1> QED
  BY <1>1, RuntimeInvariant, PTL

-------------------------------------------------------------------------------
(* CvPipeline                                                              *)

Stages == Cv!Downloading \cup {"fetched"} \cup Cv!Inspecting \cup Cv!Settled

\* One photo, or one turn, of a call changes.
Moves(c, p, to) ==
  /\ DOMAIN photo' = Cv!Calls
  /\ \A d \in Cv!Calls :
       /\ photo'[d] \in [Photos[d] -> Stages]
       /\ \A q \in Photos[d] : photo'[d][q] = IF d = c /\ q = p THEN to ELSE photo[d][q]
Turns(c, p, n) ==
  /\ DOMAIN turn' = Cv!Calls
  /\ \A d \in Cv!Calls :
       /\ turn'[d] \in [Photos[d] -> DOMAIN Checks]
       /\ \A q \in Photos[d] : turn'[d][q] = IF d = c /\ q = p THEN n ELSE turn[d][q]

LEMMA ChecksList == /\ Len(Checks) \in Nat \ {0}
                    /\ DOMAIN Checks = 1..Len(Checks)
                    /\ 1 \in DOMAIN Checks
BY PhotosAssumption

LEMMA GoesMoves ==
  ASSUME Cv!TypeOK, PhotoShapes, NEW c \in Cv!Calls, NEW p \in Photos[c],
         NEW from, NEW to \in Stages, Cv!Goes(c, p, from, to)
  PROVE  photo[c][p] = from /\ Moves(c, p, to)
BY DEF Cv!TypeOK, PhotoShapes, Cv!Goes, Moves, Stages

\* The end of a check.
LEMMA NextCheckMoves ==
  ASSUME Cv!TypeOK, PhotoShapes, NEW c \in Cv!Calls, NEW p \in Photos[c],
         NEW from, Cv!NextCheck(c, p, from)
  PROVE  /\ photo[c][p] = from
         /\ \/ /\ turn[c][p] < Len(Checks)
               /\ Moves(c, p, "session") /\ Turns(c, p, turn[c][p] + 1)
            \/ /\ turn[c][p] = Len(Checks)
               /\ Moves(c, p, "done") /\ UNCHANGED turn
<1>1. turn[c][p] \in 1..Len(Checks)
  BY ChecksList DEF Cv!TypeOK
<1>2. "session" \in Stages /\ "done" \in Stages
  BY DEF Stages, Cv!Inspecting, Cv!Settled
<1>3. CASE turn[c][p] < Len(Checks)
  <2>1. turn' = [turn EXCEPT ![c][p] = @ + 1]
    BY <1>3 DEF Cv!NextCheck
  <2>2. turn[c][p] + 1 \in DOMAIN Checks
    BY <1>1, <1>3, ChecksList
  <2>3. Turns(c, p, turn[c][p] + 1)
    BY <2>1, <2>2 DEF Cv!TypeOK, PhotoShapes, Turns
  <2> QED
    BY <1>2, <1>3, <2>3, GoesMoves DEF Cv!NextCheck
<1>4. CASE ~(turn[c][p] < Len(Checks))
  BY <1>1, <1>2, <1>4, ChecksList, GoesMoves DEF Cv!NextCheck
<1> QED
  BY <1>3, <1>4

LEMMA DetectorKnown ==
  ASSUME Cv!TypeOK, NEW c \in Cv!Calls, NEW p \in Photos[c]
  PROVE  Cv!Detector(c, p) \in Cv!Detectors
BY DEF Cv!TypeOK, Cv!Detector, Cv!Detectors

\* A thread that has ended.
Threadless == {"failed", "done", "raised"}

\* What the steps of a thread have in common.
LEMMA InspectMoves ==
  ASSUME Cv!TypeOK, PhotoShapes, NEW c \in Cv!Calls, NEW p \in Photos[c], Cv!Inspect(c, p)
  PROVE  /\ photo[c][p] \in {"fetched"} \cup Cv!Inspecting
         /\ \E to \in Cv!Inspecting \cup Threadless : Moves(c, p, to)
         /\ UNCHANGED turn \/ Turns(c, p, turn[c][p] + 1)
         /\ UNCHANGED <<call, slots, weights, ready>>
<1> USE DEF Cv!Inspecting, Threadless, Cv!detectors
<1>0. Cv!Inspecting \cup Threadless \subseteq Stages
  BY DEF Stages, Cv!Settled
<1>1. CASE Cv!Decode(c, p)
  BY <1>0, <1>1, GoesMoves DEF Cv!Decode
<1>2. CASE Cv!ReadSession(c, p)
  BY <1>0, <1>2, GoesMoves DEF Cv!ReadSession
<1>3. CASE Cv!ReadAttempted(c, p)
  BY <1>0, <1>3, GoesMoves, NextCheckMoves DEF Cv!ReadAttempted
<1>4. CASE Cv!MarkAttempted(c, p)
  BY <1>0, <1>4, GoesMoves DEF Cv!MarkAttempted
<1>5. CASE Cv!Load(c, p)
  BY <1>0, <1>5, GoesMoves, NextCheckMoves DEF Cv!Load
<1>6. CASE Cv!SetInputName(c, p)
  BY <1>0, <1>6, GoesMoves DEF Cv!SetInputName
<1>7. CASE Cv!SkipUnnamed(c, p)
  BY <1>0, <1>7, NextCheckMoves DEF Cv!SkipUnnamed
<1>8. CASE Cv!Infer(c, p)
  BY <1>0, <1>8, NextCheckMoves DEF Cv!Infer
<1>9. CASE Cv!InferRaises(c, p)
  BY <1>0, <1>9, GoesMoves DEF Cv!InferRaises
<1> QED
  BY <1>1, <1>2, <1>3, <1>4, <1>5, <1>6, <1>7, <1>8, <1>9 DEF Cv!Inspect

\* What a thread writes of its detector.
LEMMA InspectWrites ==
  ASSUME Cv!TypeOK, PhotoShapes, Loaded, NEW c \in Cv!Calls, NEW p \in Photos[c], Cv!Inspect(c, p)
  PROVE  /\ attempted' \subseteq Cv!Detectors
         /\ session \subseteq session' /\ session' \subseteq weights
         /\ input \subseteq input' /\ input' \subseteq session'
         /\ DOMAIN checked' = Cv!Calls
         /\ \A d \in Cv!Calls : /\ checked[d] \subseteq checked'[d]
                                /\ checked'[d] \subseteq Photos[d] \X Cv!Detectors
<1> USE DetectorKnown DEF Cv!TypeOK, PhotoShapes, Cv!detectors
<1>1. CASE Cv!Decode(c, p) \/ Cv!ReadSession(c, p) \/ Cv!ReadAttempted(c, p)
           \/ Cv!SkipUnnamed(c, p) \/ Cv!InferRaises(c, p)
  BY <1>1 DEF Cv!Decode, Cv!ReadSession, Cv!ReadAttempted, Cv!SkipUnnamed, Cv!InferRaises
<1>2. CASE Cv!MarkAttempted(c, p)
  BY <1>2 DEF Cv!MarkAttempted
<1>3. CASE Cv!Load(c, p)
  BY <1>3 DEF Cv!Load
<1>4. CASE Cv!SetInputName(c, p)
  BY <1>4 DEF Cv!SetInputName, Cv!Goes, Loaded
<1>5. CASE Cv!Infer(c, p)
  BY <1>5 DEF Cv!Infer
<1> QED
  BY <1>1, <1>2, <1>3, <1>4, <1>5 DEF Cv!Inspect

\* The pipeline's own name of the library's operator.
LEMMA SameCardinality == ASSUME NEW S PROVE Cv!Cardinality(S) = Cardinality(S)
BY DEF Cv!Cardinality, Cardinality

\* Slots: a download takes one and gives it back.
LEMMA HoldingIs ==
  ASSUME NEW h
  PROVE  h \in Holding <=> \E c \in Cv!Calls : \E p \in Photos[c] :
                             h = <<c, p>> /\ photo[c][p] = "fetching"
BY DEF Holding, Downloads

LEMMA SlotTaken ==
  ASSUME Cv!TypeOK, SlotsKept, NEW c \in Cv!Calls, NEW p \in Photos[c],
         photo[c][p] # "fetching", Moves(c, p, "fetching"), slots > 0, slots' = slots - 1
  PROVE  SlotsKept'
<1>1. Holding' = Holding \cup {<<c, p>>}
  BY DEF Moves, Holding, Downloads
<1>2. <<c, p>> \notin Holding
  BY DEF Holding
<1>3. Cardinality(Holding) \in Nat
  BY FS_CardinalityType DEF SlotsKept
<1>4. IsFiniteSet(Holding') /\ Cardinality(Holding') = Cardinality(Holding) + 1
  BY <1>1, <1>2, FS_AddElement DEF SlotsKept
<1> QED
  BY <1>3, <1>4, PhotosAssumption DEF SlotsKept

LEMMA SlotFreed ==
  ASSUME Cv!TypeOK, SlotsKept, NEW c \in Cv!Calls, NEW p \in Photos[c], NEW to,
         photo[c][p] = "fetching", to # "fetching", Moves(c, p, to), slots' = slots + 1
  PROVE  SlotsKept'
<1>1. Holding' = Holding \ {<<c, p>>}
  BY DEF Moves, Holding, Downloads
<1>2. <<c, p>> \in Holding
  BY DEF Holding, Downloads
<1>3. Cardinality(Holding) \in Nat
  BY FS_CardinalityType DEF SlotsKept
<1>4. IsFiniteSet(Holding') /\ Cardinality(Holding') = Cardinality(Holding) - 1
  BY <1>1, <1>2, FS_RemoveElement DEF SlotsKept
<1> QED
  BY <1>3, <1>4, PhotosAssumption DEF SlotsKept

\* A cancelled call gives back the slots of all its downloads.
LEMMA SlotsFreed ==
  ASSUME Cv!TypeOK, PhotoShapes, SlotsKept, NEW c \in Cv!Calls, Cv!Cancel(c)
  PROVE  SlotsKept'
<1> DEFINE F == {p \in Photos[c] : photo[c][p] = "fetching"}
           H == {c} \X F
<1>1. H \subseteq Holding /\ Holding' = Holding \ H
  <2>1. \A d \in Cv!Calls \ {c} : photo'[d] = photo[d]
    BY DEF Cv!Cancel, PhotoShapes
  <2>2. \A p \in Photos[c] : photo'[c][p] # "fetching"
    BY DEF Cv!Cancel, PhotoShapes, Cv!Downloading
  <2> QED
    BY <2>1, <2>2 DEF Holding, Downloads
<1>2. IsFiniteSet(H)
  BY <1>1, FS_Subset DEF SlotsKept
<1>3. IsFiniteSet(F) /\ Cardinality(F) = Cardinality(H)
  <2> DEFINE f == [h \in H |-> h[2]]
  <2>1. f \in [H -> F] /\ \A a, b \in H : f[a] = f[b] => a = b
    OBVIOUS
  <2>2. \A p \in F : <<c, p>> \in H /\ f[<<c, p>>] = p
    OBVIOUS
  <2>3. \A p \in F : \E h \in H : f[h] = p
    BY <2>2
  <2>4. f \in Bijection(H, F)
    <3> HIDE DEF f, H, F
    <3> QED
      BY <2>1, <2>3, Fun_IsBij
  <2>5. ExistsBijection(H, F)
    BY <2>4 DEF ExistsBijection
  <2> QED
    BY <1>2, <2>5, FS_Bijection
<1>4. Holding \cap H = H
  BY <1>1
<1>5. IsFiniteSet(Holding') /\ Cardinality(Holding') = Cardinality(Holding) - Cardinality(F)
  <2>1. /\ IsFiniteSet(Holding \ H)
        /\ Cardinality(Holding \ H) = Cardinality(Holding) - Cardinality(Holding \cap H)
    <3> HIDE DEF H
    <3> QED
      BY FS_Difference DEF SlotsKept
  <2> HIDE DEF H, F
  <2> QED
    BY <1>1, <1>3, <1>4, <2>1
<1>6. slots' = slots + Cardinality(F)
  BY SameCardinality DEF Cv!Cancel
<1>7. Cardinality(F) \in Nat /\ Cardinality(Holding) \in Nat
  BY <1>3, FS_CardinalityType DEF SlotsKept
<1> HIDE DEF F, H
<1> QED
  BY <1>5, <1>6, <1>7, PhotosAssumption DEF SlotsKept

LEMMA SlotsUnmoved ==
  ASSUME SlotsKept, NEW c \in Cv!Calls, NEW p \in Photos[c], NEW to,
         photo[c][p] # "fetching", to # "fetching", Moves(c, p, to), UNCHANGED slots
  PROVE  SlotsKept'
<1>1. Holding' = Holding
  BY DEF Moves, Holding, Downloads
<1> QED
  BY <1>1 DEF SlotsKept

\* A thread that inspects leaves the slots alone.
LEMMA InspectTypes ==
  ASSUME PhotoTypes, NEW c \in Cv!Calls, NEW p \in Photos[c], Cv!Inspect(c, p)
  PROVE  Cv!TypeOK' /\ PhotoShapes' /\ SlotsKept'
<1> USE DEF PhotoTypes
<1>1. PICK to \in Cv!Inspecting \cup Threadless : Moves(c, p, to)
  BY InspectMoves
<1>2. photo[c][p] # "fetching" /\ to # "fetching"
  BY InspectMoves DEF Cv!Inspecting, Threadless
<1>3. UNCHANGED <<call, slots, weights, ready>>
  BY InspectMoves
<1>4. SlotsKept'
  BY <1>1, <1>2, <1>3, SlotsUnmoved
<1>5. /\ DOMAIN turn' = Cv!Calls
      /\ \A d \in Cv!Calls : turn'[d] \in [Photos[d] -> DOMAIN Checks]
  BY InspectMoves DEF Turns, PhotoShapes, Cv!TypeOK
<1>6. /\ DOMAIN photo' = Cv!Calls
      /\ \A d \in Cv!Calls : photo'[d] \in [Photos[d] -> Stages]
  BY <1>1 DEF Moves
<1>7. /\ attempted' \subseteq Cv!Detectors
      /\ session' \subseteq weights' /\ input' \subseteq session'
      /\ DOMAIN checked' = Cv!Calls
      /\ \A d \in Cv!Calls : checked'[d] \subseteq Photos[d] \X Cv!Detectors
  BY <1>3, InspectWrites
<1> QED
  BY <1>3, <1>4, <1>5, <1>6, <1>7 DEF Cv!TypeOK, PhotoShapes, Stages

\* A thread gets to the input name with a session, and no session is given up.
LEMMA InspectLoaded ==
  ASSUME PhotoTypes, NEW c \in Cv!Calls, NEW p \in Photos[c], Cv!Inspect(c, p)
  PROVE  Loaded'
<1> USE DEF PhotoTypes
<1>0. session \subseteq session'
  BY InspectWrites
<1>1. Moves(c, p, photo'[c][p])
  BY InspectMoves DEF Moves
<1>2. \A d \in Cv!Calls : \A q \in Photos[d] :
        ~(d = c /\ q = p) => photo'[d][q] = photo[d][q] /\ turn'[d][q] = turn[d][q]
  BY <1>1, InspectMoves DEF Moves, Turns
<1>3. photo'[c][p] \in {"setName", "readName"} =>
        Cv!Detector(c, p) \in session' /\ UNCHANGED turn
  <2> USE DEF Stages, Cv!Inspecting, Cv!Settled
  <2>1. CASE Cv!Decode(c, p)
    BY <2>1, GoesMoves DEF Cv!Decode, Moves
  <2>2. CASE Cv!ReadSession(c, p)
    BY <2>2, GoesMoves DEF Cv!ReadSession, Moves, Cv!detectors
  <2>3. CASE Cv!ReadAttempted(c, p)
    BY <2>3, GoesMoves, NextCheckMoves DEF Cv!ReadAttempted, Moves
  <2>4. CASE Cv!MarkAttempted(c, p)
    BY <2>4, GoesMoves DEF Cv!MarkAttempted, Moves
  <2>5. CASE Cv!Load(c, p)
    BY <2>5, GoesMoves, NextCheckMoves DEF Cv!Load, Moves
  <2>6. CASE Cv!SetInputName(c, p)
    BY <2>6 DEF Cv!SetInputName, Cv!Goes, Loaded
  <2>7. CASE Cv!SkipUnnamed(c, p) \/ Cv!Infer(c, p)
    BY <2>7, NextCheckMoves DEF Cv!SkipUnnamed, Cv!Infer, Moves
  <2>8. CASE Cv!InferRaises(c, p)
    BY <2>8, GoesMoves DEF Cv!InferRaises, Moves
  <2> QED
    BY <2>1, <2>2, <2>3, <2>4, <2>5, <2>6, <2>7, <2>8 DEF Cv!Inspect
<1> SUFFICES ASSUME NEW d \in Cv!Calls, NEW q \in Photos[d], photo'[d][q] \in {"setName", "readName"}
             PROVE  Checks[turn'[d][q]] \in session'
  BY DEF Loaded, Cv!Detector
<1>4. CASE d = c /\ q = p
  BY <1>3, <1>4 DEF Cv!Detector
<1>5. CASE ~(d = c /\ q = p)
  BY <1>0, <1>2, <1>5 DEF Loaded, Cv!Detector
<1> QED
  BY <1>4, <1>5

LEMMA PhotoTypesInit == Cv!Init => PhotoTypes
<1> SUFFICES ASSUME Cv!Init PROVE PhotoTypes
  OBVIOUS
<1>1. Holding = {}
  BY DEF Cv!Init, Holding, Downloads
<1>2. SlotsKept
  BY <1>1, FS_EmptySet, PhotosAssumption DEF SlotsKept, Cv!Init
<1>3. Cv!TypeOK /\ PhotoShapes /\ Loaded
  BY ChecksList, PhotosAssumption DEF Cv!Init, Cv!TypeOK, PhotoShapes, Loaded, Cv!Settled
<1> QED
  BY <1>2, <1>3 DEF PhotoTypes

LEMMA SlotsBound ==
  ASSUME NEW H, IsFiniteSet(H), NEW n \in Nat, n + Cardinality(H) = Slots
  PROVE  n \in 0..Slots
<1>1. Cardinality(H) \in Nat
  BY FS_CardinalityType
<1> QED
  BY <1>1, PhotosAssumption

\* A download moves its photo and the slots only.
LEMMA DownloadTypes ==
  ASSUME PhotoTypes, NEW c \in Cv!Calls, NEW p \in Photos[c], NEW to \in {"fetching", "fetched", "failed"},
         Moves(c, p, to), SlotsKept', UNCHANGED <<call, turn, Cv!detectors, checked, ready>>
  PROVE  PhotoTypes'
<1> USE DEF PhotoTypes, Cv!detectors
<1>1. Cv!TypeOK'
  <2>1. slots' \in 0..Slots
    BY SlotsBound DEF SlotsKept
  <2> QED
    BY <2>1 DEF Cv!TypeOK, Moves, Stages
<1>2. PhotoShapes' /\ Loaded'
  BY DEF PhotoShapes, Loaded, Moves, Cv!Detector
<1> QED
  BY <1>1, <1>2

LEMMA PhotoTypesStep ==
  PhotoTypes /\ Fresh /\ [Cv!Next]_(Cv!vars) => PhotoTypes'
<1> SUFFICES ASSUME PhotoTypes, Fresh, [Cv!Next]_(Cv!vars) PROVE PhotoTypes'
  OBVIOUS
<1> USE DEF PhotoTypes
<1>0. Cv!Downloading \cup {"fetched"} \cup {"failed", "cancelled"} \subseteq Stages
  BY DEF Stages, Cv!Downloading, Cv!Settled
<1>1. ASSUME NEW c \in Cv!Calls, NEW p \in Photos[c], Cv!Fetch(c, p) PROVE PhotoTypes'
  <2>1. photo[c][p] = "waiting" /\ Moves(c, p, "fetching")
    BY <1>0, <1>1, GoesMoves DEF Cv!Fetch, Cv!Downloading
  <2>2. SlotsKept'
    BY <1>1, <2>1, SlotTaken DEF Cv!Fetch
  <2> QED
    BY <1>1, <2>1, <2>2, DownloadTypes DEF Cv!Fetch
<1>2. ASSUME NEW c \in Cv!Calls, NEW p \in Photos[c], Cv!Fetched(c, p) \/ Cv!FetchFails(c, p)
      PROVE  PhotoTypes'
  <2>1. photo[c][p] = "fetching" /\ \E to \in {"fetched", "failed"} : Moves(c, p, to)
    BY <1>0, <1>2, GoesMoves DEF Cv!Fetched, Cv!FetchFails
  <2>2. SlotsKept'
    BY <1>2, <2>1, SlotFreed DEF Cv!Fetched, Cv!FetchFails
  <2> QED
    BY <1>2, <2>1, <2>2, DownloadTypes DEF Cv!Fetched, Cv!FetchFails
<1>3. ASSUME NEW c \in Cv!Calls, NEW p \in Photos[c], Cv!Inspect(c, p) PROVE PhotoTypes'
  BY <1>3, InspectTypes, InspectLoaded
<1>4. ASSUME NEW c \in Cv!Calls, Cv!Begin(c) PROVE PhotoTypes'
  <2>1. Holding' = Holding
    BY <1>4 DEF Cv!Begin, Fresh, Holding, Downloads, PhotoShapes
  <2>2. SlotsKept'
    BY <1>4, <2>1 DEF Cv!Begin, SlotsKept
  <2> QED
    BY <1>4, <2>2 DEF Cv!Begin, Cv!TypeOK, PhotoShapes, Loaded, Cv!detectors, Cv!Detector, Cv!Downloading
<1>5. ASSUME NEW c \in Cv!Calls, Cv!Analyse(c) \/ Cv!Return(c) PROVE PhotoTypes'
  <2>1. SlotsKept'
    BY <1>5 DEF Cv!Analyse, Cv!Return, SlotsKept, Holding, Downloads
  <2> QED
    BY <1>5, <2>1 DEF Cv!Analyse, Cv!Return, Cv!TypeOK, PhotoShapes, Loaded, Cv!detectors, Cv!Detector
<1>6. ASSUME NEW c \in Cv!Calls, Cv!Cancel(c) PROVE PhotoTypes'
  <2>1. SlotsKept'
    BY <1>6, SlotsFreed
  <2>2. slots' \in 0..Slots
    BY <2>1, SlotsBound DEF SlotsKept
  <2>3. Cv!TypeOK'
    BY <1>6, <2>2 DEF Cv!Cancel, Cv!TypeOK, PhotoShapes, Cv!detectors, Cv!Settled
  <2>4. PhotoShapes' /\ Loaded'
    BY <1>6 DEF Cv!Cancel, PhotoShapes, Loaded, Cv!TypeOK, Cv!detectors, Cv!Detector
  <2> QED
    BY <2>1, <2>3, <2>4
<1>7. CASE UNCHANGED Cv!vars
  <2>1. SlotsKept'
    BY <1>7 DEF Cv!vars, SlotsKept, Holding, Downloads
  <2> QED
    BY <1>7, <2>1 DEF Cv!vars, Cv!TypeOK, PhotoShapes, Loaded, Cv!Detector
<1> QED
  BY <1>1, <1>2, <1>3, <1>4, <1>5, <1>6, <1>7 DEF Cv!Next, Cv!Progress

\* A thread keeps or extends what it has passed; a check is passed once it has run,
\* or if its detector was not loaded when the call started its threads.
LEMMA NextCheckUses ==
  ASSUME Cv!TypeOK, PhotoShapes, NEW c \in Cv!Calls, NEW p \in Photos[c],
         UsesReady(c, p), NEW from \in Cv!Inspecting, Cv!NextCheck(c, p, from),
         UNCHANGED ready, checked[c] \subseteq checked'[c],
         Cv!Detector(c, p) \in ready[c] => <<p, Cv!Detector(c, p)>> \in checked'[c]
  PROVE  UsesReady(c, p)'
<1>1. photo[c][p] = from /\ turn[c][p] \in 1..Len(Checks)
  BY NextCheckMoves, ChecksList DEF Cv!TypeOK
<1>2. \A i \in 1..turn[c][p] : Checks[i] \in ready[c] => <<p, Checks[i]>> \in checked'[c]
  <2> TAKE i \in 1..turn[c][p]
  <2>1. CASE i = turn[c][p]
    BY <2>1 DEF Cv!Detector
  <2>2. CASE i # turn[c][p]
    <3>1. i \in Passed(c, p)
      BY <1>1, <2>2 DEF Passed, Cv!Inspecting
    <3> QED
      BY <3>1 DEF UsesReady
  <2> QED
    BY <2>1, <2>2
<1>3. CASE /\ turn[c][p] < Len(Checks)
           /\ Moves(c, p, "session") /\ Turns(c, p, turn[c][p] + 1)
  <2>1. photo'[c][p] = "session" /\ turn'[c][p] = turn[c][p] + 1
    BY <1>3 DEF Moves, Turns
  <2> QED
    BY <1>1, <1>2, <2>1 DEF UsesReady, Passed
<1>4. CASE /\ turn[c][p] = Len(Checks)
           /\ Moves(c, p, "done") /\ UNCHANGED turn
  <2>1. photo'[c][p] = "done"
    BY <1>4 DEF Moves
  <2> QED
    BY <1>2, <1>4, <2>1, ChecksList DEF UsesReady, Passed, Cv!Inspecting
<1> QED
  BY <1>3, <1>4, NextCheckMoves

\* Within a check the thread passes nothing.
LEMMA SameCheckUses ==
  ASSUME Cv!TypeOK, PhotoShapes, NEW c \in Cv!Calls, NEW p \in Photos[c],
         UsesReady(c, p), photo[c][p] \in Cv!Inspecting,
         NEW to \in Cv!Inspecting \cup {"raised"}, Moves(c, p, to),
         UNCHANGED <<ready, turn, checked>>,
         Cv!Detector(c, p) \in ready[c] => to \in {"readName", "raised"}
  PROVE  UsesReady(c, p)'
<1>1. photo'[c][p] = to
  BY DEF Moves
<1>2. Passed(c, p)' \subseteq Passed(c, p)
  BY <1>1 DEF Passed, Cv!Inspecting
<1> QED
  BY <1>1, <1>2 DEF UsesReady, Cv!Detector, Cv!Inspecting

LEMMA InspectUses ==
  ASSUME PhotoTypes, SkipInv, NEW c \in Cv!Calls, NEW p \in Photos[c], Cv!Inspect(c, p)
  PROVE  UsesReady(c, p)'
<1> USE DEF PhotoTypes, Cv!detectors
<1>0. /\ UsesReady(c, p) /\ ready[c] \subseteq input /\ input \subseteq session
      /\ checked[c] \subseteq checked'[c]
  BY InspectWrites DEF SkipInv, ReadyUsed, Cv!TypeOK
<1>00. Cv!Inspecting \cup Threadless \subseteq Stages
  BY DEF Stages, Cv!Settled, Threadless
<1>1. CASE Cv!Decode(c, p)
  <2>1. turn'[c][p] = 1 /\ photo'[c][p] \in {"session", "failed"}
    BY <1>1, GoesMoves DEF Cv!Decode, Moves, SkipInv, Fresh, Stages, Cv!Inspecting, Cv!Settled
  <2>2. Passed(c, p)' = {}
    BY <2>1 DEF Passed, Cv!Inspecting
  <2> QED
    BY <2>1, <2>2 DEF UsesReady, Cv!Inspecting
<1>2. CASE Cv!ReadSession(c, p)
  BY <1>0, <1>00, <1>2, GoesMoves, SameCheckUses DEF Cv!ReadSession, Cv!Inspecting
<1>3. CASE Cv!ReadAttempted(c, p)
  <2>1. photo[c][p] = "attempted"
    BY <1>3 DEF Cv!ReadAttempted, Cv!NextCheck, Cv!Goes
  <2>2. Cv!Detector(c, p) \notin ready[c] /\ UNCHANGED <<ready, checked>>
    BY <1>0, <1>3, <2>1 DEF UsesReady, Cv!Inspecting, Cv!ReadAttempted
  <2>3. CASE Cv!Detector(c, p) \in attempted
    BY <1>0, <1>3, <2>2, <2>3, NextCheckUses DEF Cv!ReadAttempted, Cv!Inspecting
  <2>4. CASE Cv!Detector(c, p) \notin attempted
    BY <1>0, <1>00, <1>3, <2>1, <2>2, <2>4, GoesMoves, SameCheckUses DEF Cv!ReadAttempted, Cv!Inspecting
  <2> QED
    BY <2>3, <2>4
<1>4. CASE Cv!MarkAttempted(c, p)
  <2>1. photo[c][p] = "mark"
    BY <1>4 DEF Cv!MarkAttempted, Cv!Goes
  <2>2. Cv!Detector(c, p) \notin ready[c]
    BY <1>0, <2>1 DEF UsesReady, Cv!Inspecting
  <2> QED
    BY <1>0, <1>00, <1>4, <2>1, <2>2, GoesMoves, SameCheckUses DEF Cv!MarkAttempted, Cv!Inspecting
<1>5. CASE Cv!Load(c, p)
  <2>1. photo[c][p] = "load"
    BY <1>5 DEF Cv!Load, Cv!NextCheck, Cv!Goes
  <2>2. Cv!Detector(c, p) \notin ready[c] /\ UNCHANGED <<ready, checked>>
    BY <1>0, <1>5, <2>1 DEF UsesReady, Cv!Inspecting, Cv!Load
  <2>3. CASE Cv!Goes(c, p, "load", "setName") /\ UNCHANGED turn
    BY <1>0, <1>00, <2>1, <2>2, <2>3, GoesMoves, SameCheckUses DEF Cv!Inspecting
  <2>4. CASE Cv!NextCheck(c, p, "load")
    BY <1>0, <2>2, <2>4, NextCheckUses DEF Cv!Inspecting
  <2> QED
    BY <1>5, <2>3, <2>4 DEF Cv!Load
<1>6. CASE Cv!SetInputName(c, p)
  <2>1. photo[c][p] = "setName"
    BY <1>6 DEF Cv!SetInputName, Cv!Goes
  <2> QED
    BY <1>0, <1>00, <1>6, <2>1, GoesMoves, SameCheckUses DEF Cv!SetInputName, Cv!Inspecting
<1>7. CASE Cv!SkipUnnamed(c, p)
  <2>1. Cv!Detector(c, p) \notin ready[c]
    BY <1>0, <1>7 DEF Cv!SkipUnnamed
  <2> QED
    BY <1>0, <1>7, <2>1, NextCheckUses DEF Cv!SkipUnnamed, Cv!Inspecting
<1>8. CASE Cv!Infer(c, p)
  <2>1. <<p, Cv!Detector(c, p)>> \in checked'[c]
    BY <1>8 DEF Cv!Infer, PhotoShapes
  <2> QED
    BY <1>0, <1>8, <2>1, NextCheckUses DEF Cv!Infer, Cv!Inspecting
<1>9. CASE Cv!InferRaises(c, p)
  <2>1. photo[c][p] = "readName"
    BY <1>9 DEF Cv!InferRaises, Cv!Goes
  <2>2. "raised" \in Stages
    BY DEF Stages, Cv!Settled
  <2> QED
    BY <1>0, <1>9, <2>1, <2>2, GoesMoves, SameCheckUses DEF Cv!InferRaises, Cv!Inspecting
<1> QED
  BY <1>1, <1>2, <1>3, <1>4, <1>5, <1>6, <1>7, <1>8, <1>9 DEF Cv!Inspect

LEMMA SkipInvInit == Cv!Init => SkipInv
BY DEF Cv!Init, SkipInv, Fresh, ReadyUsed, UsesReady, Passed, Cv!Inspecting

LEMMA SkipInvStep ==
  PhotoTypes /\ SkipInv /\ [Cv!Next]_(Cv!vars) => SkipInv'
<1> SUFFICES ASSUME PhotoTypes, SkipInv, [Cv!Next]_(Cv!vars) PROVE SkipInv'
  OBVIOUS
<1> USE DEF PhotoTypes
<1>1. ASSUME NEW c \in Cv!Calls, NEW p \in Photos[c],
             Cv!Fetch(c, p) \/ Cv!Fetched(c, p) \/ Cv!FetchFails(c, p)
      PROVE  SkipInv'
  <2>1. PICK to \in {"fetching", "fetched", "failed"} : Moves(c, p, to)
    BY <1>1, GoesMoves DEF Cv!Fetch, Cv!Fetched, Cv!FetchFails, Stages, Cv!Downloading, Cv!Settled
  <2>2. photo[c][p] \in Cv!Downloading /\ UNCHANGED <<call, turn, input, checked, ready>>
    BY <1>1 DEF Cv!Fetch, Cv!Fetched, Cv!FetchFails, Cv!Goes, Cv!Downloading, Cv!detectors
  <2>3. Fresh'
    BY <2>1, <2>2 DEF SkipInv, Fresh, Moves, Cv!Downloading
  <2>4. ReadyUsed'
    BY <2>1, <2>2 DEF SkipInv, ReadyUsed, UsesReady, Passed, Moves, Cv!Downloading, Cv!Inspecting, Cv!Detector
  <2> QED
    BY <2>3, <2>4 DEF SkipInv
<1>2. ASSUME NEW c \in Cv!Calls, NEW p \in Photos[c], Cv!Inspect(c, p) PROVE SkipInv'
  <2>1. PICK to \in Cv!Inspecting \cup Threadless : Moves(c, p, to)
    BY <1>2, InspectMoves
  <2>2. /\ photo[c][p] \in {"fetched"} \cup Cv!Inspecting
        /\ UNCHANGED turn \/ Turns(c, p, turn[c][p] + 1)
        /\ UNCHANGED <<call, ready>>
    BY <1>2, InspectMoves
  <2>3. input \subseteq input' /\ \A d \in Cv!Calls : checked[d] \subseteq checked'[d]
    BY <1>2, InspectWrites
  <2>4. \A d \in Cv!Calls : \A q \in Photos[d] : ~(d = c /\ q = p) =>
          photo'[d][q] = photo[d][q] /\ turn'[d][q] = turn[d][q]
    BY <2>1, <2>2 DEF Moves, Turns
  <2>5. Fresh'
    BY <2>1, <2>2, <2>4 DEF SkipInv, Fresh, Moves, Cv!Downloading, Cv!Inspecting, Threadless
  <2>6. ASSUME NEW d \in Cv!Calls, NEW q \in Photos[d] PROVE UsesReady(d, q)'
    <3>1. CASE d = c /\ q = p
      BY <1>2, <3>1, InspectUses
    <3>2. CASE ~(d = c /\ q = p)
      BY <2>2, <2>3, <2>4, <3>2 DEF SkipInv, ReadyUsed, UsesReady, Passed, Cv!Detector
    <3> QED
      BY <3>1, <3>2
  <2> QED
    BY <2>2, <2>3, <2>5, <2>6 DEF SkipInv, ReadyUsed
<1>3. ASSUME NEW c \in Cv!Calls, Cv!Begin(c) PROVE SkipInv'
  BY <1>3 DEF Cv!Begin, SkipInv, Fresh, ReadyUsed, UsesReady, Passed, PhotoShapes, Cv!TypeOK, Cv!detectors,
              Cv!Downloading, Cv!Inspecting, Cv!Detector
<1>4. ASSUME NEW c \in Cv!Calls, Cv!Analyse(c) PROVE SkipInv'
  <2>1. /\ call' = [call EXCEPT ![c] = "analysing"]
        /\ ready' = [ready EXCEPT ![c] = input]
        /\ UNCHANGED <<photo, turn, session, input, checked>>
        /\ \A p \in Photos[c] : photo[c][p] \in {"fetched", "failed"}
    BY <1>4 DEF Cv!Analyse, Cv!detectors
  <2>2. Fresh'
    BY <2>1 DEF SkipInv, Fresh, Cv!TypeOK
  <2>3. \A d \in Cv!Calls : ready'[d] \subseteq input
    BY <2>1 DEF SkipInv, ReadyUsed, Cv!TypeOK
  <2>4. ASSUME NEW d \in Cv!Calls, NEW q \in Photos[d] PROVE UsesReady(d, q)'
    <3>1. CASE d = c
      BY <2>1, <3>1 DEF UsesReady, Passed, Cv!Inspecting
    <3>2. CASE d # c
      BY <2>1, <3>2 DEF SkipInv, ReadyUsed, UsesReady, Passed, Cv!Detector, Cv!TypeOK
    <3> QED
      BY <3>1, <3>2
  <2> QED
    BY <2>1, <2>2, <2>3, <2>4 DEF SkipInv, ReadyUsed
<1>5. ASSUME NEW c \in Cv!Calls, Cv!Return(c) PROVE SkipInv'
  <2>1. /\ call[c] = "analysing" /\ call' = [call EXCEPT ![c] = call'[c]] /\ call'[c] # "idle"
        /\ UNCHANGED <<photo, turn, session, input, checked, ready>>
    BY <1>5 DEF Cv!Return, Cv!detectors, Cv!TypeOK
  <2>2. Fresh'
    BY <2>1 DEF SkipInv, Fresh, Cv!TypeOK
  <2> QED
    BY <2>1, <2>2 DEF SkipInv, ReadyUsed, UsesReady, Passed, Cv!Detector
<1>6. ASSUME NEW c \in Cv!Calls, Cv!Cancel(c) PROVE SkipInv'
  <2>1. /\ call' = [call EXCEPT ![c] = "cancelled"]
        /\ UNCHANGED <<turn, session, input, checked, ready>>
        /\ \A d \in Cv!Calls : \A q \in Photos[d] :
             \/ photo'[d][q] = photo[d][q]
             \/ d = c /\ photo'[d][q] = "cancelled"
    BY <1>6 DEF Cv!Cancel, PhotoShapes, Cv!TypeOK, Cv!detectors
  <2>2. call[c] # "idle"
    BY <1>6 DEF Cv!Cancel
  <2>3. Fresh'
    BY <2>1, <2>2 DEF SkipInv, Fresh, Cv!TypeOK, Cv!Downloading
  <2>4. ReadyUsed'
    BY <2>1 DEF SkipInv, ReadyUsed, UsesReady, Passed, Cv!Detector, Cv!Inspecting
  <2> QED
    BY <2>3, <2>4 DEF SkipInv
<1>7. CASE UNCHANGED Cv!vars
  BY <1>7 DEF Cv!vars, SkipInv, Fresh, ReadyUsed, UsesReady, Passed, Cv!Detector
<1> QED
  BY <1>1, <1>2, <1>3, <1>4, <1>5, <1>6, <1>7 DEF Cv!Next, Cv!Progress

LEMMA PhotoInvariant == PartsSpec => [](PhotoTypes /\ SkipInv)
<1>1. PartsInit => PhotoTypes /\ SkipInv
  BY PhotoTypesInit, SkipInvInit DEF PartsInit
<1>2. PhotoTypes /\ SkipInv /\ [PartsNext]_partVars => PhotoTypes' /\ SkipInv'
  BY PartsStep, PhotoTypesStep, SkipInvStep DEF SkipInv
<1> QED
  BY <1>1, <1>2, PTL DEF PartsSpec

\* A detector that was loaded when a call starts its threads runs on each of its photos,
\* whatever other calls load, raise or cancel meanwhile.
THEOREM SkipsWhileLoadingOnly == PartsSpec => []SkipsOnlyWhileLoading
<1>1. PhotoTypes /\ SkipInv => SkipsOnlyWhileLoading
  <2> SUFFICES ASSUME PhotoTypes, SkipInv, NEW c \in Cv!Calls, NEW p \in Photos[c], photo[c][p] = "done",
                      NEW d \in ready[c]
               PROVE  <<p, d>> \in checked[c]
    BY DEF SkipsOnlyWhileLoading, Cv!SkipsOnlyWhileLoading, Cv!Inspected
  <2>1. PICK i \in DOMAIN Checks : Checks[i] = d
    BY DEF PhotoTypes, Cv!TypeOK, Cv!Detectors
  <2>2. i \in Passed(c, p)
    BY DEF Passed
  <2> QED
    BY <2>1, <2>2 DEF SkipInv, ReadyUsed, UsesReady
<1> QED
  BY <1>1, PhotoInvariant, PTL

\* The types of the three parts hold; of the pipeline, this says that no path loses or
\* invents a download slot and that a detector has an input name only with a session.
THEOREM PartTypes == PartsSpec => []TypesOK
<1>1. PartsInit => TypeOK /\ TripsAtThreshold
  BY BreakerTypeInit DEF PartsInit
<1>2. TypeOK /\ TripsAtThreshold /\ [PartsNext]_partVars => TypeOK' /\ TripsAtThreshold'
  BY PartsStep, BreakerTypeStep
<1>3. PartsSpec => [](TypeOK /\ TripsAtThreshold)
  BY <1>1, <1>2, PTL DEF PartsSpec
<1>4. TypeOK /\ RuntimeInv /\ PhotoTypes => TypesOK
  BY DEF RuntimeInv, PhotoTypes, TypesOK
<1> QED
  BY <1>3, <1>4, RuntimeInvariant, PhotoInvariant, PTL
===============================================================================
