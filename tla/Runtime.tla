------------------------------ MODULE Runtime ------------------------------
(***************************************************************************)
(* Start and stop of the enrichment and pricer processes                   *)
(* (bootstrap/container.py, bootstrap/process.py, worker.py, main.py):     *)
(* one step for each await of the main coroutine, which may raise, next to *)
(* the periodic drainer task and one message handler or HTTP request, all  *)
(* of which drain the outbox through the publisher channel.                *)
(***************************************************************************)
EXTENDS Naturals, FiniteSets

CONSTANT Rows          \* the outbox rows

VARIABLES
    mode,              \* which process this is; never changes
    main,              \* the await the main coroutine is at
    open,              \* the resources that are open
    attached,          \* the runtime holds a connection, a channel and a sink
    drainer,           \* the periodic drainer task
    stop,              \* its stop event is set
    handler,           \* the message handler or HTTP request that publishes
    drain,             \* per actor, where its OutboxEventSink.drain is
    rows,              \* the outbox: status of every row, or who claimed it
    faults,            \* history: what has failed so far
    outlived           \* history: the handler outlived its channel

vars == <<mode, main, open, attached, drainer, stop, handler, drain, rows, faults, outlived>>
tasks == <<drainer, stop, handler, drain, rows, outlived>>

\* RUN_MODE: worker consumes, api serves HTTP, all does both.
Modes == {m \in [service : {"enrichment", "pricer"}, consumes : BOOLEAN, serves : BOOLEAN] :
            m.consumes \/ m.serves}
Resources == {"metrics", "store", "connection", "publisher", "consumer", "clients"}
Messaging == {"connection", "publisher", "consumer"}
Actors == {"main", "drainer", "handler"}
Starting == {"metrics", "build", "connect", "channel", "firstDrain", "consume", "clients"}
Stopping == {"closeClients", "stopDrainer", "awaitDrainer", "stopConsumer", "finalDrain",
             "closePublisher", "closeStore", "stopMetrics"}
FaultKinds == {"start", "row", "drain", "shutdown", "timeout"}

\* RUN_MODE=api of the pricer attaches no messaging at all.
Publishes == mode.service = "enrichment" \/ mode.consumes

\* What startup goes on to once the messaging is attached: the HTTP clients of
\* the admin and dealer desks, in an enrichment process that serves them.
AfterMessaging == IF mode.service = "enrichment" /\ mode.serves THEN "clients" ELSE "running"

TypeOK ==
    /\ mode \in Modes
    /\ main \in Starting \cup Stopping \cup {"running", "done"}
    /\ open \subseteq Resources
    /\ attached \in BOOLEAN /\ stop \in BOOLEAN /\ outlived \in BOOLEAN
    /\ drainer \in {"none", "running", "ended"}
    /\ handler \in {"idle", "working", "draining"}
    /\ drain \in [Actors -> {"off", "claim", "rows"}]
    /\ rows \in [Rows -> {"absent", "pending", "published", "stuck"} \cup Actors]
    /\ faults \subseteq FaultKinds
    /\ drain["main"] # "off" => main \in {"firstDrain", "finalDrain"}
    /\ drain["handler"] # "off" <=> handler = "draining"
    /\ drain["drainer"] # "off" => drainer = "running"
    /\ \A a \in Actors : drain[a] # "rows" => \A r \in Rows : rows[r] # a

Init ==
    /\ mode \in Modes
    /\ main = "metrics"
    /\ open = {}
    /\ attached = FALSE /\ stop = FALSE /\ outlived = FALSE
    /\ drainer = "none"
    /\ handler = "idle"
    /\ drain = [a \in Actors |-> "off"]
    /\ rows \in [Rows -> {"absent", "pending"}]
    /\ faults = {}

Fault(kind) == faults' = faults \cup {kind}
Opens(resource) == open' = open \cup {resource}

\* The claims of a drain that ends without settling them.
Abandoned(a) == [r \in Rows |-> IF rows[r] = a THEN "stuck" ELSE rows[r]]

-----------------------------------------------------------------------------
(* Startup. An exception goes to the `finally` that shuts down.            *)

StartMetrics ==
    /\ main = "metrics" /\ main' = "build"
    /\ \/ Opens("metrics")
       \/ UNCHANGED open                     \* METRICS_ENABLED is off
    /\ UNCHANGED <<mode, attached, tasks, faults>>

BuildRuntime ==
    /\ main = "build"
    /\ Opens("store")
    /\ main' = IF Publishes THEN "connect" ELSE "running"
    /\ UNCHANGED <<mode, attached, tasks, faults>>

\* self._runtime is still None: there is nothing to shut down but metrics.
BuildFails ==
    /\ main \in {"metrics", "build"} /\ main' = "stopMetrics"
    /\ Fault("start")
    /\ UNCHANGED <<mode, open, attached, tasks>>

Connect ==
    /\ main = "connect" /\ main' = "channel"
    /\ Opens("connection")
    /\ UNCHANGED <<mode, attached, tasks, faults>>

OpenPublisher ==
    /\ main = "channel" /\ main' = "firstDrain"
    /\ Opens("publisher")
    /\ drain' = [drain EXCEPT !["main"] = "claim"]
    /\ UNCHANGED <<mode, attached, drainer, stop, handler, rows, faults, outlived>>

ConnectFails ==
    /\ main \in {"connect", "channel"} /\ main' = "stopDrainer"
    /\ open' = open \ Messaging
    /\ Fault("start")
    /\ UNCHANGED <<mode, attached, tasks>>

\* The first drain ends: the runtime takes the resources and starts the
\* drainer, or the exception handler closes them.
Attach ==
    /\ attached' = TRUE
    /\ drainer' = "running"
    /\ main' = IF mode.consumes THEN "consume" ELSE AfterMessaging
    /\ UNCHANGED <<open, faults>>

\* Faulty: the exception handler leaves the channel to the next attempt.
AttachFails_Leaks ==
    /\ main' = "stopDrainer"
    /\ Fault("start")
    /\ UNCHANGED <<open, attached, drainer>>

AttachFails ==
    /\ open' = open \ Messaging
    /\ main' = "stopDrainer"
    /\ Fault("start")
    /\ UNCHANGED <<attached, drainer>>

Consume ==
    /\ main = "consume" /\ main' = AfterMessaging
    /\ Opens("consumer")
    /\ UNCHANGED <<mode, attached, tasks, faults>>

\* The enrichment service closes the consume channel only; the pricer closes
\* the connection under the drainer it has just started.
ConsumeFails ==
    /\ main = "consume" /\ main' = "stopDrainer"
    /\ open' = IF mode.service = "pricer" THEN open \ Messaging ELSE open
    /\ Fault("start")
    /\ UNCHANGED <<mode, attached, tasks>>

\* The admin and dealer bundles; a shutdown closes the one that was built.
BuildClients ==
    /\ main = "clients" /\ main' = "running"
    /\ \/ Opens("clients")
       \/ UNCHANGED open                     \* neither desk is enabled
    /\ UNCHANGED <<mode, attached, tasks, faults>>

BuildClientsFails ==
    /\ main = "clients" /\ main' = "closeClients"
    /\ \/ Opens("clients")
       \/ UNCHANGED open
    /\ Fault("start")
    /\ UNCHANGED <<mode, attached, tasks>>

-----------------------------------------------------------------------------
(* OutboxEventSink.drain by the main coroutine, the drainer or a handler.  *)

StartDrain(a) == drain' = [drain EXCEPT ![a] = "claim"]

ClaimRows(a) ==
    /\ drain[a] = "claim"
    /\ rows' = [r \in Rows |-> IF rows[r] = "pending" THEN a ELSE rows[r]]
    /\ drain' = [drain EXCEPT ![a] = "rows"]
    /\ UNCHANGED <<mode, main, open, attached, drainer, stop, handler, faults, outlived>>

PublishRow(a) ==
    /\ drain[a] = "rows" /\ "publisher" \in open
    /\ \E r \in Rows :
        /\ rows[r] = a
        /\ rows' = [rows EXCEPT ![r] = "published"]
    /\ UNCHANGED <<mode, main, open, attached, drainer, stop, handler, drain, faults, outlived>>

\* The publish fails, or the channel is closed: the claim is released.
RowFails(a) ==
    /\ drain[a] = "rows"
    /\ \E r \in Rows :
        /\ rows[r] = a
        /\ rows' = [rows EXCEPT ![r] = "pending"]
    /\ Fault("row")
    /\ UNCHANGED <<mode, main, open, attached, drainer, stop, handler, drain, outlived>>

\* What the caller of drain does when it returns or raises.
Continue(a, ok) ==
    \/ /\ a = "main" /\ main = "firstDrain"
       /\ IF ok THEN Attach ELSE AttachFails
       /\ UNCHANGED handler
    \/ /\ a = "main" /\ main = "finalDrain"          \* suppress(Exception)
       /\ main' = "closePublisher"
       /\ faults' = IF ok THEN faults ELSE faults \cup {"drain"}
       /\ UNCHANGED <<open, attached, drainer, handler>>
    \/ /\ a = "drainer"
       /\ faults' = IF ok THEN faults ELSE faults \cup {"drain"}
       /\ UNCHANGED <<main, open, attached, drainer, handler>>
    \/ /\ a = "handler"
       /\ handler' = "idle"
       /\ faults' = IF ok THEN faults ELSE faults \cup {"drain"}
       /\ UNCHANGED <<main, open, attached, drainer>>

DrainEnds(a) ==
    /\ drain[a] = "rows" /\ \A r \in Rows : rows[r] # a
    /\ drain' = [drain EXCEPT ![a] = "off"]
    /\ Continue(a, TRUE)
    /\ UNCHANGED <<mode, stop, rows, outlived>>

\* claim_pending or release_claim raises; claims not yet settled stay.
DrainRaises(a) ==
    /\ drain[a] # "off"
    /\ drain[a] = "rows" => \E r \in Rows : rows[r] = a
    /\ drain' = [drain EXCEPT ![a] = "off"]
    /\ rows' = Abandoned(a)
    /\ Continue(a, FALSE)
    /\ UNCHANGED <<mode, stop, outlived>>

DrainStep(a) ==
    /\ main # "done"
    /\ \/ ClaimRows(a) \/ PublishRow(a) \/ RowFails(a)
       \/ DrainEnds(a) \/ DrainRaises(a)

-----------------------------------------------------------------------------
(* The drainer task and the handler                                        *)

\* The interval is over and the stop event is not set.
PeriodicDrain ==
    /\ drainer = "running" /\ drain["drainer"] = "off"
    /\ ~stop /\ main # "done"
    /\ StartDrain("drainer")
    /\ UNCHANGED <<mode, main, open, attached, drainer, stop, handler, rows, faults, outlived>>

DrainerStops ==
    /\ drainer = "running" /\ drain["drainer"] = "off"
    /\ stop /\ main # "done"
    /\ drainer' = "ended"
    /\ UNCHANGED <<mode, main, open, attached, stop, handler, drain, rows, faults, outlived>>

\* A delivery while the consumer is not stopping, or an HTTP request.
HandlerStarts ==
    /\ handler = "idle" /\ attached
    /\ \/ /\ mode.consumes /\ "consumer" \in open
          /\ main \in {"clients", "running", "closeClients", "stopDrainer", "awaitDrainer"}
       \/ ~mode.consumes /\ main = "running"
    /\ handler' = "working"
    /\ UNCHANGED <<mode, main, open, attached, drainer, stop, drain, rows, faults, outlived>>

HandlerEnqueues ==
    /\ handler = "working" /\ main # "done"
    /\ \E r \in Rows :
        /\ rows[r] = "absent"
        /\ rows' = [rows EXCEPT ![r] = "pending"]
    /\ handler' = "draining"
    /\ StartDrain("handler")
    /\ UNCHANGED <<mode, main, open, attached, drainer, stop, faults, outlived>>

\* The message was skipped, or failed before it published.
HandlerEnds ==
    /\ handler = "working" /\ main # "done"
    /\ handler' = "idle"
    /\ UNCHANGED <<mode, main, open, attached, drainer, stop, drain, rows, faults, outlived>>

-----------------------------------------------------------------------------
(* Shutdown, of which the runtime's part is under one timeout              *)

\* A signal, or an exception later in startup. Uvicorn ends the HTTP
\* requests before the lifespan's shutdown.
RequestStop ==
    /\ main = "running" /\ main' = "closeClients"
    /\ ~mode.consumes => handler = "idle"
    /\ UNCHANGED <<mode, open, attached, tasks, faults>>

\* The lifespan closes the bundles first, whatever that raises.
CloseClients ==
    /\ main = "closeClients" /\ main' = "stopDrainer"
    /\ open' = open \ {"clients"}
    /\ UNCHANGED <<mode, attached, tasks, faults>>

\* Faulty: the references are cleared and the event is not set.
StopDrainer_NotSet ==
    /\ main = "stopDrainer" /\ main' = "awaitDrainer"
    /\ UNCHANGED <<mode, open, attached, tasks, faults>>

StopDrainer ==
    /\ main = "stopDrainer" /\ main' = "awaitDrainer"
    /\ stop' = TRUE
    /\ UNCHANGED <<mode, open, attached, drainer, handler, drain, rows, faults, outlived>>

\* Faulty: the stop event is set and the task is left to itself.
DrainerEnded_NotAwaited == TRUE

DrainerEnded == drainer # "running"

AwaitDrainer ==
    /\ main = "awaitDrainer" /\ main' = "stopConsumer"
    /\ DrainerEnded
    /\ UNCHANGED <<mode, open, attached, tasks, faults>>

\* Faulty: the drain goes on without the handler that started it.
CloseConsumer_DrainGoesOn ==
    /\ open' = open \ {"consumer"}
    /\ handler' = "idle"
    /\ UNCHANGED <<drain, rows, outlived>>

\* The consume channel closes: aiormq cancels the handler, unless the task
\* has been detached from it.
CloseConsumer ==
    /\ open' = open \ {"consumer"}
    /\ \/ /\ handler' = "idle"
          /\ drain' = [drain EXCEPT !["handler"] = "off"]
          /\ rows' = Abandoned("handler")
          /\ UNCHANGED outlived
       \/ /\ handler # "idle"
          /\ outlived' = TRUE
          /\ UNCHANGED <<handler, drain, rows>>

StopConsumer ==
    /\ main = "stopConsumer" /\ main' = "finalDrain"
    /\ IF "consumer" \in open
       THEN CloseConsumer
       ELSE UNCHANGED <<open, handler, drain, rows, outlived>>
    /\ UNCHANGED <<mode, attached, drainer, stop, faults>>

\* Faulty: the outbox is left to the next process.
StartFinalDrain_Skipped ==
    /\ main = "finalDrain" /\ drain["main"] = "off"
    /\ main' = "closePublisher"
    /\ UNCHANGED <<mode, open, attached, tasks, faults>>

StartFinalDrain ==
    /\ main = "finalDrain" /\ drain["main"] = "off"
    /\ IF attached
       THEN StartDrain("main") /\ UNCHANGED main
       ELSE main' = "closePublisher" /\ UNCHANGED drain
    /\ UNCHANGED <<mode, open, attached, drainer, stop, handler, rows, faults, outlived>>

ClosePublisher ==
    /\ main = "closePublisher" /\ main' = "closeStore"
    /\ open' = IF attached THEN open \ Messaging ELSE open
    /\ attached' = FALSE
    /\ UNCHANGED <<mode, tasks, faults>>

CloseStore ==
    /\ main = "closeStore" /\ main' = "stopMetrics"
    /\ open' = open \ {"store"}
    /\ UNCHANGED <<mode, attached, tasks, faults>>

\* The `finally` that stops the metrics server.
Aborted == "stopMetrics"

\* consumer.stop closes its channel in a `finally` and raises; the errors of
\* the other awaits leave the resource as it was.
ShutdownFails ==
    /\ main \in {"stopConsumer", "closePublisher", "closeStore"}
    /\ main = "stopConsumer" => "consumer" \in open
    /\ main' = Aborted
    /\ Fault("shutdown")
    /\ IF main = "stopConsumer"
       THEN CloseConsumer
       ELSE UNCHANGED <<open, handler, drain, rows, outlived>>
    /\ UNCHANGED <<mode, attached, drainer, stop>>

\* wait_for cancels shutdown_runtime. _stop_outbox_drainer swallows the
\* cancellation, which reaches the drainer task, and the shutdown goes on.
TimeoutSwallowed ==
    /\ main = "awaitDrainer" /\ "timeout" \notin faults
    /\ drainer = "running"
    /\ drainer' = "ended"
    /\ drain' = [drain EXCEPT !["drainer"] = "off"]
    /\ rows' = Abandoned("drainer")
    /\ Fault("timeout")
    /\ UNCHANGED <<mode, main, open, attached, stop, handler, outlived>>

Timeout ==
    /\ main \in {"stopConsumer", "finalDrain", "closePublisher", "closeStore"}
    /\ "timeout" \notin faults
    /\ main' = Aborted
    /\ Fault("timeout")
    /\ IF main = "stopConsumer" /\ "consumer" \in open
       THEN CloseConsumer
       ELSE /\ drain' = [drain EXCEPT !["main"] = "off"]
            /\ rows' = Abandoned("main")
            /\ UNCHANGED <<open, handler, outlived>>
    /\ UNCHANGED <<mode, attached, drainer, stop>>

StopMetrics ==
    /\ main = "stopMetrics" /\ main' = "done"
    /\ open' = open \ {"metrics"}
    /\ UNCHANGED <<mode, attached, tasks, faults>>

-----------------------------------------------------------------------------
StartStep ==
    \/ StartMetrics \/ BuildRuntime \/ BuildFails
    \/ Connect \/ OpenPublisher \/ ConnectFails
    \/ Consume \/ ConsumeFails \/ BuildClients \/ BuildClientsFails

StopStep ==
    \/ CloseClients \/ StopDrainer \/ AwaitDrainer \/ StopConsumer \/ StartFinalDrain
    \/ ClosePublisher \/ CloseStore \/ ShutdownFails \/ StopMetrics

HandlerStep == HandlerStarts \/ HandlerEnqueues \/ HandlerEnds

Next ==
    \/ StartStep \/ RequestStop \/ StopStep
    \/ TimeoutSwallowed \/ Timeout
    \/ PeriodicDrain \/ DrainerStops
    \/ HandlerStep
    \/ \E a \in Actors : DrainStep(a)

\* Awaits return or raise, and the loop of the drainer runs: nothing is
\* assumed of the shutdown timeout, nor of the handler.
Fairness ==
    /\ WF_vars(StopStep) /\ WF_vars(DrainerStops)
    /\ WF_vars(DrainStep("main")) /\ WF_vars(DrainStep("drainer"))

Spec == Init /\ [][Next]_vars /\ Fairness

-----------------------------------------------------------------------------
\* However the process ends, the metrics port is released; and unless a step
\* of the shutdown failed or timed out, a start that failed at any await and
\* a start that succeeded leave nothing open and no drainer task.
ClosesEverything ==
    main = "done" =>
        /\ "metrics" \notin open
        /\ faults \cap {"shutdown", "timeout"} = {} => open = {} /\ drainer # "running"

\* A drain has an open publisher channel: the drainer ends before the channel
\* closes, and so does a handler that ends with its own channel. Only the
\* pricer, when consuming fails, closes the channel under its drainer.
DrainsOnOpenChannel ==
    \A a \in Actors :
        /\ drain[a] = "rows"
        /\ ~(mode.service = "pricer" /\ "start" \in faults)
        /\ ~outlived
        => "publisher" \in open

\* After an undisturbed run and shutdown no row waits for a publisher: the
\* last drain comes after the last handler, and only a handler that was
\* cancelled in its own drain leaves a claim behind.
CleanExitDrains ==
    main = "done" /\ faults = {} /\ ~outlived =>
        \A r \in Rows :
            /\ rows[r] \in {"absent", "published", "stuck"} \/ ~Publishes
            /\ rows[r] = "stuck" => mode.consumes

\* A shutdown ends even when no timeout cuts it short.
ShutdownEnds == main \in Stopping ~> main = "done"
=============================================================================
