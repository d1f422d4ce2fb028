------------------------------ MODULE Process_inv ------------------------------
(***************************************************************************)
(* The inductive invariants behind the safety properties of Runtime and    *)
(* CvPipeline, in the variables of MCProcess, which runs them.             *)
(* Process_proofs proves them.                                             *)
(***************************************************************************)
EXTENDS MCProcess

-------------------------------------------------------------------------------
(* Start and stop of a process.                                            *)

Unattached == {"metrics", "build", "connect", "channel", "firstDrain"}
PastDrainer == {"stopConsumer", "finalDrain", "closePublisher", "closeStore",
                "stopMetrics", "done"}
PastFinalDrain == {"closePublisher", "closeStore", "stopMetrics", "done"}
Ending == {"stopMetrics", "done"}

Undisturbed == faults = {} /\ ~outlived
Orderly == faults \cap {"shutdown", "timeout"} = {}

\* What each await of the start can have opened, and what each await of the
\* shutdown has left.
Opened == /\ main = "metrics" => open = {}
          /\ main = "build" => open \subseteq {"metrics"}
          /\ main = "connect" => open \subseteq {"metrics", "store"}
          /\ main = "channel" => open \subseteq {"metrics", "store", "connection"}
          /\ main \in {"firstDrain", "consume"} => "consumer" \notin open /\ "clients" \notin open
          /\ main = "clients" => "clients" \notin open
Closed == /\ main \in PastDrainer \cup {"stopDrainer", "awaitDrainer"} => "clients" \notin open
          /\ main \in PastFinalDrain \cup {"finalDrain"} => "consumer" \notin open
          /\ main = "closeStore" => ~attached
          /\ main \in Ending /\ Orderly => open \subseteq {"metrics"}
          /\ main = "done" => "metrics" \notin open

\* Messaging is open only while it is being attached or attached.
Detached == /\ ~attached /\ main \notin Unattached => open \cap Process!Messaging = {}
            /\ main = "consume" => attached

\* The drainer lives from the attachment to the await that ends it.
DrainerLives == /\ main \in Unattached => ~attached /\ drainer = "none"
                /\ drainer = "running" => attached /\ main \notin PastDrainer

CloseInv == Opened /\ Closed /\ Detached /\ DrainerLives

\* A handler lives within its consumer, or within the requests of the API.
HandlerLives ==
  /\ "consumer" \in open => mode.consumes
  /\ main = "consume" => mode.consumes
  /\ outlived => mode.consumes
  /\ handler # "idle" /\ ~outlived =>
       /\ attached
       /\ IF mode.consumes THEN "consumer" \in open ELSE main = "running"
  /\ main \in Unattached \cup {"consume"} => handler = "idle"

\* The publisher channel is open while it is attached, or about to be, unless the
\* pricer has closed it under its drainer.
PublisherOpen ==
  /\ main = "firstDrain" => "publisher" \in open
  /\ attached /\ ~(mode.service = "pricer" /\ "start" \in faults) => "publisher" \in open
  /\ main = "finalDrain" /\ drain["main"] # "off" => attached

DrainInv == CloseInv /\ HandlerLives /\ PublisherOpen

\* In an undisturbed run the last drain takes every row that waits.
StaysAttached == faults = {} /\ Process!Publishes /\ main \notin Unattached \cup {"closeStore"} \cup Ending
                   => attached
StuckByCancel == faults = {} => \A r \in Rows : rows[r] = "stuck" => mode.consumes
Drained ==
  /\ Undisturbed /\ main = "finalDrain" /\ drain["main"] = "rows" =>
       \A r \in Rows : rows[r] # "pending"
  /\ Undisturbed /\ Process!Publishes /\ main \in PastFinalDrain =>
       \A r \in Rows : rows[r] \in {"absent", "published", "stuck"}

ExitInv == StaysAttached /\ StuckByCancel /\ Drained

-------------------------------------------------------------------------------
(* The photo pipeline.                                                     *)

\* The downloads of all calls, and those that hold a slot.
Downloads == UNION {{c} \X Photos[c] : c \in Cv!Calls}
Holding == {h \in Downloads : photo[h[1]][h[2]] = "fetching"}

PhotoShapes == DOMAIN photo = Cv!Calls /\ DOMAIN turn = Cv!Calls /\ DOMAIN checked = Cv!Calls

\* Every slot is free or held by a download.
SlotsKept == /\ IsFiniteSet(Holding)
             /\ slots \in Nat
             /\ slots + Cardinality(Holding) = Slots

\* A thread that goes on to the input name has a session to ask.
Loaded == \A c \in Cv!Calls : \A p \in Photos[c] :
            photo[c][p] \in {"setName", "readName"} => Cv!Detector(c, p) \in session

PhotoTypes == Cv!TypeOK /\ PhotoShapes /\ SlotsKept /\ Loaded

\* A thread starts at the first check.
Fresh == \A c \in Cv!Calls : \A p \in Photos[c] :
           /\ call[c] = "idle" => photo[c][p] = "none"
           /\ photo[c][p] \in {"none", "fetched"} \cup Cv!Downloading => turn[c][p] = 1

\* Loaded before the threads of a call, a detector is not loaded by them, and has
\* seen each photo that is past it.
Passed(c, p) == IF photo[c][p] = "done" THEN DOMAIN Checks
                ELSE IF photo[c][p] \in Cv!Inspecting THEN 1..(turn[c][p] - 1) ELSE {}
UsesReady(c, p) ==
  /\ \A i \in Passed(c, p) : Checks[i] \in ready[c] => <<p, Checks[i]>> \in checked[c]
  /\ photo[c][p] \in Cv!Inspecting /\ Cv!Detector(c, p) \in ready[c] =>
       photo[c][p] \in {"session", "readName"}
ReadyUsed == \A c \in Cv!Calls : /\ ready[c] \subseteq input
                                 /\ \A p \in Photos[c] : UsesReady(c, p)

SkipInv == Fresh /\ ReadyUsed
===============================================================================
