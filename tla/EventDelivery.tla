---------------------------- MODULE EventDelivery ----------------------------
(***************************************************************************)
(* What a consumer of the pipeline promises its producer: at-least-once    *)
(* delivery.  An event that was submitted stays open until its result has  *)
(* been durably emitted (done) or a copy of it rests in the dead-letter    *)
(* queue (dead).  It is never simply forgotten, and done is final.         *)
(***************************************************************************)
CONSTANT Events

VARIABLES status,    \* status[e]: "new", "open", "done" or "dead"
          outputs    \* the events whose result has been emitted

vars == <<status, outputs>>

Init == /\ status = [e \in Events |-> "new"]
        /\ outputs = {}

\* The producer publishes e, for the first time or again.
Submit(e) == /\ status[e] \in {"new", "dead"}
             /\ status' = [status EXCEPT ![e] = "open"]
             /\ UNCHANGED outputs

\* A handler emits the result of e; several handlers may.
Emit(e) == /\ status[e] # "new"
           /\ outputs' = outputs \cup {e}
           /\ UNCHANGED status

\* e is recorded as processed, after its result was emitted.
Finish(e) == /\ status[e] = "open"
             /\ e \in outputs
             /\ status' = [status EXCEPT ![e] = "done"]
             /\ UNCHANGED outputs

\* The consumer gives e up to the dead-letter queue.
Bury(e) == /\ status[e] = "open"
           /\ status' = [status EXCEPT ![e] = "dead"]
           /\ UNCHANGED outputs

Next == \E e \in Events : Submit(e) \/ Emit(e) \/ Finish(e) \/ Bury(e)

Spec == Init /\ [][Next]_vars
==============================================================================
