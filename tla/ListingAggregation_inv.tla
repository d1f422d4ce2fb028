------------------------ MODULE ListingAggregation_inv ------------------------
(***************************************************************************)
(* The inductive invariants behind the safety properties of                *)
(* ListingAggregation.  ListingAggregation_proofs proves them.             *)
(***************************************************************************)
EXTENDS ListingAggregation

Working(h) == pc[h] \notin {"idle", "read"}

\* A finished stage is in the working copy, and an ended gather has both.
StagesInCopy == \A h \in Handlers : \A s \in Stages :
                  pc[h] = "stages" /\ stage[h][s] = "done" => state[h][s] # NoResult

\* What an event carries is fixed once it is submitted.
Submitted(e) == status[e] # "new" /\ carries[e] \in Inputs
EventsFixed == /\ \A h \in Handlers : pc[h] # "idle" => Submitted(event[h])
               /\ \A p \in published : Submitted(p.event)
               /\ \A e \in Events : status[e] # "new" => carries[e] \in Inputs

TypeInv == TypeOK /\ StagesInCopy /\ EventsFixed

-------------------------------------------------------------------------------
\* Every result was computed from the inputs of the document it is in.
Own(d) == \A s \in Stages : d[s] \in {d.inputs, NoResult}

DocOwn == doc # NoDoc => Own(doc)
CopiesOwn == \A h \in Handlers : Working(h) => /\ state[h].inputs = Listing(h)
                                               /\ Own(state[h])

ResultInv == DocOwn /\ CopiesOwn /\ PublishedComplete

-------------------------------------------------------------------------------
\* With one handler at a time, nothing is finished behind its back.
OneHandler == \A g, h \in Handlers : pc[g] # "idle" /\ pc[h] # "idle" => g = h

Ahead(d) == \A s \in Stages :
              doc # NoDoc /\ doc.inputs = d.inputs /\ doc[s] # NoResult => d[s] = doc[s]
CopiesAhead == \A h \in Handlers : Working(h) => Ahead(state[h])

ProgressInv == Concurrency = "one" => OneHandler /\ CopiesAhead
===============================================================================
