----------------------- MODULE ListingAggregation_proofs -----------------------
(***************************************************************************)
(* Theorems about ListingAggregation, from the inductive invariants of     *)
(* ListingAggregation_inv.                                                 *)
(***************************************************************************)
EXTENDS ListingAggregation_inv, TLAPS

-------------------------------------------------------------------------------
(* Types.                                                                  *)

LEMMA FreshIsDoc == \A i \in Inputs : Fresh(i) \in Doc
  BY DEF Fresh, Doc, Results

LEMMA ResumedIsDoc ==
  ASSUME TypeInv, NEW h \in Handlers, pc[h] # "idle"
  PROVE  Resumed(h) \in Doc
  BY FreshIsDoc DEF TypeInv, TypeOK, EventsFixed, Submitted, Listing, Resumed

LEMMA ListingIsInput ==
  ASSUME TypeInv, NEW h \in Handlers, pc[h] # "idle"
  PROVE  Listing(h) \in Inputs
  BY DEF TypeInv, EventsFixed, Submitted, Listing

\* A working copy stays one when a stage adds its result.
LEMMA KeepIsDoc ==
  ASSUME TypeInv, NEW h \in Handlers, NEW s \in Stages, pc[h] = "stages", Keep(h, s)
  PROVE  /\ state' \in [Handlers -> Doc \cup {NoDoc}]
         /\ state'[h] \in Doc
         /\ state'[h][s] = Listing(h)
         /\ Listing(h) \in Inputs
         /\ \A t \in Stages \ {s} : state'[h][t] = state[h][t]
         /\ state'[h].inputs = state[h].inputs
         /\ \A g \in Handlers \ {h} : state'[g] = state[g]
<1>1. state[h] \in Doc /\ Listing(h) \in Inputs
  BY ListingIsInput DEF TypeInv, TypeOK
<1>2. state' = [state EXCEPT ![h] = [state[h] EXCEPT ![s] = Listing(h)]]
  BY DEF Keep
<1>3. CASE s = "llm"
  BY <1>1, <1>2, <1>3 DEF TypeInv, TypeOK, Doc, Results, Stages
<1>4. CASE s = "cv"
  BY <1>1, <1>2, <1>4 DEF TypeInv, TypeOK, Doc, Results, Stages
<1> QED
  BY <1>3, <1>4 DEF Stages

LEMMA StampIsDoc ==
  ASSUME NEW d \in Doc, NEW b \in BOOLEAN
  PROVE  /\ Stamp(d, b) \in Doc
         /\ Stamp(d, b).inputs = d.inputs
         /\ \A s \in Stages : Stamp(d, b)[s] = d[s]
  BY DEF Doc, Stages, Stamp

LEMMA TypeInit == Init => TypeInv
  BY AggregationAssumption
  DEF Init, TypeInv, TypeOK, StagesInCopy, EventsFixed, Doc, Results, Published, Stages

LEMMA TypeStep == TypeInv /\ [Next]_vars => TypeInv'
<1> SUFFICES ASSUME TypeInv, [Next]_vars PROVE TypeInv'
  OBVIOUS
<1> USE DEF TypeInv, TypeOK, StagesInCopy, EventsFixed, Submitted
<1>1. ASSUME NEW e \in Events, NEW i \in Inputs, SaveRaw(e, i) PROVE TypeInv'
  BY <1>1, FreshIsDoc DEF SaveRaw, SetStatus, handlerVars, Results, Published
<1>2. ASSUME NEW e \in Events, PublishRaw(e) \/ PublishRawFails(e) PROVE TypeInv'
  <2>1. /\ status[e] = "saved"
        /\ SetStatus(e, "open") \/ SetStatus(e, "failed")
        /\ UNCHANGED <<doc, carries, pc, event, state, stage, published>>
    BY <1>2 DEF PublishRaw, PublishRawFails, handlerVars
  <2>2. /\ status' \in [Events -> {"new", "saved", "failed", "open", "done", "dead"}]
        /\ \A f \in Events : status'[f] # "new" <=> status[f] # "new"
    BY <2>1 DEF SetStatus
  <2> QED
    BY <2>1, <2>2 DEF Published, Full
<1>3. ASSUME NEW h \in Handlers, NEW e \in Events, Start(h, e) PROVE TypeInv'
  BY <1>3, AggregationAssumption DEF Start, Goto
<1>4. ASSUME NEW h \in Handlers, Read(h) PROVE TypeInv'
  <2>1. PICK d \in Doc :
          /\ state' = [state EXCEPT ![h] = d]
          /\ (Goto(h, "publish") /\ Full(d)) \/ Goto(h, "prepare")
          /\ UNCHANGED <<doc, carries, status, event, stage, published>>
          /\ pc[h] = "read"
    BY <1>4, ResumedIsDoc, StampIsDoc DEF Read
  <2> QED
    BY <2>1, AggregationAssumption DEF Goto, Full
<1>5. ASSUME NEW h \in Handlers, Prepare(h) PROVE TypeInv'
  <2>1. /\ Settled(state[h]) \in [Stages -> {"run", "done", "failed"}]
        /\ \A s \in Stages : Settled(state[h])[s] = "done" => state[h][s] # NoResult
    BY DEF Settled
  <2> QED
    BY <1>5, <2>1, AggregationAssumption DEF Prepare, Goto, Full
<1>6. ASSUME NEW h \in Handlers, Gather(h) PROVE TypeInv'
  BY <1>6 DEF Gather, Goto, Full
<1>7. ASSUME NEW h \in Handlers, Finalize(h) PROVE TypeInv'
  <2> DEFINE d == Stamp(state[h], TRUE)
  <2>1. state[h] \in Doc /\ Full(state[h])
    BY <1>7 DEF Finalize
  <2>2. d \in Doc /\ Full(d)
    BY <2>1, StampIsDoc DEF Full
  <2>3. /\ pc[h] = "finalize" /\ pc' = [pc EXCEPT ![h] = "publish"]
        /\ state' = [state EXCEPT ![h] = d] /\ doc' = d
        /\ UNCHANGED <<carries, status, event, stage, published>>
    <3>1. state' = [state EXCEPT ![h] = d]
      BY <1>7 DEF Finalize
    <3>2. state'[h] = d
      BY <1>7, <3>1
    <3> QED
      BY <1>7, <3>1, <3>2 DEF Finalize, Goto
  <2> HIDE DEF d
  <2>4. TypeOK'
    BY <2>2, <2>3, AggregationAssumption DEF Full
  <2>5. StagesInCopy' /\ EventsFixed'
    BY <2>3
  <2> QED
    BY <2>4, <2>5
<1>8. ASSUME NEW h \in Handlers, NEW s \in Stages, StageSucceeds(h, s) PROVE TypeInv'
  <2>1. StageEnds(h, s, "done") /\ Keep(h, s) /\ doc' = state'[h] /\ pc[h] = "stages"
    BY <1>8 DEF StageSucceeds, StageEnds
  <2>2. TypeOK'
    BY <2>1, KeepIsDoc, AggregationAssumption DEF StageEnds, Full
  <2>3. StagesInCopy'
    BY <2>1, KeepIsDoc, AggregationAssumption DEF StageEnds
  <2>4. EventsFixed'
    BY <2>1 DEF StageEnds
  <2> QED
    BY <2>2, <2>3, <2>4
<1>9. ASSUME NEW h \in Handlers, NEW s \in Stages, StageFails(h, s) PROVE TypeInv'
  <2>1. StageEnds(h, s, "failed") /\ pc[h] # "idle"
    BY <1>9 DEF StageFails, StageEnds
  <2>2. CASE UNCHANGED state /\ UNCHANGED doc
    BY <2>1, <2>2 DEF StageEnds, Full
  <2>3. ASSUME Keep(h, s), UNCHANGED doc \/ doc' = state'[h] PROVE TypeInv'
    <3>1. pc[h] = "stages"
      BY <2>1 DEF StageEnds
    <3>2. TypeOK'
      BY <2>1, <2>3, <3>1, KeepIsDoc, AggregationAssumption DEF StageEnds, Full
    <3>3. StagesInCopy'
      BY <2>1, <2>3, <3>1, KeepIsDoc DEF StageEnds
    <3>4. EventsFixed'
      BY <2>1 DEF StageEnds
    <3> QED
      BY <3>2, <3>3, <3>4
  <2> QED
    BY <1>9, <2>2, <2>3 DEF StageFails
<1>10. ASSUME NEW h \in Handlers, PublishEnriched(h) PROVE TypeInv'
  BY <1>10, AggregationAssumption DEF PublishEnriched, Goto, Published, Full
<1>11. ASSUME NEW h \in Handlers, Complete(h) \/ Fails(h) \/ Crash(h) PROVE TypeInv'
  <2>1. /\ pc[h] # "idle" /\ event[h] \in Events
        /\ Leave(h)
        /\ \/ UNCHANGED status
           \/ SetStatus(event[h], "done")
           \/ SetStatus(event[h], "dead")
    BY <1>11 DEF Complete, Fails, Crash
  <2>2. TypeOK'
    BY <2>1 DEF Leave, Goto, SetStatus, Full
  <2>3. StagesInCopy'
    BY <2>1 DEF Leave, Goto
  <2>4. \A e \in Events : status[e] # "new" <=> status'[e] # "new"
    BY <2>1 DEF SetStatus
  <2>5. \A g \in Handlers : pc'[g] # "idle" => pc[g] # "idle" /\ event'[g] = event[g]
    BY <2>1 DEF Leave, Goto
  <2>6. EventsFixed'
    BY <2>1, <2>4, <2>5 DEF Leave, Published
  <2> QED
    BY <2>2, <2>3, <2>6
<1>12. CASE UNCHANGED vars
  BY <1>12 DEF vars, handlerVars, Full
<1> QED
  BY <1>1, <1>2, <1>3, <1>4, <1>5, <1>6, <1>7, <1>8, <1>9, <1>10, <1>11, <1>12
  DEF Next, HandlerStep

\* Types, for any number of submissions, handlers and inputs.
THEOREM AggregationTypes == Spec => []TypeOK
<1>1. TypeInv => TypeOK
  BY DEF TypeInv
<1> QED
  BY <1>1, TypeInit, TypeStep, PTL DEF Spec

-------------------------------------------------------------------------------
(* Every result belongs to its inputs.                                     *)

LEMMA FreshIsOwn == \A i \in Inputs : Own(Fresh(i)) /\ Fresh(i).inputs = i
  BY DEF Own, Fresh, Stages

LEMMA ResumedIsOwn ==
  ASSUME TypeInv, DocOwn, NEW h \in Handlers, pc[h] # "idle"
  PROVE  Own(Resumed(h)) /\ Resumed(h).inputs = Listing(h)
  BY FreshIsOwn, ListingIsInput DEF Resumed, DocOwn

LEMMA StampIsOwn ==
  ASSUME NEW d \in Doc, NEW b \in BOOLEAN, Own(d)
  PROVE  Own(Stamp(d, b)) /\ Stamp(d, b).inputs = d.inputs
  BY StampIsDoc DEF Own

LEMMA KeepIsOwn ==
  ASSUME TypeInv, CopiesOwn, NEW h \in Handlers, NEW s \in Stages, pc[h] = "stages", Keep(h, s)
  PROVE  Own(state'[h]) /\ state'[h].inputs = Listing(h)
<1>1. state[h].inputs = Listing(h) /\ Own(state[h])
  BY DEF CopiesOwn, Working
<1> QED
  BY <1>1, KeepIsDoc DEF Own

\* Working copies are kept by a step that changes at most one of them, soundly.
LEMMA OthersOwn ==
  ASSUME TypeInv, CopiesOwn, NEW h \in Handlers,
         \A g \in Handlers \ {h} : pc'[g] = pc[g] /\ event'[g] = event[g] /\ state'[g] = state[g],
         UNCHANGED carries,
         Working(h)' => state'[h].inputs = Listing(h)' /\ Own(state'[h])
  PROVE  CopiesOwn'
  BY DEF CopiesOwn, Working, Listing, Own

LEMMA ResultStep == TypeInv /\ ResultInv /\ [Next]_vars => ResultInv'
<1> SUFFICES ASSUME TypeInv, ResultInv, [Next]_vars PROVE ResultInv'
  OBVIOUS
<1> USE DEF ResultInv
<1>t. TypeOK /\ EventsFixed
  BY DEF TypeInv
<1>1. ASSUME NEW e \in Events, NEW i \in Inputs, SaveRaw(e, i) PROVE ResultInv'
  <2>1. /\ status[e] = "new" /\ doc' = Fresh(i)
        /\ \A f \in Events \ {e} : carries'[f] = carries[f]
        /\ UNCHANGED <<pc, event, state, stage, published>>
    BY <1>1, <1>t DEF SaveRaw, handlerVars, TypeOK
  <2>2. DocOwn'
    BY <2>1, FreshIsOwn DEF DocOwn
  <2>3. \A h \in Handlers : pc[h] # "idle" => event[h] \in Events \ {e}
    BY <1>t, <2>1 DEF EventsFixed, Submitted, TypeOK
  <2>4. CopiesOwn'
    BY <2>1, <2>3 DEF CopiesOwn, Working, Listing, Own
  <2>5. \A p \in published : p.event \in Events \ {e}
    BY <1>t, <2>1 DEF EventsFixed, Submitted, TypeOK, Published
  <2>6. PublishedComplete'
    BY <2>1, <2>5 DEF PublishedComplete
  <2> QED
    BY <2>2, <2>4, <2>6
<1>2. ASSUME NEW e \in Events, PublishRaw(e) \/ PublishRawFails(e) PROVE ResultInv'
  BY <1>2 DEF PublishRaw, PublishRawFails, handlerVars, DocOwn, CopiesOwn, Working, Listing, Own,
              PublishedComplete
<1>3. ASSUME NEW h \in Handlers, NEW e \in Events, Start(h, e) PROVE ResultInv'
  <2>1. CopiesOwn'
    BY <1>3, <1>t, OthersOwn DEF Start, Goto, TypeOK, Working
  <2> QED
    BY <1>3, <2>1 DEF Start, DocOwn, Own, PublishedComplete
<1>4. ASSUME NEW h \in Handlers, Read(h) PROVE ResultInv'
  <2>1. pc[h] # "idle" /\ UNCHANGED <<doc, carries, event, published>>
    BY <1>4 DEF Read
  <2>2. Resumed(h) \in Doc /\ Own(Resumed(h)) /\ Resumed(h).inputs = Listing(h)
    BY <2>1, ResumedIsDoc, ResumedIsOwn
  <2>3. state'[h] = Resumed(h) \/ state'[h] = Stamp(Resumed(h), FALSE)
    BY <1>4, <1>t DEF Read, TypeOK
  <2>4. Own(state'[h]) /\ state'[h].inputs = Listing(h)
    BY <2>2, <2>3, StampIsOwn
  <2>5. \A g \in Handlers \ {h} : pc'[g] = pc[g] /\ state'[g] = state[g]
    BY <1>4, <1>t DEF Read, Goto, TypeOK
  <2>6. CopiesOwn'
    BY <2>1, <2>4, <2>5, OthersOwn DEF Listing
  <2> QED
    BY <2>1, <2>6 DEF DocOwn, Own, PublishedComplete
<1>5. ASSUME NEW h \in Handlers, Prepare(h) PROVE ResultInv'
  <2>1. Own(state[h]) /\ state[h].inputs = Listing(h)
    BY <1>5 DEF Prepare, CopiesOwn, Working
  <2>2. CopiesOwn'
    BY <1>5, <1>t, <2>1, OthersOwn DEF Prepare, Goto, TypeOK, Listing
  <2> QED
    BY <1>5, <2>1, <2>2 DEF Prepare, DocOwn, Own, PublishedComplete
<1>6. ASSUME NEW h \in Handlers, Gather(h) PROVE ResultInv'
  <2>1. CopiesOwn'
    BY <1>6, <1>t, OthersOwn DEF Gather, Goto, TypeOK, CopiesOwn, Working, Listing
  <2> QED
    BY <1>6, <2>1 DEF Gather, DocOwn, Own, PublishedComplete
<1>7. ASSUME NEW h \in Handlers, Finalize(h) PROVE ResultInv'
  <2>1. /\ state[h] \in Doc
        /\ Own(state[h]) /\ state[h].inputs = Listing(h)
    BY <1>7, <1>t DEF Finalize, CopiesOwn, Working, TypeOK
  <2>2. state'[h] = Stamp(state[h], TRUE) /\ doc' = state'[h]
    BY <1>7, <1>t DEF Finalize, TypeOK
  <2>3. Own(state'[h]) /\ state'[h].inputs = Listing(h)
    BY <2>1, <2>2, StampIsOwn
  <2>4. CopiesOwn'
    BY <1>7, <1>t, <2>3, OthersOwn DEF Finalize, Goto, TypeOK, Listing
  <2> QED
    BY <1>7, <2>2, <2>3, <2>4 DEF Finalize, DocOwn, Own, PublishedComplete
<1>8. ASSUME NEW h \in Handlers, NEW s \in Stages, StageSucceeds(h, s) \/ StageFails(h, s)
      PROVE  ResultInv'
  <2>1. /\ pc[h] = "stages" /\ UNCHANGED <<carries, pc, event, published>>
        /\ (UNCHANGED <<state, doc>>) \/ (Keep(h, s) /\ (UNCHANGED doc \/ doc' = state'[h]))
    BY <1>8 DEF StageSucceeds, StageFails, StageEnds
  <2>2. CASE UNCHANGED <<state, doc>>
    BY <2>1, <2>2 DEF DocOwn, CopiesOwn, Working, Listing, Own, PublishedComplete
  <2>3. ASSUME Keep(h, s), UNCHANGED doc \/ doc' = state'[h] PROVE ResultInv'
    <3>1. Own(state'[h]) /\ state'[h].inputs = Listing(h)
      BY <2>1, <2>3, KeepIsOwn
    <3>2. CopiesOwn'
      BY <2>1, <2>3, <3>1, KeepIsDoc, OthersOwn DEF Listing
    <3> QED
      BY <2>1, <2>3, <3>1, <3>2 DEF DocOwn, Own, PublishedComplete
  <2> QED
    BY <2>1, <2>2, <2>3
<1>9. ASSUME NEW h \in Handlers, PublishEnriched(h) PROVE ResultInv'
  <2>1. CopiesOwn'
    BY <1>9, <1>t, OthersOwn DEF PublishEnriched, Goto, TypeOK, CopiesOwn, Working, Listing
  <2>2. \A s \in Stages : state[h][s] = Listing(h) /\ state[h].inputs = Listing(h)
    BY <1>9, <1>t DEF PublishEnriched, CopiesOwn, Working, Own, TypeOK, Full
  <2>3. PublishedComplete'
    BY <1>9, <2>2 DEF PublishEnriched, PublishedComplete, Listing
  <2> QED
    BY <1>9, <2>1, <2>3 DEF PublishEnriched, DocOwn, Own
<1>10. ASSUME NEW h \in Handlers, Complete(h) \/ Fails(h) \/ Crash(h) PROVE ResultInv'
  <2>1. Leave(h)
    BY <1>10 DEF Complete, Fails, Crash
  <2>2. CopiesOwn'
    BY <2>1, <1>t, OthersOwn DEF Leave, Goto, TypeOK, Working
  <2> QED
    BY <2>1, <2>2 DEF Leave, DocOwn, Own, PublishedComplete
<1>11. CASE UNCHANGED vars
  BY <1>11 DEF vars, handlerVars, DocOwn, CopiesOwn, Working, Listing, Own, PublishedComplete
<1> QED
  BY <1>1, <1>2, <1>3, <1>4, <1>5, <1>6, <1>7, <1>8, <1>9, <1>10, <1>11 DEF Next, HandlerStep

\* ADR 002: whatever handlers and submissions do to the shared document, and
\* whatever crashes or fails, an enriched event carries both results, computed
\* from the inputs of that event.
THEOREM PublishedIsComplete == Spec => []PublishedComplete
<1>1. Init => ResultInv
  BY DEF Init, ResultInv, DocOwn, CopiesOwn, Working, PublishedComplete
<1>2. ResultInv => PublishedComplete
  BY DEF ResultInv
<1> QED
  BY <1>1, <1>2, TypeInit, TypeStep, ResultStep, PTL DEF Spec

-------------------------------------------------------------------------------
(* Progress is kept, with one handler at a time.                           *)

LEMMA OthersIdle ==
  ASSUME OneHandler, NEW h \in Handlers, pc[h] # "idle"
  PROVE  \A g \in Handlers \ {h} : pc[g] = "idle"
  BY DEF OneHandler

\* With one handler at a time only h's own copy has to be compared.
LEMMA OnlyOwnCopy ==
  ASSUME OneHandler, NEW h \in Handlers, pc[h] # "idle",
         \A g \in Handlers \ {h} : pc'[g] = pc[g],
         Working(h)' => Ahead(state[h])'
  PROVE  OneHandler' /\ CopiesAhead'
  BY OthersIdle DEF OneHandler, CopiesAhead, Working

\* A handler that writes its copy keeps what is stored.
LEMMA WriteKeeps ==
  ASSUME NEW h \in Handlers, Ahead(state'[h]), doc' = state'[h]
  PROVE  KeepsStages /\ Ahead(state[h])'
  BY DEF Ahead, KeepsStages

LEMMA SameDocKeeps ==
  ASSUME UNCHANGED doc
  PROVE  KeepsStages /\ \A d : Ahead(d) => Ahead(d)'
  BY DEF KeepsStages, Ahead

LEMMA ResumedIsAhead ==
  ASSUME TypeInv, DocOwn, NEW h \in Handlers, pc[h] # "idle"
  PROVE  Ahead(Resumed(h)) /\ Ahead(Stamp(Resumed(h), FALSE))
<1>1. Resumed(h) \in Doc /\ Resumed(h).inputs = Listing(h)
  BY ResumedIsDoc, ResumedIsOwn
<1>2. Ahead(Resumed(h))
  BY <1>1 DEF Ahead, Resumed
<1> QED
  BY <1>1, <1>2, StampIsDoc DEF Ahead

LEMMA KeepIsAhead ==
  ASSUME TypeInv, ResultInv, CopiesAhead, NEW h \in Handlers, NEW s \in Stages,
         pc[h] = "stages", Keep(h, s)
  PROVE  Ahead(state'[h])
<1>1. Ahead(state[h]) /\ state[h].inputs = Listing(h)
  BY DEF CopiesAhead, ResultInv, CopiesOwn, Working
<1>2. doc # NoDoc /\ doc.inputs = Listing(h) /\ doc[s] # NoResult => doc[s] = Listing(h)
  BY DEF ResultInv, DocOwn, Own
<1> QED
  BY <1>1, <1>2, KeepIsDoc DEF Ahead

LEMMA ProgressStep ==
  ASSUME TypeInv, ResultInv, ProgressInv, [Next]_vars, Concurrency = "one"
  PROVE  ProgressInv' /\ (Submits \/ KeepsStages \/ UNCHANGED vars)
<1> SUFFICES OneHandler' /\ CopiesAhead' /\ (Submits \/ KeepsStages \/ UNCHANGED vars)
  BY DEF ProgressInv
<1>t. TypeOK /\ OneHandler /\ CopiesAhead /\ DocOwn
  BY DEF TypeInv, ProgressInv, ResultInv
<1>1. ASSUME NEW e \in Events, NEW i \in Inputs, SaveRaw(e, i)
      PROVE  OneHandler' /\ CopiesAhead' /\ Submits
  <2>1. doc' = Fresh(i) /\ UNCHANGED <<pc, event, state, stage>>
    BY <1>1 DEF SaveRaw, handlerVars
  <2>2. \A s \in Stages : Fresh(i)[s] = NoResult
    BY DEF Fresh, Stages
  <2>3. Submits
    BY <1>1, <1>t DEF SaveRaw, SetStatus, Submits, TypeOK
  <2> QED
    BY <1>t, <2>1, <2>2, <2>3 DEF OneHandler, CopiesAhead, Ahead
<1>2. ASSUME UNCHANGED <<doc, pc, state>>
      PROVE  OneHandler' /\ CopiesAhead' /\ KeepsStages
  BY <1>2, <1>t, SameDocKeeps DEF OneHandler, CopiesAhead, Working, Ahead
<1>3. ASSUME NEW h \in Handlers, NEW e \in Events, Start(h, e)
      PROVE  OneHandler' /\ CopiesAhead' /\ KeepsStages
  <2>1. \A g \in Handlers \ {h} : pc[g] = "idle" /\ pc'[g] = "idle"
    BY <1>3, <1>t DEF Start, MayStart, Goto, TypeOK
  <2>2. pc'[h] = "read"
    BY <1>3, <1>t DEF Start, Goto, TypeOK
  <2> QED
    BY <1>3, <2>1, <2>2, SameDocKeeps DEF Start, OneHandler, CopiesAhead, Working
<1>4. ASSUME NEW h \in Handlers, pc[h] # "idle",
             \A g \in Handlers \ {h} : pc'[g] = pc[g],
             KeepsStages, Working(h)' => Ahead(state[h])'
      PROVE  OneHandler' /\ CopiesAhead' /\ KeepsStages
  BY <1>4, <1>t, OnlyOwnCopy
<1>5. ASSUME NEW h \in Handlers, Read(h) PROVE OneHandler' /\ CopiesAhead' /\ KeepsStages
  <2>1. /\ pc[h] # "idle" /\ UNCHANGED doc
        /\ \A g \in Handlers \ {h} : pc'[g] = pc[g]
        /\ state'[h] = Resumed(h) \/ state'[h] = Stamp(Resumed(h), FALSE)
    BY <1>5, <1>t DEF Read, Goto, TypeOK
  <2>2. Ahead(state[h])'
    BY <1>t, <2>1, ResumedIsAhead, SameDocKeeps DEF Ahead
  <2> QED
    BY <2>1, <2>2, <1>4, SameDocKeeps
<1>6. ASSUME NEW h \in Handlers, Prepare(h) PROVE OneHandler' /\ CopiesAhead' /\ KeepsStages
  <2>1. /\ pc[h] # "idle" /\ doc' = state'[h]
        /\ \A g \in Handlers \ {h} : pc'[g] = pc[g]
        /\ Ahead(state'[h])
    BY <1>6, <1>t DEF Prepare, Goto, TypeOK, CopiesAhead, Working
  <2> QED
    BY <2>1, <1>4, WriteKeeps
<1>7. ASSUME NEW h \in Handlers, Finalize(h) PROVE OneHandler' /\ CopiesAhead' /\ KeepsStages
  <2>1. /\ pc[h] # "idle" /\ doc' = state'[h]
        /\ \A g \in Handlers \ {h} : pc'[g] = pc[g]
        /\ Ahead(state[h]) /\ state[h] \in Doc
    BY <1>7, <1>t DEF Finalize, Goto, TypeOK, CopiesAhead, Working
  <2>2. state'[h] = Stamp(state[h], TRUE)
    BY <1>7, <1>t DEF Finalize, TypeOK
  <2>3. Ahead(Stamp(state[h], TRUE))
    BY <2>1, StampIsDoc DEF Ahead
  <2>4. Ahead(state'[h])
    BY <2>2, <2>3
  <2> QED
    BY <2>1, <2>4, <1>4, WriteKeeps
<1>8. ASSUME NEW h \in Handlers, NEW s \in Stages, StageSucceeds(h, s) \/ StageFails(h, s)
      PROVE  OneHandler' /\ CopiesAhead' /\ KeepsStages
  <2>1. /\ pc[h] = "stages" /\ UNCHANGED pc
        /\ (UNCHANGED <<state, doc>>) \/ (Keep(h, s) /\ (UNCHANGED doc \/ doc' = state'[h]))
    BY <1>8 DEF StageSucceeds, StageFails, StageEnds
  <2>2. CASE UNCHANGED <<state, doc>>
    BY <2>1, <2>2, <1>2
  <2>3. ASSUME Keep(h, s), UNCHANGED doc \/ doc' = state'[h]
        PROVE  KeepsStages /\ Ahead(state[h])'
    <3>1. Ahead(state'[h])
      BY <1>t, <2>1, <2>3, KeepIsAhead
    <3> QED
      BY <2>3, <3>1, WriteKeeps, SameDocKeeps DEF Ahead
  <2> QED
    BY <2>1, <2>2, <2>3, <1>4
<1>9. ASSUME NEW h \in Handlers, Gather(h) \/ PublishEnriched(h)
      PROVE  OneHandler' /\ CopiesAhead' /\ KeepsStages
  <2>1. /\ pc[h] # "idle" /\ UNCHANGED <<doc, state>>
        /\ \A g \in Handlers \ {h} : pc'[g] = pc[g]
        /\ Ahead(state[h])
    BY <1>9, <1>t DEF Gather, PublishEnriched, Goto, TypeOK, CopiesAhead, Working
  <2> QED
    BY <2>1, <1>4, SameDocKeeps DEF Ahead
<1>10. ASSUME NEW h \in Handlers, Complete(h) \/ Fails(h) \/ Crash(h)
       PROVE  OneHandler' /\ CopiesAhead' /\ KeepsStages
  <2>1. /\ pc[h] # "idle" /\ UNCHANGED doc
        /\ \A g \in Handlers \ {h} : pc'[g] = pc[g]
        /\ pc'[h] = "idle"
    BY <1>10, <1>t DEF Complete, Fails, Crash, Leave, Goto, TypeOK
  <2> QED
    BY <2>1, <1>4, SameDocKeeps DEF Working
<1>11. ASSUME NEW e \in Events, PublishRaw(e) \/ PublishRawFails(e)
       PROVE  OneHandler' /\ CopiesAhead' /\ KeepsStages
  BY <1>11, <1>2 DEF PublishRaw, PublishRawFails, handlerVars
<1>12. CASE UNCHANGED vars
  BY <1>12, <1>2 DEF vars, handlerVars
<1> QED
  BY <1>1, <1>3, <1>5, <1>6, <1>7, <1>8, <1>9, <1>10, <1>11, <1>12 DEF Next, HandlerStep

\* ADR 002, "on crash mid-way, redelivery resumes from persisted state": with one
\* handler of the listing at a time, no step of a handler undoes a finished stage
\* of the same inputs, whatever fails and wherever it crashes.
THEOREM ProgressIsKept == Spec => StageKept
<1>1. Init => ResultInv /\ ProgressInv
  BY DEF Init, ResultInv, DocOwn, CopiesOwn, Working, PublishedComplete, ProgressInv, OneHandler,
         CopiesAhead
<1>2. TypeInv /\ ResultInv /\ ProgressInv /\ [Next]_vars =>
        ProgressInv' /\ [Concurrency = "one" => Submits \/ KeepsStages]_vars
  BY ProgressStep DEF ProgressInv
<1> QED
  BY <1>1, <1>2, TypeInit, TypeStep, ResultStep, PTL DEF Spec, StageKept
===============================================================================
