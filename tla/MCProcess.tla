------------------------------ MODULE MCProcess ------------------------------
(* What the handlers of one process share, one part at a time: the circuit   *)
(* breaker, the start and stop of the process, or the photo pipeline.        *)
EXTENDS CircuitBreaker, Sequences

CONSTANTS Rows, Slots, Photos, Checks

VARIABLES part,                              \* which of the three; never changes
          mode, main, open, attached, drainer, stop, handler, drain, rows, faults, outlived,
          call, photo, turn, slots, weights, attempted, session, input, checked, ready

runtimeVars == <<mode, main, open, attached, drainer, stop, handler, drain, rows,
                 faults, outlived>>
photoVars == <<call, photo, turn, slots, weights, attempted, session, input, checked, ready>>
partVars == <<part, vars, runtimeVars, photoVars>>

Process == INSTANCE Runtime
Cv == INSTANCE CvPipeline

\* A photo goes through at least one detector.
ASSUME PhotosAssumption == /\ Slots \in Nat
                           /\ Checks \in Seq(Cv!Detectors) /\ Checks # <<>>

\* The parts that do not run stay in one state.
AtRest ==
  /\ part # "breaker" => ~slow /\ ~cancels
  /\ part # "runtime" => /\ mode.service = "pricer" /\ ~mode.consumes
                         /\ rows = [r \in Rows |-> "absent"]
  /\ part # "photos" => weights = {}

PartsInit == /\ part \in {"breaker", "runtime", "photos"}
             /\ Init /\ Process!Init /\ Cv!Init
             /\ AtRest

InBreaker(step) == part = "breaker" /\ step /\ UNCHANGED <<part, runtimeVars, photoVars>>
InRuntime(step) == part = "runtime" /\ step /\ UNCHANGED <<part, vars, photoVars>>
InPhotos(step) == part = "photos" /\ step /\ UNCHANGED <<part, vars, runtimeVars>>

PartsNext == InBreaker(Next) \/ InRuntime(Process!Next) \/ InPhotos(Cv!Next)

\* The fairness of each part.
PartsFairness ==
  /\ \A c \in Callers : /\ WF_partVars(InBreaker(Begin(c)))
                        /\ WF_partVars(InBreaker(Answered(c)))
  /\ WF_partVars(InBreaker(RecoveryElapses))
  /\ WF_partVars(InRuntime(Process!StopStep))
  /\ WF_partVars(InRuntime(Process!DrainerStops))
  /\ WF_partVars(InRuntime(Process!DrainStep("main")))
  /\ WF_partVars(InRuntime(Process!DrainStep("drainer")))
  /\ WF_partVars(InPhotos(Cv!Progress))

PartsSpec == PartsInit /\ [][PartsNext]_partVars /\ PartsFairness

\* The three modules' types.
TypesOK == TypeOK /\ Process!TypeOK /\ Cv!TypeOK

\* Of the runtime: see Runtime.
ClosesEverything == Process!ClosesEverything
DrainsOnOpenChannel == Process!DrainsOnOpenChannel
CleanExitDrains == Process!CleanExitDrains
ShutdownEnds == Process!ShutdownEnds

\* Of the photo pipeline: see CvPipeline.
SkipsOnlyWhileLoading == Cv!SkipsOnlyWhileLoading
EveryPhotoChecked == Cv!EveryPhotoChecked
DetectionEnds == Cv!DetectionEnds

\* Two listings, one with two photos; one detector is enabled, or both.
ThreePhotos == <<{"front", "rear"}, {"side"}>>
OneCheck == <<"plate">>
BothChecks == <<"watermark", "plate">>
==============================================================================
