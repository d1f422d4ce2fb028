----------------------------- MODULE CvPipeline -----------------------------
(***************************************************************************)
(* The photo stage of a listing: CvService.detect_defects (cv/service.py), *)
(* ImageAnalyzer.inspect (cv/analyzer.py) and the lazily loaded ONNX       *)
(* sessions of the detectors it runs (cv/yolo_onnx.py). One CvService      *)
(* serves all handlers of the process: calls share the download semaphore  *)
(* and, from one thread for each downloaded photo, the detectors, whose    *)
(* attributes are read and written without a lock.                         *)
(***************************************************************************)
EXTENDS Naturals, Sequences, FiniteSets

CONSTANTS Photos,      \* per call of detect_defects, the first five photos
          Slots,       \* max_workers: downloads at a time
          Checks       \* the detectors every photo goes through, in order

VARIABLES
    call,              \* per call: where its coroutine is
    photo,             \* per call and photo: where its download or thread is
    turn,              \* per call and photo: the check its thread is at
    slots,             \* free slots of the semaphore
    weights,           \* the detectors whose weights load; never changes
    attempted,         \* _load_attempted of every detector
    session,           \* whether _session is set
    input,             \* whether _input_name is set
    checked,           \* history: per call, the photos each detector ran on
    ready              \* history: the detectors that were loaded before its threads

vars == <<call, photo, turn, slots, weights, attempted, session, input, checked, ready>>
detectors == <<weights, attempted, session, input>>

Calls == DOMAIN Photos
Detectors == {Checks[i] : i \in DOMAIN Checks}
Downloading == {"waiting", "fetching"}
Inspecting == {"session", "attempted", "mark", "load", "setName", "readName"}
Settled == {"none", "failed", "done", "raised", "cancelled"}

TypeOK ==
    /\ call \in [Calls -> {"idle", "fetching", "analysing", "done", "raised", "cancelled"}]
    /\ \A c \in Calls :
        /\ photo[c] \in [Photos[c] -> Downloading \cup {"fetched"} \cup Inspecting \cup Settled]
        /\ turn[c] \in [Photos[c] -> DOMAIN Checks]
    /\ slots \in 0..Slots
    /\ weights \subseteq Detectors
    /\ attempted \subseteq Detectors /\ session \subseteq weights /\ input \subseteq session
    /\ \A c \in Calls : checked[c] \subseteq Photos[c] \X Detectors
    /\ ready \in [Calls -> SUBSET Detectors]

Init ==
    /\ call = [c \in Calls |-> "idle"]
    /\ photo = [c \in Calls |-> [p \in Photos[c] |-> "none"]]
    /\ turn = [c \in Calls |-> [p \in Photos[c] |-> 1]]
    /\ slots = Slots
    /\ weights \in SUBSET Detectors
    /\ attempted = {} /\ session = {} /\ input = {}
    /\ checked = [c \in Calls |-> {}]
    /\ ready = [c \in Calls |-> {}]

Goes(c, p, from, to) == photo[c][p] = from /\ photo' = [photo EXCEPT ![c][p] = to]

-----------------------------------------------------------------------------
(* detect_defects and its downloads                                        *)

Begin(c) ==
    /\ call[c] = "idle"
    /\ call' = [call EXCEPT ![c] = "fetching"]
    /\ photo' = [photo EXCEPT ![c] = [p \in Photos[c] |-> "waiting"]]
    /\ UNCHANGED <<turn, slots, detectors, checked, ready>>

Fetch(c, p) ==
    /\ slots > 0
    /\ Goes(c, p, "waiting", "fetching")
    /\ slots' = slots - 1
    /\ UNCHANGED <<call, turn, detectors, checked, ready>>

Fetched(c, p) ==
    /\ Goes(c, p, "fetching", "fetched")
    /\ slots' = slots + 1
    /\ UNCHANGED <<call, turn, detectors, checked, ready>>

\* Faulty: a download that fails keeps its slot.
FetchFails_KeepsSlot(c, p) ==
    /\ Goes(c, p, "fetching", "failed")
    /\ UNCHANGED <<call, turn, slots, detectors, checked, ready>>

\* An HTTP error, an exception, or more bytes than allowed: a DefectInfo.
FetchFails(c, p) ==
    /\ Goes(c, p, "fetching", "failed")
    /\ slots' = slots + 1
    /\ UNCHANGED <<call, turn, detectors, checked, ready>>

\* The first gather is over; every photo that came gets a thread.
Analyse(c) ==
    /\ call[c] = "fetching"
    /\ \A p \in Photos[c] : photo[c][p] \in {"fetched", "failed"}
    /\ call' = [call EXCEPT ![c] = "analysing"]
    /\ ready' = [ready EXCEPT ![c] = input]
    /\ UNCHANGED <<photo, turn, slots, detectors, checked>>

\* The second gather is over, or a thread's exception ends it: the other
\* threads go on.
Return(c) ==
    /\ call[c] = "analysing"
    /\ \/ /\ \A p \in Photos[c] : photo[c][p] \in {"failed", "done"}
          /\ call' = [call EXCEPT ![c] = "done"]
       \/ /\ \E p \in Photos[c] : photo[c][p] = "raised"
          /\ call' = [call EXCEPT ![c] = "raised"]
    /\ UNCHANGED <<photo, turn, slots, detectors, checked, ready>>

\* The handler is cancelled: its downloads and the threads that have not
\* started are, the running ones are not.
Cancel(c) ==
    /\ call[c] \in {"fetching", "analysing"}
    /\ call' = [call EXCEPT ![c] = "cancelled"]
    /\ slots' = slots + Cardinality({p \in Photos[c] : photo[c][p] = "fetching"})
    /\ photo' = [photo EXCEPT ![c] =
                   [p \in Photos[c] |->
                      IF @[p] \in Downloading \cup {"fetched"} THEN "cancelled" ELSE @[p]]]
    /\ UNCHANGED <<turn, detectors, checked, ready>>

-----------------------------------------------------------------------------
(* A thread: ImageAnalyzer.inspect, and OnnxYoloDetector.detect of the     *)
(* check its turn is at. One step for every shared attribute it touches.   *)

Detector(c, p) == Checks[turn[c][p]]

\* The check is over: the next one, or the thread ends.
NextCheck(c, p, from) ==
    IF turn[c][p] < Len(Checks)
    THEN Goes(c, p, from, "session") /\ turn' = [turn EXCEPT ![c][p] = @ + 1]
    ELSE Goes(c, p, from, "done") /\ UNCHANGED turn

\* The thread starts and opens the photo, or makes a DefectInfo of one that
\* is unreadable or too large.
Decode(c, p) ==
    /\ call[c] \in {"analysing", "raised"}
    /\ \/ Goes(c, p, "fetched", "session")
       \/ Goes(c, p, "fetched", "failed")
    /\ UNCHANGED <<call, turn, slots, detectors, checked, ready>>

\* Faulty: only the thread that loads the session uses it.
ReadSession_LoaderOnly(c, p) ==
    /\ Goes(c, p, "session", "attempted")
    /\ UNCHANGED <<call, turn, slots, detectors, checked, ready>>

ReadSession(c, p) ==
    /\ Goes(c, p, "session", IF Detector(c, p) \in session THEN "readName" ELSE "attempted")
    /\ UNCHANGED <<call, turn, slots, detectors, checked, ready>>

\* _ensure_session gives None to all but the first thread.
ReadAttempted(c, p) ==
    /\ IF Detector(c, p) \in attempted
       THEN NextCheck(c, p, "attempted")
       ELSE Goes(c, p, "attempted", "mark") /\ UNCHANGED turn
    /\ UNCHANGED <<call, slots, detectors, checked, ready>>

MarkAttempted(c, p) ==
    /\ Goes(c, p, "mark", "load")
    /\ attempted' = attempted \cup {Detector(c, p)}
    /\ UNCHANGED <<call, turn, slots, weights, session, input, checked, ready>>

\* A file that is missing or that onnxruntime cannot load is not tried again.
Load(c, p) ==
    /\ \/ /\ Detector(c, p) \in weights
          /\ Goes(c, p, "load", "setName")
          /\ session' = session \cup {Detector(c, p)}
          /\ UNCHANGED turn
       \/ /\ Detector(c, p) \notin weights
          /\ NextCheck(c, p, "load")
          /\ UNCHANGED session
    /\ UNCHANGED <<call, slots, weights, attempted, input, checked, ready>>

SetInputName(c, p) ==
    /\ Goes(c, p, "setName", "readName")
    /\ input' = input \cup {Detector(c, p)}
    /\ UNCHANGED <<call, turn, slots, weights, attempted, session, checked, ready>>

\* detect looks at _input_name, which the loading thread may not have set yet.
SkipUnnamed(c, p) ==
    /\ Detector(c, p) \notin input
    /\ NextCheck(c, p, "readName")
    /\ UNCHANGED <<call, slots, detectors, checked, ready>>

\* The model runs, and what it detects, if that can be decoded, is scored.
Infer(c, p) ==
    /\ Detector(c, p) \in input
    /\ NextCheck(c, p, "readName")
    /\ checked' = [checked EXCEPT ![c] = @ \cup {<<p, Detector(c, p)>>}]
    /\ UNCHANGED <<call, slots, detectors, ready>>

\* letterbox scales a narrow image to no width at all, and cv2.resize raises.
InferRaises(c, p) ==
    /\ Detector(c, p) \in input
    /\ Goes(c, p, "readName", "raised")
    /\ UNCHANGED <<call, turn, slots, detectors, checked, ready>>

Inspect(c, p) ==
    \/ Decode(c, p)
    \/ ReadSession(c, p) \/ ReadAttempted(c, p) \/ MarkAttempted(c, p)
    \/ Load(c, p) \/ SetInputName(c, p)
    \/ SkipUnnamed(c, p) \/ Infer(c, p) \/ InferRaises(c, p)

-----------------------------------------------------------------------------
Progress ==
    \E c \in Calls :
        \/ Analyse(c) \/ Return(c)
        \/ \E p \in Photos[c] :
            Fetch(c, p) \/ Fetched(c, p) \/ FetchFails(c, p) \/ Inspect(c, p)

Next == Progress \/ \E c \in Calls : Begin(c) \/ Cancel(c)

\* Downloads have a timeout and a size limit, and threads run.
Spec == Init /\ [][Next]_vars /\ WF_vars(Progress)

-----------------------------------------------------------------------------
\* The photos that could be opened.
Inspected(c) == {p \in Photos[c] : photo[c][p] = "done"}

\* A detector that was loaded when a call starts its threads runs on each photo:
\* only while a detector is being loaded are photos passed over.
SkipsOnlyWhileLoading ==
    \A c \in Calls : call[c] = "done" =>
        \A p \in Inspected(c), d \in ready[c] : <<p, d>> \in checked[c]

\* OnnxYoloDetector: it returns [] when weights are missing. So with weights
\* every photo of a call that returns has been looked at.
EveryPhotoChecked ==
    \A c \in Calls : call[c] = "done" =>
        \A p \in Inspected(c), d \in weights : <<p, d>> \in checked[c]

\* A call that is not cancelled returns or raises, whatever becomes of its
\* downloads and of the calls it shares the semaphore with.
DetectionEnds ==
    \A c \in Calls : call[c] = "fetching" ~> call[c] \in {"done", "raised", "cancelled"}
=============================================================================
