---------------------------- MODULE CircuitBreaker ----------------------------
(***************************************************************************)
(* The circuit breaker around the LLM API, and LlmService.extract_options  *)
(* with the bounded retries of OpenAiOptionsClient.  One breaker is shared *)
(* by every handler of the process; a caller is one running                *)
(* extract_options.  The breaker's lock is never held across an await, so  *)
(* each of its methods is one step.                                        *)
(***************************************************************************)
EXTENDS Naturals, FiniteSets

CONSTANTS Callers,
          Threshold,     \* failure_threshold: llm_max_retries + 2
          MaxAttempts    \* requests a call makes at most: llm_max_retries

ASSUME BreakerAssumption == /\ Threshold \in Nat \ {0}
                            /\ MaxAttempts \in Nat \ {0}

VARIABLES state,      \* "closed", "open" or "half_open"
          failures,   \* counted up to Threshold: only ">= Threshold" is ever asked
          opened_at,  \* "none", "recent", or "past": recovery_timeout_sec ago
          attempt,    \* attempt[c]: 0, or the request c is waiting for
          admitted,   \* admitted[c]: the state that let the call in (history)
          slow,       \* whether a call may outlast recovery_timeout_sec
          cancels     \* whether a running call may be cancelled

breaker == <<state, failures, opened_at>>
setting == <<slow, cancels>>  \* chosen once, in Init
vars == <<state, failures, opened_at, attempt, admitted, slow, cancels>>

Init == /\ state = "closed"
        /\ failures = 0
        /\ opened_at = "none"
        /\ attempt = [c \in Callers |-> 0]
        /\ admitted = [c \in Callers |-> "closed"]
        /\ slow \in BOOLEAN
        /\ cancels \in BOOLEAN

Calling(c) == attempt[c] > 0
Probes == {c \in Callers : Calling(c) /\ admitted[c] = "half_open"}

-------------------------------------------------------------------------------
(* The breaker.                                                            *)

\* Faulty: a half-open breaker lets calls through.
BeforeCall_HalfOpenAdmits(s) == \/ state \in {"closed", "half_open"} /\ s = state
                                \/ state = "open" /\ opened_at = "past" /\ s = "half_open"

\* Faulty: an open breaker is never tried again.
BeforeCall_NoProbe(s) == state = "closed" /\ s = state

\* before_call returns, leaving the breaker in state s; else it raises.
BeforeCall(s) == \/ state = "closed" /\ s = "closed"
                 \/ state = "open" /\ opened_at = "past" /\ s = "half_open"

\* Faulty: the count survives.
RecordSuccess_KeepsCount == /\ opened_at' = "none"
                            /\ state' = "closed"
                            /\ UNCHANGED failures

RecordSuccess == /\ failures' = 0
                 /\ opened_at' = "none"
                 /\ state' = "closed"

RecordFailure == /\ failures' = IF failures < Threshold THEN failures + 1 ELSE failures
                 /\ IF failures' >= Threshold
                    THEN opened_at' = "recent" /\ state' = "open"
                    ELSE UNCHANGED <<opened_at, state>>

-------------------------------------------------------------------------------
(* extract_options.                                                        *)

Begin(c) == /\ ~Calling(c)
            /\ \E s \in {"closed", "half_open"} :
                 /\ BeforeCall(s)
                 /\ state' = s
                 /\ admitted' = [admitted EXCEPT ![c] = s]
            /\ attempt' = [attempt EXCEPT ![c] = 1]
            /\ UNCHANGED <<failures, opened_at, setting>>

\* before_call raises CircuitOpenError, and the delivery is retried later.
Rejected(c) == /\ ~Calling(c)
               /\ \A s \in {"closed", "half_open"} : ~BeforeCall(s)
               /\ UNCHANGED vars

End(c) == /\ attempt' = [attempt EXCEPT ![c] = 0]
          /\ admitted' = [admitted EXCEPT ![c] = "closed"]
          /\ UNCHANGED setting

\* Faulty: one attempt too many.
RetryRequest_Once(c) == /\ Calling(c)
                        /\ attempt[c] <= MaxAttempts
                        /\ attempt' = [attempt EXCEPT ![c] = @ + 1]
                        /\ UNCHANGED <<breaker, admitted, setting>>

\* A network error, 429 or 5xx with an attempt left: tenacity tries again.
RetryRequest(c) == /\ Calling(c)
                   /\ attempt[c] < MaxAttempts
                   /\ attempt' = [attempt EXCEPT ![c] = @ + 1]
                   /\ UNCHANGED <<breaker, admitted, setting>>

\* Faulty: a payload that does not parse leaves the breaker alone.
Answered_Unrecorded(c) == Calling(c) /\ End(c) /\ UNCHANGED breaker

\* The API answered: with options, a payload that does not parse, or a 4xx.
Answered(c) == /\ Calling(c)
               /\ RecordSuccess
               /\ End(c)

\* The last attempt failed in transport, or anything else was raised.
Failed(c) == /\ Calling(c)
             /\ RecordFailure
             /\ End(c)

\* The handler is cancelled, as when its channel closes: CancelledError is no
\* Exception, nothing is recorded.
Cancelled(c) == /\ cancels
                /\ Calling(c)
                /\ End(c)
                /\ UNCHANGED breaker

\* recovery_timeout_sec has passed since opened_at.
RecoveryElapses == /\ opened_at = "recent"
                   /\ slow \/ \A c \in Callers : ~Calling(c)
                   /\ opened_at' = "past"
                   /\ UNCHANGED <<state, failures, attempt, admitted, setting>>

Next == \/ \E c \in Callers : \/ Begin(c) \/ Rejected(c)
                              \/ RetryRequest(c) \/ Answered(c) \/ Failed(c)
                              \/ Cancelled(c)
        \/ RecoveryElapses

Spec == Init /\ [][Next]_vars

\* Messages keep coming, every request has a timeout, and time passes.
Fairness == /\ \A c \in Callers : WF_vars(Begin(c)) /\ WF_vars(Answered(c))
            /\ WF_vars(RecoveryElapses)

FairSpec == Spec /\ Fairness

-------------------------------------------------------------------------------
TypeOK == /\ state \in {"closed", "open", "half_open"}
          /\ failures \in 0..Threshold
          /\ opened_at \in {"none", "recent", "past"}
          /\ attempt \in [Callers -> 0..MaxAttempts]
          /\ admitted \in [Callers -> {"closed", "half_open"}]
          /\ slow \in BOOLEAN
          /\ cancels \in BOOLEAN

\* The breaker is closed exactly while its count is below the threshold, so a
\* failed probe trips it again at once; and the assertion of before_call holds:
\* an open breaker knows when it was opened.
TripsAtThreshold == /\ state = "closed" <=> failures < Threshold
                    /\ state = "closed" <=> opened_at = "none"
                    /\ state = "half_open" => opened_at = "past"

\* before_call: one probe at a time, stampede callers are rejected.  A slow call
\* admitted before the trip may fail late, re-open the breaker and let a second
\* probe in, so calls must end before recovery_timeout_sec.
OneProbe == ~slow => Cardinality(Probes) <= 1

\* before_call: a half-open breaker has its probe in flight.  A probe cancelled
\* with its handler records nothing and leaves the breaker half-open for ever.
HalfOpenHasProbe == ~cancels /\ state = "half_open" => Probes # {}

\* Once the API answers again, a tripped breaker closes, unless its probe was
\* cancelled.
BreakerRecovers ==
  ~cancels /\ <>[][\A c \in Callers : ~Failed(c)]_vars => []<>(state = "closed")
===============================================================================
