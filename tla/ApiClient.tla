----------------------------- MODULE ApiClient -----------------------------
(***************************************************************************)
(* One request of the page's HTTP client (frontend/src/lib/api.ts): the    *)
(* loop over the attempts, the timeout of each, the pauses between them    *)
(* and the caller's abort signal.                                          *)
(*                                                                         *)
(* An attempt that was sent may be handled by the backend at any time,     *)
(* also when the client no longer waits for it; a timeout, a lost          *)
(* connection and an abort all end the wait with a network error.  Delays  *)
(* and message texts are left out.                                         *)
(***************************************************************************)
EXTENDS Naturals, FiniteSets

CONSTANT MaxRetries      \* options.maxRetries, or the client's
ASSUME RetriesAssumption == MaxRetries \in Nat

Attempts == 0..MaxRetries
NetworkError == 0                       \* the status of a network error
NoError == 1
HttpErrors == {404, 408, 429, 500}      \* one of each kind the code tells apart

VARIABLES
  retryOn,      \* options.retry !== false
  pc,           \* where the loop is
  attempt,      \* its counter
  signal,       \* options.signal.aborted
  sent,         \* attempts whose fetch went out
  handled,      \* attempts the backend has carried out
  lastError,    \* status of the last error, or NoError
  outcome       \* what the caller got: a value, nothing, or an error

apiVars == <<retryOn, pc, attempt, signal, sent, handled, lastError, outcome>>

ApiInit ==
  /\ retryOn \in BOOLEAN
  /\ pc = "start" /\ attempt = 0 /\ signal = FALSE
  /\ sent = {} /\ handled = {} /\ lastError = NoError /\ outcome = "none"

isRetryable(status) ==
  status \in {NetworkError, 408, 429} \/ (status >= 500 /\ status < 600)

-----------------------------------------------------------------------------
(* The next attempt; with the signal aborted its fetch fails unsent.       *)
runFetch ==
  /\ pc = "start" /\ pc' = "fetch"
  /\ sent' = IF signal THEN sent ELSE sent \cup {attempt}
  /\ UNCHANGED <<retryOn, attempt, signal, handled, lastError, outcome>>

BackendHandles(a) ==
  /\ a \in sent \ handled
  /\ handled' = handled \cup {a}
  /\ UNCHANGED <<retryOn, pc, attempt, signal, sent, lastError, outcome>>

Settle(o) == pc' = "done" /\ outcome' = o

(* A 2xx answer: parsed, empty, or not JSON, which is an error.            *)
parseBody ==
  /\ pc = "fetch" /\ ~signal /\ attempt \in handled
  /\ \E o \in {"value", "nothing", "error"} : Settle(o)
  /\ UNCHANGED <<retryOn, attempt, signal, sent, handled, lastError>>

RetryOrThrowAlways(may) ==      \* Slip: options.retry is not looked at.
  \/ (attempt < MaxRetries /\ may) /\ pc' = "sleep" /\ UNCHANGED outcome
  \/ ~(attempt < MaxRetries /\ may) /\ Settle("error")
RetryOrThrow(may) ==
  \/ (retryOn /\ attempt < MaxRetries /\ may) /\ pc' = "sleep" /\ UNCHANGED outcome
  \/ ~(retryOn /\ attempt < MaxRetries /\ may) /\ Settle("error")

httpError(status) ==
  /\ pc = "fetch" /\ ~signal /\ attempt \in handled
  /\ lastError' = status
  /\ RetryOrThrow(isRetryable(status))
  /\ UNCHANGED <<retryOn, attempt, signal, sent, handled>>

networkError ==
  /\ pc = "fetch"
  /\ lastError' = NetworkError
  /\ RetryOrThrow(~signal)
  /\ UNCHANGED <<retryOn, attempt, signal, sent, handled>>

(* Slip: the attempt is not counted.                                       *)
sleepUncounted == pc = "sleep" /\ pc' = "start"
                    /\ UNCHANGED <<retryOn, attempt, signal, sent, handled, lastError, outcome>>
(* sleep is over; an abort does not cut it short.                          *)
sleep ==
  /\ pc = "sleep" /\ pc' = "start" /\ attempt' = attempt + 1
  /\ UNCHANGED <<retryOn, signal, sent, handled, lastError, outcome>>

CallerAborts ==
  /\ ~signal /\ signal' = TRUE
  /\ UNCHANGED <<retryOn, pc, attempt, sent, handled, lastError, outcome>>

ApiClientSteps ==
  runFetch \/ parseBody \/ networkError \/ sleep \/ \E s \in HttpErrors : httpError(s)
ApiNext == ApiClientSteps \/ CallerAborts \/ \E a \in Attempts : BackendHandles(a)

ApiSpec == ApiInit /\ [][ApiNext]_apiVars
(* Fairness: of the client's own steps only; the timeout ends every fetch. *)
ApiFairSpec == ApiSpec /\ WF_apiVars(ApiClientSteps)

-----------------------------------------------------------------------------
(* The state of a request keeps its type: the counter stays within the     *)
(* attempts there may be, and the backend handles only what was sent.      *)
ApiTypeOK ==
  /\ retryOn \in BOOLEAN /\ signal \in BOOLEAN
  /\ pc \in {"start", "fetch", "sleep", "done"}
  /\ attempt \in Attempts
  /\ sent \subseteq Attempts /\ handled \subseteq sent
  /\ lastError \in HttpErrors \cup {NetworkError, NoError}
  /\ outcome \in {"none", "value", "nothing", "error"}

(* Once the caller has aborted nothing more is sent: not by an attempt     *)
(* that was being made, nor by one that starts after the pause.            *)
NothingSent == signal => sent' = sent

(* The backend carries out at most one attempt for a request that must not *)
(* be retried, and no more than the attempts made so far for any other.    *)
AttemptsBounded ==
  /\ handled \subseteq 0..attempt
  /\ ~retryOn => handled \subseteq {0}

(* An answer that says the request itself is wrong ends it; only what may  *)
(* pass is tried again, and a value is the answer to the last attempt.     *)
RefusalIsFinal ==
  /\ (lastError = 404) => pc = "done"
  /\ (outcome \in {"value", "nothing"}) => attempt \in handled /\ lastError # 404

(* What a call asks of the backend: the two above together.                *)
CallSafe == AttemptsBounded /\ RefusalIsFinal

(* The caller has its answer.                                              *)
Settled == pc = "done" /\ outcome # "none"
=============================================================================
