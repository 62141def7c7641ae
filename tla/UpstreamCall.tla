------------------------------ MODULE UpstreamCall ------------------------------
(***************************************************************************)
(* One call of ccAdapter.Generate (internal/proxy/adapter.go): POST the    *)
(* request upstream, and retry transport failures, 429 and 5xx with        *)
(* exponential backoff, honouring Retry-After.                             *)
(*                                                                         *)
(* The module has the steps of the goroutine in Generate and those of what *)
(* surrounds it: the HTTP client (external), the gateway's answer, the     *)
(* timers and the request context.  RequestLifecycle composes them with    *)
(* the handler that calls Generate.                                        *)
(*                                                                         *)
(* Time is counted in units of BaseDelay / 5, a fifth of a second.  The    *)
(* two errors of building a request are left out: marshalling the request  *)
(* body and parsing a constant URL cannot fail.                            *)
(***************************************************************************)
EXTENDS Integers

CONSTANTS
    MaxRetries,     \* maxRetries
    BaseDelay,      \* baseRetryDelay
    MaxDelay,       \* maxRetryDelay
    Statuses,       \* statuses the gateway may answer with
    RetryAfters     \* parsed values of Retry-After, 0 if absent or past

ASSUME RetriesAreNat == MaxRetries \in Nat
ASSUME DelaysAreNat == BaseDelay \in Nat /\ MaxDelay \in Nat
ASSUME JitterIsPositive == BaseDelay >= 5
ASSUME StatusesAreHttp == Statuses \subseteq 200 .. 599
ASSUME RetryAftersAreNat == RetryAfters \subseteq Nat /\ 0 \in RetryAfters

VARIABLES
    gen,        \* where Generate is: "idle" (not called), "backoff",
                \* "preparing" a request, "waiting" for its answer, "answered",
                \* "retryAfter", "returned"
    attempt,    \* the loop variable
    delay,      \* the timer Generate waits on
    answer,     \* the last attempt's answer, or NoAnswer
    slept,      \* time waited since the last attempt failed
    outcome,    \* what Generate returned, or Nothing
    open,       \* attempts whose response body is not closed
    ctxDone     \* the request context is cancelled

callVars == <<gen, attempt, delay, answer, slept, outcome, open>>

Attempts == 0 .. MaxRetries

NoAnswer == [status |-> 0, after |-> 0]
Answers == [status: Statuses, after: RetryAfters]

Nothing == [kind |-> "none", status |-> 0]
Body == [kind |-> "body", status |-> 200]
PlainError == [kind |-> "error", status |-> 0]
UpstreamError(status) == [kind |-> "upstreamError", status |-> status]

Outcomes == {Nothing, Body, PlainError} \cup {UpstreamError(s) : s \in Statuses}

Smaller(m, n) == IF m <= n THEN m ELSE n

\* calculateBackoff(n), capped: the base doubled n times and up to a fifth
\* of it on top.
Backoff(n) ==
    LET base == BaseDelay * 2^n
    IN {Smaller(base + j, MaxDelay) : j \in 0 .. (base \div 5) - 1}

Delays == {0} \cup RetryAfters \cup UNION {Backoff(n) : n \in Attempts}

CallTypeOK ==
    /\ gen \in {"idle", "backoff", "preparing", "waiting", "answered",
                "retryAfter", "returned"}
    /\ attempt \in Attempts
    /\ delay \in Delays
    /\ answer \in Answers \cup {NoAnswer}
    /\ slept \in Int
    /\ outcome \in Outcomes
    /\ open \subseteq Attempts
    /\ ctxDone \in BOOLEAN

CallInit ==
    /\ gen = "idle"
    /\ attempt = 0
    /\ delay = 0
    /\ answer = NoAnswer
    /\ slept = 0
    /\ outcome = Nothing
    /\ open = {}
    /\ ctxDone = FALSE

-------------------------------------------------------------------------------
(***************************************************************************)
(* Parts of Generate's steps.                                              *)
(***************************************************************************)

Return(result) ==
    /\ gen' = "returned"
    /\ outcome' = result
    /\ delay' = 0
    /\ UNCHANGED attempt

\* Seeded defect: an off-by-one bound makes one attempt too many.
ContinueOnceMore ==
    IF attempt <= MaxRetries
    THEN /\ gen' = "backoff"
         /\ attempt' = attempt + 1
         /\ delay' \in Backoff(attempt + 1)
         /\ UNCHANGED outcome
    ELSE Return(PlainError)

\* Seeded defect: the bound is taken for the number of attempts.
ContinueOnceLess ==
    IF attempt < MaxRetries - 1
    THEN /\ gen' = "backoff"
         /\ attempt' = attempt + 1
         /\ delay' \in Backoff(attempt + 1)
         /\ UNCHANGED outcome
    ELSE Return(PlainError)

\* `continue': back off for the next attempt, or give up after the last.
Continue ==
    IF attempt < MaxRetries
    THEN /\ gen' = "backoff"
         /\ attempt' = attempt + 1
         /\ delay' \in Backoff(attempt + 1)
         /\ UNCHANGED outcome
    ELSE Return(PlainError)

CloseAttempt == open' = open \ {attempt}

Retryable(status) == status = 429 \/ status >= 500

-------------------------------------------------------------------------------
(***************************************************************************)
(* Steps.                                                                  *)
(***************************************************************************)

CallGenerate ==
    /\ gen = "idle"
    /\ gen' = "preparing"
    /\ UNCHANGED <<attempt, delay, answer, slept, outcome, open, ctxDone>>

\* The timer of the select fires; with the context done too, either wins.
BackoffFires ==
    /\ gen = "backoff"
    /\ gen' = "preparing"
    /\ slept' = slept + delay
    /\ delay' = 0
    /\ UNCHANGED <<attempt, answer, outcome, open, ctxDone>>

BackoffCancelled ==
    /\ gen = "backoff" /\ ctxDone
    /\ Return(PlainError)
    /\ UNCHANGED <<answer, slept, open, ctxDone>>

\* createUpstreamRequest, which may block on the version registry, and
\* client.Do, which sends nothing once the request's context is done.
Post ==
    /\ gen = "preparing"
    /\ ~ctxDone
    /\ gen' = "waiting"
    /\ UNCHANGED <<attempt, delay, answer, slept, outcome, open, ctxDone>>

\* client.Do fails: no connection, a lost answer, its timeout, the context.
DoFails ==
    /\ gen \in {"preparing", "waiting"}
    /\ answer' = NoAnswer
    /\ slept' = 0
    /\ Continue
    /\ UNCHANGED <<open, ctxDone>>

\* client.Do returns a response, its body open.
AnswerArrives ==
    /\ gen = "waiting"
    /\ \E a \in Answers : answer' = a
    /\ gen' = "answered"
    /\ slept' = 0
    /\ open' = open \cup {attempt}
    /\ UNCHANGED <<attempt, delay, outcome, ctxDone>>

\* Seeded defect: the body of an answer that is retried stays open.
HandleRetryableLeaks ==
    /\ gen = "answered" /\ Retryable(answer.status)
    /\ IF answer.after > 0
       THEN /\ gen' = "retryAfter"
            /\ delay' = answer.after
            /\ UNCHANGED <<attempt, outcome>>
       ELSE Continue
    /\ UNCHANGED <<answer, slept, open, ctxDone>>

\* Seeded defect: Retry-After is parsed and ignored.
HandleRetryableAtOnce ==
    /\ gen = "answered" /\ Retryable(answer.status)
    /\ CloseAttempt
    /\ Continue
    /\ UNCHANGED <<answer, slept, ctxDone>>

\* A retryable answer is drained and closed, then its Retry-After awaited,
\* after the last attempt too.
HandleRetryable ==
    /\ gen = "answered" /\ Retryable(answer.status)
    /\ CloseAttempt
    /\ IF answer.after > 0
       THEN /\ gen' = "retryAfter"
            /\ delay' = answer.after
            /\ UNCHANGED <<attempt, outcome>>
       ELSE Continue
    /\ UNCHANGED <<answer, slept, ctxDone>>

RetryAfterFires ==
    /\ gen = "retryAfter"
    /\ slept' = slept + delay
    /\ Continue
    /\ UNCHANGED <<answer, open, ctxDone>>

\* Seeded defect: Retry-After is slept through, whatever the context does.
RetryAfterUncancelled == FALSE

RetryAfterCancelled ==
    /\ gen = "retryAfter" /\ ctxDone
    /\ Return(PlainError)
    /\ UNCHANGED <<answer, slept, open, ctxDone>>

\* Seeded defect: the body of a refused request is left open.
HandleRefusalLeaks ==
    /\ gen = "answered" /\ ~Retryable(answer.status) /\ answer.status # 200
    /\ Return(UpstreamError(answer.status))
    /\ UNCHANGED <<answer, slept, open, ctxDone>>

\* Any other answer but 200 is drained, closed and returned as an error.
HandleRefusal ==
    /\ gen = "answered" /\ ~Retryable(answer.status) /\ answer.status # 200
    /\ CloseAttempt
    /\ Return(UpstreamError(answer.status))
    /\ UNCHANGED <<answer, slept, ctxDone>>

\* The body of a 200 is handed to the caller, who must close it.
HandleOK ==
    /\ gen = "answered" /\ answer.status = 200
    /\ Return(Body)
    /\ UNCHANGED <<answer, slept, open, ctxDone>>

\* The steps of Generate once it has been called: a timer it waits on fires,
\* or it goes on by itself or by what client.Do or the context brings.
TimerFires == BackoffFires \/ RetryAfterFires

Proceeds ==
    \/ BackoffCancelled
    \/ Post
    \/ DoFails
    \/ AnswerArrives
    \/ HandleRetryable
    \/ RetryAfterCancelled
    \/ HandleRefusal
    \/ HandleOK

CallStep == TimerFires \/ Proceeds
===============================================================================
