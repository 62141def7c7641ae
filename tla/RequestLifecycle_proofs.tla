------------------------- MODULE RequestLifecycle_proofs -------------------------
(***************************************************************************)
(* Proofs about RequestLifecycle, for any number of retries, any delays,   *)
(* any HTTP statuses and any Retry-After values.                           *)
(***************************************************************************)
EXTENDS RequestLifecycle, TLAPS

(***************************************************************************)
(* calculateBackoff with its cap lies between the schedule its comment     *)
(* states, or the cap if that is less, and the cap.                        *)
(***************************************************************************)
LEMMA BackoffRange ==
    ASSUME NEW n \in Nat, NEW d \in Backoff(n)
    PROVE  d \in Int /\ d \in Least(n) .. MaxDelay
<1> DEFINE base == BaseDelay * 2^n
<1>1. 2^n \in Int
  BY SMT
<1>2. base \in Int
  BY <1>1, DelaysAreNat
<1>3. PICK j \in 0 .. (base \div 5) - 1 : d = Smaller(base + j, MaxDelay)
  BY DEF Backoff
<1> HIDE DEF base
<1>4. Least(n) = Smaller((4 * (base \div 2)) \div 5, MaxDelay)
  BY DEF Least, Stated, base
<1>5. j \in Nat /\ base > 0
  BY <1>2, <1>3
<1>6. (4 * (base \div 2)) \div 5 \in Int /\ (4 * (base \div 2)) \div 5 <= base
  <2>1. PICK half \in Int : half = base \div 2 /\ 2 * half <= base
    BY <1>2
  <2>2. PICK least \in Int : least = (4 * half) \div 5 /\ 5 * least <= 4 * half
    BY <2>1
  <2> QED
    BY <1>2, <1>5, <2>1, <2>2
<1>7. d = Smaller(base + j, MaxDelay) /\ base + j >= (4 * (base \div 2)) \div 5
      /\ base + j \in Int
  BY <1>2, <1>3, <1>5, <1>6
<1> QED
  BY <1>2, <1>4, <1>6, <1>7, DelaysAreNat DEF Smaller

(***************************************************************************)
(* Every delay is a number; the two results Generate can tell apart are.   *)
(***************************************************************************)
LEMMA DelaysAreInt == Delays \subseteq Int
<1> SUFFICES ASSUME NEW d \in Delays PROVE d \in Int
  OBVIOUS
<1>1. CASE d \in {0} \cup RetryAfters
  BY <1>1, RetryAftersAreNat
<1>2. CASE d \in UNION {Backoff(n) : n \in Attempts}
  <2>1. PICK n \in Attempts : d \in Backoff(n)
    BY <1>2
  <2> QED
    BY <2>1, BackoffRange, RetriesAreNat DEF Attempts
<1> QED
  BY <1>1, <1>2 DEF Delays

(***************************************************************************)
(* The initial states satisfy the invariant.                               *)
(***************************************************************************)
LEMMA InitInv == Init => IInv
<1> SUFFICES ASSUME Init PROVE IInv
  OBVIOUS
<1> USE DEF Init, CallInit
<1>1. TypeOK
  <2>1. 0 \in Attempts
    BY RetriesAreNat DEF Attempts
  <2>2. 0 \in Delays
    BY DEF Delays
  <2>3. Nothing \in Outcomes
    BY DEF Outcomes
  <2>4. CallTypeOK
    <3>1. attempt \in Attempts /\ delay \in Delays /\ slept \in Int
      BY <2>1, <2>2
    <3>2. answer \in Answers \cup {NoAnswer} /\ outcome \in Outcomes
      BY <2>3
    <3>3. open \subseteq Attempts /\ ctxDone \in BOOLEAN
      OBVIOUS
    <3> QED
      BY <3>1, <3>2, <3>3 DEF CallTypeOK
  <2> QED
    BY <2>4 DEF TypeOK, Requests, Phases, Preparing
<1>2. OpenInv
  BY DEF OpenInv
<1>3. OutcomeInv
  BY DEF OutcomeInv
<1>4. WaitInv
  BY DEF WaitInv
<1>5. CheckInv
  BY DEF CheckInv, Passed, FromClient, Requests
<1>6. PhaseInv
  BY DEF PhaseInv, Preparing
<1> QED
  BY <1>1, <1>2, <1>3, <1>4, <1>5, <1>6 DEF IInv

(***************************************************************************)
(* `continue' leaves Generate backing off, or returned, with the delay and *)
(* the attempt the invariant wants.                                        *)
(***************************************************************************)
LEMMA ContinueSound ==
    ASSUME CallTypeOK, Continue
    PROVE  \/ /\ gen' = "backoff" /\ attempt' \in Attempts /\ attempt' > 0
              /\ delay' \in Delays /\ delay' \in Least(attempt') .. MaxDelay
              /\ outcome' = outcome
           \/ /\ gen' = "returned" /\ attempt' = attempt
              /\ delay' = 0 /\ outcome' = PlainError /\ attempt = MaxRetries
<1>1. CASE attempt < MaxRetries
  <2>1. attempt + 1 \in Attempts /\ attempt + 1 \in Nat /\ attempt + 1 > 0
    BY <1>1, RetriesAreNat DEF CallTypeOK, Attempts
  <2>2. /\ gen' = "backoff" /\ attempt' = attempt + 1
        /\ delay' \in Backoff(attempt + 1) /\ outcome' = outcome
    BY <1>1 DEF Continue
  <2>3. delay' \in Least(attempt') .. MaxDelay
    BY <2>1, <2>2, BackoffRange
  <2>4. delay' \in Delays
    BY <2>1, <2>2 DEF Delays
  <2> QED
    BY <2>1, <2>2, <2>3, <2>4
<1>2. CASE ~(attempt < MaxRetries)
  <2>1. attempt = MaxRetries
    BY <1>2, RetriesAreNat DEF CallTypeOK, Attempts
  <2> QED
    BY <1>2, <2>1 DEF Continue, Return
<1> QED
  BY <1>1, <1>2

(***************************************************************************)
(* Every step of Generate preserves types.                                 *)
(***************************************************************************)
LEMMA CallTyped ==
    ASSUME CallTypeOK, OutcomeInv, CallStep
    PROVE  CallTypeOK'
<1>1. 0 \in Delays /\ RetryAfters \subseteq Delays /\ {Nothing, Body, PlainError} \subseteq Outcomes
  BY DEF Delays, Outcomes
<1>2. slept \in Int /\ delay \in Int
  BY DelaysAreInt DEF CallTypeOK
<1>3. slept + delay \in Int
  BY <1>2
<1>4. Continue => gen' \in {"backoff", "returned"} /\ attempt' \in Attempts
                  /\ delay' \in Delays /\ outcome' \in Outcomes
  BY <1>1, ContinueSound DEF CallTypeOK
<1>5. \A result \in Outcomes : Return(result) =>
        gen' = "returned" /\ attempt' = attempt /\ delay' \in Delays /\ outcome' \in Outcomes
  BY <1>1 DEF Return
<1> HIDE DEF Outcomes
<1>6. CASE BackoffFires
  BY <1>1, <1>3, <1>6 DEF BackoffFires, CallTypeOK
<1>7. CASE BackoffCancelled
  BY <1>1, <1>5, <1>7 DEF BackoffCancelled, CallTypeOK
<1>8. CASE Post
  BY <1>8 DEF Post, CallTypeOK
<1>9. CASE DoFails
  BY <1>4, <1>9 DEF DoFails, CallTypeOK
<1>10. CASE AnswerArrives
  BY <1>10 DEF AnswerArrives, CallTypeOK
<1>11. CASE HandleRetryable
  <2>1. answer.after > 0 => answer.after \in Delays
    BY <1>1 DEF CallTypeOK, Answers, NoAnswer
  <2> QED
    BY <1>4, <1>11, <2>1 DEF HandleRetryable, CloseAttempt, CallTypeOK
<1>12. CASE RetryAfterFires
  BY <1>3, <1>4, <1>12 DEF RetryAfterFires, CallTypeOK
<1>13. CASE RetryAfterCancelled
  BY <1>1, <1>5, <1>13 DEF RetryAfterCancelled, CallTypeOK
<1>14. CASE HandleRefusal
  <2>1. answer.status \in Statuses
    BY <1>14 DEF OutcomeInv, Answers, HandleRefusal
  <2>2. UpstreamError(answer.status) \in Outcomes
    BY <2>1 DEF Outcomes
  <2> QED
    BY <1>5, <1>14, <2>2 DEF HandleRefusal, CloseAttempt, CallTypeOK
<1>15. CASE HandleOK
  BY <1>1, <1>5, <1>15 DEF HandleOK, CallTypeOK
<1> QED
  BY <1>6, <1>7, <1>8, <1>9, <1>10, <1>11, <1>12, <1>13, <1>14, <1>15 DEF CallStep, TimerFires, Proceeds

(***************************************************************************)
(* Every step of Generate keeps the bodies accounted for.                  *)
(***************************************************************************)
LEMMA CallKeepsOpen ==
    ASSUME IInv, Calling
    PROVE  OpenInv'
<1> USE DEF OpenInv
<1>1. /\ phase = "calling" /\ phase' = phase /\ CallStep /\ CallTypeOK /\ OpenInv
  BY DEF Calling, handlerVars, IInv, TypeOK
<1>2. Continue => /\ gen' \in {"backoff", "returned"}
                  /\ gen' = "returned" => outcome' = PlainError
                  /\ gen' # "answered"
  BY <1>1, ContinueSound
<1>3. \A result : Return(result) => gen' = "returned" /\ outcome' = result /\ attempt' = attempt
  BY DEF Return
<1>4. PlainError # Body /\ \A s : UpstreamError(s) # Body
  BY DEF PlainError, UpstreamError, Body
<1>5. CASE BackoffFires
  BY <1>1, <1>5 DEF BackoffFires
<1>6. CASE BackoffCancelled
  BY <1>1, <1>3, <1>6 DEF BackoffCancelled
<1>7. CASE Post
  BY <1>1, <1>7 DEF Post
<1>8. CASE DoFails
  BY <1>1, <1>2, <1>4, <1>8 DEF DoFails
<1>9. CASE AnswerArrives
  BY <1>1, <1>9 DEF AnswerArrives
<1>10. CASE HandleRetryable
  <2>1. open' = {}
    BY <1>1, <1>10 DEF HandleRetryable, CloseAttempt
  <2>2. gen' # "answered"
    BY <1>2, <1>10 DEF HandleRetryable
  <2> QED
    BY <1>1, <2>1, <2>2
<1>11. CASE RetryAfterFires
  BY <1>1, <1>2, <1>4, <1>11 DEF RetryAfterFires
<1>12. CASE RetryAfterCancelled
  BY <1>1, <1>3, <1>12 DEF RetryAfterCancelled
<1>13. CASE HandleRefusal
  <2>1. open' = {} /\ gen' = "returned"
    BY <1>1, <1>3, <1>13 DEF HandleRefusal, CloseAttempt
  <2> QED
    BY <1>1, <2>1
<1>14. CASE HandleOK
  BY <1>1, <1>3, <1>14 DEF HandleOK
<1> QED
  BY <1>1, <1>5, <1>6, <1>7, <1>8, <1>9, <1>10, <1>11, <1>12, <1>13, <1>14 DEF CallStep, TimerFires, Proceeds

(***************************************************************************)
(* Every step of Generate keeps its outcome a function of the last answer. *)
(***************************************************************************)
LEMMA CallKeepsOutcome ==
    ASSUME IInv, Calling
    PROVE  OutcomeInv'
<1>1. phase = "calling" /\ CallStep /\ CallTypeOK /\ OutcomeInv /\ gen # "idle"
  BY DEF Calling, IInv, TypeOK, PhaseInv
<1>2. Continue => \/ gen' = "backoff" /\ outcome' = outcome
                  \/ /\ gen' = "returned" /\ outcome' = PlainError
                     /\ attempt' = attempt /\ attempt = MaxRetries
  BY <1>1, ContinueSound
<1>3. \A result : Return(result) =>
        gen' = "returned" /\ outcome' = result /\ attempt' = attempt
  BY DEF Return
<1>4. Nothing \notin {Body, PlainError} /\ \A s : UpstreamError(s) # Nothing
  BY DEF Nothing, Body, PlainError, UpstreamError
<1> HIDE DEF Nothing, Body, PlainError, UpstreamError
<1>5. answer' = answer => (Retried' <=> Retried)
  BY DEF Retried
<1>6. CASE BackoffFires
  BY <1>1, <1>5, <1>6 DEF BackoffFires, OutcomeInv
<1>7. CASE BackoffCancelled
  BY <1>1, <1>3, <1>4, <1>5, <1>7 DEF BackoffCancelled, OutcomeInv
<1>8. CASE Post
  BY <1>1, <1>5, <1>8 DEF Post, OutcomeInv
<1>9. CASE DoFails
  <2>1. Retried'
    BY <1>9 DEF DoFails, Retried
  <2> QED
    BY <1>1, <1>2, <1>4, <1>9, <2>1 DEF DoFails, OutcomeInv
<1>10. CASE AnswerArrives
  BY <1>1, <1>10 DEF AnswerArrives, OutcomeInv
<1>11. CASE HandleRetryable
  <2>1. Retried /\ answer' = answer
    BY <1>11 DEF HandleRetryable, Retried
  <2> QED
    BY <1>1, <1>2, <1>4, <1>5, <1>11, <2>1 DEF HandleRetryable, OutcomeInv
<1>12. CASE RetryAfterFires
  BY <1>1, <1>2, <1>4, <1>5, <1>12 DEF RetryAfterFires, OutcomeInv
<1>13. CASE RetryAfterCancelled
  BY <1>1, <1>3, <1>4, <1>5, <1>13 DEF RetryAfterCancelled, OutcomeInv
<1>14. CASE HandleRefusal
  BY <1>1, <1>3, <1>4, <1>14 DEF HandleRefusal, OutcomeInv
<1>15. CASE HandleOK
  BY <1>1, <1>3, <1>4, <1>15 DEF HandleOK, OutcomeInv
<1> QED
  BY <1>1, <1>6, <1>7, <1>8, <1>9, <1>10, <1>11, <1>12, <1>13, <1>14, <1>15 DEF CallStep, TimerFires, Proceeds

(***************************************************************************)
(* Every step of Generate keeps count of what it has waited.               *)
(***************************************************************************)
LEMMA CallKeepsWait ==
    ASSUME IInv, Calling
    PROVE  WaitInv'
<1>1. CallStep /\ CallTypeOK /\ WaitInv /\ OutcomeInv
  BY DEF Calling, IInv, TypeOK
<1>2. /\ slept \in Int /\ delay \in Int
      /\ answer.after \in Nat /\ attempt \in Nat
  <2>1. slept \in Int /\ delay \in Int
    BY <1>1, DelaysAreInt DEF CallTypeOK
  <2>2. answer.after \in Nat
    <3>1. CASE answer = NoAnswer
      BY <3>1 DEF NoAnswer
    <3>2. CASE answer \in Answers
      BY <3>2, RetryAftersAreNat DEF Answers
    <3> QED
      BY <1>1, <3>1, <3>2 DEF CallTypeOK
  <2>3. attempt \in Nat
    BY <1>1, RetriesAreNat DEF CallTypeOK, Attempts
  <2> QED
    BY <2>1, <2>2, <2>3
<1>3. Continue => \/ /\ gen' = "backoff" /\ attempt' > 0
                     /\ delay' \in Least(attempt') .. MaxDelay
                  \/ gen' = "returned"
  BY <1>1, ContinueSound
<1>4. \A result : Return(result) => gen' = "returned"
  BY DEF Return
<1>5. attempt' = attempt => Least(attempt)' = Least(attempt)
  BY DEF Least
<1>6. answer' = answer => Asked' = Asked
  BY DEF Asked
<1>7. CASE BackoffFires
  <2>1. gen' = "preparing" /\ slept' = slept + delay /\ attempt' = attempt /\ answer' = answer
        /\ gen = "backoff"
    BY <1>7 DEF BackoffFires
  <2>2. slept = Asked /\ delay \in Least(attempt) .. MaxDelay /\ Asked \in Nat
    BY <1>1, <1>2, <2>1 DEF WaitInv, Asked
  <2>3. slept' - Asked' = delay
    BY <1>2, <1>6, <2>1, <2>2
  <2>4. Least(attempt') = Least(attempt)
    BY <2>1
  <2> QED
    BY <2>1, <2>2, <2>3, <2>4 DEF WaitInv
<1>8. CASE BackoffCancelled
  BY <1>4, <1>8 DEF BackoffCancelled, WaitInv
<1>9. CASE Post
  BY <1>9 DEF Post, WaitInv
<1>10. CASE DoFails
  <2>1. slept' = Asked'
    BY <1>10 DEF DoFails, NoAnswer, Asked
  <2> QED
    BY <1>3, <1>10, <2>1 DEF DoFails, WaitInv
<1>11. CASE AnswerArrives
  BY <1>11 DEF AnswerArrives, WaitInv
<1>12. CASE HandleRetryable
  <2>1. slept' = 0 /\ answer' = answer
    BY <1>1, <1>12 DEF HandleRetryable, WaitInv
  <2>2. CASE answer.after > 0
    BY <1>12, <2>1, <2>2 DEF HandleRetryable, WaitInv, Asked
  <2>3. CASE ~(answer.after > 0)
    <3>1. Continue
      BY <1>12, <2>3 DEF HandleRetryable
    <3>2. Asked' = 0
      BY <1>2, <2>1, <2>3 DEF Asked
    <3> QED
      BY <1>3, <2>1, <3>1, <3>2 DEF WaitInv
  <2> QED
    BY <2>2, <2>3
<1>13. CASE RetryAfterFires
  <2>1. /\ gen = "retryAfter" /\ slept' = slept + delay /\ Continue /\ answer' = answer
    BY <1>13 DEF RetryAfterFires
  <2>2. slept = 0 /\ delay = Asked
    BY <1>1, <2>1 DEF WaitInv
  <2>3. slept' = Asked'
    BY <1>2, <1>6, <2>1, <2>2
  <2> QED
    BY <1>3, <2>1, <2>3 DEF WaitInv
<1>14. CASE RetryAfterCancelled
  BY <1>4, <1>14 DEF RetryAfterCancelled, WaitInv
<1>15. CASE HandleRefusal
  BY <1>4, <1>15 DEF HandleRefusal, WaitInv
<1>16. CASE HandleOK
  BY <1>4, <1>16 DEF HandleOK, WaitInv
<1> QED
  BY <1>1, <1>7, <1>8, <1>9, <1>10, <1>11, <1>12, <1>13, <1>14, <1>15, <1>16 DEF CallStep, TimerFires, Proceeds

(***************************************************************************)
(* A step of Generate keeps the whole invariant.                           *)
(***************************************************************************)
LEMMA CallingKeeps == IInv /\ Calling => IInv'
<1> SUFFICES ASSUME IInv, Calling PROVE IInv'
  OBVIOUS
<1>1. /\ phase = "calling" /\ CallStep /\ CallTypeOK /\ OutcomeInv
      /\ PhaseInv /\ CheckInv /\ gen # "idle" /\ TypeOK
      /\ UNCHANGED handlerVars
  BY DEF Calling, IInv, TypeOK, PhaseInv
<1>2. CallTypeOK'
  BY <1>1, CallTyped
<1>3. TypeOK'
  BY <1>1, <1>2 DEF TypeOK, handlerVars
<1>4. request.faults = {} /\ UNCHANGED handlerVars /\ phase' = "calling"
  BY <1>1 DEF PhaseInv, handlerVars
<1>5. gen' # "idle"
  <2>1. Continue => gen' # "idle"
    BY <1>1, ContinueSound
  <2> QED
    BY <1>1, <2>1 DEF CallStep, TimerFires, Proceeds, BackoffFires, BackoffCancelled, Post, DoFails,
       AnswerArrives, HandleRetryable, RetryAfterFires, RetryAfterCancelled,
       HandleRefusal, HandleOK, Return
<1>6. PhaseInv'
  BY <1>4, <1>5 DEF PhaseInv, handlerVars, Preparing
<1>7. CheckInv'
  BY <1>1, <1>4 DEF CheckInv, Passed, FromClient, handlerVars
<1> QED
  BY <1>3, <1>6, <1>7, CallKeepsOpen, CallKeepsOutcome, CallKeepsWait DEF IInv

(***************************************************************************)
(* Steps that leave Generate alone leave alone what is true of it.         *)
(***************************************************************************)
LEMMA CallUntouched ==
    ASSUME IInv, UNCHANGED callVars, ctxDone => ctxDone'
    PROVE  OutcomeInv' /\ WaitInv' /\ (ctxDone' \in BOOLEAN => CallTypeOK')
           /\ (phase' # "returned" \/ open = {} => OpenInv')
<1>1. CallTypeOK /\ OutcomeInv /\ WaitInv /\ OpenInv
  BY DEF IInv, TypeOK
<1>2. OutcomeInv' /\ WaitInv'
  BY <1>1 DEF callVars, OutcomeInv, WaitInv, Retried, Asked, Least
<1>3. ctxDone' \in BOOLEAN => CallTypeOK'
  BY <1>1 DEF callVars, CallTypeOK
<1>4. phase' # "returned" \/ open = {} => OpenInv'
  BY <1>1 DEF callVars, OpenInv
<1> QED
  BY <1>2, <1>3, <1>4

(***************************************************************************)
(* The status of an error is one HTTP has.                                 *)
(***************************************************************************)
LEMMA ErrorStatusTyped == ErrorStatus(outcome) \in 200 .. 599
<1>1. CASE outcome.kind = "upstreamError" /\ outcome.status \in 400 .. 499
  BY <1>1 DEF ErrorStatus
<1>2. CASE ~(outcome.kind = "upstreamError" /\ outcome.status \in 400 .. 499)
  BY <1>2 DEF ErrorStatus
<1> QED
  BY <1>1, <1>2

(***************************************************************************)
(* What is wrong with a request is the failing of checks.                  *)
(***************************************************************************)
LEMMA FaultsAreChecks == TypeOK => request.faults \subseteq Checks
<1> SUFFICES ASSUME TypeOK PROVE request.faults \subseteq Checks
  OBVIOUS
<1>1. request.faults \in Faults
  BY DEF TypeOK, Requests
<1>2. PICK access \in SUBSET {"method", "key"},
           content \in {{}, {"body"}, {"json"}, {"messages"}, {"onlySystem"}} :
              request.faults = access \cup content
  BY <1>1 DEF Faults
<1>3. access \subseteq Checks /\ content \subseteq Checks
  BY DEF Checks
<1> QED
  BY <1>2, <1>3

(***************************************************************************)
(* A step before the call that leaves Generate alone and what the client   *)
(* was sent, and does not return, keeps all but the order of the checks.   *)
(***************************************************************************)
LEMMA PassingKeeps ==
    ASSUME IInv, phase \in Preparing, phase' \in Preparing,
           UNCHANGED <<request, saved, tee, status, sent, stalled, callVars, ctxDone>>,
           handler' \in {"chat", "responses"}, hung' \in BOOLEAN,
           saved => phase' = "submitting"
    PROVE  TypeOK' /\ OpenInv' /\ OutcomeInv' /\ WaitInv' /\ PhaseInv'
<1>1. TypeOK /\ PhaseInv /\ UNCHANGED callVars /\ ctxDone' \in BOOLEAN
  BY DEF IInv, TypeOK, CallTypeOK
<1>2. phase' # "returned" /\ phase' \in Phases
      /\ phase' \notin {"calling", "running", "closing"}
  BY DEF Preparing, Phases
<1>3. TypeOK'
  BY <1>1, <1>2, CallUntouched DEF TypeOK
<1>4. PhaseInv'
  BY <1>1, <1>2 DEF PhaseInv, callVars
<1> QED
  BY <1>1, <1>2, <1>3, <1>4, CallUntouched

(***************************************************************************)
(* A refusal for a fault the request has keeps the invariant.              *)
(***************************************************************************)
LEMMA RefusalKeeps ==
    ASSUME IInv, phase \in Preparing, NEW code \in {400, 401, 405}, WriteError(code),
           ctxDone \/ \E c \in request.faults : code = Told[c],
           UNCHANGED <<request, handler, saved, tee, stalled, hung, callVars, ctxDone>>
    PROVE  IInv'
<1>1. /\ TypeOK /\ OpenInv /\ PhaseInv /\ CheckInv
      /\ UNCHANGED callVars /\ ctxDone' \in BOOLEAN
  BY DEF IInv, TypeOK, CallTypeOK
<1>2. phase' = "returned" /\ status' = code /\ sent' = "error"
  BY DEF WriteError
<1>3. status' \in 200 .. 599
  BY <1>2
<1>4. gen = "idle" /\ open = {} /\ gen' = "idle"
  BY <1>1 DEF PhaseInv, OpenInv, callVars
<1>5. TypeOK'
  BY <1>1, <1>2, <1>3, CallUntouched DEF TypeOK, Phases
<1>6. PhaseInv'
  BY <1>1, <1>2, <1>4 DEF PhaseInv, Preparing
<1>7. CheckInv'
  BY <1>1, <1>2 DEF CheckInv, Passed, FromClient
<1> QED
  BY <1>1, <1>4, <1>5, <1>6, <1>7, CallUntouched DEF IInv

(***************************************************************************)
(* Each check keeps the invariant, whether it passes or not.               *)
(***************************************************************************)
LEMMA CheckKeeps ==
    IInv /\ (CheckMethod \/ CheckKey \/ CheckJSON \/ CheckMessages \/ CheckTurns) => IInv'
<1> SUFFICES ASSUME IInv,
                    NEW c \in {"method", "key", "json", "messages", "onlySystem"},
                    NEW code \in {400, 401, 405}, code = Told[c],
                    Check(c, code)
             PROVE  IInv'
  <2>1. /\ Told["method"] = 405 /\ Told["key"] = 401 /\ Told["json"] = 400
        /\ Told["messages"] = 400 /\ Told["onlySystem"] = 400
    BY DEF Told
  <2> QED
    BY <2>1 DEF CheckMethod, CheckKey, CheckJSON, CheckMessages, CheckTurns
<1>1. /\ TypeOK /\ CheckInv /\ PhaseInv /\ phase = c /\ phase \in Preparing
      /\ UNCHANGED <<request, handler, saved, tee, stalled, hung, callVars, ctxDone>>
      /\ handler \in {"chat", "responses"} /\ hung \in BOOLEAN
  BY DEF IInv, TypeOK, Check, Preparing
<1>2. CASE c \in request.faults /\ (c = "json" => FromClient)
  <2>1. WriteError(code)
    BY <1>2 DEF Check
  <2> QED
    BY <1>1, <1>2, <2>1, RefusalKeeps
<1>3. CASE ~(c \in request.faults /\ (c = "json" => FromClient))
  <2>1. phase' = After(c) /\ UNCHANGED <<status, sent>>
    BY <1>3 DEF Check
  <2>2. handler = "responses" => c \in {"method", "json"}
    BY <1>1 DEF CheckInv
  <2>3. /\ c = "method" => phase' = IF handler = "chat" THEN "key" ELSE "reading"
        /\ c = "key" => phase' = "reading"
        /\ c = "json" => phase' = IF handler = "chat" THEN "messages" ELSE "shim"
        /\ c = "messages" => phase' = "building"
        /\ c = "onlySystem" => phase' = "capturing"
    BY <1>1, <2>1, <2>2 DEF After, ChatOrder, ResponsesOrder
  <2>4. phase' \in Preparing /\ ~saved
    BY <1>1, <2>3 DEF Preparing, PhaseInv
  <2>5. CheckInv'
    <3>1. c \notin request.faults \/ (c = "json" /\ ~FromClient)
      BY <1>3
    <3>2. request.faults \subseteq Checks
      BY <1>1, FaultsAreChecks
    <3>3. FromClient' = FromClient /\ request' = request /\ handler' = handler
      BY <1>1 DEF FromClient
    <3>4. CASE c = "method"
      BY <1>1, <2>3, <3>1, <3>3, <3>4 DEF CheckInv, Passed
    <3>5. CASE c = "key"
      BY <1>1, <2>2, <2>3, <3>1, <3>3, <3>5 DEF CheckInv, Passed
    <3>6. CASE c = "json"
      BY <1>1, <2>3, <3>1, <3>3, <3>6 DEF CheckInv, Passed
    <3>7. CASE c = "messages"
      BY <1>1, <2>2, <2>3, <3>1, <3>2, <3>3, <3>7 DEF CheckInv, Passed, Checks
    <3>8. CASE c = "onlySystem"
      BY <1>1, <2>2, <2>3, <3>1, <3>2, <3>3, <3>8 DEF CheckInv, Passed, Checks
    <3> QED
      BY <3>4, <3>5, <3>6, <3>7, <3>8
  <2> QED
    BY <1>1, <2>1, <2>4, <2>5, PassingKeeps DEF IInv
<1> QED
  BY <1>2, <1>3

(***************************************************************************)
(* Reading the body, handing over and building keep the invariant.         *)
(***************************************************************************)
LEMMA ReadingKeeps == IInv /\ (Reading \/ Shim \/ Build \/ GitHangs) => IInv'
<1> SUFFICES ASSUME IInv, Reading \/ Shim \/ Build \/ GitHangs PROVE IInv'
  OBVIOUS
<1>1. /\ TypeOK /\ CheckInv /\ PhaseInv /\ handler \in {"chat", "responses"}
      /\ hung \in BOOLEAN
  BY DEF IInv, TypeOK
<1>2. CASE ReadFails
  <2>1. /\ phase \in Preparing /\ WriteError(400)
        /\ UNCHANGED <<request, handler, saved, tee, stalled, hung, callVars, ctxDone>>
        /\ ctxDone \/ \E c \in request.faults : 400 = Told[c]
    BY <1>2 DEF ReadFails, Preparing, Told
  <2> QED
    BY <2>1, RefusalKeeps
<1>3. CASE ReadBody
  <2>1. /\ phase = "reading" /\ phase' = After("reading")
        /\ FromClient => "body" \notin request.faults
        /\ UNCHANGED <<request, handler, saved, tee, status, sent, stalled, hung,
                       callVars, ctxDone>>
    BY <1>3 DEF ReadBody
  <2>2. phase' = "json"
    BY <1>1, <2>1 DEF After, ChatOrder, ResponsesOrder
  <2>3. phase \in Preparing /\ phase' \in Preparing /\ ~saved
    BY <1>1, <2>1, <2>2 DEF Preparing, PhaseInv
  <2>4. CheckInv'
    BY <1>1, <2>1, <2>2 DEF CheckInv, Passed, FromClient
  <2> QED
    BY <1>1, <2>1, <2>3, <2>4, PassingKeeps DEF IInv
<1>4. CASE Shim
  <2>1. /\ phase = "shim" /\ phase' = "method" /\ handler' = "chat"
        /\ UNCHANGED <<request, saved, tee, status, sent, stalled, hung, callVars, ctxDone>>
    BY <1>4 DEF Shim
  <2>2. phase \in Preparing /\ phase' \in Preparing /\ ~saved
    BY <1>1, <2>1 DEF Preparing, PhaseInv
  <2>3. CheckInv'
    BY <1>1, <2>1 DEF CheckInv, Passed, FromClient
  <2> QED
    BY <1>1, <2>1, <2>2, <2>3, PassingKeeps DEF IInv
<1>5. CASE Build
  <2>1. /\ phase = "building" /\ phase' = After("building")
        /\ UNCHANGED <<request, handler, saved, tee, status, sent, stalled, hung,
                       callVars, ctxDone>>
    BY <1>5 DEF Build
  <2>2. phase' = "onlySystem"
    BY <1>1, <2>1 DEF After, ChatOrder, CheckInv
  <2>3. phase \in Preparing /\ phase' \in Preparing /\ ~saved
    BY <1>1, <2>1, <2>2 DEF Preparing, PhaseInv
  <2>4. CheckInv'
    BY <1>1, <2>1, <2>2 DEF CheckInv, Passed, FromClient
  <2> QED
    BY <1>1, <2>1, <2>3, <2>4, PassingKeeps DEF IInv
<1>6. CASE GitHangs
  <2>1. /\ phase = "building" /\ phase' = phase /\ hung' = TRUE
        /\ UNCHANGED <<request, handler, saved, tee, status, sent, stalled,
                       callVars, ctxDone>>
    BY <1>6 DEF GitHangs
  <2>2. phase \in Preparing /\ phase' \in Preparing /\ ~saved
    BY <1>1, <2>1 DEF Preparing, PhaseInv
  <2>3. CheckInv'
    BY <1>1, <2>1 DEF CheckInv, Passed, FromClient
  <2> QED
    BY <1>1, <2>1, <2>2, <2>3, PassingKeeps DEF IInv
<1> QED
  BY <1>2, <1>3, <1>4, <1>5, <1>6 DEF Reading

(***************************************************************************)
(* The two effects come when all checks have passed.                       *)
(***************************************************************************)
LEMMA EffectsKeep == IInv /\ (Capture \/ Submit) => IInv'
<1> SUFFICES ASSUME IInv, Capture \/ Submit PROVE IInv'
  OBVIOUS
<1>1. /\ TypeOK /\ CallTypeOK /\ OpenInv /\ OutcomeInv /\ WaitInv /\ PhaseInv
      /\ CheckInv /\ request.capture \in BOOLEAN /\ ctxDone \in BOOLEAN
  BY DEF IInv, TypeOK, Requests, CallTypeOK
<1>2. phase \in {"capturing", "submitting"}
  BY DEF Capture, Submit
<1>3. request.faults = {} /\ gen = "idle" /\ handler = "chat"
  <2>1. Checks \subseteq Passed
    BY <1>2 DEF Passed
  <2>2. request.faults \cap Passed = {} /\ request.faults \subseteq Checks
    BY <1>1, FaultsAreChecks DEF CheckInv
  <2> QED
    BY <1>1, <1>2, <2>1, <2>2 DEF CheckInv, PhaseInv, Preparing, TypeOK
<1>4. CASE Capture
  <2>1. /\ phase = "capturing" /\ phase' = After("capturing")
        /\ saved' \in {request.capture, FALSE}
        /\ UNCHANGED <<request, handler, tee, status, sent, stalled, hung, ctxDone>>
        /\ UNCHANGED callVars
    BY <1>4 DEF Capture
  <2>2. phase' = "submitting"
    BY <1>3, <2>1 DEF After, ChatOrder
  <2>3. TypeOK'
    <3>1. CallTypeOK' /\ saved' \in BOOLEAN
      BY <1>1, <2>1, CallUntouched
    <3> QED
      BY <1>1, <2>1, <2>2, <3>1 DEF TypeOK, Phases, Preparing
  <2>4. PhaseInv'
    BY <1>3, <2>1, <2>2 DEF PhaseInv, Preparing, callVars
  <2>5. CheckInv'
    BY <1>3, <2>1, <2>2 DEF CheckInv
  <2> QED
    BY <2>1, <2>2, <2>3, <2>4, <2>5, CallUntouched DEF IInv
<1>5. CASE Submit
  <2>1. /\ UNCHANGED <<request, handler, saved, tee, status, sent, stalled, hung>>
        /\ phase' = "calling" /\ gen' = "preparing"
        /\ UNCHANGED <<attempt, delay, answer, slept, outcome, open, ctxDone>>
    BY <1>5 DEF Submit, CallGenerate
  <2>2. open = {} /\ outcome = Nothing /\ attempt = 0 /\ answer = NoAnswer
    BY <1>1, <1>3 DEF OpenInv, OutcomeInv
  <2>3. CallTypeOK'
    BY <1>1, <2>1 DEF CallTypeOK
  <2>4. TypeOK'
    BY <1>1, <2>1, <2>3 DEF TypeOK, Phases
  <2>5. OpenInv'
    BY <2>1, <2>2 DEF OpenInv
  <2>6. OutcomeInv'
    BY <2>1, <2>2 DEF OutcomeInv, Retried
  <2>7. WaitInv'
    <3>1. attempt' = 0
      BY <2>1, <2>2
    <3> QED
      BY <2>1, <3>1 DEF WaitInv
  <2>8. PhaseInv'
    BY <1>3, <2>1 DEF PhaseInv, Preparing
  <2>9. CheckInv'
    BY <1>3, <2>1 DEF CheckInv
  <2> QED
    BY <2>4, <2>5, <2>6, <2>7, <2>8, <2>9 DEF IInv
<1> QED
  BY <1>4, <1>5

(***************************************************************************)
(* What the handler does with Generate's result keeps the invariant.       *)
(***************************************************************************)
LEMMA HandlingKeeps ==
    IInv /\ (HandleError \/ HandleBody \/ RunStep \/ CloseBody) => IInv'
<1> SUFFICES ASSUME IInv, HandleError \/ HandleBody \/ RunStep \/ CloseBody PROVE IInv'
  OBVIOUS
<1>1. /\ TypeOK /\ CallTypeOK /\ OpenInv /\ OutcomeInv /\ WaitInv /\ PhaseInv /\ CheckInv
  BY DEF IInv, TypeOK
<1>2. Body # Nothing
  BY DEF Body, Nothing
<1>3. CASE HandleError
  <2>1. /\ phase = "calling" /\ gen = "returned" /\ outcome # Body
        /\ status' = ErrorStatus(outcome) /\ sent' = "error" /\ phase' = "returned"
        /\ UNCHANGED <<request, handler, saved, tee, stalled, hung, ctxDone>> /\ UNCHANGED callVars
    BY <1>3 DEF HandleError, WriteError
  <2>2. ctxDone' \in BOOLEAN /\ status' \in 200 .. 599
    BY <1>1, <2>1, ErrorStatusTyped DEF CallTypeOK
  <2>3. TypeOK'
    BY <1>1, <2>1, <2>2, CallUntouched DEF TypeOK, Phases
  <2>4. open = {}
    BY <1>1, <2>1 DEF OpenInv
  <2>5. status' = ErrorStatus(outcome)'
    BY <2>1 DEF ErrorStatus, callVars
  <2>6. PhaseInv'
    BY <1>1, <2>1, <2>5 DEF PhaseInv, Preparing, callVars
  <2>7. CheckInv'
    BY <1>1, <2>1 DEF CheckInv, Passed, FromClient
  <2> QED
    BY <2>1, <2>2, <2>3, <2>4, <2>6, <2>7, CallUntouched DEF IInv
<1>4. CASE HandleBody
  <2>1. /\ phase = "calling" /\ gen = "returned" /\ outcome = Body
        /\ tee' \in {"open", "none"}
        /\ status' \in {200, status} /\ sent' \in {"events", sent} /\ phase' = "running"
        /\ UNCHANGED <<request, handler, saved, stalled, hung, ctxDone>> /\ UNCHANGED callVars
    BY <1>4 DEF HandleBody
  <2>2. ctxDone' \in BOOLEAN /\ status' \in {0} \cup 200 .. 599
    BY <1>1, <2>1 DEF CallTypeOK, TypeOK
  <2>3. TypeOK'
    BY <1>1, <2>1, <2>2, CallUntouched DEF TypeOK, Phases
  <2>4. PhaseInv'
    BY <1>1, <2>1 DEF PhaseInv, Preparing, callVars
  <2>5. CheckInv'
    BY <1>1, <2>1 DEF CheckInv, Passed, FromClient
  <2> QED
    BY <2>1, <2>2, <2>3, <2>4, <2>5, CallUntouched DEF IInv
<1>5. CASE RunStep
  <2>1. /\ phase = "running" /\ status' = 200
        /\ sent' \in {"body", sent} /\ phase' = "closing"
        /\ UNCHANGED <<request, handler, saved, tee, stalled, hung, ctxDone>> /\ UNCHANGED callVars
    BY <1>5 DEF RunStep, RunReturns
  <2>2. ctxDone' \in BOOLEAN /\ status' \in {0} \cup 200 .. 599
    BY <1>1, <2>1 DEF CallTypeOK
  <2>3. TypeOK'
    BY <1>1, <2>1, <2>2, CallUntouched DEF TypeOK, Phases
  <2>4. PhaseInv'
    BY <1>1, <2>1 DEF PhaseInv, Preparing, callVars
  <2>5. CheckInv'
    BY <1>1, <2>1 DEF CheckInv, Passed, FromClient
  <2> QED
    BY <2>1, <2>2, <2>3, <2>4, <2>5, CallUntouched DEF IInv
<1>6. CASE CloseBody
  <2>1. /\ phase = "closing" /\ open' = open \ {attempt} /\ phase' = "returned"
        /\ UNCHANGED <<request, handler, saved, tee, status, sent, stalled, hung, gen,
                       attempt, delay, answer, slept, outcome, ctxDone>>
    BY <1>6 DEF CloseBody, CloseAttempt
  <2>2. open' = {}
    BY <1>1, <2>1 DEF OpenInv
  <2>3. outcome = Body /\ gen = "returned" /\ status = 200
    BY <1>1, <1>2, <2>1 DEF PhaseInv, OutcomeInv
  <2>4. TypeOK'
    BY <1>1, <2>1, <2>2 DEF TypeOK, CallTypeOK, Phases
  <2>5. OutcomeInv'
    BY <1>1, <2>1 DEF OutcomeInv, Retried
  <2>6. WaitInv'
    BY <1>1, <2>1 DEF WaitInv, Asked, Least
  <2>7. OpenInv' /\ PhaseInv'
    BY <1>1, <2>1, <2>2, <2>3 DEF OpenInv, PhaseInv, Preparing
  <2>8. CheckInv'
    BY <1>1, <2>1 DEF CheckInv, Passed, FromClient
  <2> QED
    BY <2>4, <2>5, <2>6, <2>7, <2>8 DEF IInv
<1> QED
  BY <1>3, <1>4, <1>5, <1>6

(***************************************************************************)
(* Nothing the client does breaks the invariant, and neither does idling.  *)
(***************************************************************************)
LEMMA ClientKeeps == IInv /\ (ClientLeaves \/ ClientStalls \/ UNCHANGED vars) => IInv'
<1> SUFFICES ASSUME IInv, ClientLeaves \/ ClientStalls \/ UNCHANGED vars PROVE IInv'
  OBVIOUS
<1>1. /\ TypeOK /\ OpenInv /\ PhaseInv /\ CheckInv
  BY DEF IInv
<1>2. /\ UNCHANGED callVars /\ UNCHANGED <<request, handler, phase, saved, tee, status, sent, hung>>
      /\ ctxDone' \in {TRUE, ctxDone} /\ stalled' \in {TRUE, FALSE, stalled}
  BY DEF ClientLeaves, ClientStalls, vars, handlerVars
<1>3. ctxDone' \in BOOLEAN /\ stalled' \in BOOLEAN
  <2>1. ctxDone \in BOOLEAN /\ stalled \in BOOLEAN
    BY <1>1 DEF TypeOK, CallTypeOK
  <2>2. CASE ctxDone' = TRUE
    BY <1>2, <2>1, <2>2
  <2>3. CASE ctxDone' = ctxDone
    BY <1>2, <2>1, <2>3
  <2> QED
    BY <1>2, <2>2, <2>3
<1>4. ctxDone => ctxDone'
  BY <1>2
<1>5. TypeOK'
  <2>1. CallTypeOK'
    BY <1>2, <1>3, <1>4, CallUntouched
  <2> QED
    BY <1>1, <1>2, <1>3, <2>1 DEF TypeOK
<1>6. PhaseInv'
  <2>1. ErrorStatus(outcome)' = ErrorStatus(outcome)
    BY <1>2 DEF ErrorStatus, callVars
  <2> HIDE DEF ErrorStatus
  <2> QED
    BY <1>1, <1>2, <1>4, <2>1 DEF PhaseInv, callVars
<1>7. OpenInv'
  BY <1>1, <1>2 DEF OpenInv, callVars
<1>8. CheckInv'
  BY <1>1, <1>2 DEF CheckInv, Passed, FromClient
<1> QED
  BY <1>2, <1>3, <1>4, <1>5, <1>6, <1>7, <1>8, CallUntouched DEF IInv

(***************************************************************************)
(* The invariant holds throughout, for every request.                      *)
(***************************************************************************)
THEOREM Invariance == Spec => []IInv
<1>1. IInv /\ [Next]_vars => IInv'
  BY CallingKeeps, CheckKeeps, ReadingKeeps, EffectsKeep, HandlingKeeps, ClientKeeps
  DEF Next, OwnStep
<1> QED
  BY <1>1, InitInv, PTL DEF Spec

(***************************************************************************)
(* Every variable of the handler and of Generate keeps its type.           *)
(***************************************************************************)
THEOREM TypeCorrectness == Spec => []TypeOK
<1>1. IInv => TypeOK
  BY DEF IInv
<1> QED
  BY <1>1, Invariance, PTL

(***************************************************************************)
(* At most the current attempt's body is open, none once the handler has   *)
(* returned, however many attempts were made.                              *)
(***************************************************************************)
THEOREM Released == Spec => []BodiesReleased
<1>1. IInv => BodiesReleased
  BY DEF IInv, OpenInv, BodiesReleased
<1> QED
  BY <1>1, Invariance, PTL

(***************************************************************************)
(* Whatever the route and the faults, the checks of both handlers come     *)
(* before the capture and the call, all but the last before any command is *)
(* run, and a refusal names a fault the request has.                       *)
(***************************************************************************)
THEOREM EarlyRefusal == Spec => []RefusedEarly
<1>1. IInv => RefusedEarly
  <2> SUFFICES ASSUME IInv PROVE RefusedEarly
    OBVIOUS
  <2>1. TypeOK /\ PhaseInv /\ CheckInv
    BY DEF IInv
  <2>2. phase = "building" => request.faults \subseteq {"onlySystem"}
    BY <2>1, FaultsAreChecks DEF CheckInv, Passed
  <2> QED
    BY <2>1, <2>2 DEF PhaseInv, RefusedEarly
<1> QED
  BY <1>1, Invariance, PTL

(***************************************************************************)
(* Failures make Generate give up after maxRetries + 1 attempts or when    *)
(* the context is done, and not before.                                    *)
(***************************************************************************)
THEOREM NoEarlySurrender == Spec => []AllAttemptsMade
<1>1. IInv => AllAttemptsMade
  <2>1. PlainError # Nothing /\ PlainError # Body /\ \A s : UpstreamError(s) # PlainError
    BY DEF PlainError, Nothing, Body, UpstreamError
  <2> HIDE DEF PlainError, Nothing, Body, UpstreamError
  <2> QED
    BY <2>1 DEF IInv, OutcomeInv, AllAttemptsMade
<1> QED
  BY <1>1, Invariance, PTL

(***************************************************************************)
(* The status the client is told is that of the last attempt, or 502.      *)
(***************************************************************************)
THEOREM LastAttemptTold == Spec => []StatusTold
<1>1. IInv => StatusTold
  <2> SUFFICES ASSUME IInv, phase = "returned", gen = "returned" PROVE StatusTold
    BY DEF StatusTold
  <2>1. gen = "returned" /\ status = IF outcome = Body THEN 200 ELSE ErrorStatus(outcome)
    BY DEF IInv, PhaseInv
  <2>2. \/ outcome = PlainError /\ Retried
        \/ outcome = Body /\ answer.status = 200
        \/ /\ outcome = UpstreamError(answer.status)
           /\ answer.status # 200 /\ ~Retryable(answer.status)
    BY <2>1 DEF IInv, OutcomeInv
  <2>3. answer.status \in Int
    <3>1. CASE answer = NoAnswer
      BY <3>1 DEF NoAnswer
    <3>2. CASE answer \in Answers
      <4>1. answer.status \in Statuses
        BY <3>2 DEF Answers
      <4>2. answer.status \in 200 .. 599
        BY <4>1, StatusesAreHttp
      <4> HIDE <4>1
      <4> QED
        BY <4>2
    <3> QED
      BY <3>1, <3>2 DEF IInv, TypeOK, CallTypeOK
  <2>4. CASE outcome = PlainError /\ Retried
    <3>1. status = 502
      BY <2>1, <2>4 DEF PlainError, Body, ErrorStatus
    <3>2. answer.status \in {0, 429} \/ answer.status >= 500
      BY <2>4 DEF Retried, NoAnswer, Retryable
    <3> QED
      BY <2>3, <3>1, <3>2 DEF StatusTold
  <2>5. CASE outcome = Body /\ answer.status = 200
    <3>1. status = 200
      BY <2>1, <2>5
    <3> QED
      BY <2>5, <3>1 DEF StatusTold
  <2>6. CASE outcome = UpstreamError(answer.status) /\ answer.status # 200
             /\ ~Retryable(answer.status)
    <3>1. outcome.kind = "upstreamError" /\ outcome.status = answer.status /\ outcome # Body
      BY <2>6 DEF UpstreamError, Body
    <3>2. status = IF answer.status \in 400 .. 499 THEN answer.status ELSE 502
      BY <2>1, <3>1 DEF ErrorStatus
    <3>3. answer.status # 200 /\ answer.status # 429
      BY <2>6 DEF Retryable
    <3> QED
      BY <2>3, <3>2, <3>3 DEF StatusTold
  <2> QED
    BY <2>2, <2>4, <2>5, <2>6
<1> QED
  BY <1>1, Invariance, PTL

(***************************************************************************)
(* Every retry has waited out Retry-After and then its own backoff.        *)
(***************************************************************************)
THEOREM RetriesWait == Spec => BackoffKept
<1>1. IInv /\ [Next]_vars =>
        [gen = "preparing" /\ gen' = "waiting" /\ attempt > 0 =>
            slept - Asked \in Least(attempt) .. MaxDelay]_vars
  BY DEF IInv, WaitInv
<1> QED
  BY <1>1, Invariance, PTL DEF Spec, BackoffKept

(***************************************************************************)
(* Generate and its caller together never break the contract of Upstream:  *)
(* a call returns once, with a body to close or with an error and none.    *)
(***************************************************************************)
THEOREM ContractSafety ==
    Spec => Promise!ContractInit /\ [][Promise!ContractNext]_(Promise!contractVars)
<1> USE DEF Promise!contractVars
<1>1. Init => Promise!ContractInit
  BY DEF Init, CallInit, Promise!ContractInit, Nothing
<1>2. IInv /\ IInv' /\ [Next]_vars => [Promise!ContractNext]_(Promise!contractVars)
  <2> SUFFICES ASSUME IInv, IInv', [Next]_vars
               PROVE  [Promise!ContractNext]_(Promise!contractVars)
    OBVIOUS
  <2>1. /\ OpenInv /\ OutcomeInv /\ OpenInv' /\ OutcomeInv' /\ PhaseInv /\ PhaseInv'
        /\ TypeOK /\ TypeOK'
    BY DEF IInv
  <2>2. outcome' \in Outcomes /\ outcome'.kind \in {"none", "body", "upstreamError", "error"}
        /\ (outcome'.kind = "none" => outcome' = Nothing)
        /\ (outcome'.kind = "body" <=> outcome' = Body)
    BY <2>1 DEF TypeOK, CallTypeOK, Outcomes, Nothing, Body, PlainError, UpstreamError
  <2>3. CASE UNCHANGED callVars
    BY <2>3 DEF callVars
  <2>4. CASE Submit
    BY <2>1, <2>4 DEF Submit, CallGenerate, PhaseInv, Promise!ContractNext, Promise!CallStarts
  <2>5. CASE Calling
    <3>1. gen # "returned" /\ gen # "idle" /\ phase' = "calling" /\ gen' # "idle"
      <4>1. phase = "calling" /\ phase' = "calling"
        BY <2>5 DEF Calling, handlerVars
      <4>2. gen # "idle" /\ gen' # "idle"
        BY <2>1, <4>1 DEF PhaseInv
      <4>3. gen # "returned"
        BY <2>5 DEF Calling, CallStep, TimerFires, Proceeds, BackoffFires, BackoffCancelled, Post, DoFails,
           AnswerArrives, HandleRetryable, RetryAfterFires, RetryAfterCancelled,
           HandleRefusal, HandleOK
      <4> QED
        BY <4>1, <4>2, <4>3
    <3>2. outcome = Nothing
      BY <2>1, <3>1 DEF OutcomeInv
    <3>3. CASE gen' # "returned"
      <4>1. outcome' = Nothing
        BY <2>1, <3>3 DEF OutcomeInv
      <4> QED
        BY <3>1, <3>2, <3>3, <4>1
    <3>4. CASE gen' = "returned"
      <4>1. outcome' # Nothing
        BY <2>1, <3>4 DEF OutcomeInv
      <4>2. outcome' # Body => open' = {}
        BY <2>1, <3>4 DEF OpenInv
      <4>3. outcome' = Body => open' # {}
        <5> SUFFICES ASSUME outcome' = Body PROVE open' # {}
          OBVIOUS
        <5>1. Body # Nothing /\ PlainError # Body /\ UpstreamError(answer.status) # Body
          BY DEF Body, Nothing, PlainError, UpstreamError
        <5>2. Continue => outcome' # Body
          BY <2>1, <3>2, <5>1, ContinueSound DEF TypeOK
        <5>3. HandleOK
          BY <2>5, <3>2, <3>4, <5>1, <5>2 DEF Calling, CallStep, TimerFires, Proceeds, BackoffFires,
             BackoffCancelled, Post, DoFails, AnswerArrives, HandleRetryable,
             RetryAfterFires, RetryAfterCancelled, HandleRefusal, Return
        <5> QED
          BY <2>1, <5>3 DEF HandleOK, Return, OpenInv
      <4> QED
        BY <2>2, <3>1, <3>4, <4>1, <4>2, <4>3 DEF Promise!ContractNext, Promise!CallReturns
    <3> QED
      BY <3>3, <3>4
  <2>6. CASE CloseBody
    <3>1. gen = "returned" /\ gen' = gen /\ outcome' = outcome /\ phase' = "returned"
      <4>1. outcome = Body /\ phase' = "returned" /\ gen' = gen /\ outcome' = outcome
        BY <2>1, <2>6 DEF CloseBody, PhaseInv
      <4>2. Body # Nothing
        BY DEF Body, Nothing
      <4> QED
        BY <2>1, <4>1, <4>2 DEF OutcomeInv
    <3>2. open' = {}
      BY <2>1, <3>1 DEF OpenInv
    <3> QED
      BY <3>1, <3>2 DEF Promise!ContractNext, Promise!CallerCloses
  <2> QED
    BY <2>3, <2>4, <2>5, <2>6 DEF Next, OwnStep, vars, Check, CheckMethod, CheckKey,
       CheckJSON, CheckMessages, CheckTurns, Reading, ReadBody, ReadFails, Shim, Build,
       GitHangs, Capture, HandleError, HandleBody, RunStep, RunReturns, ClientLeaves,
       ClientStalls
<1> QED
  BY <1>1, <1>2, Invariance, PTL DEF Spec
===============================================================================
