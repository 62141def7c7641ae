---------------------------- MODULE RequestLifecycle ----------------------------
(***************************************************************************)
(* One POST to /v1/chat/completions or /v1/responses, from its handler's   *)
(* first check to its return (internal/proxy/handler.go), composed with    *)
(* the upstream call and with a client that may go away, or stall, at any  *)
(* time.                                                                   *)
(*                                                                         *)
(* Each check, the reading of the body, the building of the upstream       *)
(* request, the capture and the call is a step of its own, taken where the *)
(* order of the running handler puts it.  HandleResponses makes checks of  *)
(* its own and then hands over to HandleChatCompletions, which makes all   *)
(* of its own on what the first one wrote.                                 *)
(*                                                                         *)
(* ResponseAssembler.Run is one step here, with the ways it may return;    *)
(* StreamAssembler and FinalAssembler model what it does.  Three branches  *)
(* of the handlers are left out because nothing reaches them: marshalling  *)
(* the rewritten request and building the upstream one never fail, and     *)
(* statusWriter (logging.go) makes every writer an http.Flusher.           *)
(***************************************************************************)
EXTENDS UpstreamCall

VARIABLES
    request,    \* the request's route, faults and stream flag, and whether
                \* CaptureDir is set; it does not change
    handler,    \* the handler that runs, "chat" or "responses"
    phase,      \* the step it is about to take, or "calling", "running",
                \* "closing", "returned"
    saved,      \* the request's capture file is written
    tee,        \* the response's capture file: "none", "open" or "closed"
    status,     \* the HTTP status sent to the client, 0 before any
    sent,       \* what the client was sent: "nothing", "error", "events", "body"
    stalled,    \* the client stays connected, sends and reads no more
    hung        \* a git command run for the request does not end

handlerVars == <<request, handler, phase, saved, tee, status, sent, stalled, hung>>
vars == <<handlerVars, callVars, ctxDone>>

\* What may be wrong with a request; one fault at most in what its body says,
\* or a body that is malformed as it is transferred ("body").
Checks == {"method", "key", "body", "json", "messages", "onlySystem"}
Faults == {access \cup content :
             access \in SUBSET {"method", "key"},
             content \in {{}, {"body"}, {"json"}, {"messages"}, {"onlySystem"}}}

Requests == [route: {"chat", "responses"}, faults: Faults,
             stream: BOOLEAN, capture: BOOLEAN]

\* Where a handler is before the call, and after it.
Preparing == {"method", "key", "reading", "json", "shim", "messages", "building",
              "onlySystem", "capturing", "submitting"}
Phases == Preparing \cup {"calling", "running", "closing", "returned"}

TypeOK ==
    /\ CallTypeOK
    /\ request \in Requests
    /\ handler \in {"chat", "responses"}
    /\ phase \in Phases
    /\ saved \in BOOLEAN
    /\ tee \in {"none", "open", "closed"}
    /\ status \in {0} \cup 200 .. 599
    /\ sent \in {"nothing", "error", "events", "body"}
    /\ stalled \in BOOLEAN
    /\ hung \in BOOLEAN

Init ==
    /\ CallInit
    /\ request \in Requests
    /\ handler = request.route
    /\ phase = "method"
    /\ saved = FALSE
    /\ tee = "none"
    /\ status = 0
    /\ sent = "nothing"
    /\ stalled = FALSE
    /\ hung = FALSE

-------------------------------------------------------------------------------
(***************************************************************************)
(* The order of the steps before the call.                                 *)
(***************************************************************************)

\* Seeded defect: the capture has moved up, to where the body is built.
ChatOrderCaptureFirst(step) ==
    CASE step = "method" -> "key"
      [] step = "key" -> "reading"
      [] step = "reading" -> "json"
      [] step = "json" -> "messages"
      [] step = "messages" -> "building"
      [] step = "building" -> "capturing"
      [] step = "capturing" -> "onlySystem"
      [] step = "onlySystem" -> "submitting"

\* HandleChatCompletions.
ChatOrder(step) ==
    CASE step = "method" -> "key"
      [] step = "key" -> "reading"
      [] step = "reading" -> "json"
      [] step = "json" -> "messages"
      [] step = "messages" -> "building"
      [] step = "building" -> "onlySystem"
      [] step = "onlySystem" -> "capturing"
      [] step = "capturing" -> "submitting"

\* HandleResponses, until its shim hands over.
ResponsesOrder(step) ==
    CASE step = "method" -> "reading"
      [] step = "reading" -> "json"
      [] step = "json" -> "shim"

After(step) == IF handler = "chat" THEN ChatOrder(step) ELSE ResponsesOrder(step)

\* The body is still the one on the client's connection; otherwise it is a
\* buffer that the shim has filled with well-formed JSON.
FromClient == handler = request.route

-------------------------------------------------------------------------------
(***************************************************************************)
(* The handlers.                                                           *)
(***************************************************************************)

WriteError(code) == status' = code /\ sent' = "error" /\ phase' = "returned"

\* A check passes or answers the request.  The rewritten body parses.
Check(c, code) ==
    /\ phase = c
    /\ IF c \in request.faults /\ (c = "json" => FromClient)
       THEN WriteError(code)
       ELSE phase' = After(c) /\ UNCHANGED <<status, sent>>
    /\ UNCHANGED <<request, handler, saved, tee, stalled, hung, callVars, ctxDone>>

CheckMethod == Check("method", 405)
CheckKey == Check("key", 401)
CheckJSON == Check("json", 400)
CheckMessages == Check("messages", 400)
CheckTurns == Check("onlySystem", 400)

\* io.ReadAll ends once the client has sent all of its body.
ReadBody ==
    /\ phase = "reading"
    /\ FromClient => ~stalled /\ "body" \notin request.faults
    /\ phase' = After("reading")
    /\ UNCHANGED <<request, handler, saved, tee, status, sent, stalled, hung,
                   callVars, ctxDone>>

\* It fails if the body is malformed, or its client gone before the end.
ReadFails ==
    /\ phase = "reading" /\ FromClient
    /\ ctxDone \/ ("body" \in request.faults /\ ~stalled)
    /\ WriteError(400)
    /\ UNCHANGED <<request, handler, saved, tee, stalled, hung, callVars, ctxDone>>

\* The Responses request becomes a chat request, with a body of its own.
Shim ==
    /\ phase = "shim"
    /\ handler' = "chat"
    /\ phase' = "method"
    /\ UNCHANGED <<request, saved, tee, status, sent, stalled, hung, callVars, ctxDone>>

\* Building the upstream request: RequestBuilding models it, with the git
\* commands it runs unless the client sent its own configuration.
Build ==
    /\ phase = "building" /\ ~hung
    /\ phase' = After("building")
    /\ UNCHANGED <<request, handler, saved, tee, status, sent, stalled, hung,
                   callVars, ctxDone>>

\* gitOutput waits for git, with no timeout and whatever the context does.
GitHangs ==
    /\ phase = "building" /\ ~hung
    /\ hung' = TRUE
    /\ UNCHANGED <<request, handler, phase, saved, tee, status, sent, stalled,
                   callVars, ctxDone>>

\* The request is captured if CaptureDir is set, and if that works.
Capture ==
    /\ phase = "capturing"
    /\ saved' \in {request.capture, FALSE}
    /\ phase' = After("capturing")
    /\ UNCHANGED <<request, handler, tee, status, sent, stalled, hung, callVars, ctxDone>>

Submit ==
    /\ phase = "submitting"
    /\ CallGenerate
    /\ phase' = "calling"
    /\ UNCHANGED <<request, handler, saved, tee, status, sent, stalled, hung>>

\* A step of Generate on the handler's behalf.
Calling == phase = "calling" /\ CallStep /\ UNCHANGED handlerVars

\* Seeded defect: upstream's status is passed on whatever it is.
ErrorStatusPassed(result) ==
    IF result.kind = "upstreamError" THEN result.status ELSE 502

\* The status of an error of Generate: upstream's own if it blames the client.
ErrorStatus(result) ==
    IF result.kind = "upstreamError" /\ result.status \in 400 .. 499
    THEN result.status ELSE 502

HandleError ==
    /\ phase = "calling" /\ gen = "returned" /\ outcome # Body
    /\ WriteError(ErrorStatus(outcome))
    /\ UNCHANGED <<request, handler, saved, tee, stalled, hung, callVars, ctxDone>>

\* A body: tee it to a capture file, if one can be made, and for a stream
\* send the header; an assembler takes over.
HandleBody ==
    /\ phase = "calling" /\ gen = "returned" /\ outcome = Body
    /\ tee' \in (IF request.capture THEN {"open", "none"} ELSE {"none"})
    /\ IF request.stream THEN status' = 200 /\ sent' = "events"
       ELSE UNCHANGED <<status, sent>>
    /\ phase' = "running"
    /\ UNCHANGED <<request, handler, saved, stalled, hung, callVars, ctxDone>>

\* Run returns; without streaming only finalize writes, and net/http completes
\* an answer that was never begun with an empty 200.
RunReturns(how) ==
    /\ phase = "running"
    /\ how = "cancelled" => ctxDone
    /\ status' = 200
    /\ sent' = IF ~request.stream /\ how = "finalized" THEN "body" ELSE sent
    /\ phase' = "closing"
    /\ UNCHANGED <<request, handler, saved, tee, stalled, hung, callVars, ctxDone>>

\* The deferred Close: its receiver was fixed before the tee wrapped the body.
CloseBody ==
    /\ phase = "closing"
    /\ CloseAttempt
    /\ phase' = "returned"
    /\ UNCHANGED <<request, handler, saved, tee, status, sent, stalled, hung, gen,
                   attempt, delay, answer, slept, outcome, ctxDone>>

-------------------------------------------------------------------------------
(***************************************************************************)
(* The client.                                                             *)
(***************************************************************************)

\* Its connection closes.  Reading and writing fail at once and the context is
\* cancelled, the latter once the body is read: nothing asks before that.
ClientLeaves ==
    /\ phase # "returned" /\ ~ctxDone
    /\ ctxDone' = TRUE
    /\ stalled' = FALSE
    /\ UNCHANGED <<request, handler, phase, saved, tee, status, sent, hung, callVars>>

\* It stays connected and for good sends no more of its body, or reads no more
\* of its answer, so that writes that overrun the connection's buffers block.
ClientStalls ==
    /\ phase # "returned" /\ ~ctxDone /\ ~stalled
    /\ stalled' = TRUE
    /\ UNCHANGED <<request, handler, phase, saved, tee, status, sent, hung, callVars,
                   ctxDone>>

RunStep == \E how \in {"finalized", "failed", "cancelled"} : RunReturns(how)

\* The handlers' steps that wait for nothing outside the proxy.
OwnStep ==
    \/ CheckMethod
    \/ CheckKey
    \/ CheckJSON
    \/ Shim
    \/ CheckMessages
    \/ CheckTurns
    \/ Capture
    \/ Submit
    \/ HandleError
    \/ HandleBody
    \/ CloseBody

Reading == ReadBody \/ ReadFails

Next ==
    \/ OwnStep
    \/ Reading
    \/ Build
    \/ GitHangs
    \/ Calling
    \/ RunStep
    \/ ClientLeaves
    \/ ClientStalls

Spec == Init /\ [][Next]_vars

\* The handler's goroutine is scheduled; a client that has not stalled ends its
\* body, and a git command that has not hung ends; the HTTP client's timeout
\* bounds each attempt and the reading of its body.  Timers fire, but nobody
\* who has left is helped by one: there the context must do.
FairSpec ==
    /\ Spec
    /\ WF_vars(OwnStep)
    /\ WF_vars(Reading)
    /\ WF_vars(Build)
    /\ WF_vars(Calling /\ Proceeds)
    /\ WF_vars(~ctxDone /\ Calling /\ TimerFires)
    /\ WF_vars(~stalled /\ RunStep)

-------------------------------------------------------------------------------
(***************************************************************************)
(* Properties.                                                             *)
(***************************************************************************)

\* At most the current attempt's body is open, whatever was retried before it,
\* and when the handler has returned none is: every path of Generate and of
\* the handler closes what client.Do opened.
BodiesReleased ==
    /\ open \subseteq {attempt}
    /\ phase = "returned" => open = {}

\* The checks of both handlers come before every effect: a request with a
\* fault is neither captured nor sent upstream, no command is run for one
\* unless its only fault takes the built body to see, and whoever is refused
\* is told a fault of the request, unless it has left in the meantime.
Told == [method |-> 405, key |-> 401, body |-> 400, json |-> 400,
         messages |-> 400, onlySystem |-> 400]
RefusedEarly ==
    /\ gen # "idle" \/ saved => request.faults = {}
    /\ phase = "building" => request.faults \subseteq {"onlySystem"}
    /\ phase = "returned" /\ gen = "idle" =>
          ctxDone \/ \E c \in request.faults : status = Told[c]

\* The client is told of the last attempt only: 200 iff it was answered so,
\* upstream's status iff it was a refusal, and 502 for everything that was
\* retried in vain, lost or cancelled; 429 and 5xx are never passed on.
StatusTold ==
    phase = "returned" /\ gen = "returned" =>
        /\ status = 200 => answer.status = 200
        /\ status \in 400 .. 499 => answer.status = status /\ status # 429
        /\ status \notin {200} \cup 400 .. 499 =>
              status = 502 /\ answer.status \notin {200} \cup 400 .. 428

\* Generate gives up on failures only after its last attempt or when the
\* context is done, whichever failures, answers and timers came before.
AllAttemptsMade == outcome = PlainError => attempt = MaxRetries \/ ctxDone

\* Before each retry Generate has waited out the Retry-After it was given and
\* a backoff on top: no shorter than the schedule of adapter.go:226-227 (1s,
\* 2s, 4s, less a fifth) allows, and no longer than the cap.
Asked == answer.after
Stated(n) == (BaseDelay * 2^n) \div 2
Least(n) == Smaller((4 * Stated(n)) \div 5, MaxDelay)
BackoffKept ==
    [][gen = "preparing" /\ gen' = "waiting" /\ attempt > 0 =>
          slept - Asked \in Least(attempt) .. MaxDelay]_vars

\* Generate keeps the contract of Upstream: it never returns an error with a
\* body still open, and always returns.
Promise == INSTANCE UpstreamContract WITH
    called <- IF gen \in {"idle", "returned"} THEN gen ELSE "running",
    result <- outcome.kind,
    holding <- gen = "returned" /\ open # {}

ContractKept == Promise!Contract

\* Every handler returns, and the handler of a client that has left does so
\* without waiting for a timer, unless it is held in one of three places where
\* the code has no timeout: reading the body of a client that stalls, writing
\* to a client that stalls, and waiting for a git command.
Held == hung \/ (stalled /\ phase \in {"reading", "running"})
Answered == <>[]Held \/ <>(phase = "returned")

-------------------------------------------------------------------------------
(***************************************************************************)
(* The inductive invariant behind them.                                    *)
(***************************************************************************)

\* What retrying has left behind: no answer, or one that is retried.
Retried == answer = NoAnswer \/ Retryable(answer.status)

\* A body is open from its answer until Generate closes or returns it.
OpenInv ==
    /\ open \subseteq {attempt}
    /\ gen = "answered" => open = {attempt}
    /\ gen \notin {"answered", "returned"} => open = {}
    /\ gen = "returned" /\ outcome # Body => open = {}
    /\ phase = "returned" => open = {}

\* The outcome is made of the last answer.
OutcomeInv ==
    /\ gen = "returned" <=> outcome # Nothing
    /\ gen = "answered" => answer \in Answers
    /\ gen = "idle" => attempt = 0 /\ answer = NoAnswer
    /\ gen \in {"backoff", "preparing", "waiting", "retryAfter"} => Retried
    /\ gen = "returned" =>
          \/ outcome = PlainError /\ Retried /\ (attempt = MaxRetries \/ ctxDone)
          \/ outcome = Body /\ answer.status = 200
          \/ /\ outcome = UpstreamError(answer.status)
             /\ answer.status # 200 /\ ~Retryable(answer.status)

\* What Generate has waited since an attempt failed: nothing, then its
\* Retry-After, then the backoff on top.
WaitInv ==
    /\ gen \in {"answered", "retryAfter"} => slept = 0
    /\ gen = "retryAfter" => delay = Asked
    /\ gen = "backoff" =>
          attempt > 0 /\ slept = Asked /\ delay \in Least(attempt) .. MaxDelay
    /\ gen = "preparing" /\ attempt > 0 =>
          slept - Asked \in Least(attempt) .. MaxDelay

\* The checks a request has passed, by where its handler is.
Passed ==
    (IF FromClient THEN {} ELSE {"method", "body", "json"}) \cup
    (IF phase \notin {"method", "returned"} THEN {"method"} ELSE {}) \cup
    (IF phase \in {"json", "shim"} THEN {"body"} ELSE {}) \cup
    (IF phase = "shim" THEN {"json"} ELSE {}) \cup
    (IF phase \in {"reading", "json"} /\ handler = "chat" THEN {"key"} ELSE {}) \cup
    (IF phase = "messages" THEN {"key", "body", "json"} ELSE {}) \cup
    (IF phase \in {"building", "onlySystem"} THEN Checks \ {"onlySystem"} ELSE {}) \cup
    (IF phase \in {"capturing", "submitting", "calling", "running", "closing"}
     THEN Checks ELSE {})

CheckInv ==
    /\ request.faults \cap Passed = {}
    /\ handler = "responses" =>
          FromClient /\ phase \in {"method", "reading", "json", "shim", "returned"}
    /\ handler = "chat" => phase # "shim"

\* Where the handler is, Generate is there with it.
PhaseInv ==
    /\ phase \in Preparing => gen = "idle"
    /\ phase \in Preparing \ {"submitting"} => ~saved
    /\ gen # "idle" \/ saved => request.faults = {}
    /\ phase \in {"calling", "running", "closing"} => gen # "idle"
    /\ phase \in {"running", "closing"} => outcome = Body
    /\ phase = "closing" => status = 200
    /\ phase = "returned" /\ gen # "idle" =>
          gen = "returned" /\ status = IF outcome = Body THEN 200 ELSE ErrorStatus(outcome)
    /\ phase = "returned" /\ gen = "idle" =>
          ctxDone \/ \E c \in request.faults : status = Told[c]

IInv == TypeOK /\ OpenInv /\ OutcomeInv /\ WaitInv /\ CheckInv /\ PhaseInv

-------------------------------------------------------------------------------
(***************************************************************************)
(* Claims of comments, as stated.                                          *)
(***************************************************************************)

\* handler.go:31-32: of the tee, "When Close is called, both the source and
\* the tee are closed."
CaptureReleased == phase = "returned" => tee # "open"

\* adapter.go:226-227: the backoffs of attempts 1, 2 and 3 are "1s, 2s, 4s",
\* give or take 20%.
BackoffAsStated ==
    gen = "backoff" =>
        delay \in (4 * Stated(attempt)) \div 5 .. (6 * Stated(attempt)) \div 5
===============================================================================
