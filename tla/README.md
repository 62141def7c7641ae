# A formal model of cmd-code-proxy

`cmd-code-proxy` is a local HTTP server that speaks the OpenAI chat-completions
protocol to its clients and the CommandCode `/alpha/generate` protocol (a stream
of NDJSON events) to its upstream. This directory holds TLA+ models of the parts
in which order, failure and sharing matter, the TLC runs that check them, and
TLAPS proofs of their main properties for every value of the constants.

All paths below are relative to the repository.

## 1. Inventory

| Component | State | Operations | Hard behaviour |
|---|---|---|---|
| Event translator (`internal/proxy/translator.go`) | scanner, `finishSeen` | `Next` | merging `finish-step` and `finish`; oversized lines, read errors |
| Response assembler (`assembler.go`), two sinks | tool index registry; `sentRole`, or collected text, tool calls, reason, usage | `Run`, `handle`, the sink methods, `finalize` | interleaved events of several tool calls, some with no id; events upstream's contract excludes; cancellation; streams that end early |
| Upstream adapter, `Generate` (`adapter.go`) | none that outlives a call | retry loop | timers racing the context, Retry-After, backoff, response bodies across retries |
| Handlers (`handler.go`) | one request each | `HandleChatCompletions`, `HandleResponses` | order of checks and effects, error statuses, deferred closing, clients that leave, or stall while they send or read, git commands without a timeout |
| Model list (`adapter.go` `FetchModels`, `handler.go` `HandleModels`, `model.go`) | cached list and its time, shared by all requests | fetch, serve, fall back, filter | fetches outside the lock that end out of order; empty lists |
| Version provider (`internal/version/version.go`) | cached version, its time, `valid`; shared | `Get` | the same, and fallbacks after failures |
| Conversion (`convert.go`) | `toolNames`, `addedTools`, for one call | `DropSystemMessages`, `ConvertMessages`, `parseContent`, `ConvertTools` | calls stated in two places, results in two, names remembered from one to the other; dropped roles; empty, null and broken arguments |
| Request building (`proxy.go`, `handler.go`) | one request | the Responses shim, `BuildCCRequestWithWorkingDir`, `ResolveTasteLearning` | choices with several sources, FALSE and 0 among them; refusals before and after the work |
| Environment snapshot (`config.go`) | none | reads directories, runs git | git's output is trimmed before its columns are read; several commands while the project changes; commands that fail |
| Logging middleware, router, `main.go`, API types | none of interest | wiring | `main.go` starts a server without timeouts |

How they interact: the handler checks a request, converts it, calls
`Generate` (which calls `version.Get` for a header of every attempt), and hands
the body to an assembler, whose loop pulls events from a translator and pushes
them to a sink, which writes to the client. Every request has a goroutine of its
own, cancelled through its context; requests share only the two caches.

The properties that make each correct:

- *assemblers*: the client ends up with exactly the tool calls, text, reasoning,
  finish reason and usage that upstream stated; each slot belongs to one call;
  the role is announced once, first; the stream is terminated once, and last;
- *adapter and handler*: every response body is closed; a refused request has no
  effect; the status told is that of the last attempt, and no attempt is given up
  early; retries are spaced as asked; every request returns, and that of a client
  that has left without waiting for a timer;
- *caches*: what is served is never older than the lifetime and one fetch;
  nothing known is forgotten; a usable answer is always given;
- *conversion*: the user's, assistant's and tools' turns are sent once, in order
  and as what they are; every call is sent once, every result under the name of
  its call; nothing said beside a call is lost;
- *request building and snapshot*: what the client says and chooses is not
  overruled; a change of the project is counted once, as what it is, and not lost
  between two git commands.

The hazards behind those properties, each at its line, are listed in
`PROJECT.json`.

## 2. Modules

| Module | Models | Notes |
|---|---|---|
| `Tools` | ids and names of tool calls | shared vocabulary |
| `ToolRegistry` | `toolIndexRegistry` | operators on a record, no state of its own |
| `Gateway` | the CommandCode gateway (external) | what lines may come, and what they mean |
| `ResponseAssembler` | the translator's filter, `Run` and what `handle` shares | extended by both modes |
| `StreamAssembler` | `handle` driving `streamSink` | state: the client's view of the chunks |
| `ChunkProtocol` | what a streaming client may be told, abstractly | refined by `StreamAssembler` |
| `FinalAssembler` | `handle` driving `finalSink`, `finalize` | state: the sink's fields and the body |
| `UpstreamCall` | `ccAdapter.Generate` | one action per step between blocking points |
| `UpstreamContract` | the interface `Upstream`, abstractly | refined by `RequestLifecycle` |
| `RequestLifecycle` | the handlers, composed with `UpstreamCall` and a client | |
| `VersionCache` | `NPMProvider` with concurrent callers | |
| `ModelsCache` | `HandleModels` and `FetchModels` with concurrent clients | |
| `Conversion` | `DropSystemMessages`, `ConvertMessages`, `parseContent` | one action per loop iteration |
| `EnvironmentSnapshot` | `populateConfigFromFS` and the project it reads | its actions are conjoined by `RequestBuilding` |
| `RequestBuilding` | both handlers until `Generate`, with `EnvironmentSnapshot` | |
| `MCStreamAssembler`, `MCFinalAssembler`, `MCConversion`, `MCRequestBuilding` | symmetry, and what clients send in the runs | |
| `*_proofs` | theorems | section 5 |

### Gateway and assemblers

A line of the stream and its handling are one step: one goroutine reads, filters,
checks its context and handles, and nothing it does is seen by the gateway. What
can come between two lines (cancellation, a read error, the end) is a step of its
own. `Gateway` keeps, beside the order of lines, what they *mean*: `meant` is the
name and arguments upstream has stated of each call, `verdict` the finish reason,
`usageSent` whether usage came with any finish line, `spoken` the deltas. The
properties of the assemblers compare that with what the client gets.

A real gateway departs from the contract in ways for which the code has a branch.
Each has a name (`restart`, `orphan`, `sparse`, `repeat`, `multistep`, `cut`,
`error`); a run admits some of them, and every property says with
`Survived(...)` which it does not survive. So the exceptions in the properties
are the precise statement of what the code relies on:

| Property | relies on there being no |
|---|---|
| `ToolsFaithful` (streaming) | restart, orphan, sparse |
| `SlotsFaithful` (non-streaming) | restart |
| `RoleAnnouncedOnce`, second half | orphan |
| `EndsFaithfully`, `BodyVerdict` | multistep, cut, error |
| `SilentAfterDone` | multistep |
| `SlotsKeepTheirId`, `FinishedOnce`, `ChunksLegal`, `BodyComplete`, `FinishKept` | nothing |

Data is abstracted: a text or reasoning delta is counted; a piece of arguments is
a member of `Fragments`; a tool's name is the id of its only call; usage is there
or not. The streaming client is modelled by the protocol's reading of chunks (ids
and names overwrite, arguments append, at the slot the chunk names).

### UpstreamCall and RequestLifecycle

`gen` is where `Generate` is; each blocking point (`select` on backoff, `select`
on Retry-After, `client.Do`) is a value of it, and a `select` with both channels
ready takes either branch. `open` holds the attempts whose response body is not
closed. Time is counted in fifths of a second, so that a jitter of up to a fifth
of the base is a whole number of units; `slept` is what was waited since the last
attempt failed. `DoFails` covers refused connections, lost answers, the client's
timeout and the context. Draining a body and closing it are one step: nothing
else looks at it in between.

A step of `Generate` is either a timer that fires (`TimerFires`) or anything else
(`Proceeds`), the cancellation of a wait included. The two are kept apart for
fairness (section 3).

`RequestLifecycle` adds the handlers, and each thing they do before the call is a
step of its own: every check (`CheckMethod`, `CheckKey`, `CheckJSON`,
`CheckMessages`, `CheckTurns`), the reading of the body, the building of the
upstream request with its git commands, the capture, and the call (`Submit`). In
which order they come is said in one place for each handler, `ChatOrder` and
`ResponsesOrder`. `HandleResponses` checks its method, reads and decodes the body,
and then hands over (`Shim`) to `HandleChatCompletions`, which begins with its own
first check, on a body that is by then a buffer the shim filled: so the steps
"reading" and "json" are taken twice, and can fail the first time only
(`FromClient`). A request has any combination of a wrong method, a missing key and
one fault in what its body says or how it is transferred.

After the call come the mapping of errors to statuses, the tee, `Run` (as one
step: the assemblers' modules show what it does), and the deferred `Close`, whose
receiver was fixed before the tee wrapped the body. The client may leave at any
time, or stay connected and stall for good: then the reading of its body does not
end, if it has not been read yet, and writes to it may block. A git command may
hang as well (`GitHangs`).

### VersionCache and ModelsCache

Locks are held for a look at the cache and for a store, so these are single
steps; a fetch in between is not atomic, and any number of callers may be at any
point of it. Where a fetch has two moments that matter, when the registry *reads*
the value out and when the caller *stores* it, both are steps. The clock stands
still while a goroutine can run, and no fetch lasts longer than the HTTP client's
timeout.

### Conversion

The conversion is one scan, and a step is an iteration of one of its loops:
over messages, over a message's `tool_calls`, over its content, and over
`tool_calls` again to merge them. What the scan reads is chosen when it reads it,
so one behaviour is one conversation, and `conversation` remembers it for the
properties. `toolNames` lives for the whole scan, which is where the hazard lies:
it is filled by two loops and read at two places, and a result may come before,
beside or long after its call.

An id, a name and a type are all that is kept of a part. Of arguments it matters
whether they are absent, empty, an object (given as one or spelled as a string),
`null` or no JSON, since `parseToolInput` and `parseToolInputJSON` treat these
differently; of a result's text whether it starts with `Error:`. Images become
text parts in the code and are text parts here.

### RequestBuilding and EnvironmentSnapshot

`RequestBuilding` takes a request of either API through the shim, the check for
messages, the building of the body and the check for turns. A choice that may be
absent is `None` or a value, and FALSE and 0 are values. A loop that appends the
elements it does not skip is `Kept`, a function of the places kept. Where the client sent no
configuration, each git command of the snapshot is a step, and the project
(files with the two columns of `git status --porcelain`, and a log of commits)
goes on changing between them. `Trimmed` is what `strings.TrimSpace` on git's
whole output does to its first line: a leading space, which is the index column
of a change in the worktree, is lost, so that `" M f"` is read as `"M "`. Because
git lists untracked files last, only the first tracked file is affected, and
`SummaryTrue` shows that the count is right nevertheless, in every state of the
file but one kind: a file new in the worktree alone (`git add -N`), which is
counted when it is listed first and overlooked otherwise.

## 3. Runs

| Run | Question |
|---|---|
| `StreamServed` | do slots, ids, names and arguments of a streaming client agree with upstream, with two calls interleaved, repeated, restarted and orphaned? is a stream opened and ended exactly once, and truthfully? is every chunk one the protocol admits? |
| `FinalBodies` | are the collected tool calls upstream's, the JSON body complete, and its verdict upstream's? |
| `RequestServed` | are bodies closed, refusals free of effects, statuses those of the last attempt, all attempts made, retries spaced, the contract of `Upstream` kept, every request returned? |
| `VersionShared` | are versions fresh enough and never forgotten with concurrent callers? does every `Get` return? |
| `ModelsShared` | are lists fresh enough and usable with concurrent clients? |
| `Conversion` | is a conversation sent as what it is: its turns, its calls, its results, its content? |
| `RequestBuilt` | do what the client says and what it chooses reach CommandCode, and is the snapshot true to the project? |

Five runs check a sentence of the repository that the code contradicts; TLC's
counterexample shows how:

| Run | Sentence | What happens |
|---|---|---|
| `StreamSuppressed` | assembler.go:230, a suppressed tool-call was "already streamed" | a call announced first and given its arguments only by `tool-call` reaches a streaming client without them |
| `FinalCut` | assembler.go:350, "If upstream signaled a finish reason, that wins." | a reason on a `finish-step` without usage is dropped when no `finish` follows |
| `BackoffDoubled` | adapter.go:226-227, the delays are "1s, 2s, 4s", "±20%" | the attempts that wait are numbered 1, 2 and 3, so the delays are 2, 4 and 8 s, and the jitter only adds |
| `CaptureLeak` | handler.go:32, closing closes "both the source and the tee" | the tee is never closed: `defer respBody.Close()` was evaluated before it was made |
| `ReasoningLost` | README.md:22, "thinking/reasoning content round-trip cleanly" | `reasoning_content`, which the proxy's own answers carry, is never read from a message sent back |

More disagreements were met and are recorded here without a run:

- ROADMAP.md:38 says that after an upstream error the client "gets a clean
  `[DONE]`"; a stream whose last event is an error just ends (`OnError`, and
  `OnEnd` writes nothing).
- README.md:330 says the proxy's own directory is "intentionally not used";
  without a request field or a flag, `BuildCCRequestWithWorkingDir` uses it
  (`WorkingDir`), as README.md:63 says of the flag's default.
- README.md:29 lists "system hoisting" and README.md:280 says the proxy "extracts
  system messages"; they are dropped. README.md:195 says `instructions` is
  converted to a system message: it is, and that is dropped too (`Shim`, `Turns`).
- README.md:29 and MAINTAINING.md:382 list `temperature` as forwarded;
  `CCChatParams` has no such field.
- `gitMainBranch` looks for `origin/main` as a substring, so that a branch
  `origin/maintenance` hides `origin/master`; the comment speaks of `origin/main`.
- A failing `git status` is reported as "Working tree clean".
- Tools in the Responses API's flat form have no `function` object and are
  dropped (`ConvertTools`); items such as `function_call_output` have none of the
  fields `responseItemsToMessages` reads and become empty turns of the user, and
  so does a list without objects (`PromptKept`, third conjunct and second).

README.md:146 calls the model list hand-curated, but `HandleModels` prefers upstream's list
(`ModelsCache`, `Reply`). assembler.go:109 says an id-less `tool-delta` extends
the most recently *started* tool; it extends the one most recently *registered*,
which differs after a restart (hence the exception in `ToolsFaithful`). And
assembler.go:383-386 promises stable indexes to `toolCalls[idx]`, but
`finalSink.toolStart` appends a second slot on a restart (hence the exception in
`SlotsFaithful`).

### Bounds

- *Two tool ids*: the registry and the sinks treat ids alike, and every wrong
  association is one between two ids. *Two kinds of fragments, two per call*:
  enough to tell order, loss, repetition and replacement apart; one per call in
  `FinalBodies`, which admits every departure at once, since the order of several
  is `StreamServed`'s question and the theorems about both modes have no such bounds.
- *`StreamServed`* is constrained to streams of two kinds (`MCStreamAssembler`):
  those in which two calls interleave, under restarts, orphans, repeated whole-call
  events and further steps, with nothing spoken and no finish reason; and those with
  one call of one fragment at most, under every other departure, with everything that
  may be spoken and every finish reason. How calls interleave and how a stream ends do
  not depend on each other in the code, and the theorems have no such division.
- *`MaxStrays`* one: an orphan or a restart, before a proper start, after one or
  between those of two calls. *`MaxSteps = 2`*: one step more
  than the contract has. *`MaxSpeech = 1`*: deltas are independent, and one
  is enough to come before or after the role, a call and `[DONE]`.
- `RawReasons` of `StreamServed` has a reason of every class of
  `normalizeFinishReason`, an unknown one and none; `FinalBodies` has one that is
  renamed and none, which is what `finalize` tells apart.
- *`RequestServed`* uses the code's `maxRetries = 3` and base delay, a cap low
  enough for the last two delays to reach it, one status of each class the code
  tells apart (200, 3xx, 4xx, 429, 5xx) and Retry-After absent or longer than the
  first backoff. `BackoffDoubled` uses the code's cap.
- *Caches*: two callers, since every hazard is one store against another;
  `TTL = 2`, `FetchTimeout = 1`, `MaxTime = 4`: time for an entry to be stored
  late, served, expire, and be stored again. Versions are bounded by
  `MaxVersion = 2`.

- *`Conversion`*: three messages and three entries or parts among them, drawn from
  messages of every role, calls complete, without an id, without a name and under
  a second name, parts of every type, and every kind of arguments: a call, a
  result after it and something in between. The theorems have no such bounds.
- *`RequestBuilt`*: two messages or items, of every role and spelling, and every
  combination of limits, of choices and of flags, one of the three varied at a
  time, as no code reads two of them together. `MCInit` varies the project only
  for requests whose directory is read, and the flags only where a choice is left
  to them. The project has two files, since trimming concerns the first line and
  counting the others, in every state git-status(1) lists; two changes happen
  meanwhile, at any point of the reading (what happened before is in the initial
  states, which are all). `RecentCount = 1` stands for 3: `ChangesSeen` excepts
  more commits than are read, and one is enough for a commit between two commands.

`CHECK_DEADLOCK FALSE` is set where the system ends: a response is finished, a
request returns. The caches never stop: each caller that returned may call again.

### Fairness

Only `RequestServed` and `VersionShared` assume any. A goroutine that can run does,
and files on the local disk are written (`OwnStep`); `client.Do` and the reading of a
body are bounded by the HTTP client's timeout (300 s upstream, 10 s for the
registry), and so are weakly fair as a whole: *some* outcome comes, and it may be
failure. Nothing is assumed of the gateway or the registry.

Three waits of a handler have no bound in the code, and are fair only while nothing
holds them:

- `io.ReadAll(r.Body)`: `main.go` starts the server with `http.ListenAndServe`, which
  has no read timeout, so the reading ends only if the client has not stalled
  (`ReadBody`, `ReadFails`);
- a git command: `gitOutput` has no timeout and no context, so `Build` ends only if
  none hangs, whether or not the client has left;
- `Run`: there is no write timeout either, so it is fair only while the client is not
  stalled.

`Held` names these three, and `Answered` says that a handler that is not held for good
in one of them returns. A client that leaves is no longer stalled: its connection is
closed, so reads and writes fail.

Timers (`TimerFires`) are fair only while the client is there. Once it has left, a
handler has to get out of a wait by its context, in both `select`s: dropping a
cancellation branch breaks `Answered`, however surely the timer would have fired.

## 4. Abstract specification

`UpstreamContract` says what the comment on `Upstream` promises: a call returns a
body or an error, only a returned body is held, until the caller closes it, and
every call returns. `RequestLifecycle!ContractKept` is that contract under the
mapping `called <- gen`, `result <- outcome.kind`, `holding <- a body is open
after the return`; TLC checks it with its liveness, and theorem `ContractSafety`
proves its safety part.

`ChunkProtocol` says what a client that reads chunks may be told, chunk by chunk: the
role first and once; calls opened at 0, 1, 2, ... for good, no id at two of them;
arguments only added to; an id, once told, never told otherwise; the end once, and
nothing after it. It knows no registry, no sink and no event of upstream's, but for
two lapses that are passed on (an orphan may come before the role and open a call
without an id; a further step goes on after the end). `StreamAssembler!ChunksLegal` is
that protocol under the mapping `opened <- registry.nextIdx`, `calls <- tools`,
`ended <- done`: the registry's counter, which no client sees, is the number of calls
each client has been told of. TLC checks it and theorem `LegalChunks` proves it.

## 5. Proofs

| Module | Shows |
|---|---|
| `ResponseAssembler_proofs` | `Register` keeps slots dense and distinct, keeps every slot ever given, and gives a new id the next one; typing of the gateway's lines and of the shared steps |
| `StreamAssembler_proofs` | `TypeOK`, `ToolsFaithful`, `SlotsKeepTheirId`, `RoleAnnouncedOnce`, `FinishedOnce`, `EndsFaithfully`, `SilentAfterDone`, `ChunksLegal` |
| `RequestLifecycle_proofs` | `TypeOK`, `BodiesReleased`, `RefusedEarly`, `StatusTold`, `AllAttemptsMade`, `BackoffKept`, the safety part of `ContractKept` |
| `FinalAssembler_proofs` | `TypeOK`, `SlotsFaithful`, `BodyComplete`, `BodyVerdict`, `FinishKept` |
| `VersionCache_proofs` | `TypeOK`, `BoundedStaleness`, `NeverForgets` |
| `ModelsCache_proofs` | `TypeOK`, `BoundedStaleness`, `AnswerUsable` |
| `Conversion_proofs` | `TypeOK`, `TurnsInOrder`, `ResultsNamed`, `CallsUnique`, `CallsKept`, `ContentKept` |
| `RequestBuilding_proofs` | `TypeOK`, `PromptKept`, `ClientDecides`, `SummaryTrue`, `ChangesSeen`; lemmas about `Kept` |

They assume what the modules assume of their constants, all of it evaluated by
TLC in the runs: an id or a name is not the blank one, no tool is called "unknown",
`""` is a possible reason, bounds and delays are natural numbers, a changed file has
a pair of columns that git-status(1) lists (`GitCodes`), the base delay is at least
five units (or the jitter's range would be empty, on which `rand.Int63n` panics),
statuses are between 200 and 599, there is some text (which instructions stand for).

None of the invariants is inductive alone. The strengthenings are the `IInv` of
each module:

- *StreamAssembler*. `FinishInv` ties `finishSeen` to the number of `[DONE]`s and,
  while there was one step only, says that a finish not yet passed on had no usage
  (so nothing is lost by skipping it) and that one passed on agrees with upstream's
  verdict. `ToolsInv` says that the registry is dense, that the client's slots are
  the registry's, and that the last slot registered is that of the call announced
  last, which is why a fragment without an id lands correctly. `RoleInv` says that
  before the role is announced no id is registered. `DenseInv` says that the client has
  a slot for every index given and no other, since `handle` never registers without
  emitting; without it `LegalChunks` could not tell opening a call from continuing one.
- *RequestLifecycle*. `OpenInv` says at which points of `Generate` the one body may
  be open, `OutcomeInv` that a result is made of the last answer and that whatever
  was retried was retryable, `WaitInv` what has been waited at each point between
  two attempts, `PhaseInv` where `Generate` is for each phase of the handler. `CheckInv`
  says which checks a request is past at each step of each handler (`Passed`), and
  that the checks made before the hand-over stay made after it; without it
  `RefusedEarly` would not know at "capturing" what was seen at "key".
- *VersionCache*. `FetchInv` bounds the age of a fetch in progress and of its reply,
  `EntryInv` the gap between the reading of an entry and its storing. Without the
  second, a hit's age could not be bounded by the age of its storing.
- *FinalAssembler*. The slots mirror the registry and upstream's statements while no
  call was restarted, orphans included; `SpeechInv` ties the collected text to what
  was said, `EndInv` says what a finish line not yet passed on had, and what is
  recorded of one that was, and `BodyInv` that the body is made of the sink's fields
  and written only once `Run` has come to the end.
- *ModelsCache*. `FetchInv` and `EntryInv` are the like of `VersionCache`'s, for lists.
- *Conversion*. `ScanInv` says what has been read of a message at each point of the
  scan; `NamesInv` that every call sent, or among the parts to be sent, has its name
  remembered, that every name remembered was given by the client to that id, and that
  a result among the parts called "unknown" has no call before it. `UniqueInv` says
  that only parts made of the content can repeat a call (with `OrderInv`, which says
  how many those are), and `KeptInv` that the
  calls read so far are among the parts. Without `NamesInv`, `ResultsNamed` says
  nothing about the map from which the next result will be named. `OrderInv` says
  that the parts made so far convey, one for one and in order, those read so far that
  can be sent, and after them only merged calls; `Place` is the number of a part among
  the sendable ones, so that order is arithmetic on cardinalities and no sequence has
  to be filtered.
- *RequestBuilding*. `ChoicesInv` says that the chat request has the client's choices
  and the body is made of them, `PromptInv` that it has the client's messages, or the
  shim's, and the body their turns. `PromptKept` compares the body with the client's
  own records across up to three loops that each drop elements (objects of a list, system
  messages, turns). Each is a `Kept`, an element's number among those kept is its
  `Rank`, and `RanksAgree` says that places which correspond in order have the same
  rank; so it is enough to show where the turn of an item stands (`PlacesBehind`).
  `SeenInv` says that what was changed when the reading
  began is still changed until status is read, and after that was listed, unless it
  was committed; `CountInv` that the summary read is that of the worktree it was read
  of. That this summary is true is a fact about one line (`CategoryRight`, and
  `ShiftHarmless` for the line that lost its leading space), carried to the counts of
  any number of files by the cardinality of subsets (`CountsTrue`).

Left to TLC: all liveness (`Answered`, `GetReturns`, the fairness
part of `ContractKept`), which is out of the prover's reach. Every invariant and every
action property that a passing run checks is also a theorem.

## 6. Not modelled

- Contents: the text of messages and of tool schemas, model names, headers, memory,
  skills and taste, session and thread ids, amounts of usage with their clamp
  (`usageFromEvent`). Each is copied or looked up, and nothing else depends on it.
- Of the snapshot: the branches, `readDirNames` and the date. Each is a field of its
  own, made of one call.
- `FetchModels`' label of owners (`extractOwner`), the logging middleware, the router,
  `/health` and `main.go`'s wiring. Because the middleware's `statusWriter` always has
  a `Flush`, the handler's "Streaming not supported" branch cannot be reached.
- A local disk that does not answer when a capture is written.
- Failing writes to the client: they have no effect on any state of the proxy, and
  the context is cancelled when the connection is lost.
- A second POST after a lost answer may generate twice. The gateway has no key by
  which to tell, and nothing in the code promises otherwise.

## 7. Plan

Done, in this order: registry and streaming assembler with proofs; non-streaming
assembler; upstream call, its contract and the request's lifecycle with proofs;
version cache with proofs; model list; proofs about the non-streaming assembler and
the model list; conversion with proofs; request building and the snapshot with proofs; the chunk
protocol, refined by the streaming assembler.

What could still be added:

1. An abstract *completion* that both assemblers implement, so that a stream read to
   its end and a JSON body are shown to tell the same.
2. `RequestLifecycle` with the version cache in place of the abstract wait in
   `Post`, for several requests at once.
