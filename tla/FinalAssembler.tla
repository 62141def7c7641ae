---------------------------- MODULE FinalAssembler -----------------------------
(***************************************************************************)
(* The non-streaming response: ResponseAssembler.handle driving finalSink, *)
(* which collects the stream and writes one chat-completion object.        *)
(***************************************************************************)
EXTENDS ResponseAssembler

VARIABLES
    content,        \* length of contentBuilder, in text deltas
    reasoning,      \* length of reasoningContentBuilder, in deltas
    toolCalls,      \* finalSink.toolCalls; Go's index i is position i + 1
    hasToolCalls,   \* finalSink.hasToolCalls
    finishReason,   \* finalSink.finishReason, "" until finish
    usage,          \* finalSink.usage is set
    body            \* the JSON object written, or NoBody

sinkVars == <<content, reasoning, toolCalls, hasToolCalls, finishReason, usage>>
vars == <<gatewayVars, assemblerVars, sinkVars, body>>

ToolCallRecords == [id: Names, name: Names, args: Seq(Fragments)]

NoBody == [written |-> FALSE]

Bodies == [written: {TRUE}, content: Nat, reasoning: Nat,
           toolCalls: Seq(ToolCallRecords), finishReason: OpenAIReasons,
           usage: BOOLEAN]

TypeOK ==
    /\ GatewayTypeOK
    /\ AssemblerTypeOK
    /\ content \in Nat
    /\ reasoning \in Nat
    /\ toolCalls \in Seq(ToolCallRecords)
    /\ hasToolCalls \in BOOLEAN
    /\ finishReason \in OpenAIReasons \cup {""}
    /\ usage \in BOOLEAN
    /\ body \in Bodies \cup {NoBody}

Init ==
    /\ GatewayInit
    /\ AssemblerInit
    /\ content = 0
    /\ reasoning = 0
    /\ toolCalls = <<>>
    /\ hasToolCalls = FALSE
    /\ finishReason = ""
    /\ usage = FALSE
    /\ body = NoBody

-------------------------------------------------------------------------------
(***************************************************************************)
(* finalSink.  idx is the registry's zero-based slot.                      *)
(***************************************************************************)

HasSlot(idx) == idx >= 0 /\ idx < Len(toolCalls)

Extend(slot, args) ==
    [id |-> slot.id, name |-> slot.name, args |-> slot.args \o args]

\* textDelta and reasoningDelta.
SpeechDelta(ch) ==
    /\ content' = content + (IF ch = "text" THEN 1 ELSE 0)
    /\ reasoning' = reasoning + (IF ch = "reasoning" THEN 1 ELSE 0)
    /\ UNCHANGED <<toolCalls, hasToolCalls, finishReason, usage>>

\* toolStart appends, whatever idx says; a mismatch is only logged.
ToolStart(idx, id, name, args) ==
    /\ hasToolCalls' = TRUE
    /\ toolCalls' = Append(toolCalls, [id |-> id, name |-> name, args |-> args])
    /\ UNCHANGED <<content, reasoning, finishReason, usage>>

\* toolArgs ignores a slot that does not exist.
ToolArgs(idx, args) ==
    /\ toolCalls' = IF HasSlot(idx)
                    THEN [toolCalls EXCEPT ![idx + 1] = Extend(@, args)]
                    ELSE toolCalls
    /\ UNCHANGED <<content, reasoning, hasToolCalls, finishReason, usage>>

\* Seeded defect: canonical arguments are appended to the fragments.
ToolCallEnrichAppends(idx, name, args) ==
    /\ toolCalls' = IF HasSlot(idx)
                    THEN [toolCalls EXCEPT ![idx + 1] = Extend(@, args)]
                    ELSE toolCalls
    /\ UNCHANGED <<content, reasoning, hasToolCalls, finishReason, usage>>

\* toolCallEnrich: the canonical name and arguments replace, where given.
ToolCallEnrich(idx, name, args) ==
    /\ toolCalls' =
         IF HasSlot(idx)
         THEN [toolCalls EXCEPT
                 ![idx + 1] = [id   |-> @.id,
                               name |-> IF name = Blank THEN @.name ELSE name,
                               args |-> IF args = <<>> THEN @.args ELSE args]]
         ELSE toolCalls
    /\ UNCHANGED <<content, reasoning, hasToolCalls, finishReason, usage>>

Finish(why, hasUsage) ==
    /\ finishReason' = why
    /\ usage' = hasUsage
    /\ UNCHANGED <<content, reasoning, toolCalls, hasToolCalls>>

\* Seeded defect: inference overrides upstream's reason.
ReportedReasonInferred ==
    IF hasToolCalls THEN "tool_calls" ELSE "stop"

\* finalize's finish_reason: upstream's, or else inferred.
ReportedReason ==
    IF finishReason # "" THEN finishReason
    ELSE IF hasToolCalls THEN "tool_calls" ELSE "stop"

\* Seeded defect: text is kept beside tool calls, but reasoning is lost.
FinalizeDropsReasoning ==
    body' = [written |-> TRUE, content |-> content, reasoning |-> 0,
             toolCalls |-> toolCalls, finishReason |-> ReportedReason,
             usage |-> usage]

\* finalize: content is null when there are tool calls.
Finalize ==
    body' = [written |-> TRUE,
             content |-> IF hasToolCalls THEN 0 ELSE content,
             reasoning |-> reasoning,
             toolCalls |-> IF hasToolCalls THEN toolCalls ELSE <<>>,
             finishReason |-> ReportedReason,
             usage |-> usage]

-------------------------------------------------------------------------------
(***************************************************************************)
(* handle, one action per kind of event.                                   *)
(***************************************************************************)

OnSpeech(ch) ==
    /\ Handling
    /\ SendSpeech(ch)
    /\ SpeechDelta(ch)
    /\ UNCHANGED <<registry, body>> /\ KeepFilter

\* tool-use and tool-input-start.
OnToolStart(id, name) ==
    /\ Handling
    /\ SendToolStart(id, name)
    /\ registry' = Register(registry, id)
    /\ ToolStart(Lookup(registry', id), id, name, <<>>)
    /\ UNCHANGED body /\ KeepFilter

\* tool-delta extends the last registered slot, if there is one.
OnToolDelta(fragment) ==
    /\ Handling
    /\ \/ SendFragment(latest, fragment)
       \/ SendStray(Blank)
    /\ IF LastIndex(registry) = NoIndex THEN UNCHANGED sinkVars
       ELSE ToolArgs(LastIndex(registry), <<fragment>>)
    /\ UNCHANGED <<registry, body>> /\ KeepFilter

\* tool-input-delta for an unknown id is dropped.
OnToolInputDelta(id, fragment) ==
    /\ Handling
    /\ \/ SendFragment(id, fragment)
       \/ SendStray(id)
    /\ IF Known(registry, id) THEN ToolArgs(Lookup(registry, id), <<fragment>>)
       ELSE UNCHANGED sinkVars
    /\ UNCHANGED <<registry, body>> /\ KeepFilter

OnToolCall(id, name, input) ==
    /\ Handling
    /\ SendToolCall(id, name, input)
    /\ registry' = Register(registry, id)
    /\ IF Known(registry, id)
       THEN ToolCallEnrich(Lookup(registry, id), name, input)
       ELSE ToolStart(Lookup(registry', id), id, name, input)
    /\ UNCHANGED body /\ KeepFilter

\* A finish line is dropped by the translator or reaches the sink.
OnFinish(kind, why, hasUsage) ==
    /\ Handling
    /\ SendFinish(kind, why, hasUsage)
    /\ finishSeen' = (finishSeen \/ FinishPasses(kind, hasUsage, finishSeen))
    /\ IF FinishPasses(kind, hasUsage, finishSeen)
       THEN Finish(Normalize(why), hasUsage)
       ELSE UNCHANGED sinkVars
    /\ UNCHANGED <<registry, body>> /\ KeepRunning

\* A start-step line is skipped; an error event is only logged.
OnNextStep ==
    /\ Handling /\ SendNextStep
    /\ UNCHANGED <<assemblerVars, sinkVars, body>>

OnError ==
    /\ Handling /\ SendError
    /\ UNCHANGED <<assemblerVars, sinkVars, body>>

\* Only the end of the body is followed by finalize; it checks no context.
OnEnd == ReachEnd /\ Finalize /\ UNCHANGED sinkVars

OnCancel == CancelRequest /\ UNCHANGED <<sinkVars, body>>
OnAbort == AbortOnEvent /\ UNCHANGED <<sinkVars, body>>
OnReadError == FailRead /\ UNCHANGED <<sinkVars, body>>

Next ==
    \/ \E ch \in Channels : OnSpeech(ch)
    \/ \E id \in ToolIds, name \in Names :
          name \in {id, Blank} /\ OnToolStart(id, name)
    \/ \E f \in Fragments : OnToolDelta(f)
    \/ \E id \in ToolIds, f \in Fragments : OnToolInputDelta(id, f)
    \/ \E id \in ToolIds, name \in Names, input \in Inputs :
          name \in {id, Blank} /\ OnToolCall(id, name, input)
    \/ \E kind \in {"finish-step", "finish"}, why \in RawReasons, u \in BOOLEAN :
          OnFinish(kind, why, u)
    \/ OnNextStep
    \/ OnError
    \/ OnEnd
    \/ OnCancel
    \/ OnAbort
    \/ OnReadError

Spec == Init /\ [][Next]_vars

-------------------------------------------------------------------------------
(***************************************************************************)
(* Properties.                                                             *)
(***************************************************************************)

\* The slot of every call upstream has made holds its id and the name and
\* arguments upstream has stated, and there is no other slot, even when
\* orphaned fragments, nameless starts, unstreamed arguments or repeated
\* tool-calls come between (finalSink.toolCalls and the registry agree).
SlotsFaithful ==
    Survived({"restart"}) =>
        /\ Len(toolCalls) = registry.nextIdx
        /\ \A id \in ToolIds : Known(registry, id) <=> call[id] # "none"
        /\ \A id \in ToolIds : call[id] # "none" =>
              toolCalls[Lookup(registry, id) + 1] =
                 [id |-> id, name |-> meant[id].name, args |-> meant[id].args]

\* A body is written on the clean end of the stream only, and carries every
\* tool call and all of the reasoning, and all of the text unless there are
\* tool calls to show instead.
BodyComplete ==
    /\ body.written <=> run = "finalized"
    /\ body.written =>
        /\ body.toolCalls = toolCalls
        /\ body.reasoning = spoken["reasoning"]
        /\ body.content = IF toolCalls = <<>> THEN spoken["text"] ELSE 0

\* The body of a properly ended stream reports upstream's reason, and usage
\* if any finish line had it (the translator's filter and finalize agree).
BodyVerdict ==
    body.written /\ Survived({"multistep", "cut", "error"}) =>
        /\ body.finishReason = Normalize(verdict)
        /\ body.usage = usageSent

\* finalSink.finish runs at most once: a reason once recorded, and the usage
\* that came with it, are never overwritten.
FinishKept ==
    [][finishReason # "" => UNCHANGED <<finishReason, usage>>]_vars

-------------------------------------------------------------------------------
(***************************************************************************)
(* The inductive invariant behind them, by concern.                        *)
(***************************************************************************)

\* While no call was announced twice, the collected slots are upstream's calls,
\* and the last slot is that of the call announced last.
Mirror ==
    /\ Len(toolCalls) = registry.nextIdx
    /\ \A id \in ToolIds : Known(registry, id) <=> call[id] # "none"
    /\ \A id \in ToolIds : call[id] # "none" =>
          toolCalls[Lookup(registry, id) + 1] =
             [id |-> id, name |-> meant[id].name, args |-> meant[id].args]
    /\ latest # Blank =>
          call[latest] # "none" /\ LastIndex(registry) = Lookup(registry, latest)
    /\ latest = Blank => registry.nextIdx = 0

SlotsInv ==
    /\ RegistryOK(registry)
    /\ \A id \in ToolIds :
          call[id] = "none" => meant[id] = [name |-> Blank, args |-> <<>>]
    /\ Survived({"restart"}) => Mirror

\* What was said has been collected, and the flag tells of tool calls.
SpeechInv ==
    /\ content = spoken["text"] /\ reasoning = spoken["reasoning"]
    /\ hasToolCalls <=> toolCalls # <<>>

\* The translator's flag tells whether the sink was finished; without a second
\* step it holds what upstream said of the ending.
EndInv ==
    /\ finishSeen <=> finishReason # ""
    /\ stage = "finished" => finishSeen
    /\ ~finishSeen => ~usage
    /\ errored => "error" \in deviated
    /\ run = "finalized" => stage = "finished" \/ ~Survived({"cut", "error"})
    /\ Survived({"multistep"}) =>
          /\ stage = "step" => ~finishSeen
          /\ ~finishSeen => ~usageSent
          /\ finishSeen => /\ finishReason = Normalize(verdict)
                           /\ usage = usageSent
                           /\ usage \/ stage = "finished"

\* What finalize would write.
Outcome == [written |-> TRUE,
            content |-> IF hasToolCalls THEN 0 ELSE content,
            reasoning |-> reasoning,
            toolCalls |-> IF hasToolCalls THEN toolCalls ELSE <<>>,
            finishReason |-> ReportedReason,
            usage |-> usage]

\* The body is written at the end, and nothing moves after it.
BodyInv == body = IF run = "finalized" THEN Outcome ELSE NoBody

IInv == TypeOK /\ SlotsInv /\ SpeechInv /\ EndInv /\ BodyInv

-------------------------------------------------------------------------------
(***************************************************************************)
(* Claims of comments, as stated, with no deviation excepted.              *)
(***************************************************************************)

\* assembler.go:350: "If upstream signaled a finish reason, that wins."
SignaledReasonWins ==
    body.written /\ verdict # "" => body.finishReason = Normalize(verdict)
===============================================================================
