---------------------------- MODULE StreamAssembler ----------------------------
(***************************************************************************)
(* The streaming response: ResponseAssembler.handle driving streamSink.    *)
(* Every chunk written is applied at once to the client's view of it, the  *)
(* way the OpenAI streaming protocol is read (and assembler_test.go's      *)
(* toolCallAt reads it): ids and names overwrite, arguments append, each   *)
(* at the slot the chunk names.                                            *)
(***************************************************************************)
EXTENDS ResponseAssembler

VARIABLES
    sentRole,   \* streamSink.sentRole
    tools,      \* client: slot -> [id, name, args]
    heard,      \* client: text and reasoning deltas received
    roles,      \* client: chunks that announced the assistant role
    reason,     \* client: finish_reason, "" before it
    usage,      \* client: whether the finish chunk carried usage
    done        \* client: [DONE] markers received

clientVars == <<tools, heard, roles, reason, usage, done>>
sinkVars == <<sentRole, tools, heard, roles, reason, usage, done>>
vars == <<gatewayVars, assemblerVars, sinkVars>>

ToolViews == [id: Names, name: Names, args: Seq(Fragments)]
EmptyView == [id |-> Blank, name |-> Blank, args |-> <<>>]

TypeOK ==
    /\ GatewayTypeOK
    /\ AssemblerTypeOK
    /\ sentRole \in BOOLEAN
    /\ DOMAIN tools \subseteq Nat /\ tools \in [DOMAIN tools -> ToolViews]
    /\ heard \in [Channels -> Nat]
    /\ roles \in Nat
    /\ reason \in OpenAIReasons \cup {""}
    /\ usage \in BOOLEAN
    /\ done \in Nat

Init ==
    /\ GatewayInit
    /\ AssemblerInit
    /\ sentRole = FALSE
    /\ tools = [idx \in {} |-> EmptyView]
    /\ heard = [ch \in Channels |-> 0]
    /\ roles = 0
    /\ reason = ""
    /\ usage = FALSE
    /\ done = 0

-------------------------------------------------------------------------------
(***************************************************************************)
(* streamSink.                                                             *)
(***************************************************************************)

\* Seeded defect: the role goes out with every chunk.
EmitRoleAlways == sentRole' = TRUE /\ roles' = roles + 1

\* emitWithRole: the first chunk sent this way announces the role.
EmitWithRole ==
    /\ sentRole' = TRUE
    /\ roles' = IF sentRole THEN roles ELSE roles + 1

\* The client's table after a tool_calls delta for one slot.
View(idx) == IF idx \in DOMAIN tools THEN tools[idx] ELSE EmptyView

ApplyToolDelta(idx, id, name, args) ==
    tools' = [i \in DOMAIN tools \cup {idx} |->
                IF i = idx
                THEN [id   |-> IF id = Blank THEN View(idx).id ELSE id,
                      name |-> IF name = Blank THEN View(idx).name ELSE name,
                      args |-> View(idx).args \o args]
                ELSE tools[i]]

\* textDelta and reasoningDelta.
SpeechDelta(ch) ==
    /\ EmitWithRole
    /\ heard' = [heard EXCEPT ![ch] = @ + 1]
    /\ UNCHANGED <<tools, reason, usage, done>>

\* Seeded defect: a start is written without emitWithRole, as arguments are.
ToolStartWithoutRole(idx, id, name, args) ==
    /\ ApplyToolDelta(idx, id, name, args)
    /\ UNCHANGED <<sentRole, heard, roles, reason, usage, done>>

ToolStart(idx, id, name, args) ==
    /\ EmitWithRole
    /\ ApplyToolDelta(idx, id, name, args)
    /\ UNCHANGED <<heard, reason, usage, done>>

\* toolArgs writes its chunk without emitWithRole.
ToolArgs(idx, args) ==
    /\ ApplyToolDelta(idx, Blank, Blank, args)
    /\ UNCHANGED <<sentRole, heard, roles, reason, usage, done>>

\* toolCallEnrich suppresses the event.
ToolCallEnrich(idx, name, args) == UNCHANGED sinkVars

\* Seeded defect: the stream is not terminated.
FinishWithoutDone(why, hasUsage) ==
    /\ reason' = why
    /\ usage' = (usage \/ hasUsage)
    /\ UNCHANGED <<sentRole, tools, heard, roles, done>>

\* finish: the finish chunk, then [DONE].
Finish(why, hasUsage) ==
    /\ reason' = why
    /\ usage' = (usage \/ hasUsage)
    /\ done' = done + 1
    /\ UNCHANGED <<sentRole, tools, heard, roles>>

-------------------------------------------------------------------------------
(***************************************************************************)
(* handle, one action per kind of event.                                   *)
(***************************************************************************)

OnSpeech(ch) ==
    /\ Handling
    /\ SendSpeech(ch)
    /\ SpeechDelta(ch)
    /\ UNCHANGED registry /\ KeepFilter

\* tool-use and tool-input-start.
OnToolStart(id, name) ==
    /\ Handling
    /\ SendToolStart(id, name)
    /\ registry' = Register(registry, id)
    /\ ToolStart(Lookup(registry', id), id, name, <<>>)
    /\ KeepFilter

\* Seeded defect: an id-less delta always extends slot 0.
OnToolDeltaFirst(fragment) ==
    /\ Handling
    /\ \/ SendFragment(latest, fragment)
       \/ SendStray(Blank)
    /\ IF LastIndex(registry) = NoIndex THEN UNCHANGED sinkVars
       ELSE ToolArgs(0, <<fragment>>)
    /\ UNCHANGED registry /\ KeepFilter

\* Seeded defect: no check that there is a slot to extend.
OnToolDeltaUnchecked(fragment) ==
    /\ Handling
    /\ \/ SendFragment(latest, fragment)
       \/ SendStray(Blank)
    /\ ToolArgs(LastIndex(registry), <<fragment>>)
    /\ UNCHANGED registry /\ KeepFilter

\* tool-delta extends the last registered slot, if there is one.
OnToolDelta(fragment) ==
    /\ Handling
    /\ \/ SendFragment(latest, fragment)
       \/ SendStray(Blank)
    /\ IF LastIndex(registry) = NoIndex THEN UNCHANGED sinkVars
       ELSE ToolArgs(LastIndex(registry), <<fragment>>)
    /\ UNCHANGED registry /\ KeepFilter

\* tool-input-delta; the slot of an unknown id is created (promoteOrphans).
OnToolInputDelta(id, fragment) ==
    /\ Handling
    /\ \/ SendFragment(id, fragment)
       \/ SendStray(id)
    /\ registry' = Register(registry, id)
    /\ ToolArgs(Lookup(registry', id), <<fragment>>)
    /\ KeepFilter

OnToolCall(id, name, input) ==
    /\ Handling
    /\ SendToolCall(id, name, input)
    /\ registry' = Register(registry, id)
    /\ IF Known(registry, id)
       THEN ToolCallEnrich(Lookup(registry, id), name, input)
       ELSE ToolStart(Lookup(registry', id), id, name, input)
    /\ KeepFilter

\* A finish line is dropped by the translator or reaches the sink.
OnFinish(kind, why, hasUsage) ==
    /\ Handling
    /\ SendFinish(kind, why, hasUsage)
    /\ finishSeen' = (finishSeen \/ FinishPasses(kind, hasUsage, finishSeen))
    /\ IF FinishPasses(kind, hasUsage, finishSeen)
       THEN Finish(Normalize(why), hasUsage)
       ELSE UNCHANGED sinkVars
    /\ UNCHANGED registry /\ KeepRunning

\* A start-step line is skipped; an error event is only logged.
OnNextStep == Handling /\ SendNextStep /\ UNCHANGED <<assemblerVars, sinkVars>>
OnError == Handling /\ SendError /\ UNCHANGED <<assemblerVars, sinkVars>>

\* streamSink.finalize does nothing.
OnEnd == ReachEnd /\ UNCHANGED sinkVars

OnCancel == CancelRequest /\ UNCHANGED sinkVars
OnAbort == AbortOnEvent /\ UNCHANGED sinkVars
OnReadError == FailRead /\ UNCHANGED sinkVars

Next ==
    \/ \E ch \in Channels : OnSpeech(ch)
    \/ \E id \in ToolIds, name \in Names :
          name \in {id, Blank} /\ OnToolStart(id, name)
    \/ \E f \in Fragments : OnToolDelta(f)
    \/ \E id \in ToolIds, f \in Fragments : OnToolInputDelta(id, f)
    \/ \E id \in ToolIds, name \in Names, input \in Inputs :
          name \in {id, Blank} /\ OnToolCall(id, name, input)
    \/ \E kind \in {"finish-step", "finish"}, why \in RawReasons, u \in BOOLEAN :
          OnFinish(kind, why, u)
    \/ OnNextStep
    \/ OnError
    \/ OnEnd
    \/ OnCancel
    \/ OnAbort
    \/ OnReadError

Spec == Init /\ [][Next]_vars

-------------------------------------------------------------------------------
(***************************************************************************)
(* Properties.                                                             *)
(***************************************************************************)

\* The slots the client holds are exactly the calls upstream has made, each
\* with its own id and with the name and arguments upstream has stated, in
\* order, however starts, fragments and whole calls of different ids
\* interleave (handle, the registry and the client reading agree).
ToolsFaithful ==
    Survived({"restart", "orphan", "sparse"}) =>
        /\ DOMAIN tools = {Lookup(registry, id) : id \in {i \in ToolIds : call[i] # "none"}}
        /\ \A id \in ToolIds : call[id] # "none" =>
              tools[Lookup(registry, id)] =
                 [id |-> id, name |-> meant[id].name, args |-> meant[id].args]

\* Even under every deviation no slot mixes two calls' ids: a slot is the
\* registry's slot for the id it shows (handle registers before it emits).
SlotsKeepTheirId ==
    \A idx \in DOMAIN tools : tools[idx].id # Blank =>
        Known(registry, tools[idx].id) /\ Lookup(registry, tools[idx].id) = idx

\* The role is announced at most once, and before any content unless an
\* orphan was promoted (toolArgs bypasses emitWithRole).
RoleAnnouncedOnce ==
    /\ roles \in {0, 1}
    /\ Survived({"orphan"}) /\ (DOMAIN tools # {} \/ \E ch \in Channels : heard[ch] > 0)
          => roles = 1

\* Whatever finish lines come, with usage on either, both or none, the client
\* gets at most one [DONE], and has it once upstream has sent its finish.
FinishedOnce ==
    /\ done <= 1
    /\ stage = "finished" => done = 1

\* A stream that upstream ended properly ended with upstream's reason, its
\* usage if any line carried it, and every delta (finish-step and finish are
\* merged without losing either's part).
EndsFaithfully ==
    run = "finalized" /\ Survived({"multistep", "cut", "error"}) =>
        /\ reason = Normalize(verdict)
        /\ usage = usageSent
        /\ heard = spoken

\* No step writes anything after [DONE], unless upstream goes on with another
\* step after a finish-step (finish is called on the first line with usage).
SilentAfterDone ==
    [][done > 0 /\ "multistep" \notin deviated' => UNCHANGED clientVars]_vars

-------------------------------------------------------------------------------
(***************************************************************************)
(* What is written, as chunks a client may be told.                        *)
(***************************************************************************)
Chunks == INSTANCE ChunkProtocol WITH
    Pieces <- Fragments,
    opened <- registry.nextIdx,
    calls <- tools,
    ended <- done,
    lapses <- deviated \cap {"orphan", "multistep"}

\* Whatever upstream sends, every chunk that is written is one that the OpenAI
\* protocol admits where it is written: indexes are given densely and for good,
\* and what was told is added to and not told otherwise (handle and streamSink
\* together keep what each relies on the other for).
ChunksLegal == Chunks!Protocol

-------------------------------------------------------------------------------
(***************************************************************************)
(* The inductive invariant behind them, by concern.                        *)
(***************************************************************************)

\* The translator's flag counts the finish chunks; without a second step, what
\* the client was told of the ending is what upstream said of it.
FinishInv ==
    /\ done = IF finishSeen THEN 1 ELSE 0
    /\ stage = "finished" => finishSeen
    /\ ~finishSeen => ~usage
    /\ heard = spoken
    /\ errored => "error" \in deviated
    /\ run = "finalized" =>
          stage = "finished" \/ ~Survived({"cut", "error"})
    /\ Survived({"multistep"}) =>
          /\ stage = "step" => ~finishSeen
          /\ ~finishSeen => ~usageSent
          /\ finishSeen => /\ reason = Normalize(verdict)
                           /\ usage = usageSent
                           /\ usage \/ stage = "finished"

\* sentRole counts the role chunks; before the first there is nothing to see.
RoleInv ==
    /\ roles = IF sentRole THEN 1 ELSE 0
    /\ Survived({"orphan"}) /\ ~sentRole =>
          /\ \A id \in ToolIds : ~Known(registry, id)
          /\ DOMAIN tools = {}
          /\ \A ch \in Channels : heard[ch] = 0

\* The registry, the gateway's calls and the client's slots move together.
ToolsInv ==
    /\ RegistryOK(registry)
    /\ \A id \in ToolIds : call[id] # "none" => Known(registry, id)
    /\ \A id \in ToolIds :
          call[id] = "none" => meant[id] = [name |-> Blank, args |-> <<>>]
    /\ DOMAIN tools \subseteq 0 .. registry.nextIdx - 1
    /\ SlotsKeepTheirId
    /\ Survived({"restart", "orphan", "sparse"}) =>
          /\ \A id \in ToolIds : Known(registry, id) => call[id] # "none"
          /\ \A id \in ToolIds : call[id] # "none" =>
                /\ meant[id].name = id
                /\ Lookup(registry, id) \in DOMAIN tools
                /\ tools[Lookup(registry, id)] =
                      [id |-> id, name |-> meant[id].name, args |-> meant[id].args]
          /\ latest # Blank => call[latest] # "none" /\ LastIndex(registry) = Lookup(registry, latest)
          /\ latest = Blank => registry.nextIdx = 0

\* The client has a slot for every index given.
DenseInv == DOMAIN tools = 0 .. registry.nextIdx - 1

IInv == TypeOK /\ FinishInv /\ RoleInv /\ ToolsInv /\ DenseInv

-------------------------------------------------------------------------------
(***************************************************************************)
(* A claim of a comment, as stated, with no deviation excepted.            *)
(***************************************************************************)

\* assembler.go:230: a suppressed tool-call was "already streamed via
\* tool-input-start + deltas".
SuppressedWasStreamed ==
    \A id \in ToolIds : call[id] = "complete" =>
        tools[Lookup(registry, id)].args = meant[id].args
===============================================================================
