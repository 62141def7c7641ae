------------------------ MODULE StreamAssembler_proofs -------------------------
(***************************************************************************)
(* Theorems of StreamAssembler for any set of tool ids and fragments, any  *)
(* finish reasons, any bounds and any set of admitted deviations.  IInv is *)
(* shown inductive one part at a time; the properties follow from it.      *)
(***************************************************************************)
EXTENDS StreamAssembler, ResponseAssembler_proofs

\* What one tool_calls delta does to the client's table: it touches its own
\* slot only, and the table keeps its type.
LEMMA DeltaSound ==
  ASSUME DOMAIN tools \subseteq Nat, tools \in [DOMAIN tools -> ToolViews],
         NEW idx \in Nat, NEW id \in Names, NEW name \in Names,
         NEW args \in Seq(Fragments),
         ApplyToolDelta(idx, id, name, args)
  PROVE  /\ DOMAIN tools' = DOMAIN tools \cup {idx}
         /\ DOMAIN tools' \subseteq Nat
         /\ tools' \in [DOMAIN tools' -> ToolViews]
         /\ \A i \in DOMAIN tools \ {idx} : tools'[i] = tools[i]
         /\ tools'[idx].id = IF id = Blank THEN View(idx).id ELSE id
         /\ tools'[idx].name = IF name = Blank THEN View(idx).name ELSE name
         /\ tools'[idx].args = View(idx).args \o args
         /\ View(idx) \in ToolViews
<1>1. View(idx) \in ToolViews
  BY DEF View, EmptyView, ToolViews, Names
<1>2. [id   |-> IF id = Blank THEN View(idx).id ELSE id,
       name |-> IF name = Blank THEN View(idx).name ELSE name,
       args |-> View(idx).args \o args] \in ToolViews
  BY <1>1 DEF ToolViews
<1>3. /\ DOMAIN tools' = DOMAIN tools \cup {idx}
      /\ \A i \in DOMAIN tools \ {idx} : tools'[i] = tools[i]
      /\ tools'[idx] = [id   |-> IF id = Blank THEN View(idx).id ELSE id,
                        name |-> IF name = Blank THEN View(idx).name ELSE name,
                        args |-> View(idx).args \o args]
      /\ tools' = [i \in DOMAIN tools' |-> tools'[i]]
  BY DEF ApplyToolDelta
<1>4. tools' \in [DOMAIN tools' -> ToolViews]
  BY <1>2, <1>3
<1> QED
  BY <1>1, <1>3, <1>4

-------------------------------------------------------------------------------
(***************************************************************************)
(* Type correctness.                                                       *)
(***************************************************************************)

\* The initial state is well typed.
LEMMA InitType == Init => TypeOK
<1> SUFFICES ASSUME Init PROVE TypeOK
  OBVIOUS
<1>1. GatewayTypeOK /\ AssemblerTypeOK
  BY SharedInitType DEF Init
<1>2. DOMAIN tools \subseteq Nat /\ tools \in [DOMAIN tools -> ToolViews]
  BY DEF Init
<1> QED
  BY <1>1, <1>2 DEF Init, TypeOK, Channels

\* Every step of Next is a line of the gateway, as far as the gateway goes.
LEMMA StepIsLine == ASSUME [Next]_vars PROVE GatewayLine
<1>1. CASE \E ch \in Channels : OnSpeech(ch)
  BY <1>1 DEF OnSpeech, GatewayLine
<1>2. CASE \E id \in ToolIds, name \in Names : name \in {id, Blank} /\ OnToolStart(id, name)
  BY <1>2 DEF OnToolStart, GatewayLine
<1>3. CASE \E f \in Fragments : OnToolDelta(f)
  <2>1. PICK f \in Fragments : OnToolDelta(f)
    BY <1>3
  <2>2. SendFragment(latest, f) => latest \in Names
    BY DEF SendFragment, Names
  <2>3. Blank \in Names
    BY DEF Names
  <2> QED
    BY <2>1, <2>2, <2>3 DEF OnToolDelta, GatewayLine
<1>4. CASE \E id \in ToolIds, f \in Fragments : OnToolInputDelta(id, f)
  BY <1>4 DEF OnToolInputDelta, GatewayLine, Names
<1>5. CASE \E id \in ToolIds, name \in Names, input \in Inputs :
              name \in {id, Blank} /\ OnToolCall(id, name, input)
  BY <1>5 DEF OnToolCall, GatewayLine
<1>6. CASE \E kind \in {"finish-step", "finish"}, why \in RawReasons, u \in BOOLEAN :
              OnFinish(kind, why, u)
  BY <1>6 DEF OnFinish, GatewayLine
<1>7. CASE OnNextStep \/ OnError \/ OnEnd
  BY <1>7 DEF OnNextStep, OnError, OnEnd, ReachEnd, GatewayLine
<1>8. CASE OnCancel \/ OnAbort \/ OnReadError \/ UNCHANGED vars
  BY <1>8 DEF OnCancel, CancelRequest, OnAbort, AbortOnEvent, OnReadError,
              FailRead, vars, GatewayLine
<1> QED
  BY <1>1, <1>2, <1>3, <1>4, <1>5, <1>6, <1>7, <1>8 DEF Next

\* Every step keeps the state well typed.
LEMMA NextType == TypeOK /\ [Next]_vars => TypeOK'
<1> SUFFICES ASSUME TypeOK, [Next]_vars PROVE TypeOK'
  OBVIOUS
<1>g. GatewayTypeOK'
  BY StepIsLine, GatewayType DEF TypeOK
<1>a. /\ registry \in Registries /\ finishSeen \in BOOLEAN
      /\ run \in {"scanning", "finalized", "failed", "cancelled"}
      /\ ctxDone \in BOOLEAN
  BY DEF TypeOK, AssemblerTypeOK
<1>t. DOMAIN tools \subseteq Nat /\ tools \in [DOMAIN tools -> ToolViews]
  BY DEF TypeOK
<1>s. /\ sentRole \in BOOLEAN /\ heard \in [Channels -> Nat] /\ roles \in Nat
      /\ reason \in OpenAIReasons \cup {""} /\ usage \in BOOLEAN /\ done \in Nat
  BY DEF TypeOK
<1> DEFINE Shared == AssemblerTypeOK'
           Sink == /\ sentRole' \in BOOLEAN /\ heard' \in [Channels -> Nat]
                   /\ roles' \in Nat /\ reason' \in OpenAIReasons \cup {""}
                   /\ usage' \in BOOLEAN /\ done' \in Nat
           Table == DOMAIN tools' \subseteq Nat /\ tools' \in [DOMAIN tools' -> ToolViews]
<1> SUFFICES Shared /\ Sink /\ Table
  BY <1>g DEF TypeOK
<1>k. ASSUME UNCHANGED sinkVars PROVE Sink /\ Table
  BY <1>k, <1>s, <1>t DEF sinkVars
<1>d. ASSUME NEW idx \in Nat, NEW id \in Names, NEW name \in Names,
             NEW args \in Seq(Fragments), ApplyToolDelta(idx, id, name, args)
      PROVE  Table
  BY <1>d, <1>t, DeltaSound
<1>r. ASSUME NEW id \in ToolIds, registry' = Register(registry, id), KeepFilter
      PROVE  Shared /\ (Known(registry', id) => Lookup(registry', id) \in Nat)
  BY <1>r, <1>a, RegisterType
     DEF KeepFilter, AssemblerTypeOK, Registries, Known, Lookup, NoIndex
<1>e. EmitWithRole => sentRole' \in BOOLEAN /\ roles' \in Nat
  <2>1. roles \in Nat
    BY DEF TypeOK
  <2> QED
    BY <2>1 DEF EmitWithRole
<1>u. ASSUME NEW idx \in Nat, NEW id \in Names, NEW name \in Names,
             NEW args \in Seq(Fragments), ToolStart(idx, id, name, args)
      PROVE  Sink /\ Table
  BY <1>u, <1>d, <1>s, <1>e DEF ToolStart
<1>v. ASSUME NEW idx \in Nat, NEW args \in Seq(Fragments), ToolArgs(idx, args)
      PROVE  Sink /\ Table
  <2>1. Blank \in Names
    BY DEF Names
  <2> QED
    BY <1>v, <1>d, <1>s, <2>1 DEF ToolArgs
<1>w. \A id \in ToolIds : Known(Register(registry, id), id)
  BY <1>a DEF Register, Known, NoIndex, Registries
<1>n. \A f \in Fragments : <<f>> \in Seq(Fragments)
  OBVIOUS
<1>1. CASE \E ch \in Channels : OnSpeech(ch)
  <2>1. PICK ch \in Channels : OnSpeech(ch)
    BY <1>1
  <2>4. heard' \in [Channels -> Nat]
    <3>1. heard \in [Channels -> Nat]
      BY DEF TypeOK
    <3> QED
      BY <2>1, <3>1 DEF OnSpeech, SpeechDelta
  <2>2. Sink
    BY <2>1, <2>4, <1>s, <1>e DEF OnSpeech, SpeechDelta
  <2>3. Table
    BY <2>1, <1>t DEF OnSpeech, SpeechDelta
  <2> QED
    BY <2>1, <2>2, <2>3, <1>a DEF OnSpeech, KeepFilter, AssemblerTypeOK
<1>2. CASE \E id \in ToolIds, name \in Names : name \in {id, Blank} /\ OnToolStart(id, name)
  <2>1. PICK id \in ToolIds, name \in Names : OnToolStart(id, name)
    BY <1>2
  <2>2. Lookup(registry', id) \in Nat /\ Shared
    BY <2>1, <1>r, <1>w DEF OnToolStart
  <2>3. id \in Names
    BY DEF Names
  <2> QED
    BY <2>1, <2>2, <2>3, NoArgs, <1>u DEF OnToolStart
<1>3. CASE \E f \in Fragments : OnToolDelta(f)
  <2>1. PICK f \in Fragments : OnToolDelta(f)
    BY <1>3
  <2>2. Shared
    BY <2>1, <1>a DEF OnToolDelta, KeepFilter, AssemblerTypeOK
  <2>3. CASE LastIndex(registry) = NoIndex
    BY <2>1, <2>2, <2>3, <1>k DEF OnToolDelta
  <2>4. CASE LastIndex(registry) # NoIndex
    <3>1. LastIndex(registry) \in Nat
      BY <2>4, <1>a DEF LastIndex, Registries
    <3>2. ToolArgs(LastIndex(registry), <<f>>)
      BY <2>1, <2>4 DEF OnToolDelta
    <3> QED
      BY <3>1, <3>2, <1>v, <1>n, <2>2
  <2> QED
    BY <2>3, <2>4
<1>4. CASE \E id \in ToolIds, f \in Fragments : OnToolInputDelta(id, f)
  <2>1. PICK id \in ToolIds, f \in Fragments : OnToolInputDelta(id, f)
    BY <1>4
  <2>2. Lookup(registry', id) \in Nat /\ Shared
    BY <2>1, <1>r, <1>w DEF OnToolInputDelta
  <2> QED
    BY <2>1, <2>2, <1>v, <1>n DEF OnToolInputDelta
<1>5. CASE \E id \in ToolIds, name \in Names, input \in Inputs :
              name \in {id, Blank} /\ OnToolCall(id, name, input)
  <2>1. PICK id \in ToolIds, name \in Names, input \in Inputs : OnToolCall(id, name, input)
    BY <1>5
  <2>2. Lookup(registry', id) \in Nat /\ Shared
    BY <2>1, <1>r, <1>w DEF OnToolCall
  <2>3. id \in Names /\ input \in Seq(Fragments)
    BY InputsAreSequences DEF Names
  <2>4. CASE Known(registry, id)
    BY <2>1, <2>2, <2>4, <1>k DEF OnToolCall, ToolCallEnrich
  <2>5. CASE ~Known(registry, id)
    BY <2>1, <2>2, <2>3, <2>5, <1>u DEF OnToolCall
  <2> QED
    BY <2>4, <2>5
<1>6. CASE \E kind \in {"finish-step", "finish"}, why \in RawReasons, u \in BOOLEAN :
              OnFinish(kind, why, u)
  <2>1. PICK kind \in {"finish-step", "finish"}, why \in RawReasons, u \in BOOLEAN :
                OnFinish(kind, why, u)
    BY <1>6
  <2>2. Shared
    BY <2>1, <1>a DEF OnFinish, KeepRunning, AssemblerTypeOK
  <2>3. CASE FinishPasses(kind, u, finishSeen)
    <3>1. Finish(Normalize(why), u)
      BY <2>1, <2>3 DEF OnFinish
    <3>3. done' \in Nat
      <4>1. done \in Nat
        BY DEF TypeOK
      <4> QED
        BY <3>1, <4>1 DEF Finish
    <3>2. Sink
      BY <3>1, <3>3, <1>s, NormalizeType DEF Finish
    <3> QED
      BY <3>1, <3>2, <2>2, <1>t DEF Finish
  <2>4. CASE ~FinishPasses(kind, u, finishSeen)
    BY <2>1, <2>2, <2>4, <1>k DEF OnFinish
  <2> QED
    BY <2>3, <2>4
<1>7. CASE OnNextStep \/ OnError
  BY <1>7, <1>a, <1>k DEF OnNextStep, OnError, assemblerVars, AssemblerTypeOK
<1>8. CASE OnEnd \/ OnCancel \/ OnAbort \/ OnReadError
  BY <1>8, <1>a, <1>k DEF OnEnd, ReachEnd, OnCancel, CancelRequest, OnAbort,
     AbortOnEvent, OnReadError, FailRead, AssemblerTypeOK
<1>9. CASE UNCHANGED vars
  BY <1>9, <1>a, <1>k DEF vars, assemblerVars, AssemblerTypeOK
<1> QED
  BY <1>1, <1>2, <1>3, <1>4, <1>5, <1>6, <1>7, <1>8, <1>9 DEF Next

\* Deviations are only ever added.
LEMMA DeviationsGrow == ASSUME [Next]_vars PROVE deviated \subseteq deviated'
<1>1. GatewayLine
  BY StepIsLine
<1> QED
  BY <1>1 DEF GatewayLine, SendSpeech, SendToolStart, SendFragment, SendStray,
     SendToolCall, SendNextStep, SendFinish, SendError, EndStream, Deviate, gatewayVars

-------------------------------------------------------------------------------
(***************************************************************************)
(* How a stream ends.                                                      *)
(***************************************************************************)

\* Steps that touch nothing FinishInv speaks of, but may deviate, keep it.
LEMMA FinishKept ==
  ASSUME FinishInv, deviated \subseteq deviated',
         UNCHANGED <<finishSeen, done, stage, usage, reason, heard, spoken,
                     errored, run, verdict, usageSent>>
  PROVE  FinishInv'
  BY DEF FinishInv, Survived

\* Every step keeps what is known of the ending.
LEMMA FinishStep == TypeOK /\ FinishInv /\ [Next]_vars => FinishInv'
<1> SUFFICES ASSUME TypeOK, FinishInv, [Next]_vars PROVE FinishInv'
  OBVIOUS
<1>0. deviated \subseteq deviated'
  BY DeviationsGrow
<1>1. CASE \E ch \in Channels : OnSpeech(ch)
  BY <1>1 DEF OnSpeech, SendSpeech, SpeechDelta, KeepFilter, FinishInv, Survived
<1>2. CASE \E id \in ToolIds, name \in Names : name \in {id, Blank} /\ OnToolStart(id, name)
  BY <1>0, <1>2, FinishKept DEF OnToolStart, SendToolStart, ToolStart, KeepFilter
<1>3. CASE \E f \in Fragments : OnToolDelta(f)
  BY <1>0, <1>3, FinishKept
     DEF OnToolDelta, SendFragment, SendStray, ToolArgs, KeepFilter, sinkVars
<1>4. CASE \E id \in ToolIds, f \in Fragments : OnToolInputDelta(id, f)
  BY <1>0, <1>4, FinishKept
     DEF OnToolInputDelta, SendFragment, SendStray, ToolArgs, KeepFilter
<1>5. CASE \E id \in ToolIds, name \in Names, input \in Inputs :
              name \in {id, Blank} /\ OnToolCall(id, name, input)
  BY <1>0, <1>5, FinishKept
     DEF OnToolCall, SendToolCall, ToolStart, ToolCallEnrich, KeepFilter, sinkVars
<1>6. CASE \E kind \in {"finish-step", "finish"}, why \in RawReasons, u \in BOOLEAN :
              OnFinish(kind, why, u)
  <2>1. PICK kind \in {"finish-step", "finish"}, why \in RawReasons, u \in BOOLEAN :
                OnFinish(kind, why, u)
    BY <1>6
  <2>2. finishSeen \in BOOLEAN /\ usage \in BOOLEAN /\ usageSent \in BOOLEAN
    BY DEF TypeOK, GatewayTypeOK, AssemblerTypeOK
  <2>3. CASE FinishPasses(kind, u, finishSeen)
    <3>1. ~finishSeen /\ finishSeen' = TRUE /\ Finish(Normalize(why), u)
      BY <2>1, <2>3 DEF OnFinish, FinishPasses
    <3>2. done = 0 /\ done' = 1
      BY <3>1 DEF FinishInv, Finish
    <3>3. /\ verdict' = why /\ reason' = Normalize(verdict')
          /\ usage' = u /\ usageSent' = (usageSent \/ u)
          /\ stage' = "stepped" \/ stage' = "finished"
          /\ u \/ stage' = "finished"
      BY <2>1, <2>2, <2>3, <3>1
         DEF OnFinish, SendFinish, Finish, FinishPasses, FinishInv
    <3>4. UNCHANGED <<heard, spoken, errored, run, deviated>>
      BY <2>1, <3>1 DEF OnFinish, SendFinish, Finish, KeepRunning
    <3>5. run = "scanning"
      BY <2>1 DEF OnFinish, Handling
    <3> QED
      BY <3>1, <3>2, <3>3, <3>4, <3>5 DEF FinishInv, Survived
  <2>4. CASE ~FinishPasses(kind, u, finishSeen)
    <3>1. UNCHANGED <<sinkVars, finishSeen, errored, spoken, deviated, run>>
      BY <2>1, <2>2, <2>4 DEF OnFinish, SendFinish, KeepRunning
    <3>2. /\ verdict' = why /\ usageSent' = (usageSent \/ u)
          /\ stage' = "stepped" \/ stage' = "finished"
          /\ run = "scanning"
      BY <2>1 DEF OnFinish, SendFinish, Handling
    <3>3. CASE finishSeen
      <4>1. Survived({"multistep"}) =>
               stage = "stepped" /\ why = verdict /\ usage = usageSent /\ usage
        BY <2>1, <2>2, <3>3 DEF OnFinish, SendFinish, FinishInv
      <4> QED
        BY <3>1, <3>2, <3>3, <4>1, <2>2 DEF FinishInv, Survived, sinkVars
    <3>4. CASE ~finishSeen
      <4>1. ~u /\ stage' = "stepped"
        BY <2>1, <2>2, <2>4, <3>4 DEF FinishPasses, OnFinish, SendFinish
      <4> QED
        BY <3>1, <3>2, <3>4, <4>1, <2>2 DEF FinishInv, Survived, sinkVars
    <3> QED
      BY <3>3, <3>4
  <2> QED
    BY <2>3, <2>4
<1>7. CASE OnNextStep
  <2>1. stage' = "step" /\ deviated' = deviated \cup {"multistep"}
    BY <1>7 DEF OnNextStep, SendNextStep, Deviate
  <2>2. UNCHANGED <<finishSeen, done, usage, heard, spoken, errored, run>>
    BY <1>7 DEF OnNextStep, SendNextStep, sinkVars, assemblerVars
  <2>3. run = "scanning"
    BY <1>7 DEF OnNextStep, Handling
  <2> QED
    BY <2>1, <2>2, <2>3 DEF FinishInv, Survived
<1>8. CASE OnError
  BY <1>8 DEF OnError, SendError, Deviate, sinkVars, assemblerVars, FinishInv,
              Survived, Handling
<1>9. CASE OnEnd
  <2>1. /\ UNCHANGED <<finishSeen, done, stage, usage, reason, heard, spoken,
                       errored, verdict, usageSent>>
        /\ deviated' = deviated \cup If(stage # "finished" /\ ~errored, "cut")
    BY <1>9 DEF OnEnd, ReachEnd, EndStream, Deviate, sinkVars
  <2>2. stage = "finished" \/ "error" \in deviated \/ "cut" \in deviated'
    BY <2>1 DEF If, FinishInv
  <2> QED
    BY <1>0, <2>1, <2>2 DEF FinishInv, Survived
<1>10. CASE OnCancel
  BY <1>10, <1>0, FinishKept DEF OnCancel, CancelRequest, gatewayVars, sinkVars
<1>11. CASE OnAbort \/ OnReadError
  BY <1>11 DEF OnAbort, AbortOnEvent, OnReadError, FailRead, gatewayVars,
               sinkVars, FinishInv, Survived
<1>12. CASE UNCHANGED vars
  BY <1>12, <1>0, FinishKept DEF vars, gatewayVars, assemblerVars, sinkVars
<1> QED
  BY <1>1, <1>2, <1>3, <1>4, <1>5, <1>6, <1>7, <1>8, <1>9, <1>10, <1>11, <1>12
     DEF Next

-------------------------------------------------------------------------------
(***************************************************************************)
(* Which slot shows which call.                                            *)
(***************************************************************************)

Clean == Survived({"restart", "orphan", "sparse"})

\* ToolsInv as the facts the proofs below cite.
LEMMA ToolsFacts ==
  ASSUME TypeOK, ToolsInv
  PROVE  /\ RegistryOK(registry)
         /\ registry.nextIdx \in Nat
         /\ \A id \in ToolIds : Known(registry, id) => Lookup(registry, id) \in 0 .. registry.nextIdx - 1
         /\ DOMAIN tools \subseteq Nat /\ tools \in [DOMAIN tools -> ToolViews]
         /\ registry.nextIdx \notin DOMAIN tools
<1>1. RegistryOK(registry) /\ DOMAIN tools \subseteq 0 .. registry.nextIdx - 1
  BY DEF ToolsInv
<1>2. registry.nextIdx \in Nat
  BY <1>1 DEF RegistryOK, Registries
<1>3. DOMAIN tools \subseteq Nat /\ tools \in [DOMAIN tools -> ToolViews]
  BY DEF TypeOK
<1>4. registry.nextIdx \notin DOMAIN tools
  BY <1>1, <1>2
<1> QED
  BY <1>1, <1>2, <1>3, <1>4 DEF RegistryOK, SlotsDense

\* A delta for the slot of a registered id, or for the last slot, keeps every
\* slot inside the registry and under its own id.
LEMMA SlotsStepSound ==
  ASSUME TypeOK, ToolsInv,
         NEW id \in ToolIds, NEW idx \in Nat,
         NEW shown \in Names, NEW name \in Names, NEW args \in Seq(Fragments),
         ApplyToolDelta(idx, shown, name, args),
         \/ /\ registry' = Register(registry, id)
            /\ idx = Lookup(registry', id)
            /\ shown \in {id, Blank}
         \/ /\ registry' = registry
            /\ idx \in 0 .. registry.nextIdx - 1
            /\ shown = Blank
  PROVE  /\ RegistryOK(registry')
         /\ DOMAIN tools' \subseteq 0 .. registry'.nextIdx - 1
         /\ SlotsKeepTheirId'
<1>f. /\ RegistryOK(registry)
      /\ DOMAIN tools \subseteq 0 .. registry.nextIdx - 1
      /\ SlotsKeepTheirId
  BY DEF ToolsInv
<1>1. /\ RegistryOK(registry')
      /\ \A i \in ToolIds : Known(registry, i) =>
            Known(registry', i) /\ Lookup(registry', i) = Lookup(registry, i)
      /\ 0 .. registry.nextIdx - 1 \subseteq 0 .. registry'.nextIdx - 1
      /\ idx \in 0 .. registry'.nextIdx - 1
      /\ shown # Blank => Known(registry', shown) /\ Lookup(registry', shown) = idx
  BY <1>f, RegisterSound, RegisterKeeps
<1>2. /\ DOMAIN tools' = DOMAIN tools \cup {idx}
      /\ \A i \in DOMAIN tools \ {idx} : tools'[i] = tools[i]
      /\ tools'[idx].id = IF shown = Blank THEN View(idx).id ELSE shown
      /\ tools \in [DOMAIN tools -> ToolViews]
  BY ToolsFacts, DeltaSound
<1>3. DOMAIN tools' \subseteq 0 .. registry'.nextIdx - 1
  BY <1>f, <1>1, <1>2
<1>4. ASSUME NEW i \in DOMAIN tools', tools'[i].id # Blank
      PROVE  Known(registry', tools'[i].id) /\ Lookup(registry', tools'[i].id) = i
  <2>1. CASE i = idx /\ shown # Blank
    BY <2>1, <1>1, <1>2
  <2>2. CASE i = idx /\ shown = Blank
    <3>1. tools'[i].id = View(idx).id /\ View(idx).id # Blank
      BY <2>2, <1>2, <1>4
    <3>2. idx \in DOMAIN tools /\ View(idx) = tools[idx]
      BY <3>1 DEF View, EmptyView
    <3>3. tools[idx].id \in ToolIds
      BY <3>1, <3>2, <1>2 DEF ToolViews, Names
    <3> QED
      BY <2>2, <3>1, <3>2, <3>3, <1>f, <1>1 DEF SlotsKeepTheirId
  <2>3. CASE i # idx
    <3>1. i \in DOMAIN tools /\ tools'[i] = tools[i]
      BY <2>3, <1>2
    <3>2. tools[i].id \in ToolIds
      BY <3>1, <1>2, <1>4 DEF ToolViews, Names
    <3> QED
      BY <3>1, <3>2, <1>4, <1>f, <1>1 DEF SlotsKeepTheirId
  <2> QED
    BY <2>1, <2>2, <2>3
<1>5. SlotsKeepTheirId'
  BY <1>4 DEF SlotsKeepTheirId
<1> QED
  BY <1>1, <1>3, <1>5

\* The part of ToolsInv that holds while no call was announced twice, no
\* fragment was orphaned and nothing was left out.
Mirror ==
    /\ \A id \in ToolIds : Known(registry, id) => call[id] # "none"
    /\ \A id \in ToolIds : call[id] # "none" =>
          /\ meant[id].name = id
          /\ Lookup(registry, id) \in DOMAIN tools
          /\ tools[Lookup(registry, id)] =
                [id |-> id, name |-> meant[id].name, args |-> meant[id].args]
    /\ latest # Blank => call[latest] # "none" /\ LastIndex(registry) = Lookup(registry, latest)
    /\ latest = Blank => registry.nextIdx = 0

\* ToolsInv, with its conditional conjuncts named.
LEMMA ToolsInvParts ==
  ToolsInv <=> /\ RegistryOK(registry)
               /\ \A id \in ToolIds : call[id] # "none" => Known(registry, id)
               /\ \A id \in ToolIds :
                     call[id] = "none" => meant[id] = [name |-> Blank, args |-> <<>>]
               /\ DOMAIN tools \subseteq 0 .. registry.nextIdx - 1
               /\ SlotsKeepTheirId
               /\ Clean => Mirror
  BY DEF ToolsInv, Clean, Mirror

\* Steps that touch no call, no slot and no registry entry keep the mirror.
LEMMA ToolsKept ==
  ASSUME ToolsInv, deviated \subseteq deviated',
         UNCHANGED <<registry, call, meant, latest, tools>>
  PROVE  ToolsInv'
  BY DEF ToolsInv, Survived, SlotsKeepTheirId

\* One more fragment for an open call, appended at the call's slot.
LEMMA FragmentMirrored ==
  ASSUME TypeOK, ToolsInv, Mirror,
         NEW id \in ToolIds, NEW f \in Fragments,
         SendFragment(id, f),
         ToolArgs(Lookup(registry, id), <<f>>),
         registry' = registry
  PROVE  Mirror'
<1> DEFINE idx == Lookup(registry, id)
<1>1. call[id] # "none" /\ Known(registry, id)
  BY DEF SendFragment, ToolsInv
<1>2. idx \in Nat /\ idx \in DOMAIN tools
  BY <1>1, ToolsFacts DEF Mirror
<1>3. Blank \in Names /\ <<f>> \in Seq(Fragments)
  BY DEF Names
<1>4. /\ DOMAIN tools' = DOMAIN tools
      /\ \A i \in DOMAIN tools \ {idx} : tools'[i] = tools[i]
      /\ tools'[idx].id = tools[idx].id
      /\ tools'[idx].name = tools[idx].name
      /\ tools'[idx].args = tools[idx].args \o <<f>>
      /\ tools' \in [DOMAIN tools' -> ToolViews]
  <2>1. ApplyToolDelta(idx, Blank, Blank, <<f>>) /\ View(idx) = tools[idx]
    BY <1>2 DEF ToolArgs, View
  <2>2. DOMAIN tools \subseteq Nat /\ tools \in [DOMAIN tools -> ToolViews]
    BY ToolsFacts
  <2>3. /\ DOMAIN tools' = DOMAIN tools \cup {idx}
        /\ tools' \in [DOMAIN tools' -> ToolViews]
        /\ \A i \in DOMAIN tools \ {idx} : tools'[i] = tools[i]
        /\ tools'[idx].id = View(idx).id
        /\ tools'[idx].name = View(idx).name
        /\ tools'[idx].args = View(idx).args \o <<f>>
    BY <1>2, <1>3, <2>1, <2>2, DeltaSound
  <2> QED
    BY <1>2, <2>1, <2>3
<1>5. /\ call' = call /\ latest' = latest
      /\ meant' = [meant EXCEPT ![id] =
                     [name |-> meant[id].name, args |-> Append(meant[id].args, f)]]
  BY DEF SendFragment
<1>6. meant \in [ToolIds -> Stated] /\ meant[id].args \in Seq(Fragments)
  BY DEF TypeOK, GatewayTypeOK, Stated
<1>7. tools[idx] = [id |-> id, name |-> id, args |-> meant[id].args]
      /\ meant[id].name = id
  BY <1>1 DEF Mirror
<1>8. meant[id].args \o <<f>> = Append(meant[id].args, f)
  BY <1>6
<1>9. tools'[idx] = [id |-> id, name |-> id, args |-> Append(meant[id].args, f)]
  BY <1>2, <1>4, <1>7, <1>8 DEF ToolViews
<1>10. meant'[id] = [name |-> id, args |-> Append(meant[id].args, f)]
  BY <1>5, <1>6, <1>7
<1>11. \A i \in ToolIds : call'[i] # "none" =>
          /\ meant'[i].name = i
          /\ Lookup(registry', i) \in DOMAIN tools'
          /\ tools'[Lookup(registry', i)] =
                [id |-> i, name |-> meant'[i].name, args |-> meant'[i].args]
  <2> SUFFICES ASSUME NEW i \in ToolIds, call'[i] # "none"
               PROVE  /\ meant'[i].name = i
                      /\ Lookup(registry', i) \in DOMAIN tools'
                      /\ tools'[Lookup(registry', i)] =
                            [id |-> i, name |-> meant'[i].name, args |-> meant'[i].args]
    OBVIOUS
  <2>1. CASE i = id
    BY <2>1, <1>2, <1>4, <1>9, <1>10
  <2>2. CASE i # id
    <3>1. Known(registry, i) /\ Lookup(registry, i) # idx
      BY <2>2, <1>1, <1>5, ToolsFacts DEF ToolsInv, RegistryOK, SlotsDistinct
    <3>2. meant'[i] = meant[i]
      BY <2>2, <1>5, <1>6
    <3> QED
      BY <3>1, <3>2, <1>4, <1>5 DEF Mirror
  <2> QED
    BY <2>1, <2>2
<1> QED
  BY <1>5, <1>11 DEF Mirror

\* Every step keeps the registry, the calls and the client's slots together.
LEMMA ToolsStep == TypeOK /\ ToolsInv /\ [Next]_vars => ToolsInv'
<1> SUFFICES ASSUME TypeOK, ToolsInv, [Next]_vars PROVE ToolsInv'
  OBVIOUS
<1>0. deviated \subseteq deviated' /\ (Clean' => Clean)
  BY DeviationsGrow DEF Clean, Survived
<1>p. /\ RegistryOK(registry)
      /\ \A id \in ToolIds : call[id] # "none" => Known(registry, id)
      /\ \A id \in ToolIds :
            call[id] = "none" => meant[id] = [name |-> Blank, args |-> <<>>]
      /\ DOMAIN tools \subseteq 0 .. registry.nextIdx - 1
      /\ SlotsKeepTheirId
      /\ Clean => Mirror
  BY ToolsInvParts
<1>t. /\ call \in [ToolIds -> {"none", "open", "complete"}]
      /\ meant \in [ToolIds -> Stated]
  BY DEF TypeOK, GatewayTypeOK, Stated
<1>b. Blank \in Names /\ (\A id \in ToolIds : id \in Names /\ id # Blank)
  BY BlankIsNoTool DEF Names
<1>l. /\ LastIndex(registry) = NoIndex <=> registry.nextIdx = 0
      /\ LastIndex(registry) # NoIndex => LastIndex(registry) \in 0 .. registry.nextIdx - 1
      /\ \A id \in ToolIds : Known(registry, id) => LastIndex(registry) # NoIndex
      /\ registry.nextIdx \in Nat
  BY <1>p, LastIndexIsSlot, ToolsFacts
<1>n. \A f \in Fragments : <<f>> \in Seq(Fragments)
  OBVIOUS
<1>1. CASE \E ch \in Channels : OnSpeech(ch)
  BY <1>1, <1>0, ToolsKept DEF OnSpeech, SendSpeech, SpeechDelta
<1>2. CASE \E id \in ToolIds, name \in Names : name \in {id, Blank} /\ OnToolStart(id, name)
  <2>1. PICK id \in ToolIds, name \in Names : name \in {id, Blank} /\ OnToolStart(id, name)
    BY <1>2
  <2> DEFINE idx == Lookup(registry', id)
  <2>2. /\ registry' = Register(registry, id)
        /\ ApplyToolDelta(idx, id, name, <<>>)
        /\ call' = [call EXCEPT ![id] = "open"]
        /\ meant' = [meant EXCEPT ![id] = Amend(meant[id], name, <<>>)]
        /\ latest' = id
        /\ deviated' = deviated \cup (If(call[id] = "open", "restart")
                                      \cup If(name = Blank, "sparse"))
        /\ call[id] \in {"none", "open"}
    BY <2>1 DEF OnToolStart, SendToolStart, ToolStart, Deviate
  <2>3. /\ \A i \in ToolIds : Known(registry, i) =>
              Known(registry', i) /\ Lookup(registry', i) = Lookup(registry, i)
        /\ \A i \in ToolIds : Known(registry', i) => Known(registry, i) \/ i = id
        /\ idx \in Nat
        /\ Known(registry', id)
        /\ ~Known(registry, id) => idx = registry.nextIdx /\ LastIndex(registry') = idx
    BY <2>2, <1>p, RegisterKeeps, RegisterSound
  <2>4. RegistryOK(registry') /\ DOMAIN tools' \subseteq 0 .. registry'.nextIdx - 1
        /\ SlotsKeepTheirId'
    BY <2>2, <2>3, <1>b, NoArgs, SlotsStepSound
  <2>5. \A i \in ToolIds : call'[i] # "none" => Known(registry', i)
    BY <2>2, <2>3, <1>p, <1>t
  <2>6. \A i \in ToolIds : call'[i] = "none" => meant'[i] = [name |-> Blank, args |-> <<>>]
    BY <2>2, <1>p, <1>t
  <2>7. ASSUME Clean' PROVE Mirror'
    <3>1. Mirror /\ call[id] = "none" /\ name = id
      <4>1. call[id] # "open" /\ name # Blank
        BY <2>2, <2>7 DEF Clean, Survived, If
      <4> QED
        BY <4>1, <2>1, <2>2, <2>7, <1>0, <1>p
    <3>2. ~Known(registry, id) /\ meant[id] = [name |-> Blank, args |-> <<>>]
      BY <3>1, <1>p DEF Mirror
    <3>3. idx = registry.nextIdx /\ idx \notin DOMAIN tools /\ View(idx) = EmptyView
      BY <3>2, <2>3, ToolsFacts DEF View
    <3>4. /\ DOMAIN tools' = DOMAIN tools \cup {idx}
          /\ \A i \in DOMAIN tools : tools'[i] = tools[i]
          /\ tools'[idx] = [id |-> id, name |-> id, args |-> <<>>]
      BY <2>2, <2>3, <3>1, <3>3, <1>b, NoArgs DEF ApplyToolDelta, EmptyView
    <3>5. meant'[id] = [name |-> id, args |-> <<>>]
      BY <2>2, <3>1, <3>2, <1>t, <1>b DEF Amend
    <3>6. \A i \in ToolIds \ {id} : call'[i] = call[i] /\ meant'[i] = meant[i]
      BY <2>2, <1>t
    <3>7. \A i \in ToolIds \ {id} : call[i] # "none" =>
             /\ Lookup(registry', i) = Lookup(registry, i)
             /\ Lookup(registry, i) \in DOMAIN tools
      BY <2>3, <1>p, <3>1 DEF Mirror
    <3>8. LastIndex(registry') = Lookup(registry', latest') /\ call'[latest'] # "none"
      BY <2>2, <2>3, <3>2, <1>t
    <3>9. \A i \in ToolIds : Known(registry', i) => call'[i] # "none"
      BY <2>2, <2>3, <3>1, <3>6, <1>t DEF Mirror
    <3>10. \A i \in ToolIds : call'[i] # "none" =>
              /\ meant'[i].name = i
              /\ Lookup(registry', i) \in DOMAIN tools'
              /\ tools'[Lookup(registry', i)] =
                    [id |-> i, name |-> meant'[i].name, args |-> meant'[i].args]
      BY <3>1, <3>4, <3>5, <3>6, <3>7 DEF Mirror
    <3> QED
      BY <3>8, <3>9, <3>10, <2>2, <1>b DEF Mirror
  <2> QED
    BY <2>4, <2>5, <2>6, <2>7, ToolsInvParts DEF Clean, Mirror, ToolsInv
<1>3. CASE \E f \in Fragments : OnToolDelta(f)
  <2>1. PICK f \in Fragments : OnToolDelta(f)
    BY <1>3
  <2>2. registry' = registry
    BY <2>1 DEF OnToolDelta
  <2>3. ASSUME NEW i \in ToolIds PROVE
           /\ call'[i] = call[i]
           /\ call[i] = "none" => meant'[i] = meant[i]
    <3>1. CASE SendFragment(latest, f)
      BY <3>1, <1>t DEF SendFragment
    <3>2. CASE SendStray(Blank)
      BY <3>2 DEF SendStray
    <3> QED
      BY <3>1, <3>2, <2>1 DEF OnToolDelta
  <2>4. /\ RegistryOK(registry') /\ DOMAIN tools' \subseteq 0 .. registry'.nextIdx - 1
        /\ SlotsKeepTheirId'
    <3>1. CASE LastIndex(registry) = NoIndex
      <4>1. tools' = tools
        BY <2>1, <3>1 DEF OnToolDelta, sinkVars
      <4> QED
        BY <4>1, <2>2, <1>p DEF SlotsKeepTheirId
    <3>2. CASE LastIndex(registry) # NoIndex
      <4>1. ApplyToolDelta(LastIndex(registry), Blank, Blank, <<f>>)
        BY <2>1, <3>2 DEF OnToolDelta, ToolArgs
      <4>2. LastIndex(registry) \in 0 .. registry.nextIdx - 1 /\ LastIndex(registry) \in Nat
        BY <3>2, <1>l
      <4>3. \E id \in ToolIds : TRUE
        BY <4>2, <1>p DEF RegistryOK, SlotsDense
      <4> QED
        BY <4>1, <4>2, <4>3, <2>2, <1>b, <1>n, SlotsStepSound
    <3> QED
      BY <3>1, <3>2
  <2>5. ASSUME Clean' PROVE Mirror'
    <3>1. Mirror /\ ~SendStray(Blank)
      BY <2>5, <1>0, <1>p DEF Clean, Survived, SendStray, Deviate
    <3>2. SendFragment(latest, f) /\ latest \in ToolIds /\ call[latest] # "none"
      BY <2>1, <3>1 DEF OnToolDelta, SendFragment
    <3>3. LastIndex(registry) = Lookup(registry, latest) /\ LastIndex(registry) # NoIndex
      BY <3>1, <3>2, <1>b, <1>l, <1>p DEF Mirror
    <3>4. ToolArgs(Lookup(registry, latest), <<f>>)
      BY <2>1, <3>3 DEF OnToolDelta
    <3> QED
      BY <3>1, <3>2, <3>4, <2>2, FragmentMirrored
  <2> QED
    BY <2>2, <2>3, <2>4, <2>5, <1>p, ToolsInvParts DEF Clean, Mirror, ToolsInv
<1>4. CASE \E id \in ToolIds, f \in Fragments : OnToolInputDelta(id, f)
  <2>1. PICK id \in ToolIds, f \in Fragments : OnToolInputDelta(id, f)
    BY <1>4
  <2> DEFINE idx == Lookup(registry', id)
  <2>2. registry' = Register(registry, id) /\ ToolArgs(idx, <<f>>)
    BY <2>1 DEF OnToolInputDelta
  <2>3. ASSUME NEW i \in ToolIds PROVE
           /\ call'[i] = call[i]
           /\ call[i] = "none" => meant'[i] = meant[i]
    <3>1. CASE SendFragment(id, f)
      BY <3>1, <1>t DEF SendFragment
    <3>2. CASE SendStray(id)
      BY <3>2 DEF SendStray
    <3> QED
      BY <3>1, <3>2, <2>1 DEF OnToolInputDelta
  <2>4. /\ \A i \in ToolIds : Known(registry, i) => Known(registry', i)
        /\ idx \in Nat
    BY <2>2, <1>p, RegisterKeeps
  <2>5. /\ RegistryOK(registry') /\ DOMAIN tools' \subseteq 0 .. registry'.nextIdx - 1
        /\ SlotsKeepTheirId'
    BY <2>2, <2>4, <1>b, <1>n, SlotsStepSound DEF ToolArgs
  <2>6. ASSUME Clean' PROVE Mirror'
    <3>1. Mirror /\ ~SendStray(id)
      BY <2>6, <1>0, <1>p DEF Clean, Survived, SendStray, Deviate
    <3>2. SendFragment(id, f) /\ call[id] # "none"
      BY <2>1, <3>1 DEF OnToolInputDelta, SendFragment
    <3>3. registry' = registry
      BY <3>2, <2>2, <1>p DEF Register
    <3> QED
      BY <3>1, <3>2, <3>3, <2>2, FragmentMirrored
  <2> QED
    BY <2>3, <2>4, <2>5, <2>6, <1>p, ToolsInvParts DEF Clean, Mirror, ToolsInv
<1>5. CASE \E id \in ToolIds, name \in Names, input \in Inputs :
              name \in {id, Blank} /\ OnToolCall(id, name, input)
  <2>1. PICK id \in ToolIds, name \in Names, input \in Inputs :
                name \in {id, Blank} /\ OnToolCall(id, name, input)
    BY <1>5
  <2> DEFINE idx == Lookup(registry', id)
  <2>2. /\ registry' = Register(registry, id)
        /\ call' = [call EXCEPT ![id] = "complete"]
        /\ meant' = [meant EXCEPT ![id] = Amend(meant[id], name, input)]
        /\ latest' = IF call[id] = "none" THEN id ELSE latest
        /\ deviated' = deviated
              \cup (If(call[id] = "complete", "repeat")
                    \cup If(name = Blank /\ meant[id].name = Blank, "sparse")
                    \cup If(call[id] # "none" /\ input \notin {<<>>, meant[id].args},
                            "sparse"))
        /\ Known(registry, id) => UNCHANGED sinkVars
        /\ ~Known(registry, id) => ApplyToolDelta(idx, id, name, input)
    BY <2>1 DEF OnToolCall, SendToolCall, ToolCallEnrich, ToolStart, Deviate
  <2>3. /\ \A i \in ToolIds : Known(registry, i) =>
              Known(registry', i) /\ Lookup(registry', i) = Lookup(registry, i)
        /\ \A i \in ToolIds : Known(registry', i) => Known(registry, i) \/ i = id
        /\ idx \in Nat
        /\ Known(registry', id)
        /\ ~Known(registry, id) => idx = registry.nextIdx /\ LastIndex(registry') = idx
        /\ Known(registry, id) => registry' = registry
    BY <2>2, <1>p, RegisterKeeps, RegisterSound
  <2>4. input \in Seq(Fragments)
    BY <2>1, InputsAreSequences
  <2>5. RegistryOK(registry') /\ DOMAIN tools' \subseteq 0 .. registry'.nextIdx - 1
        /\ SlotsKeepTheirId'
    <3>1. CASE Known(registry, id)
      <4>1. registry' = registry /\ tools' = tools
        BY <3>1, <2>2, <2>3 DEF sinkVars
      <4> QED
        BY <4>1, <1>p DEF SlotsKeepTheirId
    <3>2. CASE ~Known(registry, id)
      BY <3>2, <2>2, <2>3, <2>4, <1>b, SlotsStepSound
    <3> QED
      BY <3>1, <3>2
  <2>6. \A i \in ToolIds : call'[i] # "none" => Known(registry', i)
    BY <2>2, <2>3, <1>p, <1>t
  <2>7. \A i \in ToolIds : call'[i] = "none" => meant'[i] = [name |-> Blank, args |-> <<>>]
    BY <2>2, <1>p, <1>t
  <2>8. ASSUME Clean' PROVE Mirror'
    <3>1. /\ Mirror
          /\ ~(name = Blank /\ meant[id].name = Blank)
          /\ ~(call[id] # "none" /\ input \notin {<<>>, meant[id].args})
      BY <2>8, <2>2, <1>0, <1>p DEF Clean, Survived, If
    <3>2. \A i \in ToolIds \ {id} : call'[i] = call[i] /\ meant'[i] = meant[i]
      BY <2>2, <1>t
    <3>3. \A i \in ToolIds : Known(registry', i) => call'[i] # "none"
      BY <2>2, <2>3, <3>1, <3>2, <1>t DEF Mirror
    <3>4. CASE Known(registry, id)
      <4>1. call[id] # "none" /\ registry' = registry /\ latest' = latest /\ tools' = tools
        BY <3>1, <3>4, <2>2, <2>3 DEF Mirror, sinkVars
      <4>2. meant[id].name = id /\ name \in {id, Blank} /\ input \in {<<>>, meant[id].args}
        BY <3>1, <4>1, <2>1 DEF Mirror
      <4>3. meant' = meant
        BY <2>2, <4>2, <1>t, <1>b DEF Amend, Stated
      <4>4. latest # Blank => call'[latest] # "none"
        BY <3>1, <2>2, <1>t DEF Mirror
      <4>5. \A i \in ToolIds : call'[i] # "none" =>
               /\ meant'[i].name = i
               /\ Lookup(registry', i) \in DOMAIN tools'
               /\ tools'[Lookup(registry', i)] =
                     [id |-> i, name |-> meant'[i].name, args |-> meant'[i].args]
        <5>1. \A i \in ToolIds : call'[i] # "none" => call[i] # "none"
          BY <3>2, <4>1
        <5> QED
          BY <5>1, <3>1, <4>1, <4>3 DEF Mirror
      <4>6. /\ latest' # Blank => LastIndex(registry') = Lookup(registry', latest')
            /\ latest' = Blank => registry'.nextIdx = 0
        BY <3>1, <4>1 DEF Mirror
      <4> QED
        BY <3>3, <4>1, <4>4, <4>5, <4>6 DEF Mirror
    <3>5. CASE ~Known(registry, id)
      <4>1. call[id] = "none" /\ meant[id] = [name |-> Blank, args |-> <<>>] /\ name = id
        BY <3>1, <3>5, <1>p, <2>1
      <4>2. idx = registry.nextIdx /\ idx \notin DOMAIN tools /\ View(idx) = EmptyView
        BY <3>5, <2>3, ToolsFacts DEF View
      <4>3. <<>> \o input = input
        BY <2>4
      <4>4. /\ DOMAIN tools' = DOMAIN tools \cup {idx}
            /\ \A i \in DOMAIN tools : tools'[i] = tools[i]
            /\ tools'[idx] = [id |-> id, name |-> id, args |-> input]
        BY <2>2, <3>5, <4>1, <4>2, <4>3, <1>b DEF ApplyToolDelta, EmptyView
      <4>5. meant'[id] = [name |-> id, args |-> input]
        BY <2>2, <4>1, <1>t, <1>b DEF Amend
      <4>6. \A i \in ToolIds \ {id} : call[i] # "none" =>
               /\ Lookup(registry', i) = Lookup(registry, i)
               /\ Lookup(registry, i) \in DOMAIN tools
        BY <2>3, <1>p, <3>1 DEF Mirror
      <4>7. latest' = id /\ LastIndex(registry') = idx /\ call'[id] # "none"
        BY <2>2, <2>3, <3>5, <4>1, <1>t
      <4>8. \A i \in ToolIds : call'[i] # "none" =>
               /\ meant'[i].name = i
               /\ Lookup(registry', i) \in DOMAIN tools'
               /\ tools'[Lookup(registry', i)] =
                     [id |-> i, name |-> meant'[i].name, args |-> meant'[i].args]
        BY <3>1, <3>2, <4>4, <4>5, <4>6 DEF Mirror
      <4> QED
        BY <3>3, <4>7, <4>8, <1>b DEF Mirror
    <3> QED
      BY <3>4, <3>5
  <2> QED
    BY <2>5, <2>6, <2>7, <2>8, ToolsInvParts DEF Clean, Mirror, ToolsInv
<1>6. CASE \E kind \in {"finish-step", "finish"}, why \in RawReasons, u \in BOOLEAN :
              OnFinish(kind, why, u)
  BY <1>6, <1>0, ToolsKept DEF OnFinish, SendFinish, Finish, sinkVars
<1>7. CASE OnNextStep \/ OnError
  BY <1>7, <1>0, ToolsKept
     DEF OnNextStep, SendNextStep, OnError, SendError, sinkVars, assemblerVars
<1>8. CASE OnEnd
  BY <1>8, <1>0, ToolsKept DEF OnEnd, ReachEnd, EndStream, sinkVars
<1>9. CASE OnCancel \/ OnAbort \/ OnReadError
  BY <1>9, <1>0, ToolsKept DEF OnCancel, CancelRequest, OnAbort, AbortOnEvent,
     OnReadError, FailRead, gatewayVars, sinkVars
<1>10. CASE UNCHANGED vars
  BY <1>10, <1>0, ToolsKept DEF vars, gatewayVars, assemblerVars, sinkVars
<1> QED
  BY <1>1, <1>2, <1>3, <1>4, <1>5, <1>6, <1>7, <1>8, <1>9, <1>10 DEF Next

-------------------------------------------------------------------------------
(***************************************************************************)
(* The indexes the client has been given.                                  *)
(***************************************************************************)

\* A delta for the slot of an id extends the slot the client has, or opens the
\* next one and no other.
LEMMA SlotTold ==
  ASSUME TypeOK, ToolsInv, DenseInv,
         NEW id \in ToolIds, NEW shown \in Names, NEW name \in Names,
         NEW args \in Seq(Fragments),
         registry' = Register(registry, id),
         ApplyToolDelta(Lookup(registry', id), shown, name, args)
  PROVE  LET idx == Lookup(registry', id) IN
         /\ Known(registry, id) => /\ registry' = registry
                                  /\ idx \in DOMAIN tools /\ View(idx) = tools[idx]
         /\ ~Known(registry, id) => /\ idx = registry.nextIdx
                                   /\ registry'.nextIdx = idx + 1
                                   /\ View(idx) = EmptyView
         /\ View(idx) \in ToolViews
         /\ DOMAIN tools' = 0 .. registry'.nextIdx - 1
         /\ \A i \in DOMAIN tools \ {idx} : tools'[i] = tools[i]
         /\ tools'[idx] = [id   |-> IF shown = Blank THEN View(idx).id ELSE shown,
                          name |-> IF name = Blank THEN View(idx).name ELSE name,
                          args |-> View(idx).args \o args]
<1> DEFINE idx == Lookup(registry', id)
<1>1. /\ Known(registry, id) => registry' = registry
      /\ ~Known(registry, id) => idx = registry.nextIdx /\ registry'.nextIdx = idx + 1
      /\ idx \in Nat /\ registry.nextIdx \in Nat
      /\ Known(registry, id) => idx \in 0 .. registry.nextIdx - 1
  BY ToolsFacts, RegisterSound, RegisterKeeps
<1>2. /\ Known(registry, id) => idx \in DOMAIN tools /\ View(idx) = tools[idx]
      /\ ~Known(registry, id) => idx \notin DOMAIN tools /\ View(idx) = EmptyView
  BY <1>1 DEF DenseInv, View
<1>3. /\ DOMAIN tools' = DOMAIN tools \cup {idx}
      /\ \A i \in DOMAIN tools \ {idx} : tools'[i] = tools[i]
      /\ tools'[idx] = [id   |-> IF shown = Blank THEN View(idx).id ELSE shown,
                       name |-> IF name = Blank THEN View(idx).name ELSE name,
                       args |-> View(idx).args \o args]
  BY DEF ApplyToolDelta
<1>4. DOMAIN tools' = 0 .. registry'.nextIdx - 1
  BY <1>1, <1>2, <1>3 DEF DenseInv
<1>5. View(idx) \in ToolViews
  BY ToolsFacts DEF View, EmptyView, ToolViews, Names
<1> QED
  BY <1>1, <1>2, <1>3, <1>4, <1>5

\* A delta for the last slot extends a slot the client has.
LEMMA LastTold ==
  ASSUME TypeOK, ToolsInv, DenseInv, NEW f \in Fragments,
         LastIndex(registry) # NoIndex,
         ApplyToolDelta(LastIndex(registry), Blank, Blank, <<f>>)
  PROVE  LET idx == LastIndex(registry) IN
         /\ idx \in DOMAIN tools
         /\ DOMAIN tools' = DOMAIN tools
         /\ \A i \in DOMAIN tools \ {idx} : tools'[i] = tools[i]
         /\ tools'[idx] = [id |-> tools[idx].id, name |-> tools[idx].name,
                          args |-> tools[idx].args \o <<f>>]
<1> DEFINE idx == LastIndex(registry)
<1>1. idx \in DOMAIN tools
  BY ToolsFacts, LastIndexIsSlot DEF DenseInv
<1>2. View(idx) = tools[idx]
  BY <1>1 DEF View
<1> QED
  BY <1>1, <1>2 DEF ApplyToolDelta

\* Every step keeps the client's slots the indexes given.
LEMMA DenseStep == TypeOK /\ ToolsInv /\ DenseInv /\ [Next]_vars => DenseInv'
<1> SUFFICES ASSUME TypeOK, ToolsInv, DenseInv, [Next]_vars PROVE DenseInv'
  OBVIOUS
<1>b. Blank \in Names /\ ToolIds \subseteq Names /\ \A f \in Fragments : <<f>> \in Seq(Fragments)
  BY DEF Names
<1>k. ASSUME UNCHANGED <<registry, tools>> PROVE DenseInv'
  BY <1>k DEF DenseInv
<1>1. CASE \E id \in ToolIds, name \in Names : name \in {id, Blank} /\ OnToolStart(id, name)
  <2>1. PICK id \in ToolIds, name \in Names : OnToolStart(id, name)
    BY <1>1
  <2> QED
    BY <2>1, <1>b, NoArgs, SlotTold DEF OnToolStart, ToolStart, DenseInv
<1>2. CASE \E f \in Fragments : OnToolDelta(f)
  <2>1. PICK f \in Fragments : OnToolDelta(f)
    BY <1>2
  <2>2. CASE LastIndex(registry) = NoIndex
    BY <2>1, <2>2, <1>k DEF OnToolDelta, sinkVars
  <2>3. CASE LastIndex(registry) # NoIndex
    BY <2>1, <2>3, LastTold DEF OnToolDelta, ToolArgs, DenseInv
  <2> QED
    BY <2>2, <2>3
<1>3. CASE \E id \in ToolIds, f \in Fragments : OnToolInputDelta(id, f)
  BY <1>3, <1>b, SlotTold DEF OnToolInputDelta, ToolArgs, DenseInv
<1>4. CASE \E id \in ToolIds, name \in Names, input \in Inputs :
              name \in {id, Blank} /\ OnToolCall(id, name, input)
  <2>1. PICK id \in ToolIds, name \in Names, input \in Inputs : OnToolCall(id, name, input)
    BY <1>4
  <2>2. CASE Known(registry, id)
    BY <2>1, <2>2, <1>k DEF OnToolCall, ToolCallEnrich, Register, sinkVars
  <2>3. CASE ~Known(registry, id)
    BY <2>1, <2>3, <1>b, InputsAreSequences, SlotTold DEF OnToolCall, ToolStart, DenseInv
  <2> QED
    BY <2>2, <2>3
<1>5. CASE \E ch \in Channels : OnSpeech(ch)
  BY <1>5, <1>k DEF OnSpeech, SpeechDelta
<1>6. CASE \E kind \in {"finish-step", "finish"}, why \in RawReasons, u \in BOOLEAN :
              OnFinish(kind, why, u)
  BY <1>6, <1>k DEF OnFinish, Finish, sinkVars
<1>7. CASE OnNextStep \/ OnError \/ OnEnd \/ OnCancel \/ OnAbort \/ OnReadError
  BY <1>7, <1>k DEF OnNextStep, OnError, OnEnd, ReachEnd, OnCancel, CancelRequest,
     OnAbort, AbortOnEvent, OnReadError, FailRead, assemblerVars, sinkVars
<1>8. CASE UNCHANGED vars
  BY <1>8, <1>k DEF vars, assemblerVars, sinkVars
<1> QED
  BY <1>1, <1>2, <1>3, <1>4, <1>5, <1>6, <1>7, <1>8 DEF Next

-------------------------------------------------------------------------------
(***************************************************************************)
(* When the role is announced.                                             *)
(***************************************************************************)

\* Steps that write nothing keep what is known of the role.
LEMMA RoleKept ==
  ASSUME RoleInv, deviated \subseteq deviated',
         UNCHANGED <<roles, sentRole, registry, tools, heard>>
  PROVE  RoleInv'
  BY DEF RoleInv, Survived

\* A chunk sent by emitWithRole announces the role unless an earlier one did.
LEMMA RoleSent == ASSUME RoleInv, EmitWithRole PROVE RoleInv'
  BY DEF RoleInv, EmitWithRole

\* Every step keeps the role announced once, and first.
LEMMA RoleStep == TypeOK /\ ToolsInv /\ RoleInv /\ [Next]_vars => RoleInv'
<1> SUFFICES ASSUME TypeOK, ToolsInv, RoleInv, [Next]_vars PROVE RoleInv'
  OBVIOUS
<1>0. deviated \subseteq deviated'
  BY DeviationsGrow
<1>p. /\ RegistryOK(registry)
      /\ \A id \in ToolIds : call[id] # "none" => Known(registry, id)
  BY ToolsInvParts
<1>a. ASSUME NEW id \in ToolIds, NEW f \in Fragments, SendFragment(id, f),
             UNCHANGED <<roles, sentRole>>
      PROVE  RoleInv'
  <2>1. Known(registry, id)
    BY <1>a, <1>p DEF SendFragment
  <2>2. ~Survived({"orphan"}) \/ sentRole
    BY <2>1 DEF RoleInv
  <2> QED
    BY <1>0, <1>a, <2>2 DEF RoleInv, Survived
<1>b. ASSUME NEW id, SendStray(id), UNCHANGED <<roles, sentRole>>
      PROVE  RoleInv'
  <2>1. "orphan" \in deviated'
    BY <1>b DEF SendStray, Deviate
  <2> QED
    BY <2>1, <1>b DEF RoleInv, Survived
<1>1. CASE \E ch \in Channels : OnSpeech(ch)
  BY <1>1, RoleSent DEF OnSpeech, SpeechDelta
<1>2. CASE \E id \in ToolIds, name \in Names : name \in {id, Blank} /\ OnToolStart(id, name)
  BY <1>2, RoleSent DEF OnToolStart, ToolStart
<1>3. CASE \E f \in Fragments : OnToolDelta(f)
  <2>1. PICK f \in Fragments : OnToolDelta(f)
    BY <1>3
  <2>2. UNCHANGED <<roles, sentRole>>
    BY <2>1 DEF OnToolDelta, ToolArgs, sinkVars
  <2>3. SendFragment(latest, f) => latest \in ToolIds
    BY DEF SendFragment
  <2> QED
    BY <2>1, <2>2, <2>3, <1>a, <1>b DEF OnToolDelta
<1>4. CASE \E id \in ToolIds, f \in Fragments : OnToolInputDelta(id, f)
  BY <1>4, <1>a, <1>b DEF OnToolInputDelta, ToolArgs
<1>5. CASE \E id \in ToolIds, name \in Names, input \in Inputs :
              name \in {id, Blank} /\ OnToolCall(id, name, input)
  <2>1. PICK id \in ToolIds, name \in Names, input \in Inputs : OnToolCall(id, name, input)
    BY <1>5
  <2>2. CASE Known(registry, id)
    <3>1. UNCHANGED <<registry, roles, sentRole, tools, heard>>
      BY <2>1, <2>2, <1>p, RegisterSound DEF OnToolCall, ToolCallEnrich, sinkVars
    <3> QED
      BY <3>1, <1>0, RoleKept
  <2>3. CASE ~Known(registry, id)
    BY <2>1, <2>3, RoleSent DEF OnToolCall, ToolStart
  <2> QED
    BY <2>2, <2>3
<1>6. CASE \E kind \in {"finish-step", "finish"}, why \in RawReasons, u \in BOOLEAN :
              OnFinish(kind, why, u)
  BY <1>6, <1>0, RoleKept DEF OnFinish, Finish, sinkVars
<1>7. CASE OnNextStep \/ OnError
  BY <1>7, <1>0, RoleKept DEF OnNextStep, OnError, sinkVars, assemblerVars
<1>8. CASE OnEnd
  BY <1>8, <1>0, RoleKept DEF OnEnd, ReachEnd, sinkVars
<1>9. CASE OnCancel \/ OnAbort \/ OnReadError
  BY <1>9, <1>0, RoleKept DEF OnCancel, CancelRequest, OnAbort, AbortOnEvent,
     OnReadError, FailRead, sinkVars
<1>10. CASE UNCHANGED vars
  BY <1>10, <1>0, RoleKept DEF vars, assemblerVars, sinkVars
<1> QED
  BY <1>1, <1>2, <1>3, <1>4, <1>5, <1>6, <1>7, <1>8, <1>9, <1>10 DEF Next

-------------------------------------------------------------------------------
(***************************************************************************)
(* The theorems.                                                           *)
(***************************************************************************)

\* The inductive invariant holds in every reachable state.
THEOREM Invariance == Spec => []IInv
<1>1. Init => IInv
  <2> SUFFICES ASSUME Init PROVE IInv
    OBVIOUS
  <2>1. FinishInv
    BY DEF Init, GatewayInit, AssemblerInit, FinishInv, Survived
  <2>2. RegistryOK(registry) /\ \A id \in ToolIds : ~Known(registry, id)
    BY NewRegistryOK DEF Init, AssemblerInit, NewRegistry, Known
  <2>3. RoleInv
    BY <2>2 DEF Init, RoleInv
  <2>4. ToolsInv
    <3>1. DOMAIN tools = {} /\ registry.nextIdx = 0
      BY DEF Init, AssemblerInit, NewRegistry
    <3>2. /\ \A id \in ToolIds : call[id] = "none"
          /\ \A id \in ToolIds : meant[id] = [name |-> Blank, args |-> <<>>]
          /\ latest = Blank
      BY DEF Init, GatewayInit
    <3> QED
      BY <2>2, <3>1, <3>2 DEF ToolsInv, SlotsKeepTheirId
  <2>5. DenseInv
    <3>1. DOMAIN tools = {} /\ registry.nextIdx = 0
      BY DEF Init, AssemblerInit, NewRegistry
    <3> QED
      BY <3>1 DEF DenseInv
  <2> QED
    BY <2>1, <2>3, <2>4, <2>5, InitType DEF IInv
<1>2. IInv /\ [Next]_vars => IInv'
  BY NextType, FinishStep, RoleStep, ToolsStep, DenseStep DEF IInv
<1> QED
  BY <1>1, <1>2, PTL DEF Spec

\* Every variable keeps its type.
THEOREM TypeCorrectness == Spec => []TypeOK
<1>1. IInv => TypeOK
  BY DEF IInv
<1> QED
  BY <1>1, Invariance, PTL

\* At most one [DONE] reaches the client, and one does once upstream has sent
\* its finish event, whatever deviations happen.
THEOREM DoneOnce == Spec => []FinishedOnce
<1>1. IInv => FinishedOnce
  BY DEF IInv, FinishInv, FinishedOnce
<1> QED
  BY <1>1, Invariance, PTL

\* A properly ended stream ends with upstream's reason, usage and every delta.
THEOREM FaithfulEnd == Spec => []EndsFaithfully
<1>1. IInv => EndsFaithfully
  <2> SUFFICES ASSUME IInv, run = "finalized", Survived({"multistep", "cut", "error"})
               PROVE  reason = Normalize(verdict) /\ usage = usageSent /\ heard = spoken
    BY DEF EndsFaithfully
  <2>1. Survived({"multistep"}) /\ Survived({"cut", "error"})
    BY DEF Survived
  <2>2. finishSeen
    BY <2>1 DEF IInv, FinishInv
  <2> QED
    BY <2>1, <2>2 DEF IInv, FinishInv
<1> QED
  BY <1>1, Invariance, PTL

\* Slots and ids never mix, whatever deviations happen.
THEOREM SlotIdentity == Spec => []SlotsKeepTheirId
<1>1. IInv => SlotsKeepTheirId
  BY DEF IInv, ToolsInv
<1> QED
  BY <1>1, Invariance, PTL

\* The client's slots are upstream's calls, for any number of calls and
\* fragments and however their events interleave.
THEOREM FaithfulTools == Spec => []ToolsFaithful
<1>1. IInv => ToolsFaithful
  <2> SUFFICES ASSUME IInv, Clean
               PROVE  /\ DOMAIN tools = {Lookup(registry, id) : id \in {i \in ToolIds : call[i] # "none"}}
                      /\ \A id \in ToolIds : call[id] # "none" =>
                            tools[Lookup(registry, id)] =
                               [id |-> id, name |-> meant[id].name, args |-> meant[id].args]
    BY DEF ToolsFaithful, Clean
  <2>1. Mirror /\ RegistryOK(registry) /\ DOMAIN tools \subseteq 0 .. registry.nextIdx - 1
    BY ToolsInvParts DEF IInv
  <2>2. ASSUME NEW k \in DOMAIN tools
        PROVE  \E id \in ToolIds : call[id] # "none" /\ Lookup(registry, id) = k
    <3>1. PICK id \in ToolIds : Lookup(registry, id) = k
      BY <2>1, <2>2 DEF RegistryOK, SlotsDense
    <3>2. Known(registry, id)
      <4>1. k \in Nat
        BY <2>2 DEF IInv, TypeOK
      <4> QED
        BY <3>1, <4>1 DEF Known, Lookup, NoIndex
    <3> QED
      BY <3>1, <3>2, <2>1 DEF Mirror
  <2>3. \A id \in ToolIds : call[id] # "none" => Lookup(registry, id) \in DOMAIN tools
    BY <2>1 DEF Mirror
  <2>4. DOMAIN tools = {Lookup(registry, id) : id \in {i \in ToolIds : call[i] # "none"}}
    BY <2>2, <2>3
  <2> QED
    BY <2>1, <2>4 DEF Mirror
<1> QED
  BY <1>1, Invariance, PTL

\* The role goes out once, and first unless an orphan was promoted.
THEOREM RoleOnce == Spec => []RoleAnnouncedOnce
<1>1. IInv => RoleAnnouncedOnce
  <2> SUFFICES ASSUME IInv PROVE RoleAnnouncedOnce
    OBVIOUS
  <2>1. roles \in {0, 1} /\ (sentRole => roles = 1)
    BY DEF IInv, TypeOK, RoleInv
  <2>2. Survived({"orphan"}) /\ ~sentRole =>
           DOMAIN tools = {} /\ \A ch \in Channels : heard[ch] = 0
    BY DEF IInv, RoleInv
  <2> QED
    BY <2>1, <2>2 DEF RoleAnnouncedOnce
<1> QED
  BY <1>1, Invariance, PTL

\* Nothing is written after [DONE] unless upstream starts another step.
THEOREM SilenceAfterDone == Spec => SilentAfterDone
<1> DEFINE Silent == done > 0 /\ "multistep" \notin deviated' => UNCHANGED clientVars
<1>1. IInv /\ [Next]_vars => [Silent]_vars
  <2> SUFFICES ASSUME IInv, Next, done > 0, "multistep" \notin deviated'
               PROVE  UNCHANGED clientVars
    BY DEF vars, sinkVars, clientVars
  <2>1. deviated \subseteq deviated'
    BY DeviationsGrow
  <2>2. finishSeen
    <3>1. done = IF finishSeen THEN 1 ELSE 0
      BY DEF IInv, FinishInv
    <3> QED
      BY <3>1
  <2>3. stage # "step"
    BY <2>1, <2>2 DEF IInv, FinishInv, Survived
  <2>4. /\ \A ch \in Channels : ~OnSpeech(ch)
        /\ \A id \in ToolIds, name \in Names : ~OnToolStart(id, name)
        /\ \A f \in Fragments : ~OnToolDelta(f)
        /\ \A id \in ToolIds, f \in Fragments : ~OnToolInputDelta(id, f)
        /\ \A id \in ToolIds, name \in Names, input \in Inputs : ~OnToolCall(id, name, input)
    BY <2>3 DEF OnSpeech, SendSpeech, OnToolStart, SendToolStart, OnToolDelta,
       SendFragment, SendStray, OnToolInputDelta, OnToolCall, SendToolCall
  <2>5. ASSUME NEW kind, NEW why, NEW u, OnFinish(kind, why, u)
        PROVE  UNCHANGED clientVars
    BY <2>2, <2>5 DEF OnFinish, FinishPasses, sinkVars, clientVars
  <2>6. CASE OnNextStep \/ OnError \/ OnEnd \/ OnCancel \/ OnAbort \/ OnReadError
    BY <2>6 DEF OnNextStep, OnError, OnEnd, OnCancel, OnAbort, OnReadError,
       sinkVars, clientVars
  <2> QED
    BY <2>4, <2>5, <2>6 DEF Next
<1> QED
  BY <1>1, Invariance, PTL DEF Spec, SilentAfterDone

-------------------------------------------------------------------------------
(***************************************************************************)
(* The stream is one that ChunkProtocol admits.                            *)
(***************************************************************************)

\* What a step that writes a piece of content may rely on: the lapses so far
\* stay, [DONE] has gone out only if there was a further step, and the role
\* only has not if there was an orphan.
LEMMA ChunkFacts ==
  ASSUME IInv, IInv', [Next]_vars
  PROVE  /\ deviated \cap {"orphan", "multistep"} \subseteq deviated' \cap {"orphan", "multistep"}
         /\ stage = "step" /\ done > 0 => "multistep" \in deviated'
         /\ EmitWithRole => roles' = 1
         /\ \A id \in ToolIds : Known(registry, id) /\ roles = 0 => "orphan" \in deviated'
<1>1. deviated \subseteq deviated'
  BY DeviationsGrow
<1>2. stage = "step" /\ done > 0 => "multistep" \in deviated
  BY DEF IInv, FinishInv, Survived
<1>3. EmitWithRole => roles' = 1
  BY DEF IInv, RoleInv, EmitWithRole
<1>4. \A id \in ToolIds : Known(registry, id) /\ roles = 0 => "orphan" \in deviated
  BY DEF IInv, RoleInv, Survived
<1> QED
  BY <1>1, <1>2, <1>3, <1>4

\* No slot but its own shows an id.
LEMMA IdsApart ==
  ASSUME IInv, NEW id \in ToolIds, NEW i \in DOMAIN tools, tools[i].id = id
  PROVE  Known(registry, id) /\ Lookup(registry, id) = i
  BY BlankIsNoTool DEF IInv, ToolsInv, SlotsKeepTheirId

\* A slot that has an id has the one it was registered for.
LEMMA IdsStay ==
  ASSUME IInv, NEW id \in ToolIds, Known(registry, id),
         Lookup(registry, id) \in DOMAIN tools
  PROVE  tools[Lookup(registry, id)].id \in {id, Blank}
<1> DEFINE shown == tools[Lookup(registry, id)].id
<1> SUFFICES ASSUME shown # Blank PROVE shown = id
  OBVIOUS
<1>1. shown \in ToolIds
  BY DEF IInv, TypeOK, ToolViews, Names
<1>2. Known(registry, shown) /\ Lookup(registry, shown) = Lookup(registry, id)
  BY DEF IInv, ToolsInv, SlotsKeepTheirId
<1> QED
  BY <1>1, <1>2 DEF IInv, ToolsInv, RegistryOK, SlotsDistinct

\* A start chunk for a new id opens a call; for an id with a slot it restates
\* the call there.
LEMMA StartIsLegal ==
  ASSUME IInv, IInv', [Next]_vars, stage = "step",
         NEW id \in ToolIds, NEW name \in {id, Blank}, NEW args \in Seq(Fragments),
         registry' = Register(registry, id),
         ToolStart(Lookup(registry', id), id, name, args),
         Known(registry, id) => args = <<>>
  PROVE  Chunks!OpenCall \/ \E index \in Chunks!Indexes : Chunks!Restate(index)
<1> DEFINE idx == Lookup(registry', id)
<1>b. id \in Names /\ name \in Names /\ id # Blank
  BY BlankIsNoTool DEF Names
<1>1. /\ Known(registry, id) => /\ registry' = registry
                                /\ idx \in DOMAIN tools /\ View(idx) = tools[idx]
      /\ ~Known(registry, id) => /\ idx = registry.nextIdx
                                 /\ registry'.nextIdx = idx + 1
                                 /\ View(idx) = EmptyView
      /\ View(idx) \in ToolViews
      /\ DOMAIN tools' = 0 .. registry'.nextIdx - 1
      /\ \A i \in DOMAIN tools \ {idx} : tools'[i] = tools[i]
      /\ tools'[idx] = [id |-> id, name |-> IF name = Blank THEN View(idx).name ELSE name,
                       args |-> View(idx).args \o args]
  BY <1>b, SlotTold DEF IInv, ToolStart
<1>2. DOMAIN tools = 0 .. registry.nextIdx - 1 /\ registry.nextIdx \in Nat
  BY ToolsFacts DEF IInv, DenseInv
<1>3. Chunks!MayWrite /\ roles' = 1 /\ UNCHANGED <<heard, reason, usage, done>>
  BY ChunkFacts DEF ToolStart, Chunks!MayWrite
<1>4. CASE ~Known(registry, id)
  <2>1. idx = registry.nextIdx /\ registry'.nextIdx = registry.nextIdx + 1
        /\ DOMAIN tools' = 0 .. registry.nextIdx
    BY <1>1, <1>2, <1>4
  <2>2. \A i \in DOMAIN tools \ {idx} : tools[i].id # id
    BY <1>4, IdsApart
  <2>3. tools'[idx] \in [id: ToolIds, name: Names, args: Seq(Fragments)] /\ tools'[idx].id = id
    BY <1>1, <1>b DEF ToolViews
  <2> QED
    BY <1>1, <1>2, <1>3, <2>1, <2>2, <2>3
       DEF Chunks!OpenCall, Chunks!OthersKept, Chunks!OnlyAt, Chunks!Indexes,
           Chunks!endVars, Chunks!Names, Names
<1>5. CASE Known(registry, id)
  <2>1. registry' = registry /\ idx = Lookup(registry, id) /\ idx \in DOMAIN tools
        /\ DOMAIN tools' = DOMAIN tools
    BY <1>1, <1>2, <1>5
  <2>2. \A i \in DOMAIN tools \ {idx} : tools[i].id # id
    BY <2>1, IdsApart
  <2>3. tools[idx].id \in {id, Blank}
    BY <1>5, <2>1, IdsStay
  <2>4. tools[idx].args \o args = tools[idx].args
    <3>1. tools[idx].args \in Seq(Fragments) /\ args = <<>>
      BY <1>1, <1>5, <2>1 DEF ToolViews
    <3> QED
      BY <3>1
  <2>5. /\ tools'[idx] \in [id: ToolIds, name: ToolIds \cup {tools[idx].name},
                            args: {tools[idx].args}]
        /\ tools'[idx].id = id
    BY <1>1, <1>5, <2>1, <2>4
  <2>6. idx \in Chunks!Indexes /\ Chunks!Indexes = DOMAIN tools
    BY <1>2, <2>1 DEF Chunks!Indexes
  <2>7. Chunks!Restate(idx)
    BY <1>1, <1>3, <2>1, <2>2, <2>3, <2>5, <2>6
       DEF Chunks!Restate, Chunks!OthersKept, Chunks!OnlyAt, Chunks!endVars
  <2> QED
    BY <2>6, <2>7
<1> QED
  BY <1>4, <1>5

\* A piece added to a slot the client has continues its call.
LEMMA ContinueIsLegal ==
  ASSUME IInv, IInv', [Next]_vars, stage = "step", NEW f \in Fragments,
         NEW idx \in DOMAIN tools, registry' = registry,
         DOMAIN tools' = DOMAIN tools,
         \A i \in DOMAIN tools \ {idx} : tools'[i] = tools[i],
         tools'[idx] = [id |-> tools[idx].id, name |-> tools[idx].name,
                        args |-> tools[idx].args \o <<f>>],
         UNCHANGED <<heard, roles, reason, usage, done>>
  PROVE  \E index \in Chunks!Indexes : Chunks!Continue(index)
<1>1. Chunks!MayWrite
  BY ChunkFacts DEF Chunks!MayWrite
<1>2. idx \in Chunks!Indexes /\ Chunks!Indexes = DOMAIN tools
  BY DEF IInv, DenseInv, Chunks!Indexes
<1>3. Chunks!RoleKnown
  <2>1. \E id \in ToolIds : Known(registry, id)
    <3>1. PICK id \in ToolIds : Lookup(registry, id) = idx
      BY DEF IInv, ToolsInv, RegistryOK, SlotsDense
    <3>2. idx \in Nat
      BY DEF IInv, TypeOK
    <3> QED
      BY <3>1, <3>2 DEF Known, Lookup, NoIndex
  <2> QED
    BY <2>1, ChunkFacts DEF Chunks!RoleKnown
<1>4. tools[idx] \in ToolViews
  BY DEF IInv, TypeOK
<1>5. tools[idx].args \o <<f>> = Append(tools[idx].args, f)
  <2>1. tools[idx].args \in Seq(Fragments)
    BY <1>4 DEF ToolViews
  <2> QED
    BY <2>1
<1>6. Chunks!Continue(idx)
  BY <1>1, <1>2, <1>3, <1>5 DEF Chunks!Continue, Chunks!OthersKept, Chunks!endVars
<1> QED
  BY <1>2, <1>6

\* Whatever upstream sends, every step writes what ChunkProtocol admits there,
\* or nothing.
THEOREM LegalChunks == Spec => ChunksLegal
<1>1. Init => Chunks!ProtocolInit
  <2> SUFFICES ASSUME Init PROVE Chunks!ProtocolInit
    OBVIOUS
  <2>1. /\ DOMAIN tools = {} /\ registry.nextIdx = 0 /\ deviated = {}
        /\ \A ch \in DOMAIN heard : heard[ch] = 0
        /\ done = 0 /\ roles = 0 /\ reason = "" /\ usage = FALSE
    BY DEF Init, GatewayInit, AssemblerInit, NewRegistry
  <2> QED
    BY <2>1 DEF Chunks!ProtocolInit
<1>2. IInv /\ IInv' /\ [Next]_vars => [Chunks!ProtocolNext]_(Chunks!protocolVars)
  <2> SUFFICES ASSUME IInv, IInv', [Next]_vars
               PROVE  [Chunks!ProtocolNext]_(Chunks!protocolVars)
    OBVIOUS
  <2>k. ASSUME UNCHANGED <<registry, tools, heard, roles, reason, usage, done>>
        PROVE  Chunks!ProtocolNext
    <3>1. Chunks!Lapse
      BY <2>k, ChunkFacts DEF Chunks!Lapse, Chunks!endVars
    <3> QED
      BY <3>1 DEF Chunks!ProtocolNext
  <2>1. CASE \E ch \in Channels : OnSpeech(ch)
    <3>1. PICK ch \in Channels : OnSpeech(ch)
      BY <2>1
    <3>2. DOMAIN heard = Channels
      BY DEF IInv, TypeOK
    <3>3. Chunks!MayWrite /\ roles' = 1
      BY <3>1, ChunkFacts DEF OnSpeech, SendSpeech, SpeechDelta, Chunks!MayWrite
    <3>4. Chunks!Speak(ch)
      BY <3>1, <3>3 DEF OnSpeech, SpeechDelta, Chunks!Speak, Chunks!endVars
    <3> QED
      BY <3>2, <3>4 DEF Chunks!ProtocolNext
  <2>2. CASE \E id \in ToolIds, name \in Names : name \in {id, Blank} /\ OnToolStart(id, name)
    <3>1. PICK id \in ToolIds, name \in Names : name \in {id, Blank} /\ OnToolStart(id, name)
      BY <2>2
    <3> QED
      BY <3>1, NoArgs, StartIsLegal DEF OnToolStart, SendToolStart, Chunks!ProtocolNext
  <2>3. CASE \E f \in Fragments : OnToolDelta(f)
    <3>1. PICK f \in Fragments : OnToolDelta(f)
      BY <2>3
    <3>2. registry' = registry /\ stage = "step"
      BY <3>1 DEF OnToolDelta, SendFragment, SendStray
    <3>3. CASE LastIndex(registry) = NoIndex
      BY <3>1, <3>2, <3>3, <2>k DEF OnToolDelta, sinkVars
    <3>4. CASE LastIndex(registry) # NoIndex
      <4>1. ToolArgs(LastIndex(registry), <<f>>)
        BY <3>1, <3>4 DEF OnToolDelta
      <4>2. \E index \in Chunks!Indexes : Chunks!Continue(index)
        BY <3>2, <3>4, <4>1, LastTold, ContinueIsLegal DEF ToolArgs, IInv
      <4> QED
        BY <4>2 DEF Chunks!ProtocolNext
    <3> QED
      BY <3>3, <3>4
  <2>4. CASE \E id \in ToolIds, f \in Fragments : OnToolInputDelta(id, f)
    <3>1. PICK id \in ToolIds, f \in Fragments : OnToolInputDelta(id, f)
      BY <2>4
    <3> DEFINE idx == Lookup(registry', id)
    <3>2. /\ registry' = Register(registry, id) /\ stage = "step"
          /\ ApplyToolDelta(idx, Blank, Blank, <<f>>)
          /\ UNCHANGED <<heard, roles, reason, usage, done>>
      BY <3>1 DEF OnToolInputDelta, SendFragment, SendStray, ToolArgs
    <3>b. Blank \in Names /\ <<f>> \in Seq(Fragments)
      BY DEF Names
    <3>3. /\ Known(registry, id) => /\ registry' = registry
                                    /\ idx \in DOMAIN tools /\ View(idx) = tools[idx]
          /\ ~Known(registry, id) => /\ idx = registry.nextIdx
                                     /\ registry'.nextIdx = idx + 1
                                     /\ View(idx) = EmptyView
          /\ DOMAIN tools' = 0 .. registry'.nextIdx - 1
          /\ \A i \in DOMAIN tools \ {idx} : tools'[i] = tools[i]
          /\ tools'[idx] = [id |-> View(idx).id, name |-> View(idx).name,
                           args |-> View(idx).args \o <<f>>]
      BY <3>2, <3>b, SlotTold DEF IInv
    <3>4. DOMAIN tools = 0 .. registry.nextIdx - 1 /\ registry.nextIdx \in Nat
      BY ToolsFacts DEF IInv, DenseInv
    <3>5. CASE Known(registry, id)
      <4>1. \E index \in Chunks!Indexes : Chunks!Continue(index)
        BY <3>2, <3>3, <3>4, <3>5, ContinueIsLegal
      <4> QED
        BY <4>1 DEF Chunks!ProtocolNext
    <3>6. CASE ~Known(registry, id)
      <4>1. "orphan" \in deviated'
        BY <3>1, <3>6 DEF OnToolInputDelta, SendFragment, SendStray, Deviate, IInv, ToolsInv
      <4>2. tools'[idx] = [id |-> Blank, name |-> Blank, args |-> <<f>>]
        BY <3>3, <3>6 DEF EmptyView
      <4>3. Chunks!MayWrite /\ Chunks!RoleKnown
        BY <3>2, <4>1, ChunkFacts DEF Chunks!MayWrite, Chunks!RoleKnown
      <4>4. idx = registry.nextIdx /\ registry'.nextIdx = registry.nextIdx + 1
            /\ DOMAIN tools' = 0 .. registry.nextIdx
        BY <3>3, <3>4, <3>6
      <4>5. Chunks!OpenOrphan
        BY <3>2, <3>3, <3>4, <4>1, <4>2, <4>3, <4>4
           DEF Chunks!OpenOrphan, Chunks!OthersKept, Chunks!Indexes, Chunks!endVars
      <4> QED
        BY <4>5 DEF Chunks!ProtocolNext
    <3> QED
      BY <3>5, <3>6
  <2>5. CASE \E id \in ToolIds, name \in Names, input \in Inputs :
                name \in {id, Blank} /\ OnToolCall(id, name, input)
    <3>1. PICK id \in ToolIds, name \in Names, input \in Inputs :
                  name \in {id, Blank} /\ OnToolCall(id, name, input)
      BY <2>5
    <3>2. CASE Known(registry, id)
      BY <3>1, <3>2, <2>k DEF OnToolCall, ToolCallEnrich, Register, sinkVars
    <3>3. CASE ~Known(registry, id)
      BY <3>1, <3>3, InputsAreSequences, StartIsLegal
         DEF OnToolCall, SendToolCall, Chunks!ProtocolNext
    <3> QED
      BY <3>2, <3>3
  <2>6. CASE \E kind \in {"finish-step", "finish"}, why \in RawReasons, u \in BOOLEAN :
                OnFinish(kind, why, u)
    <3>1. PICK kind \in {"finish-step", "finish"}, why \in RawReasons, u \in BOOLEAN :
                  OnFinish(kind, why, u)
      BY <2>6
    <3>2. CASE FinishPasses(kind, u, finishSeen)
      <4>1. Finish(Normalize(why), u) /\ ~finishSeen /\ registry' = registry /\ deviated' = deviated
        BY <3>1, <3>2 DEF OnFinish, FinishPasses, SendFinish
      <4>2. done = 0
        BY <4>1 DEF IInv, FinishInv
      <4>3. done = 0 /\ done' = 1
        BY <4>1, <4>2 DEF Finish
      <4>4. reason' # ""
        BY <4>1, NormalizeType DEF Finish, OpenAIReasons
      <4>5. Chunks!End
        BY <4>1, <4>3, <4>4 DEF Finish, Chunks!End
      <4> QED
        BY <4>5 DEF Chunks!ProtocolNext
    <3>3. CASE ~FinishPasses(kind, u, finishSeen)
      BY <3>1, <3>3, <2>k DEF OnFinish, sinkVars
    <3> QED
      BY <3>2, <3>3
  <2>7. CASE OnNextStep \/ OnError \/ OnEnd \/ OnCancel \/ OnAbort \/ OnReadError
    BY <2>7, <2>k DEF OnNextStep, OnError, OnEnd, ReachEnd, OnCancel, CancelRequest,
       OnAbort, AbortOnEvent, OnReadError, FailRead, assemblerVars, sinkVars
  <2>8. CASE UNCHANGED vars
    BY <2>8, <2>k DEF vars, assemblerVars, sinkVars
  <2> QED
    BY <2>1, <2>2, <2>3, <2>4, <2>5, <2>6, <2>7, <2>8 DEF Next
<1> QED
  BY <1>1, <1>2, Invariance, PTL DEF Spec, ChunksLegal, Chunks!Protocol
===============================================================================
