------------------------- MODULE FinalAssembler_proofs -------------------------
(***************************************************************************)
(* Theorems of FinalAssembler for any set of tool ids and fragments, any   *)
(* finish reasons, any bounds and any set of admitted deviations.          *)
(***************************************************************************)
EXTENDS FinalAssembler, ResponseAssembler_proofs

\* A slot whose record is replaced: the collection keeps its type and length,
\* and the other slots their records.
LEMMA SlotReplaced ==
  ASSUME toolCalls \in Seq(ToolCallRecords), NEW idx, HasSlot(idx), idx \in Int,
         NEW rec \in ToolCallRecords,
         toolCalls' = [toolCalls EXCEPT ![idx + 1] = rec]
  PROVE  /\ toolCalls' \in Seq(ToolCallRecords)
         /\ Len(toolCalls') = Len(toolCalls)
         /\ toolCalls'[idx + 1] = rec
         /\ \A i \in 1 .. Len(toolCalls) : i # idx + 1 => toolCalls'[i] = toolCalls[i]
<1>1. idx + 1 \in 1 .. Len(toolCalls)
  BY DEF HasSlot
<1> QED
  BY <1>1

\* A record put at the end of the collection.
LEMMA SlotAppended ==
  ASSUME toolCalls \in Seq(ToolCallRecords), NEW rec \in ToolCallRecords,
         toolCalls' = Append(toolCalls, rec)
  PROVE  /\ toolCalls' \in Seq(ToolCallRecords)
         /\ Len(toolCalls') = Len(toolCalls) + 1
         /\ toolCalls'[Len(toolCalls) + 1] = rec
         /\ \A i \in 1 .. Len(toolCalls) : toolCalls'[i] = toolCalls[i]
         /\ toolCalls' # <<>>
  OBVIOUS

\* The record of a slot that exists.
LEMMA SlotType ==
  ASSUME toolCalls \in Seq(ToolCallRecords), NEW idx \in Int, HasSlot(idx)
  PROVE  /\ toolCalls[idx + 1] \in ToolCallRecords
         /\ toolCalls[idx + 1].id \in Names /\ toolCalls[idx + 1].name \in Names
         /\ toolCalls[idx + 1].args \in Seq(Fragments)
<1>1. idx + 1 \in 1 .. Len(toolCalls)
  BY DEF HasSlot
<1>2. toolCalls[idx + 1] \in ToolCallRecords
  BY <1>1
<1> QED
  BY <1>2 DEF ToolCallRecords

\* What a fragment, and a whole call, make of the slot they are for.
LEMMA ArgsSound ==
  ASSUME toolCalls \in Seq(ToolCallRecords), NEW idx \in Int,
         NEW args \in Seq(Fragments), ToolArgs(idx, args)
  PROVE  /\ toolCalls' \in Seq(ToolCallRecords)
         /\ Len(toolCalls') = Len(toolCalls)
         /\ \A i \in 1 .. Len(toolCalls) : i # idx + 1 => toolCalls'[i] = toolCalls[i]
         /\ HasSlot(idx) => toolCalls'[idx + 1] = Extend(toolCalls[idx + 1], args)
<1>1. CASE HasSlot(idx)
  <2>1. Extend(toolCalls[idx + 1], args) \in ToolCallRecords
    BY <1>1, SlotType DEF Extend, ToolCallRecords
  <2>2. toolCalls' = [toolCalls EXCEPT ![idx + 1] = Extend(toolCalls[idx + 1], args)]
    BY <1>1 DEF ToolArgs
  <2> QED
    BY <1>1, <2>1, <2>2, SlotReplaced
<1>2. CASE ~HasSlot(idx)
  BY <1>2 DEF ToolArgs
<1> QED
  BY <1>1, <1>2

LEMMA EnrichSound ==
  ASSUME toolCalls \in Seq(ToolCallRecords), NEW idx \in Int, NEW name \in Names,
         NEW args \in Seq(Fragments), ToolCallEnrich(idx, name, args)
  PROVE  /\ toolCalls' \in Seq(ToolCallRecords)
         /\ Len(toolCalls') = Len(toolCalls)
         /\ \A i \in 1 .. Len(toolCalls) : i # idx + 1 => toolCalls'[i] = toolCalls[i]
         /\ HasSlot(idx) =>
               toolCalls'[idx + 1] =
                  [id   |-> toolCalls[idx + 1].id,
                   name |-> IF name = Blank THEN toolCalls[idx + 1].name ELSE name,
                   args |-> IF args = <<>> THEN toolCalls[idx + 1].args ELSE args]
<1>1. CASE HasSlot(idx)
  <2> DEFINE rec == [id   |-> toolCalls[idx + 1].id,
                     name |-> IF name = Blank THEN toolCalls[idx + 1].name ELSE name,
                     args |-> IF args = <<>> THEN toolCalls[idx + 1].args ELSE args]
  <2>1. rec \in ToolCallRecords
    BY <1>1, SlotType DEF ToolCallRecords
  <2>2. toolCalls' = [toolCalls EXCEPT ![idx + 1] = rec]
    BY <1>1 DEF ToolCallEnrich
  <2> QED
    BY <1>1, <2>1, <2>2, SlotReplaced
<1>2. CASE ~HasSlot(idx)
  BY <1>2 DEF ToolCallEnrich
<1> QED
  BY <1>1, <1>2

-------------------------------------------------------------------------------
(***************************************************************************)
(* Type correctness.                                                       *)
(***************************************************************************)

\* Every step of Next is a line of the gateway, as far as the gateway goes.
LEMMA StepIsLine == ASSUME [Next]_vars PROVE GatewayLine
<1>1. CASE \E ch \in Channels : OnSpeech(ch)
  BY <1>1 DEF OnSpeech, GatewayLine
<1>2. CASE \E id \in ToolIds, name \in Names : name \in {id, Blank} /\ OnToolStart(id, name)
  BY <1>2 DEF OnToolStart, GatewayLine
<1>3. CASE \E f \in Fragments : OnToolDelta(f)
  <2>1. PICK f \in Fragments : OnToolDelta(f)
    BY <1>3
  <2>2. SendFragment(latest, f) => latest \in Names
    BY DEF SendFragment, Names
  <2>3. Blank \in Names
    BY DEF Names
  <2> QED
    BY <2>1, <2>2, <2>3 DEF OnToolDelta, GatewayLine
<1>4. CASE \E id \in ToolIds, f \in Fragments : OnToolInputDelta(id, f)
  BY <1>4 DEF OnToolInputDelta, GatewayLine, Names
<1>5. CASE \E id \in ToolIds, name \in Names, input \in Inputs :
              name \in {id, Blank} /\ OnToolCall(id, name, input)
  BY <1>5 DEF OnToolCall, GatewayLine
<1>6. CASE \E kind \in {"finish-step", "finish"}, why \in RawReasons, u \in BOOLEAN :
              OnFinish(kind, why, u)
  BY <1>6 DEF OnFinish, GatewayLine
<1>7. CASE OnNextStep \/ OnError \/ OnEnd
  BY <1>7 DEF OnNextStep, OnError, OnEnd, ReachEnd, GatewayLine
<1>8. CASE OnCancel \/ OnAbort \/ OnReadError \/ UNCHANGED vars
  BY <1>8 DEF OnCancel, CancelRequest, OnAbort, AbortOnEvent, OnReadError,
              FailRead, vars, GatewayLine
<1> QED
  BY <1>1, <1>2, <1>3, <1>4, <1>5, <1>6, <1>7, <1>8 DEF Next

\* Deviations are only ever added.
LEMMA DeviationsGrow == ASSUME [Next]_vars PROVE deviated \subseteq deviated'
<1>1. GatewayLine
  BY StepIsLine
<1> QED
  BY <1>1 DEF GatewayLine, SendSpeech, SendToolStart, SendFragment, SendStray,
     SendToolCall, SendNextStep, SendFinish, SendError, EndStream, Deviate, gatewayVars

\* What the sink holds, and what finalize makes of it, is well typed.
SinkOK == /\ content \in Nat /\ reasoning \in Nat
          /\ toolCalls \in Seq(ToolCallRecords) /\ hasToolCalls \in BOOLEAN
          /\ finishReason \in OpenAIReasons \cup {""} /\ usage \in BOOLEAN

LEMMA OutcomeType == ASSUME SinkOK PROVE Outcome \in Bodies
<1>1. ReportedReason \in OpenAIReasons
  BY DEF SinkOK, ReportedReason, OpenAIReasons
<1>2. <<>> \in Seq(ToolCallRecords)
  OBVIOUS
<1> QED
  BY <1>1, <1>2 DEF SinkOK, Outcome, Bodies

\* The initial state is well typed.
LEMMA InitType == Init => TypeOK
<1> SUFFICES ASSUME Init PROVE TypeOK
  OBVIOUS
<1>1. GatewayTypeOK /\ AssemblerTypeOK
  BY SharedInitType DEF Init
<1>3. <<>> \in Seq(ToolCallRecords)
  OBVIOUS
<1>2. toolCalls \in Seq(ToolCallRecords)
  BY <1>3 DEF Init
<1> QED
  BY <1>1, <1>2 DEF Init, TypeOK

\* Every step keeps the state well typed.
LEMMA NextType == TypeOK /\ [Next]_vars => TypeOK'
<1> SUFFICES ASSUME TypeOK, [Next]_vars PROVE TypeOK'
  OBVIOUS
<1>g. GatewayTypeOK'
  BY StepIsLine, GatewayType DEF TypeOK
<1>a. /\ registry \in Registries /\ finishSeen \in BOOLEAN
      /\ run \in {"scanning", "finalized", "failed", "cancelled"}
      /\ ctxDone \in BOOLEAN
  BY DEF TypeOK, AssemblerTypeOK
<1>s. /\ SinkOK /\ body \in Bodies \cup {NoBody}
      /\ toolCalls \in Seq(ToolCallRecords)
  BY DEF TypeOK, SinkOK
<1> DEFINE Shared == AssemblerTypeOK'
           Body == body' \in Bodies \cup {NoBody}
<1> SUFFICES Shared /\ SinkOK' /\ Body
  BY <1>g DEF TypeOK, SinkOK
<1>k. ASSUME UNCHANGED sinkVars PROVE SinkOK'
  BY <1>k, <1>s DEF sinkVars, SinkOK
<1>b. ASSUME UNCHANGED body PROVE Body
  BY <1>b, <1>s
<1>r. ASSUME NEW id \in ToolIds, registry' = Register(registry, id), KeepFilter
      PROVE  Shared
  BY <1>r, <1>a, RegisterType DEF KeepFilter, AssemblerTypeOK
<1>c. ASSUME UNCHANGED <<registry, finishSeen, run, ctxDone>> PROVE Shared
  BY <1>c, <1>a DEF AssemblerTypeOK
<1>u. ASSUME NEW idx, NEW id \in Names, NEW name \in Names,
             NEW args \in Seq(Fragments), ToolStart(idx, id, name, args)
      PROVE  SinkOK'
  <2>1. [id |-> id, name |-> name, args |-> args] \in ToolCallRecords
    BY DEF ToolCallRecords
  <2>2. toolCalls' \in Seq(ToolCallRecords)
    BY <1>u, <1>s, <2>1, SlotAppended DEF ToolStart
  <2> QED
    BY <1>u, <1>s, <2>2 DEF ToolStart, SinkOK
<1>v. ASSUME NEW idx \in Int, NEW args \in Seq(Fragments), ToolArgs(idx, args)
      PROVE  SinkOK'
  <2>1. toolCalls' \in Seq(ToolCallRecords)
    BY <1>v, <1>s, ArgsSound
  <2> QED
    BY <1>v, <1>s, <2>1 DEF ToolArgs, SinkOK
<1>n. \A f \in Fragments : <<f>> \in Seq(Fragments)
  OBVIOUS
<1>l. \A id \in ToolIds : Lookup(registry, id) \in Int
  BY <1>a DEF Lookup, Registries, NoIndex
<1>1. CASE \E ch \in Channels : OnSpeech(ch)
  <2>2. content \in Nat /\ reasoning \in Nat
    BY <1>s DEF SinkOK
  <2>1. content' \in Nat /\ reasoning' \in Nat
    BY <1>1, <2>2 DEF OnSpeech, SpeechDelta
  <2> QED
    BY <1>1, <1>s, <1>b, <1>c, <2>1 DEF OnSpeech, SpeechDelta, KeepFilter, SinkOK
<1>2. CASE \E id \in ToolIds, name \in Names : name \in {id, Blank} /\ OnToolStart(id, name)
  <2>1. PICK id \in ToolIds, name \in Names : OnToolStart(id, name)
    BY <1>2
  <2>2. id \in Names
    BY DEF Names
  <2> QED
    BY <2>1, <2>2, NoArgs, <1>u, <1>r, <1>b DEF OnToolStart
<1>3. CASE \E f \in Fragments : OnToolDelta(f)
  <2>1. PICK f \in Fragments : OnToolDelta(f)
    BY <1>3
  <2>2. LastIndex(registry) \in Int
    BY <1>a DEF LastIndex, Registries, NoIndex
  <2>3. SinkOK'
    BY <2>1, <2>2, <1>k, <1>v, <1>n DEF OnToolDelta
  <2> QED
    BY <2>1, <2>3, <1>b, <1>c DEF OnToolDelta, KeepFilter
<1>4. CASE \E id \in ToolIds, f \in Fragments : OnToolInputDelta(id, f)
  <2>1. PICK id \in ToolIds, f \in Fragments : OnToolInputDelta(id, f)
    BY <1>4
  <2>2. SinkOK'
    BY <2>1, <1>l, <1>k, <1>v, <1>n DEF OnToolInputDelta
  <2> QED
    BY <2>1, <2>2, <1>b, <1>c DEF OnToolInputDelta, KeepFilter
<1>5. CASE \E id \in ToolIds, name \in Names, input \in Inputs :
              name \in {id, Blank} /\ OnToolCall(id, name, input)
  <2>1. PICK id \in ToolIds, name \in Names, input \in Inputs : OnToolCall(id, name, input)
    BY <1>5
  <2>2. id \in Names /\ input \in Seq(Fragments) /\ Lookup(registry, id) \in Int
    BY InputsAreSequences, <1>l DEF Names
  <2>3. CASE Known(registry, id)
    <3>1. ToolCallEnrich(Lookup(registry, id), name, input)
      BY <2>1, <2>3 DEF OnToolCall
    <3>2. toolCalls' \in Seq(ToolCallRecords)
      BY <3>1, <2>2, <1>s, EnrichSound
    <3>3. SinkOK'
      BY <3>1, <3>2, <1>s DEF ToolCallEnrich, SinkOK
    <3> QED
      BY <2>1, <3>3, <1>r, <1>b DEF OnToolCall
  <2>4. CASE ~Known(registry, id)
    BY <2>1, <2>2, <2>4, <1>u, <1>r, <1>b DEF OnToolCall
  <2> QED
    BY <2>3, <2>4
<1>6. CASE \E kind \in {"finish-step", "finish"}, why \in RawReasons, u \in BOOLEAN :
              OnFinish(kind, why, u)
  <2>1. PICK kind \in {"finish-step", "finish"}, why \in RawReasons, u \in BOOLEAN :
                OnFinish(kind, why, u)
    BY <1>6
  <2>2. Shared /\ Body
    BY <2>1, <1>a, <1>b DEF OnFinish, KeepRunning, AssemblerTypeOK
  <2>3. CASE FinishPasses(kind, u, finishSeen)
    BY <2>1, <2>2, <2>3, <1>s, NormalizeType DEF OnFinish, Finish, SinkOK
  <2>4. CASE ~FinishPasses(kind, u, finishSeen)
    BY <2>1, <2>2, <2>4, <1>k DEF OnFinish
  <2> QED
    BY <2>3, <2>4
<1>7. CASE OnNextStep \/ OnError
  BY <1>7, <1>c, <1>k, <1>b DEF OnNextStep, OnError, assemblerVars
<1>8. CASE OnEnd
  <2>1. Shared /\ SinkOK'
    BY <1>8, <1>a, <1>k DEF OnEnd, ReachEnd, AssemblerTypeOK
  <2>2. body' = Outcome
    BY <1>8 DEF OnEnd, Finalize, Outcome
  <2> QED
    BY <2>1, <2>2, <1>s, OutcomeType
<1>9. CASE OnCancel \/ OnAbort \/ OnReadError
  BY <1>9, <1>a, <1>k, <1>b DEF OnCancel, CancelRequest, OnAbort,
     AbortOnEvent, OnReadError, FailRead, AssemblerTypeOK
<1>10. CASE UNCHANGED vars
  BY <1>10, <1>c, <1>k, <1>b DEF vars, assemblerVars
<1> QED
  BY <1>1, <1>2, <1>3, <1>4, <1>5, <1>6, <1>7, <1>8, <1>9, <1>10 DEF Next

-------------------------------------------------------------------------------
(***************************************************************************)
(* What was said, and how it ends.                                         *)
(***************************************************************************)

\* Every step keeps what was said collected.
LEMMA SpeechStep == TypeOK /\ SpeechInv /\ [Next]_vars => SpeechInv'
<1> SUFFICES ASSUME TypeOK, SpeechInv, [Next]_vars PROVE SpeechInv'
  OBVIOUS
<1>s. /\ toolCalls \in Seq(ToolCallRecords) /\ hasToolCalls \in BOOLEAN
      /\ spoken \in [Channels -> Nat]
  BY DEF TypeOK, GatewayTypeOK
<1>k. ASSUME UNCHANGED <<content, reasoning, toolCalls, hasToolCalls, spoken>>
      PROVE  SpeechInv'
  BY <1>k DEF SpeechInv
<1>u. ASSUME NEW idx, NEW id, NEW name, NEW args,
             ToolStart(idx, id, name, args), UNCHANGED spoken
      PROVE  SpeechInv'
  <2>1. toolCalls' # <<>>
    BY <1>u, <1>s DEF ToolStart
  <2> QED
    BY <1>u, <2>1 DEF ToolStart, SpeechInv
<1>v. ASSUME NEW idx, NEW args, ToolArgs(idx, args) \/ UNCHANGED sinkVars,
             UNCHANGED spoken
      PROVE  SpeechInv'
  <2>1. toolCalls' = <<>> <=> toolCalls = <<>>
    BY <1>v, <1>s DEF ToolArgs, sinkVars
  <2> QED
    BY <1>v, <2>1 DEF ToolArgs, SpeechInv, sinkVars
<1>1. CASE \E ch \in Channels : OnSpeech(ch)
  <2>1. PICK ch \in Channels : OnSpeech(ch)
    BY <1>1
  <2>2. UNCHANGED <<toolCalls, hasToolCalls>>
    BY <2>1 DEF OnSpeech, SpeechDelta
  <2>3. content' = spoken'["text"] /\ reasoning' = spoken'["reasoning"]
    <3>1. spoken["text"] \in Nat /\ spoken["reasoning"] \in Nat
      BY <1>s DEF Channels
    <3>2. content = spoken["text"] /\ reasoning = spoken["reasoning"]
      BY DEF SpeechInv
    <3> QED
      BY <2>1, <1>s, <3>1, <3>2 DEF OnSpeech, SendSpeech, SpeechDelta, Channels
  <2> QED
    BY <2>2, <2>3 DEF SpeechInv
<1>2. CASE \E id \in ToolIds, name \in Names : name \in {id, Blank} /\ OnToolStart(id, name)
  BY <1>2, <1>u DEF OnToolStart, SendToolStart
<1>3. CASE \E f \in Fragments : OnToolDelta(f)
  BY <1>3, <1>v DEF OnToolDelta, SendFragment, SendStray
<1>4. CASE \E id \in ToolIds, f \in Fragments : OnToolInputDelta(id, f)
  BY <1>4, <1>v DEF OnToolInputDelta, SendFragment, SendStray
<1>5. CASE \E id \in ToolIds, name \in Names, input \in Inputs :
              name \in {id, Blank} /\ OnToolCall(id, name, input)
  <2>1. PICK id \in ToolIds, name \in Names, input \in Inputs : OnToolCall(id, name, input)
    BY <1>5
  <2>2. UNCHANGED spoken
    BY <2>1 DEF OnToolCall, SendToolCall
  <2>3. CASE Known(registry, id)
    <3>1. ToolCallEnrich(Lookup(registry, id), name, input)
      BY <2>1, <2>3 DEF OnToolCall
    <3>2. toolCalls' = <<>> <=> toolCalls = <<>>
      BY <3>1, <1>s DEF ToolCallEnrich
    <3> QED
      BY <2>2, <3>1, <3>2 DEF ToolCallEnrich, SpeechInv
  <2>4. CASE ~Known(registry, id)
    BY <2>1, <2>2, <2>4, <1>u DEF OnToolCall
  <2> QED
    BY <2>3, <2>4
<1>6. CASE \E kind \in {"finish-step", "finish"}, why \in RawReasons, u \in BOOLEAN :
              OnFinish(kind, why, u)
  BY <1>6, <1>k DEF OnFinish, SendFinish, Finish, sinkVars
<1>7. CASE OnNextStep \/ OnError \/ OnEnd
  BY <1>7, <1>k DEF OnNextStep, SendNextStep, OnError, SendError, OnEnd, ReachEnd,
     EndStream, sinkVars
<1>8. CASE OnCancel \/ OnAbort \/ OnReadError \/ UNCHANGED vars
  BY <1>8, <1>k DEF OnCancel, CancelRequest, OnAbort, AbortOnEvent, OnReadError,
     FailRead, vars, gatewayVars, sinkVars
<1> QED
  BY <1>1, <1>2, <1>3, <1>4, <1>5, <1>6, <1>7, <1>8 DEF Next

\* Steps that touch nothing EndInv speaks of, but may deviate, keep it.
LEMMA EndKept ==
  ASSUME EndInv, deviated \subseteq deviated',
         UNCHANGED <<finishSeen, finishReason, stage, usage, errored, run,
                     verdict, usageSent>>
  PROVE  EndInv'
  BY DEF EndInv, Survived

\* Every step keeps what is known of the ending.
LEMMA EndStep == TypeOK /\ EndInv /\ [Next]_vars => EndInv'
<1> SUFFICES ASSUME TypeOK, EndInv, [Next]_vars PROVE EndInv'
  OBVIOUS
<1>0. deviated \subseteq deviated'
  BY DeviationsGrow
<1>1. CASE \E ch \in Channels : OnSpeech(ch)
  BY <1>0, <1>1, EndKept DEF OnSpeech, SendSpeech, SpeechDelta, KeepFilter
<1>2. CASE \E id \in ToolIds, name \in Names : name \in {id, Blank} /\ OnToolStart(id, name)
  BY <1>0, <1>2, EndKept DEF OnToolStart, SendToolStart, ToolStart, KeepFilter
<1>3. CASE \E f \in Fragments : OnToolDelta(f)
  BY <1>0, <1>3, EndKept
     DEF OnToolDelta, SendFragment, SendStray, ToolArgs, KeepFilter, sinkVars
<1>4. CASE \E id \in ToolIds, f \in Fragments : OnToolInputDelta(id, f)
  BY <1>0, <1>4, EndKept
     DEF OnToolInputDelta, SendFragment, SendStray, ToolArgs, KeepFilter, sinkVars
<1>5. CASE \E id \in ToolIds, name \in Names, input \in Inputs :
              name \in {id, Blank} /\ OnToolCall(id, name, input)
  BY <1>0, <1>5, EndKept
     DEF OnToolCall, SendToolCall, ToolStart, ToolCallEnrich, KeepFilter
<1>6. CASE \E kind \in {"finish-step", "finish"}, why \in RawReasons, u \in BOOLEAN :
              OnFinish(kind, why, u)
  <2>1. PICK kind \in {"finish-step", "finish"}, why \in RawReasons, u \in BOOLEAN :
                OnFinish(kind, why, u)
    BY <1>6
  <2>2. finishSeen \in BOOLEAN /\ usage \in BOOLEAN /\ usageSent \in BOOLEAN
    BY DEF TypeOK, GatewayTypeOK, AssemblerTypeOK
  <2>5. UNCHANGED <<errored, run, deviated>> /\ run = "scanning"
    BY <2>1 DEF OnFinish, SendFinish, KeepRunning, Handling
  <2>6. /\ verdict' = why /\ usageSent' = (usageSent \/ u)
        /\ stage' = "stepped" \/ stage' = "finished"
    BY <2>1 DEF OnFinish, SendFinish
  <2>3. CASE FinishPasses(kind, u, finishSeen)
    <3>1. /\ ~finishSeen /\ finishSeen' = TRUE
          /\ finishReason' = Normalize(verdict') /\ usage' = u
      BY <2>1, <2>3, <2>6 DEF OnFinish, FinishPasses, Finish
    <3>2. finishReason' # ""
      BY <3>1, NormalizeType DEF OpenAIReasons
    <3>3. u \/ stage' = "finished"
      BY <2>1, <2>3 DEF OnFinish, SendFinish, FinishPasses
    <3>4. Survived({"multistep"}) => usageSent' = u
      BY <2>2, <2>6, <3>1 DEF EndInv
    <3> QED
      BY <2>5, <2>6, <3>1, <3>2, <3>3, <3>4 DEF EndInv, Survived
  <2>4. CASE ~FinishPasses(kind, u, finishSeen)
    <3>1. UNCHANGED <<finishSeen, finishReason, usage>>
      BY <2>1, <2>2, <2>4 DEF OnFinish, sinkVars
    <3>3. CASE finishSeen
      <4>1. Survived({"multistep"}) =>
               stage = "stepped" /\ why = verdict /\ usage = usageSent /\ usage
        BY <2>1, <2>2, <3>3 DEF OnFinish, SendFinish, EndInv
      <4> QED
        BY <2>5, <2>6, <3>1, <3>3, <4>1, <2>2 DEF EndInv, Survived
    <3>4. CASE ~finishSeen
      <4>1. ~u /\ stage' = "stepped"
        BY <2>1, <2>2, <2>4, <3>4 DEF FinishPasses, OnFinish, SendFinish
      <4> QED
        BY <2>5, <2>6, <3>1, <3>4, <4>1, <2>2 DEF EndInv, Survived
    <3> QED
      BY <3>3, <3>4
  <2> QED
    BY <2>3, <2>4
<1>7. CASE OnNextStep
  <2>1. stage' = "step" /\ deviated' = deviated \cup {"multistep"}
    BY <1>7 DEF OnNextStep, SendNextStep, Deviate
  <2>2. UNCHANGED <<finishSeen, finishReason, usage, errored, run>>
    BY <1>7 DEF OnNextStep, SendNextStep, sinkVars, assemblerVars
  <2>3. run = "scanning"
    BY <1>7 DEF OnNextStep, Handling
  <2> QED
    BY <2>1, <2>2, <2>3 DEF EndInv, Survived
<1>8. CASE OnError
  <2>1. errored' = TRUE /\ deviated' = deviated \cup {"error"} /\ run = "scanning"
    BY <1>8 DEF OnError, SendError, Deviate, Handling
  <2>2. UNCHANGED <<finishSeen, finishReason, stage, usage, run, verdict, usageSent>>
    BY <1>8 DEF OnError, SendError, sinkVars, assemblerVars
  <2> QED
    BY <2>1, <2>2 DEF EndInv, Survived
<1>9. CASE OnEnd
  <2>1. /\ UNCHANGED <<finishSeen, finishReason, stage, usage, errored, verdict,
                       usageSent>>
        /\ deviated' = deviated \cup If(stage # "finished" /\ ~errored, "cut")
    BY <1>9 DEF OnEnd, ReachEnd, EndStream, Deviate, sinkVars
  <2>2. stage = "finished" \/ "error" \in deviated \/ "cut" \in deviated'
    BY <2>1 DEF If, EndInv
  <2> QED
    BY <1>0, <2>1, <2>2 DEF EndInv, Survived
<1>10. CASE OnCancel
  BY <1>10, <1>0, EndKept DEF OnCancel, CancelRequest, gatewayVars, sinkVars
<1>11. CASE OnAbort \/ OnReadError
  <2>1. UNCHANGED <<finishSeen, finishReason, stage, usage, errored, verdict,
                    usageSent, deviated>>
    BY <1>11 DEF OnAbort, AbortOnEvent, OnReadError, FailRead, gatewayVars, sinkVars
  <2>2. run' # "finalized"
    BY <1>11 DEF OnAbort, AbortOnEvent, OnReadError, FailRead
  <2> QED
    BY <2>1, <2>2 DEF EndInv, Survived
<1>12. CASE UNCHANGED vars
  BY <1>12, <1>0, EndKept DEF vars, gatewayVars, assemblerVars, sinkVars
<1> QED
  BY <1>1, <1>2, <1>3, <1>4, <1>5, <1>6, <1>7, <1>8, <1>9, <1>10, <1>11, <1>12
     DEF Next

\* Every step keeps the body what it was written as.
LEMMA BodyStep == TypeOK /\ BodyInv /\ [Next]_vars => BodyInv'
<1> SUFFICES ASSUME TypeOK, BodyInv, [Next]_vars PROVE BodyInv'
  OBVIOUS
<1>h. ASSUME run = "scanning", run' # "finalized", UNCHANGED body PROVE BodyInv'
  BY <1>h DEF BodyInv
<1>1. CASE OnEnd
  BY <1>1 DEF OnEnd, ReachEnd, Finalize, sinkVars, BodyInv, Outcome, ReportedReason
<1>2. CASE UNCHANGED vars
  BY <1>2 DEF vars, assemblerVars, sinkVars, BodyInv, Outcome, ReportedReason
<1>3. CASE Next /\ ~OnEnd
  BY <1>3, <1>h DEF Next, OnSpeech, OnToolStart, OnToolDelta, OnToolInputDelta,
     OnToolCall, OnFinish, OnNextStep, OnError, OnCancel, CancelRequest, OnAbort,
     AbortOnEvent, OnReadError, FailRead, Handling, KeepFilter, KeepRunning,
     assemblerVars
<1> QED
  BY <1>1, <1>2, <1>3

-------------------------------------------------------------------------------
(***************************************************************************)
(* Which slot holds which call.                                            *)
(***************************************************************************)

Unrestarted == Survived({"restart"})

\* Steps that touch no call, no slot and no registry entry keep them together.
LEMMA SlotsKept ==
  ASSUME SlotsInv, deviated \subseteq deviated',
         UNCHANGED <<registry, call, meant, latest, toolCalls>>
  PROVE  SlotsInv'
  BY DEF SlotsInv, Mirror, Survived

\* A registered id has its slot among the collected ones.
LEMMA MirrorFacts ==
  ASSUME TypeOK, SlotsInv, Mirror
  PROVE  /\ registry.nextIdx \in Nat /\ Len(toolCalls) = registry.nextIdx
         /\ \A id \in ToolIds : call[id] # "none" =>
               /\ Known(registry, id) /\ HasSlot(Lookup(registry, id))
               /\ Lookup(registry, id) \in Int
         /\ \A i, j \in ToolIds : call[i] # "none" /\ call[j] # "none" /\ i # j =>
               Lookup(registry, i) # Lookup(registry, j)
<1>1. RegistryOK(registry) /\ registry.nextIdx \in Nat
  BY DEF SlotsInv, RegistryOK, Registries
<1>2. Len(toolCalls) = registry.nextIdx /\ \A id \in ToolIds : Known(registry, id) <=> call[id] # "none"
  BY DEF Mirror
<1>3. \A id \in ToolIds : Known(registry, id) => Lookup(registry, id) \in 0 .. registry.nextIdx - 1
  BY <1>1 DEF RegistryOK, SlotsDense
<1>4. \A k \in 0 .. registry.nextIdx - 1 : k \in Int /\ HasSlot(k)
  BY <1>1, <1>2 DEF HasSlot
<1>5. \A i, j \in ToolIds : call[i] # "none" /\ call[j] # "none" /\ i # j =>
         Lookup(registry, i) # Lookup(registry, j)
  BY <1>1, <1>2 DEF RegistryOK, SlotsDistinct
<1> QED
  BY <1>1, <1>2, <1>3, <1>4, <1>5

\* A new call: its id is registered, and its record put at the end.
LEMMA NewCallMirrored ==
  ASSUME TypeOK, SlotsInv, Mirror,
         NEW id \in ToolIds, call[id] = "none",
         NEW name \in Names, NEW args \in Seq(Fragments),
         registry' = Register(registry, id),
         toolCalls' = Append(toolCalls, [id |-> id, name |-> name, args |-> args]),
         call'[id] # "none",
         \A i \in ToolIds \ {id} : call'[i] = call[i],
         meant' = [meant EXCEPT ![id] = [name |-> name, args |-> args]],
         latest' = id
  PROVE  Mirror'
<1> DEFINE rec == [id |-> id, name |-> name, args |-> args]
<1>1. /\ registry.nextIdx \in Nat /\ Len(toolCalls) = registry.nextIdx
      /\ toolCalls \in Seq(ToolCallRecords)
      /\ \A i \in ToolIds : call[i] # "none" =>
            Lookup(registry, i) \in Int /\ HasSlot(Lookup(registry, i))
  BY MirrorFacts DEF TypeOK
<1>2. ~Known(registry, id) /\ RegistryOK(registry)
  BY DEF Mirror, SlotsInv
<1>3. /\ Known(registry', id) /\ Lookup(registry', id) = registry.nextIdx
      /\ LastIndex(registry') = registry.nextIdx
      /\ registry'.nextIdx = registry.nextIdx + 1
      /\ \A i \in ToolIds \ {id} : Lookup(registry', i) = Lookup(registry, i)
  BY <1>2, RegisterSound
<1>4. rec \in ToolCallRecords
  BY DEF ToolCallRecords, Names
<1>5. /\ Len(toolCalls') = registry'.nextIdx
      /\ toolCalls'[registry.nextIdx + 1] = rec
      /\ \A i \in 1 .. Len(toolCalls) : toolCalls'[i] = toolCalls[i]
  BY <1>1, <1>3, <1>4, SlotAppended
<1>6. meant \in [ToolIds -> Stated]
  BY DEF TypeOK, GatewayTypeOK, Stated
<1>7. meant'[id].name = name /\ meant'[id].args = args
      /\ \A i \in ToolIds \ {id} : meant'[i] = meant[i]
  BY <1>6
<1>8. \A i \in ToolIds : Known(registry', i) <=> call'[i] # "none"
  BY <1>3 DEF Mirror, Known, Lookup
<1>9. \A i \in ToolIds : call'[i] # "none" =>
         toolCalls'[Lookup(registry', i) + 1] =
            [id |-> i, name |-> meant'[i].name, args |-> meant'[i].args]
  <2> SUFFICES ASSUME NEW i \in ToolIds, call'[i] # "none"
               PROVE  toolCalls'[Lookup(registry', i) + 1] =
                         [id |-> i, name |-> meant'[i].name, args |-> meant'[i].args]
    OBVIOUS
  <2>1. CASE i = id
    BY <2>1, <1>3, <1>5, <1>7
  <2>2. CASE i # id
    <3>1. call[i] # "none" /\ Lookup(registry', i) = Lookup(registry, i)
      BY <2>2, <1>3
    <3>2. Lookup(registry, i) + 1 \in 1 .. Len(toolCalls)
      BY <3>1, <1>1 DEF HasSlot
    <3> QED
      BY <2>2, <3>1, <3>2, <1>5, <1>7 DEF Mirror
  <2> QED
    BY <2>1, <2>2
<1>10. id # Blank
  BY BlankIsNoTool
<1> QED
  BY <1>3, <1>5, <1>8, <1>9, <1>10 DEF Mirror

\* A known call: its record is replaced by what upstream has now stated.
LEMMA KnownCallMirrored ==
  ASSUME TypeOK, SlotsInv, Mirror,
         NEW id \in ToolIds, call[id] # "none",
         NEW name \in Names, NEW args \in Seq(Fragments),
         registry' = registry, latest' = latest,
         Len(toolCalls') = Len(toolCalls),
         \A i \in 1 .. Len(toolCalls) :
            i # Lookup(registry, id) + 1 => toolCalls'[i] = toolCalls[i],
         toolCalls'[Lookup(registry, id) + 1] = [id |-> id, name |-> name, args |-> args],
         call'[id] # "none",
         \A i \in ToolIds \ {id} : call'[i] = call[i],
         meant' = [meant EXCEPT ![id] = [name |-> name, args |-> args]]
  PROVE  Mirror'
<1>1. /\ Len(toolCalls) \in Nat
      /\ \A i \in ToolIds : call[i] # "none" =>
            Lookup(registry, i) \in Int /\ HasSlot(Lookup(registry, i))
      /\ \A i \in ToolIds : call[i] # "none" /\ i # id =>
            Lookup(registry, i) # Lookup(registry, id)
  BY MirrorFacts
<1>2. meant \in [ToolIds -> Stated]
  BY DEF TypeOK, GatewayTypeOK, Stated
<1>3. meant'[id].name = name /\ meant'[id].args = args
      /\ \A i \in ToolIds \ {id} : meant'[i] = meant[i]
  BY <1>2
<1>4. \A i \in ToolIds : call'[i] # "none" <=> call[i] # "none"
  OBVIOUS
<1>5. \A i \in ToolIds : call'[i] # "none" =>
         toolCalls'[Lookup(registry', i) + 1] =
            [id |-> i, name |-> meant'[i].name, args |-> meant'[i].args]
  <2> SUFFICES ASSUME NEW i \in ToolIds, call'[i] # "none"
               PROVE  toolCalls'[Lookup(registry', i) + 1] =
                         [id |-> i, name |-> meant'[i].name, args |-> meant'[i].args]
    OBVIOUS
  <2>1. CASE i = id
    BY <2>1, <1>3
  <2>2. CASE i # id
    <3>1. call[i] # "none" /\ Lookup(registry, i) + 1 # Lookup(registry, id) + 1
      BY <2>2, <1>1, <1>4
    <3>2. Lookup(registry, i) + 1 \in 1 .. Len(toolCalls)
      BY <3>1, <1>1 DEF HasSlot
    <3> QED
      BY <2>2, <3>1, <3>2, <1>3 DEF Mirror
  <2> QED
    BY <2>1, <2>2
<1>6. latest' # Blank => call'[latest'] # "none"
  <2>1. latest \in Names
    BY DEF TypeOK, GatewayTypeOK
  <2> QED
    BY <2>1, <1>4 DEF Mirror, Names
<1>7. /\ Len(toolCalls') = registry'.nextIdx
      /\ \A i \in ToolIds : Known(registry', i) <=> call'[i] # "none"
      /\ latest' # Blank => LastIndex(registry') = Lookup(registry', latest')
      /\ latest' = Blank => registry'.nextIdx = 0
  BY <1>4 DEF Mirror
<1> QED
  BY <1>5, <1>6, <1>7 DEF Mirror

\* One more fragment for an open call, appended at the call's slot.
LEMMA FragmentMirrored ==
  ASSUME TypeOK, SlotsInv, Mirror,
         NEW id \in ToolIds, NEW f \in Fragments,
         SendFragment(id, f), ToolArgs(Lookup(registry, id), <<f>>),
         registry' = registry
  PROVE  Mirror'
<1> DEFINE idx == Lookup(registry, id)
<1>1. /\ call[id] # "none" /\ call' = call /\ latest' = latest
      /\ meant' = [meant EXCEPT ![id] =
                     [name |-> meant[id].name, args |-> Append(meant[id].args, f)]]
  BY DEF SendFragment
<1>2. idx \in Int /\ HasSlot(idx) /\ toolCalls \in Seq(ToolCallRecords)
  BY <1>1, MirrorFacts DEF TypeOK
<1>3. meant[id].name \in Names /\ meant[id].args \in Seq(Fragments)
  BY DEF TypeOK, GatewayTypeOK
<1>4. /\ Append(meant[id].args, f) \in Seq(Fragments) /\ <<f>> \in Seq(Fragments)
      /\ meant[id].args \o <<f>> = Append(meant[id].args, f)
  BY <1>3
<1>5. /\ Len(toolCalls') = Len(toolCalls)
      /\ \A i \in 1 .. Len(toolCalls) : i # idx + 1 => toolCalls'[i] = toolCalls[i]
      /\ toolCalls'[idx + 1] = Extend(toolCalls[idx + 1], <<f>>)
  BY <1>2, <1>4, ArgsSound
<1>6. toolCalls[idx + 1] = [id |-> id, name |-> meant[id].name, args |-> meant[id].args]
  BY <1>1 DEF Mirror
<1>7. toolCalls'[idx + 1] =
         [id |-> id, name |-> meant[id].name, args |-> Append(meant[id].args, f)]
  <2>1. /\ toolCalls[idx + 1].id = id
        /\ toolCalls[idx + 1].name = meant[id].name
        /\ toolCalls[idx + 1].args = meant[id].args
    BY <1>6
  <2>2. Extend(toolCalls[idx + 1], <<f>>) =
           [id |-> id, name |-> meant[id].name, args |-> meant[id].args \o <<f>>]
    BY <2>1 DEF Extend
  <2>3. Extend(toolCalls[idx + 1], <<f>>) =
           [id |-> id, name |-> meant[id].name, args |-> Append(meant[id].args, f)]
    BY <2>2, <1>4, Zenon
  <2> QED
    BY <2>3, <1>5, Zenon
<1> QED
  BY <1>1, <1>3, <1>4, <1>5, <1>7, KnownCallMirrored

\* The parts of SlotsInv that hold in spite of restarts.
LEMMA RegistryStep ==
  ASSUME TypeOK, SlotsInv, [Next]_vars
  PROVE  /\ RegistryOK(registry')
         /\ \A id \in ToolIds :
               call'[id] = "none" => meant'[id] = [name |-> Blank, args |-> <<>>]
<1>r. RegistryOK(registry) /\ \A id \in ToolIds : RegistryOK(Register(registry, id))
  BY RegisterSound DEF SlotsInv
<1>1. RegistryOK(registry')
  BY <1>r DEF Next, OnSpeech, OnToolStart, OnToolDelta, OnToolInputDelta,
     OnToolCall, OnFinish, OnNextStep, OnError, OnEnd, ReachEnd, OnCancel,
     CancelRequest, OnAbort, AbortOnEvent, OnReadError, FailRead, assemblerVars, vars
<1>2. /\ call \in [ToolIds -> {"none", "open", "complete"}]
      /\ meant \in [ToolIds -> Stated]
      /\ \A id \in ToolIds :
            call[id] = "none" => meant[id] = [name |-> Blank, args |-> <<>>]
  BY DEF TypeOK, GatewayTypeOK, Stated, SlotsInv
<1>3. GatewayLine
  BY StepIsLine
<1> SUFFICES \A i \in ToolIds :
                call'[i] = "none" => meant'[i] = [name |-> Blank, args |-> <<>>]
  BY <1>1
<1>4. ASSUME NEW id \in ToolIds, NEW state \in {"open", "complete"}, NEW told,
             call' = [call EXCEPT ![id] = state],
             meant' = [meant EXCEPT ![id] = told]
      PROVE  \A i \in ToolIds :
                call'[i] = "none" => meant'[i] = [name |-> Blank, args |-> <<>>]
  <2> SUFFICES ASSUME NEW i \in ToolIds, call'[i] = "none"
               PROVE  meant'[i] = [name |-> Blank, args |-> <<>>]
    OBVIOUS
  <2>1. i # id
    BY <1>4, <1>2
  <2>2. call'[i] = call[i] /\ meant'[i] = meant[i]
    BY <2>1, <1>4, <1>2
  <2> QED
    BY <2>2, <1>2
<1>5. CASE \E id \in ToolIds, name \in Names : SendToolStart(id, name)
  BY <1>5, <1>4 DEF SendToolStart
<1>6. CASE \E id \in Names, f \in Fragments : SendFragment(id, f)
  <2>1. PICK id \in ToolIds, f \in Fragments :
           /\ call[id] # "none" /\ call' = call
           /\ meant' = [meant EXCEPT ![id] =
                          [name |-> meant[id].name, args |-> Append(meant[id].args, f)]]
    BY <1>6 DEF SendFragment
  <2> SUFFICES ASSUME NEW i \in ToolIds, call'[i] = "none"
               PROVE  meant'[i] = [name |-> Blank, args |-> <<>>]
    OBVIOUS
  <2>2. call[i] = "none" /\ meant'[i] = meant[i]
    BY <2>1, <1>2
  <2> QED
    BY <2>2, <1>2
<1>7. CASE \E id \in ToolIds, name \in Names, input \in Inputs :
              SendToolCall(id, name, input)
  BY <1>7, <1>4 DEF SendToolCall
<1>8. CASE UNCHANGED <<call, meant>>
  BY <1>8, <1>2
<1> QED
  BY <1>3, <1>5, <1>6, <1>7, <1>8 DEF GatewayLine, SendSpeech, SendStray,
     SendNextStep, SendFinish, SendError, EndStream, gatewayVars

\* Every step keeps the registry, the calls and the slots together.
LEMMA SlotsStep == TypeOK /\ SlotsInv /\ [Next]_vars => SlotsInv'
<1> SUFFICES ASSUME TypeOK, SlotsInv, [Next]_vars, Unrestarted' PROVE Mirror'
  BY RegistryStep DEF SlotsInv, Unrestarted
<1>0. deviated \subseteq deviated' /\ Mirror
  BY DeviationsGrow DEF Unrestarted, Survived, SlotsInv
<1>k. ASSUME UNCHANGED <<registry, call, meant, latest, toolCalls>> PROVE Mirror'
  BY <1>k, <1>0 DEF Mirror
<1>t. /\ toolCalls \in Seq(ToolCallRecords)
      /\ call \in [ToolIds -> {"none", "open", "complete"}]
      /\ meant \in [ToolIds -> Stated] /\ latest \in Names
      /\ \A id \in ToolIds :
            call[id] = "none" => meant[id] = [name |-> Blank, args |-> <<>>]
  BY DEF TypeOK, GatewayTypeOK, Stated, SlotsInv
<1>1. CASE \E ch \in Channels : OnSpeech(ch)
  BY <1>1, <1>k DEF OnSpeech, SendSpeech, SpeechDelta
<1>2. CASE \E id \in ToolIds, name \in Names : name \in {id, Blank} /\ OnToolStart(id, name)
  <2>1. PICK id \in ToolIds, name \in Names : OnToolStart(id, name)
    BY <1>2
  <2>2. /\ registry' = Register(registry, id) /\ latest' = id
        /\ toolCalls' = Append(toolCalls, [id |-> id, name |-> name, args |-> <<>>])
        /\ call' = [call EXCEPT ![id] = "open"]
        /\ meant' = [meant EXCEPT ![id] = Amend(meant[id], name, <<>>)]
    BY <2>1 DEF OnToolStart, SendToolStart, ToolStart
  <2>3. call[id] = "none"
    BY <2>1 DEF OnToolStart, SendToolStart, Deviate, If, Unrestarted, Survived
  <2>4. Amend(meant[id], name, <<>>) = [name |-> name, args |-> <<>>]
    BY <2>3, <1>t DEF Amend
  <2>5. meant' = [meant EXCEPT ![id] = [name |-> name, args |-> <<>>]]
    BY <2>2, <2>4
  <2>6. call'[id] # "none" /\ \A i \in ToolIds \ {id} : call'[i] = call[i]
    BY <2>2, <1>t
  <2> QED
    BY <2>2, <2>3, <2>5, <2>6, <1>0, NoArgs, NewCallMirrored
<1>3. CASE \E f \in Fragments : OnToolDelta(f)
  <2>1. PICK f \in Fragments : OnToolDelta(f)
    BY <1>3
  <2>2. CASE SendFragment(latest, f)
    <3>1. latest \in ToolIds /\ latest # Blank
      BY <2>2, BlankIsNoTool DEF SendFragment
    <3>2. /\ LastIndex(registry) = Lookup(registry, latest)
          /\ LastIndex(registry) # NoIndex
      BY <3>1, <1>0 DEF Mirror, Known, Lookup
    <3>3. ToolArgs(Lookup(registry, latest), <<f>>) /\ registry' = registry
      BY <2>1, <3>2 DEF OnToolDelta
    <3> QED
      BY <2>2, <3>1, <3>3, <1>0, FragmentMirrored
  <2>3. CASE SendStray(Blank)
    <3>1. latest = Blank /\ UNCHANGED <<call, meant, latest>>
      BY <2>3 DEF SendStray
    <3>2. LastIndex(registry) = NoIndex
      BY <3>1, <1>0, LastIndexIsSlot DEF Mirror, SlotsInv
    <3> QED
      BY <2>1, <3>1, <3>2, <1>k DEF OnToolDelta, sinkVars
  <2> QED
    BY <2>1, <2>2, <2>3 DEF OnToolDelta
<1>4. CASE \E id \in ToolIds, f \in Fragments : OnToolInputDelta(id, f)
  <2>1. PICK id \in ToolIds, f \in Fragments : OnToolInputDelta(id, f)
    BY <1>4
  <2>2. CASE SendFragment(id, f)
    <3>1. Known(registry, id)
      BY <2>2, <1>0 DEF SendFragment, Mirror
    <3> QED
      BY <2>1, <2>2, <3>1, <1>0, FragmentMirrored DEF OnToolInputDelta
  <2>3. CASE SendStray(id)
    <3>1. call[id] = "none" /\ UNCHANGED <<call, meant, latest>>
      BY <2>3, BlankIsNoTool DEF SendStray
    <3>2. ~Known(registry, id)
      BY <3>1, <1>0 DEF Mirror
    <3> QED
      BY <2>1, <3>1, <3>2, <1>k DEF OnToolInputDelta, sinkVars
  <2> QED
    BY <2>1, <2>2, <2>3 DEF OnToolInputDelta
<1>5. CASE \E id \in ToolIds, name \in Names, input \in Inputs :
              name \in {id, Blank} /\ OnToolCall(id, name, input)
  <2>1. PICK id \in ToolIds, name \in Names, input \in Inputs : OnToolCall(id, name, input)
    BY <1>5
  <2>2. /\ registry' = Register(registry, id)
        /\ call' = [call EXCEPT ![id] = "complete"]
        /\ meant' = [meant EXCEPT ![id] = Amend(meant[id], name, input)]
        /\ latest' = IF call[id] = "none" THEN id ELSE latest
    BY <2>1 DEF OnToolCall, SendToolCall
  <2>3. call'[id] # "none" /\ \A i \in ToolIds \ {id} : call'[i] = call[i]
    BY <2>2, <1>t
  <2>4. input \in Seq(Fragments)
    BY InputsAreSequences
  <2>5. CASE call[id] = "none"
    <3>1. ~Known(registry, id)
      BY <2>5, <1>0 DEF Mirror
    <3>2. toolCalls' = Append(toolCalls, [id |-> id, name |-> name, args |-> input])
      BY <2>1, <3>1 DEF OnToolCall, ToolStart
    <3>3. Amend(meant[id], name, input) = [name |-> name, args |-> input]
      BY <2>5, <1>t DEF Amend
    <3>4. meant' = [meant EXCEPT ![id] = [name |-> name, args |-> input]]
      BY <2>2, <3>3
    <3> QED
      BY <2>2, <2>3, <2>4, <2>5, <3>2, <3>4, <1>0, NewCallMirrored
  <2>6. CASE call[id] # "none"
    <3> DEFINE idx == Lookup(registry, id)
               known == Amend(meant[id], name, input)
    <3>1. Known(registry, id) /\ idx \in Int /\ HasSlot(idx)
      BY <2>6, <1>0, MirrorFacts
    <3>2. registry' = registry /\ ToolCallEnrich(idx, name, input)
      BY <2>1, <2>2, <3>1 DEF OnToolCall, Register
    <3>3. toolCalls[idx + 1] = [id |-> id, name |-> meant[id].name, args |-> meant[id].args]
      BY <2>6, <1>0 DEF Mirror
    <3>4. /\ Len(toolCalls') = Len(toolCalls)
          /\ \A i \in 1 .. Len(toolCalls) : i # idx + 1 => toolCalls'[i] = toolCalls[i]
          /\ toolCalls'[idx + 1] =
                [id   |-> toolCalls[idx + 1].id,
                 name |-> IF name = Blank THEN toolCalls[idx + 1].name ELSE name,
                 args |-> IF input = <<>> THEN toolCalls[idx + 1].args ELSE input]
      BY <2>4, <3>1, <3>2, <1>t, EnrichSound
    <3>5. toolCalls'[idx + 1] = [id |-> id, name |-> known.name, args |-> known.args]
      BY <3>3, <3>4 DEF Amend
    <3>6. known \in Stated /\ known = [name |-> known.name, args |-> known.args]
      BY <2>4, <1>t, AmendType DEF Amend
    <3>7. known.name \in Names /\ known.args \in Seq(Fragments)
      BY <3>6 DEF Stated
    <3>8. meant' = [meant EXCEPT ![id] = [name |-> known.name, args |-> known.args]]
      BY <2>2, <3>6
    <3>9. latest' = latest
      BY <2>2, <2>6
    <3> HIDE DEF known
    <3> QED
      BY <2>3, <2>6, <3>2, <3>4, <3>5, <3>7, <3>8, <3>9, <1>0, KnownCallMirrored
  <2> QED
    BY <2>5, <2>6
<1>6. CASE \E kind \in {"finish-step", "finish"}, why \in RawReasons, u \in BOOLEAN :
              OnFinish(kind, why, u)
  BY <1>6, <1>k DEF OnFinish, SendFinish, Finish, sinkVars
<1>7. CASE OnNextStep \/ OnError \/ OnEnd
  BY <1>7, <1>k DEF OnNextStep, SendNextStep, OnError, SendError, OnEnd, ReachEnd,
     EndStream, sinkVars, assemblerVars
<1>8. CASE OnCancel \/ OnAbort \/ OnReadError \/ UNCHANGED vars
  BY <1>8, <1>k DEF OnCancel, CancelRequest, OnAbort, AbortOnEvent, OnReadError,
     FailRead, vars, gatewayVars, assemblerVars, sinkVars
<1> QED
  BY <1>1, <1>2, <1>3, <1>4, <1>5, <1>6, <1>7, <1>8 DEF Next

-------------------------------------------------------------------------------
(***************************************************************************)
(* The theorems.                                                           *)
(***************************************************************************)

\* The inductive invariant holds in every reachable state.
THEOREM Invariance == Spec => []IInv
<1>1. Init => IInv
  <2> SUFFICES ASSUME Init PROVE IInv
    OBVIOUS
  <2>1. SlotsInv
    <3>1. RegistryOK(registry) /\ registry.nextIdx = 0
          /\ \A id \in ToolIds : ~Known(registry, id)
      BY NewRegistryOK DEF Init, AssemblerInit, NewRegistry, Known
    <3>2. /\ \A id \in ToolIds : call[id] = "none"
          /\ \A id \in ToolIds : meant[id] = [name |-> Blank, args |-> <<>>]
          /\ latest = Blank /\ Len(toolCalls) = 0
      BY DEF Init, GatewayInit
    <3> QED
      BY <3>1, <3>2 DEF SlotsInv, Mirror
  <2>2. SpeechInv /\ EndInv /\ BodyInv
    BY DEF Init, GatewayInit, AssemblerInit, SpeechInv, EndInv, BodyInv, Channels, Survived
  <2> QED
    BY <2>1, <2>2, InitType DEF IInv
<1>2. IInv /\ [Next]_vars => IInv'
  BY NextType, SlotsStep, SpeechStep, EndStep, BodyStep DEF IInv
<1> QED
  BY <1>1, <1>2, PTL DEF Spec

\* Every variable keeps its type, the body written included.
THEOREM TypeCorrectness == Spec => []TypeOK
<1>1. IInv => TypeOK
  BY DEF IInv
<1> QED
  BY <1>1, Invariance, PTL

\* The collected slots are upstream's calls, for any number of calls and
\* fragments, however their events interleave.
THEOREM FaithfulSlots == Spec => []SlotsFaithful
<1>1. IInv => SlotsFaithful
  BY DEF IInv, SlotsInv, Mirror, SlotsFaithful
<1> QED
  BY <1>1, Invariance, PTL

\* The body is written on a clean end only and loses nothing.
THEOREM CompleteBody == Spec => []BodyComplete
<1>1. IInv => BodyComplete
  <2> SUFFICES ASSUME IInv PROVE BodyComplete
    OBVIOUS
  <2>1. CASE run = "finalized"
    BY <2>1 DEF IInv, BodyInv, SpeechInv, Outcome, BodyComplete
  <2>2. CASE run # "finalized"
    BY <2>2 DEF IInv, BodyInv, NoBody, BodyComplete
  <2> QED
    BY <2>1, <2>2
<1> QED
  BY <1>1, Invariance, PTL

\* The body of a properly ended stream reports upstream's reason and usage.
THEOREM FaithfulBody == Spec => []BodyVerdict
<1>1. IInv => BodyVerdict
  <2> SUFFICES ASSUME IInv, body.written, Survived({"multistep", "cut", "error"})
               PROVE  body.finishReason = Normalize(verdict) /\ body.usage = usageSent
    BY DEF BodyVerdict
  <2>1. run = "finalized" /\ body = Outcome
    BY DEF IInv, BodyInv, NoBody
  <2>2. Survived({"multistep"}) /\ Survived({"cut", "error"})
    BY DEF Survived
  <2>3. finishSeen /\ finishReason # ""
    BY <2>1, <2>2 DEF IInv, EndInv
  <2>4. finishReason = Normalize(verdict) /\ usage = usageSent
    BY <2>2, <2>3 DEF IInv, EndInv
  <2>5. body.finishReason = ReportedReason /\ body.usage = usage
    BY <2>1 DEF Outcome
  <2> QED
    BY <2>3, <2>4, <2>5 DEF ReportedReason
<1> QED
  BY <1>1, Invariance, PTL

\* A recorded reason and its usage are never overwritten.
THEOREM FinishedForGood == Spec => FinishKept
<1> DEFINE Keeps == finishReason # "" => UNCHANGED <<finishReason, usage>>
<1>1. IInv /\ [Next]_vars => [Keeps]_vars
  <2> SUFFICES ASSUME IInv, Next, finishReason # "" PROVE UNCHANGED <<finishReason, usage>>
    OBVIOUS
  <2>1. finishSeen
    BY DEF IInv, EndInv
  <2>2. ASSUME NEW kind, NEW why, NEW u, OnFinish(kind, why, u)
        PROVE  UNCHANGED <<finishReason, usage>>
    BY <2>1, <2>2 DEF OnFinish, FinishPasses, sinkVars
  <2> QED
    BY <2>2 DEF Next, OnSpeech, SpeechDelta, OnToolStart, ToolStart, OnToolDelta,
       OnToolInputDelta, ToolArgs, OnToolCall, ToolCallEnrich, OnNextStep, OnError,
       OnEnd, OnCancel, OnAbort, OnReadError, sinkVars
<1> QED
  BY <1>1, Invariance, PTL DEF Spec, FinishKept
===============================================================================
