----------------------- MODULE ResponseAssembler_proofs ------------------------
(***************************************************************************)
(* Lemmas about the part both response modes share: the types of what the  *)
(* gateway sends, of the registry and of the loop.                         *)
(***************************************************************************)
EXTENDS ResponseAssembler, TLAPS

\* The empty registry is a correct one (newToolIndexRegistry).
LEMMA NewRegistryOK == RegistryOK(NewRegistry)
  BY DEF RegistryOK, NewRegistry, Registries, SlotsDistinct, SlotsDense,
         Known, Lookup, LastIndex, NoIndex

\* register keeps a registry correct, gives the id a slot, keeps every slot
\* already given, and a new slot is the next one and becomes the last.
LEMMA RegisterSound ==
  ASSUME NEW r, RegistryOK(r), NEW id \in ToolIds
  PROVE  LET s == Register(r, id) IN
         /\ RegistryOK(s)
         /\ Known(s, id)
         /\ \A i \in ToolIds \ {id} : Lookup(s, i) = Lookup(r, i)
         /\ Known(r, id) => s = r
         /\ ~Known(r, id) => /\ Lookup(s, id) = r.nextIdx
                             /\ LastIndex(s) = r.nextIdx
                             /\ s.nextIdx = r.nextIdx + 1
<1>1. CASE Known(r, id)
  BY <1>1 DEF Register
<1>2. CASE ~Known(r, id)
  <2> DEFINE s == Register(r, id)
  <2>1. /\ s = [indexes |-> [r.indexes EXCEPT ![id] = r.nextIdx],
                nextIdx |-> r.nextIdx + 1,
                lastIdx |-> r.nextIdx]
        /\ r \in Registries
    BY <1>2 DEF Register, RegistryOK
  <2>2. /\ s \in Registries
        /\ Lookup(s, id) = r.nextIdx
        /\ \A i \in ToolIds \ {id} : Lookup(s, i) = Lookup(r, i)
    BY <2>1 DEF Registries, Lookup
  <2>3. Known(s, id) /\ \A i \in ToolIds \ {id} : Known(s, i) <=> Known(r, i)
    BY <2>1, <2>2 DEF Registries, Known, Lookup, NoIndex
  <2>4. \A i \in ToolIds : Known(r, i) => Lookup(r, i) \in 0 .. r.nextIdx - 1
    BY DEF RegistryOK, SlotsDense
  <2>5. SlotsDistinct(s)
    <3> SUFFICES ASSUME NEW i \in ToolIds, NEW j \in ToolIds,
                        Known(s, i), Known(s, j), Lookup(s, i) = Lookup(s, j)
                 PROVE  i = j
      BY DEF SlotsDistinct
    <3>4. \A k \in ToolIds \ {id} : Known(s, k) => Lookup(s, k) # r.nextIdx
      <4>1. r.nextIdx \in Nat
        BY <2>1 DEF Registries
      <4>2. SUFFICES ASSUME NEW k \in ToolIds \ {id}, Known(s, k)
                     PROVE  Lookup(s, k) # r.nextIdx
        OBVIOUS
      <4>3. Lookup(r, k) \in 0 .. r.nextIdx - 1 /\ Lookup(s, k) = Lookup(r, k)
        BY <4>2, <2>2, <2>3, <2>4
      <4> QED
        BY <4>1, <4>3
    <3>1. CASE i # id /\ j # id
      BY <3>1, <2>2, <2>3 DEF RegistryOK, SlotsDistinct
    <3>2. CASE i = id /\ j # id
      BY <3>2, <3>4, <2>2
    <3>3. CASE i # id /\ j = id
      BY <3>3, <3>4, <2>2
    <3> QED
      BY <3>1, <3>2, <3>3
  <2>6. \A i \in ToolIds : Known(s, i) => Lookup(s, i) \in 0 .. s.nextIdx - 1
    BY <2>1, <2>2, <2>3, <2>4 DEF Registries
  <2>7. \A k \in 0 .. s.nextIdx - 1 : \E i \in ToolIds : Lookup(s, i) = k
    <3> SUFFICES ASSUME NEW k \in 0 .. s.nextIdx - 1
                 PROVE  \E i \in ToolIds : Lookup(s, i) = k
      OBVIOUS
    <3>1. CASE k = r.nextIdx
      BY <3>1, <2>2
    <3>2. CASE k # r.nextIdx
      <4>1. k \in 0 .. r.nextIdx - 1
        BY <3>2, <2>1 DEF Registries
      <4>2. PICK i \in ToolIds : Lookup(r, i) = k
        BY <4>1 DEF RegistryOK, SlotsDense
      <4>3. i # id
        BY <4>1, <4>2, <1>2, <2>1 DEF Known, Lookup, NoIndex
      <4> QED
        BY <4>2, <4>3, <2>2
    <3> QED
      BY <3>1, <3>2
  <2>8. LastIndex(s) = s.nextIdx - 1
    BY <2>1 DEF LastIndex, Registries
  <2>9. RegistryOK(s)
    BY <2>2, <2>5, <2>6, <2>7, <2>8 DEF RegistryOK, SlotsDense
  <2> QED
    BY <1>2, <2>1, <2>2, <2>3, <2>9 DEF LastIndex
<1> QED
  BY <1>1, <1>2

\* A slot once given is never moved or withdrawn, and lies below nextIdx.
LEMMA RegisterKeeps ==
  ASSUME NEW r, RegistryOK(r), NEW id \in ToolIds
  PROVE  LET s == Register(r, id) IN
         /\ \A i \in ToolIds : Known(r, i) => Known(s, i) /\ Lookup(s, i) = Lookup(r, i)
         /\ \A i \in ToolIds : Known(s, i) => Known(r, i) \/ i = id
         /\ 0 .. r.nextIdx - 1 \subseteq 0 .. s.nextIdx - 1
         /\ Lookup(s, id) \in 0 .. s.nextIdx - 1
         /\ Lookup(s, id) \in Nat
<1> DEFINE s == Register(r, id)
<1>1. /\ RegistryOK(s) /\ Known(s, id)
      /\ \A i \in ToolIds \ {id} : Lookup(s, i) = Lookup(r, i)
      /\ Known(r, id) => s = r
      /\ ~Known(r, id) => s.nextIdx = r.nextIdx + 1
  BY RegisterSound
<1>2. r.nextIdx \in Nat /\ s.nextIdx \in Nat
  BY <1>1 DEF RegistryOK, Registries
<1>3. Lookup(s, id) \in 0 .. s.nextIdx - 1
  BY <1>1 DEF RegistryOK, SlotsDense
<1>4. 0 .. r.nextIdx - 1 \subseteq 0 .. s.nextIdx - 1
  BY <1>1, <1>2
<1>5. Lookup(s, id) \in Nat
  BY <1>2, <1>3
<1> QED
  BY <1>1, <1>3, <1>4, <1>5 DEF Known, Lookup

\* The last slot is a slot of some id, and there is none only while the
\* registry is empty.
LEMMA LastIndexIsSlot ==
  ASSUME NEW r, RegistryOK(r)
  PROVE  /\ LastIndex(r) = NoIndex <=> r.nextIdx = 0
         /\ LastIndex(r) # NoIndex => LastIndex(r) \in 0 .. r.nextIdx - 1
         /\ \A id \in ToolIds : Known(r, id) => LastIndex(r) # NoIndex
<1>1. r.nextIdx \in Nat /\ LastIndex(r) = r.nextIdx - 1
  BY DEF RegistryOK, Registries
<1>2. \A id \in ToolIds : Known(r, id) => Lookup(r, id) \in 0 .. r.nextIdx - 1
  BY DEF RegistryOK, SlotsDense
<1> QED
  BY <1>1, <1>2 DEF NoIndex

-------------------------------------------------------------------------------

\* A bounded tool-call input is a sequence of fragments.
LEMMA InputsAreSequences == Inputs \subseteq Seq(Fragments)
<1> SUFFICES ASSUME NEW n \in 0 .. MaxFragments, NEW s \in [1 .. n -> Fragments]
             PROVE  s \in Seq(Fragments)
  BY DEF Inputs
<1>1. n \in Nat
  BY BoundsAreNat
<1> QED
  BY <1>1

\* A finish reason is always one the OpenAI protocol defines.
LEMMA NormalizeType == \A why : Normalize(why) \in OpenAIReasons
  BY DEF Normalize, OpenAIReasons

\* Arguments stay sequences of fragments when a name or an input replaces what
\* is known of a call, and when a fragment is appended.
Stated == [name: Names, args: Seq(Fragments)]

LEMMA AmendType ==
  ASSUME NEW known \in Stated, NEW name \in Names, NEW input \in Seq(Fragments)
  PROVE  Amend(known, name, input) \in Stated
  BY DEF Amend, Stated

\* A fragment appended to what is known of a call leaves it well typed.
LEMMA AppendType ==
  ASSUME NEW known \in Stated, NEW f \in Fragments
  PROVE  [name |-> known.name, args |-> Append(known.args, f)] \in Stated
  BY DEF Stated

\* Absent arguments are arguments.
LEMMA NoArgs == <<>> \in Seq(Fragments)
  OBVIOUS

\* What a line of the gateway is, for any parameters.
GatewayLine ==
    \/ \E ch \in Channels : SendSpeech(ch)
    \/ \E id \in ToolIds, name \in Names : SendToolStart(id, name)
    \/ \E id \in Names, f \in Fragments : SendFragment(id, f)
    \/ \E id \in Names : SendStray(id)
    \/ \E id \in ToolIds, name \in Names, input \in Inputs :
          SendToolCall(id, name, input)
    \/ SendNextStep
    \/ \E kind \in {"finish-step", "finish"}, why \in RawReasons, u \in BOOLEAN :
          SendFinish(kind, why, u)
    \/ SendError
    \/ EndStream
    \/ UNCHANGED gatewayVars

\* The gateway's lines keep the gateway's state well typed.
LEMMA GatewayType ==
  ASSUME GatewayTypeOK, GatewayLine
  PROVE  GatewayTypeOK'
<1>f. /\ call \in [ToolIds -> {"none", "open", "complete"}]
      /\ meant \in [ToolIds -> Stated]
      /\ latest \in Names
      /\ stage \in {"step", "stepped", "finished"}
      /\ steps \in Nat /\ strays \in Nat
      /\ verdict \in RawReasons
      /\ usageSent \in BOOLEAN /\ errored \in BOOLEAN
      /\ spoken \in [Channels -> Nat]
      /\ deviated \in SUBSET AllDeviations
  BY DEF GatewayTypeOK, Stated
<1> SUFFICES /\ call' \in [ToolIds -> {"none", "open", "complete"}]
             /\ meant' \in [ToolIds -> Stated]
             /\ latest' \in Names
             /\ stage' \in {"step", "stepped", "finished"}
             /\ steps' \in Nat /\ strays' \in Nat
             /\ verdict' \in RawReasons
             /\ usageSent' \in BOOLEAN /\ errored' \in BOOLEAN
             /\ spoken' \in [Channels -> Nat]
             /\ deviated' \in SUBSET AllDeviations
  BY DEF GatewayTypeOK, Stated
<1>0. \A how : Deviate(how) => deviated' \in SUBSET AllDeviations
  BY <1>f, KnownDeviations DEF Deviate
<1>1. CASE \E ch \in Channels : SendSpeech(ch)
  BY <1>1, <1>f DEF SendSpeech
<1>2. CASE \E id \in ToolIds, name \in Names : SendToolStart(id, name)
  <2>1. PICK id \in ToolIds, name \in Names : SendToolStart(id, name)
    BY <1>2
  <2>2. deviated' \in SUBSET AllDeviations
    BY <2>1, <1>0 DEF SendToolStart
  <2>3. meant' \in [ToolIds -> Stated]
    BY <2>1, <1>f, NoArgs, AmendType DEF SendToolStart
  <2>4. strays' \in Nat
    BY <2>1, <1>f DEF SendToolStart
  <2>5. call' \in [ToolIds -> {"none", "open", "complete"}] /\ latest' \in Names
    BY <2>1, <1>f DEF SendToolStart, Names
  <2> QED
    BY <2>1, <2>2, <2>3, <2>4, <2>5, <1>f DEF SendToolStart
<1>3. CASE \E id \in Names, f \in Fragments : SendFragment(id, f)
  <2>1. PICK id \in Names, f \in Fragments : SendFragment(id, f)
    BY <1>3
  <2>2. id \in ToolIds
    BY <2>1 DEF SendFragment
  <2>3. meant' \in [ToolIds -> Stated]
    BY <2>1, <2>2, <1>f, AppendType DEF SendFragment
  <2> QED
    BY <2>1, <2>3, <1>f DEF SendFragment
<1>4. CASE \E id \in Names : SendStray(id)
  BY <1>4, <1>0, <1>f DEF SendStray
<1>5. CASE \E id \in ToolIds, name \in Names, input \in Inputs :
              SendToolCall(id, name, input)
  <2>1. PICK id \in ToolIds, name \in Names, input \in Inputs :
                SendToolCall(id, name, input)
    BY <1>5
  <2>2. deviated' \in SUBSET AllDeviations
    BY <2>1, <1>0 DEF SendToolCall
  <2>3. meant' \in [ToolIds -> Stated]
    BY <2>1, <1>f, AmendType, InputsAreSequences DEF SendToolCall
  <2>4. latest' \in Names
    BY <2>1, <1>f DEF SendToolCall, Names
  <2>5. call' \in [ToolIds -> {"none", "open", "complete"}]
    BY <2>1, <1>f DEF SendToolCall
  <2> QED
    BY <2>1, <2>2, <2>3, <2>4, <2>5, <1>f DEF SendToolCall
<1>6. CASE SendNextStep
  BY <1>6, <1>0, <1>f DEF SendNextStep
<1>7. CASE \E kind \in {"finish-step", "finish"}, why \in RawReasons, u \in BOOLEAN :
              SendFinish(kind, why, u)
  <2>1. PICK kind \in {"finish-step", "finish"}, why \in RawReasons, u \in BOOLEAN :
                SendFinish(kind, why, u)
    BY <1>7
  <2>2. steps' \in Nat /\ stage' \in {"step", "stepped", "finished"}
    BY <2>1, <1>f DEF SendFinish
  <2>3. verdict' \in RawReasons
    BY <2>1 DEF SendFinish
  <2> QED
    BY <2>1, <2>2, <2>3, <1>f DEF SendFinish
<1>8. CASE SendError
  BY <1>8, <1>0, <1>f DEF SendError
<1>9. CASE EndStream
  BY <1>9, <1>0, <1>f DEF EndStream
<1>10. CASE UNCHANGED gatewayVars
  BY <1>10, <1>f DEF gatewayVars
<1> QED
  BY <1>1, <1>2, <1>3, <1>4, <1>5, <1>6, <1>7, <1>8, <1>9, <1>10 DEF GatewayLine
\* The initial state of the gateway and of the shared part is well typed.
LEMMA SharedInitType ==
  ASSUME GatewayInit, AssemblerInit
  PROVE  GatewayTypeOK /\ AssemblerTypeOK
<1>1. meant \in [ToolIds -> Stated]
  BY NoArgs DEF GatewayInit, Stated, Names
<1>2. spoken \in [Channels -> Nat] /\ deviated \in SUBSET AllDeviations
  BY DEF GatewayInit
<1>4. latest \in Names /\ call \in [ToolIds -> {"none", "open", "complete"}]
  BY DEF GatewayInit, Names
<1>6. verdict \in RawReasons /\ stage \in {"step", "stepped", "finished"}
  BY ReasonMayBeAbsent DEF GatewayInit
<1>7. steps \in Nat /\ strays \in Nat /\ usageSent \in BOOLEAN /\ errored \in BOOLEAN
  BY DEF GatewayInit
<1>5. GatewayTypeOK
  BY <1>1, <1>2, <1>4, <1>6, <1>7 DEF GatewayTypeOK, Stated
<1>3. AssemblerTypeOK
  BY NewRegistryOK DEF AssemblerInit, AssemblerTypeOK, RegistryOK
<1> QED
  BY <1>5, <1>3

\* register keeps the registry well typed.
LEMMA RegisterType ==
  ASSUME NEW r \in Registries, NEW id \in ToolIds
  PROVE  Register(r, id) \in Registries
  BY DEF Register, Registries
===============================================================================
