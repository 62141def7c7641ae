--------------------------- MODULE Conversion_proofs ---------------------------
(***************************************************************************)
(* Proofs about Conversion, for any conversation of any length, over any   *)
(* call ids and tool names.                                                *)
(***************************************************************************)
EXTENDS Conversion, FiniteSetTheorems, TLAPS

(***************************************************************************)
(* A sequence and one element more.                                        *)
(***************************************************************************)
LEMMA Appended ==
    ASSUME NEW S, NEW s \in Seq(S), NEW e \in S
    PROVE  /\ Append(s, e) \in Seq(S)
           /\ Len(Append(s, e)) = Len(s) + 1 /\ Len(s) \in Nat
           /\ DOMAIN s = 1 .. Len(s) /\ DOMAIN Append(s, e) = 1 .. Len(s) + 1
           /\ \A i \in DOMAIN s : Append(s, e)[i] = s[i]
           /\ Append(s, e)[Len(s) + 1] = e
  OBVIOUS

(***************************************************************************)
(* What the conversions of single values yield.                            *)
(***************************************************************************)
LEMMA InputType ==
    /\ \A raw \in RawInputs : ParseToolInput(raw) \in Inputs
    /\ \A raw \in RawInputs : ParseToolInputJSON(raw) \in Inputs
    /\ \A raw \in RawInputs : ParseToolInput(raw) = "absent" => raw = "null"
    /\ \A raw \in RawInputs : ParseToolInputJSON(raw) = "absent" => raw = "null"
<1>1. /\ ParseToolInput("none") = "{}" /\ ParseToolInput("empty") = "{}"
      /\ ParseToolInput("object") = "object" /\ ParseToolInput("null") = "absent"
      /\ ParseToolInput("broken") = "wrapped"
  BY DEF ParseToolInput
<1>2. \A raw \in RawInputs : \/ raw = "none" \/ raw = "empty" \/ raw = "object"
                             \/ raw = "null" \/ raw = "broken"
  BY DEF RawInputs
<1>3. /\ \A raw \in RawInputs : ParseToolInput(raw) \in Inputs
      /\ \A raw \in RawInputs : ParseToolInput(raw) = "absent" => raw = "null"
  BY <1>1, <1>2 DEF Inputs
<1>4. "empty" \in Inputs /\ "empty" # "absent"
  BY DEF Inputs
<1> QED
  BY <1>3, <1>4 DEF ParseToolInputJSON

LEMMA NameType ==
    ASSUME TypeOK, NEW id \in CallIds, NEW own \in Names
    PROVE  NameOf(id, own) \in ToolNames \cup {Unknown}
  BY BlankIsNothing DEF NameOf, TypeOK, Names

LEMMA CallType ==
    ASSUME NEW id \in CallIds, NEW name \in ToolNames, NEW input \in Inputs
    PROVE  LET p == ToolCall(id, name, input) IN
           /\ p \in SentParts /\ IsCall(p) /\ ~IsResult(p)
           /\ p.id = id /\ p.name = name /\ p.input = input
  BY DEF ToolCall, SentParts, CallParts, IsCall, IsResult

LEMMA ResultType ==
    ASSUME NEW id \in CallIds, NEW name \in ToolNames \cup {Unknown}, NEW error \in BOOLEAN
    PROVE  LET p == ToolResult(id, name, error) IN
           /\ p \in SentParts /\ IsResult(p) /\ ~IsCall(p)
           /\ p.id = id /\ p.name = name
  BY DEF ToolResult, SentParts, ResultParts, IsCall, IsResult

LEMMA SpeechType ==
    ASSUME NEW type \in {"text", "reasoning"}
    PROVE  Speech(type) \in SentParts /\ ~IsCall(Speech(type)) /\ ~IsResult(Speech(type))
<1>1. Speech(type) \in SpeechParts
  BY DEF Speech, SpeechParts
<1>2. Speech(type).type = type
  BY DEF Speech
<1> QED
  BY <1>1, <1>2 DEF SentParts, IsCall, IsResult

LEMMA SentCalls ==
    ASSUME NEW p \in SentParts, IsCall(p) \/ IsResult(p)
    PROVE  p.id \in CallIds
  BY DEF SentParts, SpeechParts, CallParts, ResultParts, IsCall, IsResult

(***************************************************************************)
(* parseContent adds at most one part for a part it reads.                 *)
(***************************************************************************)
LEMMA PartEffect ==
    ASSUME TypeOK, NEW p \in Parts
    PROVE  \/ /\ parts \o Parsed(p) = parts
              /\ ~(IsCall(p) /\ p.id # Blank /\ p.name # Blank)
           \/ \E q \in SentParts :
                 /\ parts \o Parsed(p) = Append(parts, q)
                 /\ IsCall(p) /\ p.id # Blank /\ p.name # Blank => IsCall(q)
                 /\ IsCall(q) => /\ IsCall(p) /\ p.id # Blank /\ p.name # Blank
                                 /\ q.id = p.id /\ q.name = p.name
                                 /\ q.input = "absent" => p.input = "null"
                 /\ IsResult(q) => /\ ~IsCall(p) /\ q.id = p.id
                                   /\ q.name = NameOf(p.id, p.name)
<1>1. /\ p \in PartRecords /\ parts \in Seq(SentParts)
      /\ p.id \in Ids /\ p.name \in Names /\ p.input \in RawInputs /\ p.error \in BOOLEAN
  BY ClientSends DEF TypeOK, PartRecords
<1>2. \A q \in SentParts : parts \o <<q>> = Append(parts, q)
  BY <1>1
<1>3. parts \o <<>> = parts
  BY <1>1
<1>4. CASE p.type \in {"text", "reasoning"}
  <2>1. Parsed(p) = <<Speech(p.type)>> /\ ~IsCall(p)
    BY <1>4 DEF Parsed, IsCall
  <2> QED
    BY <1>2, <1>4, <2>1, SpeechType
<1>5. CASE p.type = "tool-call" /\ p.id # Blank /\ p.name # Blank
  <2> DEFINE q == ToolCall(p.id, p.name, ParseToolInputJSON(p.input))
  <2>1. Parsed(p) = <<q>> /\ IsCall(p)
    BY <1>5 DEF Parsed, IsCall
  <2>2. p.id \in CallIds /\ p.name \in ToolNames
    BY <1>1, <1>5 DEF Ids, Names
  <2>3. /\ ParseToolInputJSON(p.input) \in Inputs
        /\ ParseToolInputJSON(p.input) = "absent" => p.input = "null"
    BY <1>1, InputType
  <2>4. /\ q \in SentParts /\ IsCall(q) /\ ~IsResult(q) /\ q.id = p.id /\ q.name = p.name
        /\ q.input = "absent" => p.input = "null"
    BY <2>2, <2>3, CallType
  <2> HIDE DEF q
  <2> QED
    BY <1>2, <1>5, <2>1, <2>4
<1>6. CASE p.type = "tool-result" /\ p.id # Blank
  <2> DEFINE q == ToolResult(p.id, NameOf(p.id, p.name), p.error)
  <2>1. Parsed(p) = <<q>> /\ ~IsCall(p)
    BY <1>6 DEF Parsed, IsCall
  <2>2. p.id \in CallIds
    BY <1>1, <1>6 DEF Ids
  <2>n. NameOf(p.id, p.name) \in ToolNames \cup {Unknown}
    BY <1>1, <2>2, NameType
  <2>3. /\ q \in SentParts /\ IsResult(q) /\ ~IsCall(q)
        /\ q.id = p.id /\ q.name = NameOf(p.id, p.name)
    BY <1>1, <2>2, <2>n, ResultType
  <2> HIDE DEF q
  <2> QED
    BY <1>2, <2>1, <2>3
<1>7. CASE ~(p.type \in {"text", "reasoning"})
           /\ ~(p.type = "tool-call" /\ p.id # Blank /\ p.name # Blank)
           /\ ~(p.type = "tool-result" /\ p.id # Blank)
  BY <1>3, <1>7 DEF Parsed, IsCall
<1> QED
  BY <1>4, <1>5, <1>6, <1>7

(***************************************************************************)
(* An entry of tool_calls adds the call it states, or nothing if it is     *)
(* incomplete or its call is among the parts.                              *)
(***************************************************************************)
LEMMA MergeEffect ==
    ASSUME TypeOK, MergeCall
    PROVE  LET c == calls[merged + 1] IN
           /\ merged + 1 \in DOMAIN calls
           /\ \/ /\ parts' = parts
                 /\ c.id # Blank /\ c.name # Blank => HasCall(parts, c.id)
              \/ \E q \in SentParts :
                    /\ parts' = Append(parts, q)
                    /\ c.id # Blank /\ c.name # Blank /\ ~HasCall(parts, c.id)
                    /\ IsCall(q) /\ ~IsResult(q) /\ q.id = c.id
                    /\ q.input = "absent" => c.input = "null"
<1> DEFINE c == calls[merged + 1]
<1>1. merged \in Nat /\ merged < Len(calls) /\ calls \in Seq(CallRecords)
  BY DEF TypeOK, MergeCall
<1>2. merged + 1 \in DOMAIN calls /\ c \in CallRecords
  BY <1>1
<1>3. c.id \in Ids /\ c.name \in Names /\ c.input \in RawInputs
  BY <1>2 DEF CallRecords
<1>4. c.id \in AddedTools <=> HasCall(parts, c.id)
  BY DEF AddedTools, HasCall, IsCall
<1>5. CASE c.id \in AddedTools \/ c.id = Blank \/ c.name = Blank
  BY <1>2, <1>4, <1>5 DEF MergeCall
<1>6. CASE ~(c.id \in AddedTools \/ c.id = Blank \/ c.name = Blank)
  <2> DEFINE q == ToolCall(c.id, c.name, ParseToolInput(c.input))
  <2>1. parts' = Append(parts, q)
    BY <1>6 DEF MergeCall
  <2>2. c.id \in CallIds /\ c.name \in ToolNames
    BY <1>3, <1>6 DEF Ids, Names
  <2>3. /\ ParseToolInput(c.input) \in Inputs
        /\ ParseToolInput(c.input) = "absent" => c.input = "null"
    BY <1>3, InputType
  <2>4. /\ q \in SentParts /\ IsCall(q) /\ ~IsResult(q) /\ q.id = c.id
        /\ q.input = "absent" => c.input = "null"
    BY <2>2, <2>3, CallType
  <2> HIDE DEF q, c
  <2> QED
    BY <1>2, <1>4, <1>6, <2>1, <2>4 DEF c
<1> QED
  BY <1>5, <1>6

(***************************************************************************)
(* An iteration that sends a message, or one that skips it, keeps types.   *)
(***************************************************************************)
LEMMA MessageType == ASSUME TypeOK PROVE Message \in Messages
  BY DEF TypeOK, Message, Messages

LEMMA ForgottenType ==
    /\ NoHead \in HeadRecords
    /\ <<>> \in Seq(CallRecords) /\ <<>> \in Seq(PartRecords) /\ <<>> \in Seq(SentParts)
    /\ 0 \in 0 .. Len(<<>>)
  BY DEF NoHead, HeadRecords, Roles, Names, Ids

LEMMA SendType ==
    ASSUME TypeOK, ScanInv, NEW x \in Seq(SentParts), Send(x), UNCHANGED <<toolNames, items>>
    PROVE  TypeOK' /\ ScanInv'
<1>1. Message \in Messages
  BY MessageType
<1>2. [role |-> NormalizeRole(head.role), content |-> x] \in SentMessages
  BY DEF ScanInv, NormalizeRole, SentMessages
<1>3. /\ conversation \in Seq(Messages) /\ Len(conversation) + 1 \in Nat
      /\ conversation' \in Seq(Messages)
  BY <1>1 DEF TypeOK, Send
<1>4. sent' \in Seq(SentMessages) /\ origin' \in Seq(Nat)
  BY <1>2, <1>3 DEF TypeOK, Send
<1>5. TypeOK'
  BY <1>3, <1>4, ForgottenType DEF TypeOK, Send, ForgetMessage
<1>6. ScanInv'
  BY DEF ScanInv, Send, ForgetMessage, NoHead
<1> QED
  BY <1>5, <1>6

LEMMA SkipType ==
    ASSUME TypeOK, NEW m \in Messages, Skip(m), UNCHANGED <<toolNames, items>>
    PROVE  TypeOK' /\ ScanInv'
<1>1. conversation' \in Seq(Messages)
  BY DEF TypeOK, Skip
<1>2. TypeOK'
  BY <1>1, ForgottenType DEF TypeOK, Skip, ForgetMessage
<1>3. ScanInv'
  BY DEF ScanInv, Skip, ForgetMessage, NoHead
<1> QED
  BY <1>2, <1>3

LEMMA RememberType ==
    ASSUME TypeOK, NEW id \in Ids, NEW name \in Names, Remember(id, name)
    PROVE  toolNames' \in [CallIds -> Names]
<1>1. CASE id # Blank /\ name # Blank
  BY <1>1 DEF Remember, TypeOK, Ids
<1>2. CASE ~(id # Blank /\ name # Blank)
  BY <1>2 DEF Remember, TypeOK
<1> QED
  BY <1>1, <1>2

(***************************************************************************)
(* Every step keeps types, and the scan in order.                          *)
(***************************************************************************)
LEMMA TypeStep == TypeOK /\ ScanInv /\ [Next]_vars => TypeOK' /\ ScanInv'
<1> SUFFICES ASSUME TypeOK, ScanInv, [Next]_vars PROVE TypeOK' /\ ScanInv'
  OBVIOUS
<1>t. /\ conversation \in Seq(Messages) /\ sent \in Seq(SentMessages) /\ origin \in Seq(Nat)
      /\ head \in HeadRecords /\ calls \in Seq(CallRecords) /\ content \in Seq(PartRecords)
      /\ parts \in Seq(SentParts) /\ items \in Nat /\ MaxItems \in Nat
  BY BoundsAreNat DEF TypeOK
<1>1. CASE \E h \in Heads : ReadHead(h)
  <2>1. PICK h \in Heads : ReadHead(h)
    BY <1>1
  <2>2. h \in HeadRecords
    BY ClientSends
  <2>3. CASE NormalizeRole(h.role) = ""
    <3>1. [head |-> h, calls |-> <<>>, content |-> <<>>] \in Messages
      BY <2>2, ForgottenType DEF Messages
    <3> QED
      BY <2>1, <2>3, <3>1, SkipType DEF ReadHead
  <2>4. CASE NormalizeRole(h.role) # ""
    <3>1. /\ phase = "messages" /\ phase' = "calls" /\ head' = h
          /\ UNCHANGED <<conversation, sent, origin, calls, content, parts, merged,
                         toolNames, items>>
      BY <2>1, <2>4 DEF ReadHead
    <3>2. h.role \in {"user", "assistant", "tool"}
      BY <2>4 DEF NormalizeRole
    <3>3. TypeOK'
      BY <2>2, <3>1 DEF TypeOK
    <3>4. ScanInv'
      BY <3>1, <3>2 DEF ScanInv
    <3> QED
      BY <3>3, <3>4
  <2> QED
    BY <2>3, <2>4
<1>2. CASE \E c \in Calls : ReadCall(c)
  <2>1. PICK c \in Calls : ReadCall(c)
    BY <1>2
  <2>2. c \in CallRecords /\ c.id \in Ids /\ c.name \in Names
    BY ClientSends DEF CallRecords
  <2>3. toolNames' \in [CallIds -> Names]
    BY <2>1, <2>2, RememberType DEF ReadCall
  <2>4. /\ calls' = Append(calls, c) /\ phase = "calls" /\ items < MaxItems /\ items' = items + 1
        /\ UNCHANGED <<conversation, sent, origin, phase, head, content, parts, merged>>
    BY <2>1 DEF ReadCall
  <2>5. merged = 0 /\ calls' \in Seq(CallRecords)
    BY <1>t, <2>2, <2>4 DEF ScanInv
  <2>6. TypeOK'
    BY <1>t, <2>3, <2>4, <2>5 DEF TypeOK
  <2>7. ScanInv'
    BY <2>4 DEF ScanInv
  <2> QED
    BY <2>6, <2>7
<1>3. CASE SendResult
  <2>1. CASE head.callId = Blank
    BY <1>3, <2>1, MessageType, SkipType DEF SendResult
  <2>2. CASE head.callId # Blank
    <3>1. head.callId \in CallIds /\ head.name \in Names /\ head.error \in BOOLEAN
      BY <1>t, <2>2 DEF HeadRecords, Ids
    <3>2. NameOf(head.callId, head.name) \in ToolNames \cup {Unknown}
      BY <3>1, NameType
    <3>3. ToolResult(head.callId, NameOf(head.callId, head.name), head.error) \in SentParts
      BY <3>1, <3>2, ResultType
    <3>4. <<ToolResult(head.callId, NameOf(head.callId, head.name), head.error)>>
             \in Seq(SentParts)
      BY <3>3
    <3> QED
      BY <1>3, <2>2, <3>4, SendType DEF SendResult
  <2> QED
    BY <2>1, <2>2
<1>4. CASE ReadContent
  BY <1>4 DEF ReadContent, messageVars, TypeOK, ScanInv
<1>5. CASE \E p \in Parts : ReadPart(p)
  <2>1. PICK p \in Parts : ReadPart(p)
    BY <1>5
  <2>2. p \in PartRecords /\ p.id \in Ids /\ p.name \in Names
    BY ClientSends DEF PartRecords
  <2>3. toolNames' \in [CallIds -> Names]
    BY <2>1, <2>2, RememberType DEF ReadPart, TypeOK
  <2>4. /\ phase = "content" /\ items < MaxItems /\ items' = items + 1
        /\ content' = Append(content, p) /\ parts' = parts \o Parsed(p)
        /\ UNCHANGED <<conversation, sent, origin, phase, head, calls, merged>>
    BY <2>1 DEF ReadPart
  <2>5. content' \in Seq(PartRecords)
    BY <1>t, <2>2, <2>4
  <2>6. parts' \in Seq(SentParts)
    <3>1. \/ parts \o Parsed(p) = parts
          \/ \E q \in SentParts : parts \o Parsed(p) = Append(parts, q)
      BY PartEffect
    <3>2. \A q \in SentParts : Append(parts, q) \in Seq(SentParts)
      BY <1>t, Appended
    <3> QED
      BY <1>t, <2>4, <3>1, <3>2, Zenon
  <2>7. TypeOK'
    BY <1>t, <2>3, <2>4, <2>5, <2>6 DEF TypeOK
  <2>8. ScanInv'
    BY <2>4 DEF ScanInv
  <2> QED
    BY <2>7, <2>8
<1>6. CASE EndContent
  <2>1. CASE head.role = "assistant" /\ calls # <<>>
    <3>1. /\ phase = "content" /\ phase' = "merge"
          /\ UNCHANGED <<conversation, sent, origin, toolNames, items, head, calls,
                         content, parts, merged>>
      BY <1>6, <2>1 DEF EndContent, messageVars
    <3> QED
      BY <2>1, <3>1 DEF TypeOK, ScanInv
  <2>2. CASE ~(head.role = "assistant" /\ calls # <<>>)
    BY <1>6, <1>t, <2>2, SendType DEF EndContent
  <2> QED
    BY <2>1, <2>2
<1>7. CASE MergeCall
  <2>1. /\ phase = "merge" /\ merged < Len(calls) /\ merged' = merged + 1
        /\ UNCHANGED <<conversation, sent, origin, toolNames, phase, head, calls, content,
                       items>>
    BY <1>7 DEF MergeCall
  <2>2. parts' \in Seq(SentParts)
    <3>1. parts' = parts \/ \E q \in SentParts : parts' = Append(parts, q)
      BY <1>7, MergeEffect
    <3>2. \A q \in SentParts : Append(parts, q) \in Seq(SentParts)
      BY <1>t, Appended
    <3> QED
      BY <1>t, <3>1, <3>2, Zenon
  <2>3. merged' \in 0 .. Len(calls')
    BY <1>t, <2>1 DEF TypeOK
  <2> QED
    BY <2>1, <2>2, <2>3 DEF TypeOK, ScanInv
<1>8. CASE EndMerge
  BY <1>8, <1>t, SendType DEF EndMerge
<1>9. CASE Return
  BY <1>9 DEF Return, messageVars, TypeOK, ScanInv
<1>10. CASE UNCHANGED vars
  BY <1>10 DEF vars, messageVars, TypeOK, ScanInv
<1> QED
  BY <1>1, <1>2, <1>3, <1>4, <1>5, <1>6, <1>7, <1>8, <1>9, <1>10 DEF Next

(***************************************************************************)
(* What an iteration leaves behind: what was sent stays as it was, and the *)
(* message joins the conversation.                                         *)
(***************************************************************************)
LEMMA ConversationGrows ==
    ASSUME TypeOK, NEW m \in Messages, conversation' = Append(conversation, m)
    PROVE  /\ Len(conversation) \in Nat
           /\ DOMAIN conversation = 1 .. Len(conversation)
           /\ DOMAIN conversation' = 1 .. Len(conversation) + 1
           /\ \A n \in DOMAIN conversation :
                 n \in DOMAIN conversation' /\ conversation'[n] = conversation[n]
           /\ conversation'[Len(conversation) + 1] = m
<1>1. conversation \in Seq(Messages)
  BY DEF TypeOK
<1>2. /\ Len(conversation) \in Nat /\ DOMAIN conversation = 1 .. Len(conversation)
      /\ DOMAIN conversation' = 1 .. Len(conversation) + 1
      /\ \A n \in DOMAIN conversation : conversation'[n] = conversation[n]
      /\ conversation'[Len(conversation) + 1] = m
  BY <1>1, Appended
<1> QED
  BY <1>2

LEMMA SendGrows ==
    ASSUME TypeOK, ScanInv, TurnsInOrder, NEW x \in Seq(SentParts), Send(x)
    PROVE  LET new == Len(sent) + 1 IN
           /\ new \in Nat /\ DOMAIN sent = 1 .. Len(sent) /\ DOMAIN sent' = 1 .. new
           /\ Len(sent') = new /\ Len(origin') = new
           /\ \A k \in DOMAIN sent :
                 /\ k \in Nat /\ k < new
                 /\ sent'[k] = sent[k] /\ origin'[k] = origin[k]
                 /\ origin[k] \in Nat /\ origin[k] \in DOMAIN conversation
                 /\ conversation'[origin'[k]] = conversation[origin[k]]
           /\ sent'[new].role = head.role /\ sent'[new].content = x
           /\ origin'[new] = Len(conversation) + 1
           /\ conversation'[origin'[new]] = Message
           /\ \A k \in DOMAIN sent' : k \in DOMAIN sent \/ k = new
<1> DEFINE new == Len(sent) + 1
<1>1. /\ sent \in Seq(SentMessages) /\ origin \in Seq(Nat) /\ Len(origin) = Len(sent)
      /\ \A k \in DOMAIN sent : origin[k] \in DOMAIN conversation
      /\ Message \in Messages /\ NormalizeRole(head.role) = head.role
  BY MessageType DEF TypeOK, TurnsInOrder, ScanInv, NormalizeRole
<1> DEFINE m == [role |-> NormalizeRole(head.role), content |-> x]
<1>2. m \in SentMessages /\ m.role = head.role /\ m.content = x
  BY <1>1 DEF ScanInv, SentMessages
<1>3. /\ sent' = Append(sent, m) /\ origin' = Append(origin, Len(conversation) + 1)
      /\ conversation' = Append(conversation, Message)
  BY DEF Send
<1> HIDE DEF m
<1>4. /\ Len(conversation) \in Nat
      /\ \A n \in DOMAIN conversation : conversation'[n] = conversation[n]
      /\ conversation'[Len(conversation) + 1] = Message
      /\ DOMAIN conversation = 1 .. Len(conversation)
  BY <1>1, <1>3, ConversationGrows
<1>5. /\ Len(sent) \in Nat /\ DOMAIN sent = 1 .. Len(sent)
      /\ DOMAIN sent' = 1 .. new /\ Len(sent') = new
      /\ \A k \in DOMAIN sent : sent'[k] = sent[k]
      /\ sent'[new] = m
  BY <1>1, <1>2, <1>3, Appended
<1>6. /\ DOMAIN origin = 1 .. Len(sent) /\ Len(origin') = new
      /\ \A k \in DOMAIN origin : origin'[k] = origin[k]
      /\ origin'[new] = Len(conversation) + 1
  <2>1. Len(conversation) + 1 \in Nat
    BY <1>4
  <2> QED
    BY <1>1, <1>3, <2>1, Appended
<1>7. ASSUME NEW k \in DOMAIN sent
      PROVE  /\ k \in Nat /\ k < new
             /\ sent'[k] = sent[k] /\ origin'[k] = origin[k]
             /\ origin[k] \in Nat /\ origin[k] \in DOMAIN conversation
             /\ conversation'[origin'[k]] = conversation[origin[k]]
  BY <1>1, <1>4, <1>5, <1>6
<1> QED
  BY <1>2, <1>4, <1>5, <1>6, <1>7

(***************************************************************************)
(* One sequence continues another; the scan reads on in its message.       *)
(***************************************************************************)
Continues(t, s) == DOMAIN s \subseteq DOMAIN t /\ \A l \in DOMAIN s : t[l] = s[l]
ReadsOn == head' = head /\ Continues(calls', calls) /\ Continues(content', content)

(***************************************************************************)
(* Steps that neither send nor skip a message leave the conversation and   *)
(* what was sent alone; the others end an iteration.                       *)
(***************************************************************************)
LEMMA StepShape ==
    ASSUME TypeOK, ScanInv, [Next]_vars
    PROVE  \/ UNCHANGED <<conversation, sent, origin>> /\ (phase = "messages" \/ ReadsOn)
           \/ \E m \in Messages : /\ ~IsTurn(m) /\ Skip(m) /\ UNCHANGED toolNames
                                  /\ phase = "messages" \/ m = Message
           \/ SendResult /\ head.callId # Blank
           \/ (EndContent \/ EndMerge) /\ Send(parts) /\ UNCHANGED toolNames
              /\ (EndMerge \/ ~(head.role = "assistant" /\ calls # <<>>))
<1>1. ASSUME NEW h \in Heads, ReadHead(h), NormalizeRole(h.role) = ""
      PROVE  \E m \in Messages : /\ ~IsTurn(m) /\ Skip(m) /\ UNCHANGED toolNames
                                 /\ phase = "messages" \/ m = Message
  <2> DEFINE m == [head |-> h, calls |-> <<>>, content |-> <<>>]
  <2>1. h \in HeadRecords
    BY ClientSends
  <2>2. m \in Messages /\ m.head = h
    BY <2>1, ForgottenType DEF Messages
  <2>3. ~IsTurn(m)
    BY <1>1, <2>2 DEF IsTurn, NormalizeRole
  <2>4. Skip(m) /\ UNCHANGED toolNames /\ phase = "messages"
    BY <1>1 DEF ReadHead
  <2> QED
    BY <2>2, <2>3, <2>4
<1>2. ASSUME SendResult, head.callId = Blank
      PROVE  \E m \in Messages : /\ ~IsTurn(m) /\ Skip(m) /\ UNCHANGED toolNames
                                 /\ phase = "messages" \/ m = Message
  <2>1. Message \in Messages /\ Message.head = head
    BY MessageType DEF Message
  <2>2. ~IsTurn(Message)
    BY <1>2, <2>1 DEF IsTurn, SendResult
  <2> QED
    BY <1>2, <2>1, <2>2 DEF SendResult
<1>3. CASE \E h \in Heads : ReadHead(h)
  BY <1>1, <1>3 DEF ReadHead
<1>4. CASE (\E c \in Calls : ReadCall(c)) \/ (\E p \in Parts : ReadPart(p))
  <2>1. /\ UNCHANGED <<conversation, sent, origin, head>>
        /\ calls' = calls \/ \E c \in CallRecords : calls' = Append(calls, c)
        /\ content' = content \/ \E p \in PartRecords : content' = Append(content, p)
    BY <1>4, ClientSends DEF ReadCall, ReadPart
  <2>2. \A c \in CallRecords : Continues(Append(calls, c), calls)
    BY Appended DEF Continues, TypeOK
  <2>3. \A p \in PartRecords : Continues(Append(content, p), content)
    BY Appended DEF Continues, TypeOK
  <2>4. Continues(calls, calls) /\ Continues(content, content)
    BY DEF Continues
  <2> QED
    BY <2>1, <2>2, <2>3, <2>4 DEF ReadsOn
<1>5. CASE SendResult
  BY <1>2, <1>5
<1>6. CASE EndContent
  BY <1>6 DEF EndContent, messageVars, ReadsOn, Continues
<1>7. CASE EndMerge
  BY <1>7 DEF EndMerge
<1>8. CASE ReadContent \/ MergeCall \/ Return \/ UNCHANGED vars
  BY <1>8 DEF ReadContent, MergeCall, Return, vars, messageVars, ReadsOn, Continues
<1> QED
  BY <1>3, <1>4, <1>5, <1>6, <1>7, <1>8 DEF Next

(***************************************************************************)
(* The turns stay in order.                                                *)
(***************************************************************************)
LEMMA SendTurn ==
    ASSUME TypeOK, ScanInv, TurnsInOrder, NEW x \in Seq(SentParts), Send(x), IsTurn(Message)
    PROVE  TurnsInOrder'
<1> DEFINE new == Len(sent) + 1
<1>1. /\ new \in Nat /\ DOMAIN sent = 1 .. Len(sent) /\ DOMAIN sent' = 1 .. new
      /\ Len(sent') = new /\ Len(origin') = new
      /\ \A k \in DOMAIN sent :
            /\ k \in Nat /\ k < new
            /\ sent'[k] = sent[k] /\ origin'[k] = origin[k]
            /\ origin[k] \in Nat /\ origin[k] \in DOMAIN conversation
            /\ conversation'[origin'[k]] = conversation[origin[k]]
      /\ sent'[new].role = head.role
      /\ origin'[new] = Len(conversation) + 1
      /\ conversation'[origin'[new]] = Message
      /\ \A k \in DOMAIN sent' : k \in DOMAIN sent \/ k = new
  BY SendGrows
<1>2. /\ Len(conversation) \in Nat /\ DOMAIN conversation = 1 .. Len(conversation)
      /\ DOMAIN conversation' = 1 .. Len(conversation) + 1
      /\ \A n \in DOMAIN conversation : conversation'[n] = conversation[n]
  <2>1. conversation' = Append(conversation, Message)
    BY DEF Send
  <2> QED
    BY <2>1, MessageType, ConversationGrows
<1> HIDE DEF new
<1>3. ASSUME NEW k \in DOMAIN sent'
      PROVE  /\ origin'[k] \in DOMAIN conversation'
             /\ IsTurn(conversation'[origin'[k]])
             /\ sent'[k].role = conversation'[origin'[k]].head.role
  <2>1. CASE k \in DOMAIN sent
    <3>1. /\ IsTurn(conversation[origin[k]])
          /\ sent[k].role = conversation[origin[k]].head.role
      BY <2>1 DEF TurnsInOrder, Source
    <3>2. origin'[k] \in DOMAIN conversation'
      BY <1>1, <1>2, <2>1
    <3> QED
      BY <1>1, <2>1, <3>1, <3>2
  <2>2. CASE k = new
    <3>1. Message.head = head
      BY DEF Message
    <3> QED
      BY <1>1, <1>2, <2>2, <3>1
  <2> QED
    BY <1>1, <2>1, <2>2
<1>4. ASSUME NEW k \in DOMAIN sent', NEW j \in DOMAIN sent', j < k
      PROVE  origin'[j] < origin'[k]
  <2>1. CASE k \in DOMAIN sent /\ j \in DOMAIN sent
    BY <1>1, <1>4, <2>1 DEF TurnsInOrder
  <2>2. CASE k = new /\ j \in DOMAIN sent
    BY <1>1, <1>2, <2>2
  <2>3. CASE j = new
    BY <1>1, <1>4, <2>3
  <2> QED
    BY <1>1, <2>1, <2>2, <2>3
<1>5. ASSUME NEW n \in DOMAIN conversation', IsTurn(conversation'[n])
      PROVE  \E k \in DOMAIN sent' : origin'[k] = n
  <2>1. CASE n \in DOMAIN conversation
    <3>1. PICK k \in DOMAIN sent : origin[k] = n
      BY <1>2, <1>5, <2>1 DEF TurnsInOrder
    <3>2. k \in DOMAIN sent' /\ origin'[k] = n
      BY <1>1, <3>1
    <3> QED
      BY <3>2
  <2>2. CASE n = Len(conversation) + 1
    <3>1. new \in DOMAIN sent'
      BY <1>1 DEF new
    <3> QED
      BY <1>1, <2>2, <3>1
  <2> QED
    BY <1>2, <2>1, <2>2
<1> QED
  BY <1>1, <1>3, <1>4, <1>5 DEF TurnsInOrder, Source

LEMMA TurnsStep == TypeOK /\ ScanInv /\ TurnsInOrder /\ [Next]_vars => TurnsInOrder'
<1> SUFFICES ASSUME TypeOK, ScanInv, TurnsInOrder, [Next]_vars PROVE TurnsInOrder'
  OBVIOUS
<1>1. CASE UNCHANGED <<conversation, sent, origin>>
  BY <1>1 DEF TurnsInOrder, Source
<1>2. CASE \E m \in Messages : ~IsTurn(m) /\ Skip(m)
  <2>1. PICK m \in Messages : ~IsTurn(m) /\ Skip(m)
    BY <1>2
  <2>2. conversation' = Append(conversation, m) /\ UNCHANGED <<sent, origin>>
    BY <2>1 DEF Skip
  <2>3. /\ DOMAIN conversation = 1 .. Len(conversation) /\ Len(conversation) \in Nat
        /\ DOMAIN conversation' = 1 .. Len(conversation) + 1
        /\ \A n \in DOMAIN conversation :
              n \in DOMAIN conversation' /\ conversation'[n] = conversation[n]
        /\ conversation'[Len(conversation) + 1] = m
    BY <2>2, ConversationGrows
  <2>4. \A n \in DOMAIN conversation' : IsTurn(conversation'[n]) => n \in DOMAIN conversation
    BY <2>1, <2>3
  <2> QED
    BY <2>2, <2>3, <2>4 DEF TurnsInOrder, Source
<1>3. CASE SendResult /\ head.callId # Blank
  <2> DEFINE p == ToolResult(head.callId, NameOf(head.callId, head.name), head.error)
  <2>1. head.callId \in CallIds /\ head.name \in Names /\ head.error \in BOOLEAN
    BY <1>3 DEF TypeOK, HeadRecords, Ids
  <2>2. NameOf(head.callId, head.name) \in ToolNames \cup {Unknown}
    BY <2>1, NameType
  <2>3. p \in SentParts
    BY <2>1, <2>2, ResultType
  <2>4. Send(<<p>>)
    BY <1>3 DEF SendResult
  <2> HIDE DEF p
  <2>5. <<p>> \in Seq(SentParts)
    BY <2>3
  <2>6. IsTurn(Message)
    BY <1>3 DEF SendResult, IsTurn, Message
  <2> QED
    BY <2>4, <2>5, <2>6, SendTurn
<1>4. CASE (EndContent \/ EndMerge) /\ Send(parts)
  <2>1. parts \in Seq(SentParts) /\ Message.head = head
    BY DEF TypeOK, Message
  <2>2. IsTurn(Message)
    BY <1>4, <2>1 DEF EndContent, EndMerge, ScanInv, IsTurn
  <2> QED
    BY <1>4, <2>1, <2>2, SendTurn
<1> QED
  BY <1>1, <1>2, <1>3, <1>4, StepShape

(***************************************************************************)
(* The names a message gives, spelled out; an untouched message gives none.*)
(***************************************************************************)
LEMMA NamesSpelled ==
    ASSUME NEW m, NEW name, NEW id
    PROVE  name \in NamesGiven(m, id) <=>
              \/ \E l \in DOMAIN m.calls : m.calls[l].id = id /\ m.calls[l].name = name
              \/ \E l \in DOMAIN m.content : m.content[l].id = id /\ m.content[l].name = name
              \/ m.head.callId = id /\ m.head.name = name
<1>1. name \in {m.calls[i].name : i \in {j \in DOMAIN m.calls : m.calls[j].id = id}} <=>
         \E l \in DOMAIN m.calls : m.calls[l].id = id /\ m.calls[l].name = name
  OBVIOUS
<1>2. name \in {m.content[i].name : i \in {j \in DOMAIN m.content : m.content[j].id = id}}
         <=> \E l \in DOMAIN m.content : m.content[l].id = id /\ m.content[l].name = name
  OBVIOUS
<1>3. name \in (IF m.head.callId = id THEN {m.head.name} ELSE {}) <=>
         m.head.callId = id /\ m.head.name = name
  OBVIOUS
<1> QED
  BY <1>1, <1>2, <1>3 DEF NamesGiven

LEMMA NothingRead ==
    ASSUME ScanInv, phase = "messages", NEW id \in CallIds, NEW name
    PROVE  name \notin NamesGiven(Message, id)
<1>1. /\ Message.head.callId = Blank /\ DOMAIN Message.calls = {}
      /\ DOMAIN Message.content = {}
  BY DEF ScanInv, Message, NoHead
<1> QED
  BY <1>1, NamesSpelled, BlankIsNothing

(***************************************************************************)
(* A name once given stays given.                                          *)
(***************************************************************************)
LEMMA GivenGrows ==
    ASSUME TypeOK, ScanInv, [Next]_vars, NEW id \in CallIds, NEW name,
           Given(conversation, Message, name, id)
    PROVE  Given(conversation', Message', name, id)
<1>1. CASE UNCHANGED conversation /\ phase = "messages"
  BY <1>1, NothingRead DEF Given
<1>2. CASE UNCHANGED conversation /\ ReadsOn
  <2>1. name \in NamesGiven(Message, id) => name \in NamesGiven(Message', id)
    <3>1. /\ Message.head = head /\ Message'.head = head'
          /\ Message.calls = calls /\ Message'.calls = calls'
          /\ Message.content = content /\ Message'.content = content'
      BY DEF Message
    <3>2. \A l \in DOMAIN calls : l \in DOMAIN calls' /\ calls'[l] = calls[l]
      BY <1>2 DEF ReadsOn, Continues
    <3>3. \A l \in DOMAIN content : l \in DOMAIN content' /\ content'[l] = content[l]
      BY <1>2 DEF ReadsOn, Continues
    <3>4. head' = head
      BY <1>2 DEF ReadsOn
    <3> QED
      BY <3>1, <3>2, <3>3, <3>4, NamesSpelled
  <2> QED
    BY <1>2, <2>1 DEF Given
<1>3. ASSUME NEW m \in Messages, conversation' = Append(conversation, m),
             phase = "messages" \/ m = Message
      PROVE  Given(conversation', Message', name, id)
  <2>1. /\ \A n \in DOMAIN conversation :
              n \in DOMAIN conversation' /\ conversation'[n] = conversation[n]
        /\ Len(conversation) + 1 \in DOMAIN conversation'
        /\ conversation'[Len(conversation) + 1] = m
    BY <1>3, ConversationGrows
  <2> QED
    BY <1>3, <2>1, NothingRead DEF Given
<1> QED
  BY <1>1, <1>2, <1>3, StepShape, MessageType DEF SendResult, Send, Skip

(***************************************************************************)
(* What is remembered is the name given last.                              *)
(***************************************************************************)
LEMMA Remembered ==
    ASSUME TypeOK, NEW id \in Ids, NEW name \in Names, Remember(id, name)
    PROVE  \A i \in CallIds :
              toolNames'[i] = IF i = id /\ name # Blank THEN name ELSE toolNames[i]
<1>1. toolNames \in [CallIds -> Names] /\ Blank \notin CallIds
  BY BlankIsNothing DEF TypeOK
<1>2. CASE id # Blank /\ name # Blank
  BY <1>1, <1>2 DEF Remember
<1>3. CASE ~(id # Blank /\ name # Blank)
  BY <1>1, <1>3 DEF Remember
<1> QED
  BY <1>2, <1>3

(***************************************************************************)
(* A result is named by itself, or by what was given, or not by a call.    *)
(***************************************************************************)
LEMMA NamedSoundly ==
    ASSUME TypeOK, NamesInv, NEW id \in CallIds, NEW own \in Names
    PROVE  IF NameOf(id, own) = Unknown
           THEN /\ ~Called(sent, id)
                /\ \A l \in DOMAIN parts : ~(IsCall(parts[l]) /\ parts[l].id = id)
           ELSE \/ NameOf(id, own) = own
                \/ Given(conversation, Message, NameOf(id, own), id)
<1>1. /\ Blank # Unknown /\ Unknown \notin Names /\ id # Blank
      /\ toolNames[id] \in Names
  BY BlankIsNothing, UnknownIsNoTool DEF Names, TypeOK
<1>2. CASE own # Blank
  BY <1>1, <1>2 DEF NameOf
<1>3. CASE own = Blank /\ toolNames[id] # Blank
  BY <1>1, <1>3 DEF NameOf, NamesInv
<1>4. CASE own = Blank /\ toolNames[id] = Blank
  BY <1>1, <1>4 DEF NameOf, NamesInv
<1> QED
  BY <1>2, <1>3, <1>4

(***************************************************************************)
(* An iteration that ends keeps the names in order.                        *)
(***************************************************************************)
LEMMA IterationNames ==
    ASSUME TypeOK, ScanInv, NamesInv, [Next]_vars,
           toolNames' = toolNames, calls' = <<>>, parts' = <<>>,
           \A id \in CallIds : Called(sent', id) => Called(sent, id) \/ toolNames[id] # Blank
    PROVE  NamesInv'
<1>1. ASSUME NEW id \in CallIds
      PROVE  /\ toolNames'[id] # Blank => Given(conversation', Message', toolNames'[id], id)
             /\ Called(sent', id) => toolNames'[id] # Blank
  <2>1. toolNames[id] # Blank => Given(conversation', Message', toolNames[id], id)
    BY GivenGrows DEF NamesInv
  <2>2. Called(sent, id) => toolNames[id] # Blank
    BY DEF NamesInv
  <2> QED
    BY <2>1, <2>2
<1>2. DOMAIN calls' = {} /\ DOMAIN parts' = {}
  OBVIOUS
<1> QED
  BY <1>1, <1>2 DEF NamesInv

LEMMA SentLater ==
    ASSUME TypeOK, ScanInv, TurnsInOrder, NEW x \in Seq(SentParts), Send(x), NEW id,
           Called(sent', id)
    PROVE  \/ Called(sent, id)
           \/ \E l \in DOMAIN x : IsCall(x[l]) /\ x[l].id = id
<1>1. PICK j \in DOMAIN sent' : \E l \in DOMAIN sent'[j].content :
         IsCall(sent'[j].content[l]) /\ sent'[j].content[l].id = id
  BY DEF Called
<1>2. /\ j \in DOMAIN sent => sent'[j] = sent[j]
      /\ j \in DOMAIN sent \/ sent'[j].content = x
  BY SendGrows
<1> QED
  BY <1>1, <1>2 DEF Called

(***************************************************************************)
(* The results of a message that is sent are named as they should be.      *)
(***************************************************************************)
LEMMA SendNamed ==
    ASSUME TypeOK, ScanInv, TurnsInOrder, ResultsNamed, NEW x \in Seq(SentParts), Send(x),
           \A i \in DOMAIN x : IsResult(x[i]) =>
              IF x[i].name = Unknown
              THEN /\ ~Called(sent, x[i].id)
                   /\ \A l \in 1 .. i - 1 : ~(IsCall(x[l]) /\ x[l].id = x[i].id)
              ELSE Given(conversation, Message, x[i].name, x[i].id)
    PROVE  ResultsNamed'
<1> DEFINE new == Len(sent) + 1
<1>1. /\ new \in Nat /\ DOMAIN sent = 1 .. Len(sent) /\ DOMAIN sent' = 1 .. new
      /\ \A k \in DOMAIN sent :
            /\ k \in Nat /\ k < new
            /\ sent'[k] = sent[k] /\ origin'[k] = origin[k]
            /\ origin[k] \in Nat /\ origin[k] \in DOMAIN conversation
      /\ sent'[new].content = x
      /\ origin'[new] = Len(conversation) + 1
      /\ \A k \in DOMAIN sent' : k \in DOMAIN sent \/ k = new
  BY SendGrows
<1>2. /\ Len(conversation) \in Nat /\ DOMAIN conversation = 1 .. Len(conversation)
      /\ \A n \in DOMAIN conversation : conversation'[n] = conversation[n]
      /\ conversation'[Len(conversation) + 1] = Message
  BY MessageType, ConversationGrows DEF Send
<1> HIDE DEF new
<1> SUFFICES ASSUME NEW k \in DOMAIN sent', NEW i \in DOMAIN sent'[k].content,
                    IsResult(sent'[k].content[i])
             PROVE  LET p == sent'[k].content[i] IN
                    IF p.name = Unknown THEN ~CalledBefore(sent', p.id, k, i)
                    ELSE \E n \in 1 .. origin'[k] :
                            p.name \in NamesGiven(conversation'[n], p.id)
  BY DEF ResultsNamed
<1> DEFINE p == sent'[k].content[i]
<1>3. CASE k \in DOMAIN sent
  <2>1. /\ p = sent[k].content[i] /\ i \in DOMAIN sent[k].content /\ IsResult(p)
        /\ origin'[k] = origin[k]
    BY <1>1, <1>3
  <2>2. IF p.name = Unknown THEN ~CalledBefore(sent, p.id, k, i)
        ELSE \E n \in 1 .. origin[k] : p.name \in NamesGiven(conversation[n], p.id)
    BY <1>3, <2>1 DEF ResultsNamed
  <2>3. \A j \in 1 .. k : sent'[j] = sent[j]
    BY <1>1, <1>3
  <2>4. \A n \in 1 .. origin[k] : conversation'[n] = conversation[n]
    BY <1>1, <1>2, <1>3
  <2>5. k \in 1 .. k /\ \A j \in 1 .. k - 1 : j \in 1 .. k
    BY <1>1, <1>3
  <2> HIDE DEF p
  <2>6. ~CalledBefore(sent, p.id, k, i) => ~CalledBefore(sent', p.id, k, i)
    BY <2>3, <2>5 DEF CalledBefore
  <2> QED
    BY <2>1, <2>2, <2>4, <2>6 DEF p
<1>4. CASE k = new
  <2>1. p = x[i] /\ i \in DOMAIN x /\ IsResult(x[i])
    BY <1>1, <1>4
  <2>2. \A j \in 1 .. k - 1 : j \in DOMAIN sent /\ sent'[j] = sent[j]
    BY <1>1, <1>4 DEF new
  <2>3. CASE p.name = Unknown
    <3>1. ~Called(sent, p.id) /\ \A l \in 1 .. i - 1 : ~(IsCall(x[l]) /\ x[l].id = p.id)
      BY <2>1, <2>3
    <3> QED
      BY <1>1, <1>4, <2>1, <2>2, <2>3, <3>1 DEF CalledBefore, Called
  <2>4. CASE p.name # Unknown
    <3>1. Given(conversation, Message, p.name, p.id)
      BY <2>1, <2>4
    <3>2. \A n \in DOMAIN conversation : n \in 1 .. origin'[k]
      BY <1>1, <1>2, <1>4
    <3>3. Len(conversation) + 1 \in 1 .. origin'[k]
      BY <1>1, <1>2, <1>4
    <3> QED
      BY <1>2, <2>4, <3>1, <3>2, <3>3 DEF Given
  <2> QED
    BY <2>3, <2>4
<1> QED
  BY <1>1, <1>3, <1>4

(***************************************************************************)
(* Reading an entry of tool_calls, a part of the content, or merging, keep *)
(* the names in order.                                                     *)
(***************************************************************************)
LEMMA ReadCallNames ==
    ASSUME TypeOK, ScanInv, NamesInv, [Next]_vars, NEW c \in Calls, ReadCall(c)
    PROVE  NamesInv'
<1>1. c \in CallRecords /\ c.id \in Ids /\ c.name \in Names
  BY ClientSends DEF CallRecords
<1>2. /\ calls' = Append(calls, c) /\ calls \in Seq(CallRecords)
      /\ phase = "calls" /\ sent' = sent /\ parts' = <<>> /\ Remember(c.id, c.name)
  BY DEF ReadCall, TypeOK, ScanInv
<1>3. \A i \in CallIds :
         toolNames'[i] = IF i = c.id /\ c.name # Blank THEN c.name ELSE toolNames[i]
  BY <1>1, <1>2, Remembered
<1>4. /\ DOMAIN calls' = 1 .. Len(calls) + 1 /\ Len(calls) \in Nat
      /\ DOMAIN calls = 1 .. Len(calls)
      /\ \A l \in DOMAIN calls : calls'[l] = calls[l]
      /\ calls'[Len(calls) + 1] = c
  BY <1>1, <1>2, Appended
<1>5. ASSUME NEW id \in CallIds, toolNames'[id] # Blank
      PROVE  Given(conversation', Message', toolNames'[id], id)
  <2>1. CASE id = c.id /\ c.name # Blank
    <3>1. Message'.calls = calls' /\ Len(calls) + 1 \in DOMAIN calls'
      BY <1>4 DEF Message
    <3>2. toolNames'[id] \in NamesGiven(Message', id)
      BY <1>3, <1>4, <2>1, <3>1, NamesSpelled
    <3> QED
      BY <3>2 DEF Given
  <2>2. CASE ~(id = c.id /\ c.name # Blank)
    <3>1. toolNames'[id] = toolNames[id] /\ toolNames[id] # Blank
      BY <1>3, <1>5, <2>2
    <3>2. Given(conversation, Message, toolNames[id], id)
      BY <3>1 DEF NamesInv
    <3> QED
      BY <3>1, <3>2, GivenGrows
  <2> QED
    BY <2>1, <2>2
<1>6. \A id \in CallIds : Called(sent', id) => toolNames'[id] # Blank
  BY <1>2, <1>3 DEF NamesInv
<1>7. ASSUME NEW l \in DOMAIN calls', calls'[l].id # Blank, calls'[l].name # Blank
      PROVE  toolNames'[calls'[l].id] # Blank
  <2>1. CASE l \in DOMAIN calls
    <3>1. calls'[l] = calls[l] /\ calls[l] \in CallRecords
      BY <1>2, <1>4, <2>1
    <3>2. calls[l].id \in CallIds
      BY <1>7, <3>1 DEF CallRecords, Ids
    <3>3. toolNames[calls[l].id] # Blank
      BY <1>7, <2>1, <3>1 DEF NamesInv
    <3> QED
      BY <1>3, <3>1, <3>2, <3>3
  <2>2. CASE l = Len(calls) + 1
    <3>1. calls'[l] = c /\ c.id \in CallIds /\ c.name # Blank
      BY <1>1, <1>4, <1>7, <2>2 DEF Ids
    <3> QED
      BY <1>3, <3>1
  <2> QED
    BY <1>4, <2>1, <2>2
<1>8. DOMAIN parts' = {}
  BY <1>2
<1> QED
  BY <1>5, <1>6, <1>7, <1>8 DEF NamesInv

LEMMA PartsNames ==
    ASSUME TypeOK, ScanInv, NamesInv, [Next]_vars, sent' = sent, calls' = calls,
           \A i \in CallIds : toolNames[i] # Blank => toolNames'[i] # Blank,
           \A i \in CallIds : toolNames'[i] # toolNames[i] =>
              Given(conversation', Message', toolNames'[i], i),
           parts' = parts \/ \E q \in SentParts :
              /\ parts' = Append(parts, q)
              /\ IsCall(q) => toolNames'[q.id] # Blank
              /\ IsResult(q) =>
                    IF q.name = Unknown
                    THEN /\ ~Called(sent, q.id)
                         /\ \A l \in DOMAIN parts : ~(IsCall(parts[l]) /\ parts[l].id = q.id)
                    ELSE Given(conversation', Message', q.name, q.id)
    PROVE  NamesInv'
<1>1. /\ parts \in Seq(SentParts) /\ calls \in Seq(CallRecords)
      /\ DOMAIN parts = 1 .. Len(parts) /\ Len(parts) \in Nat
      /\ \A i \in DOMAIN parts : parts[i] \in SentParts
      /\ \A l \in DOMAIN calls : calls[l] \in CallRecords
  BY DEF TypeOK
<1>2. ASSUME NEW id \in CallIds
      PROVE  /\ toolNames'[id] # Blank => Given(conversation', Message', toolNames'[id], id)
             /\ Called(sent', id) => toolNames'[id] # Blank
  <2>1. toolNames[id] # Blank => Given(conversation', Message', toolNames[id], id)
    BY GivenGrows DEF NamesInv
  <2>2. Called(sent, id) => toolNames[id] # Blank
    BY DEF NamesInv
  <2> QED
    BY <2>1, <2>2
<1>3. ASSUME NEW l \in DOMAIN calls', calls'[l].id # Blank, calls'[l].name # Blank
      PROVE  toolNames'[calls'[l].id] # Blank
  <2>1. calls[l].id \in CallIds
    BY <1>1, <1>3 DEF CallRecords, Ids
  <2> QED
    BY <1>3, <2>1 DEF NamesInv
<1> DEFINE Sound(k) ==
              /\ IsCall(parts'[k]) => toolNames'[parts'[k].id] # Blank
              /\ IsResult(parts'[k]) =>
                    IF parts'[k].name = Unknown
                    THEN /\ ~Called(sent', parts'[k].id)
                         /\ \A l \in 1 .. k - 1 :
                               ~(IsCall(parts'[l]) /\ parts'[l].id = parts'[k].id)
                    ELSE Given(conversation', Message', parts'[k].name, parts'[k].id)
<1>4. ASSUME NEW k \in DOMAIN parts, \A l \in 1 .. k : parts'[l] = parts[l]
      PROVE  Sound(k)
  <2>1. parts'[k] = parts[k] /\ \A l \in 1 .. k - 1 : parts'[l] = parts[l]
    BY <1>1, <1>4
  <2>2. IsCall(parts[k]) \/ IsResult(parts[k]) => parts[k].id \in CallIds
    BY <1>1, SentCalls
  <2>3. IsCall(parts[k]) => toolNames'[parts[k].id] # Blank
    BY <2>2 DEF NamesInv
  <2>4. ASSUME IsResult(parts[k])
        PROVE  IF parts[k].name = Unknown
               THEN /\ ~Called(sent, parts[k].id)
                    /\ \A l \in 1 .. k - 1 :
                          ~(IsCall(parts[l]) /\ parts[l].id = parts[k].id)
               ELSE Given(conversation', Message', parts[k].name, parts[k].id)
    BY <2>2, <2>4, GivenGrows DEF NamesInv
  <2> QED
    BY <2>1, <2>3, <2>4
<1>5. \A k \in DOMAIN parts' : Sound(k)
  <2>1. CASE parts' = parts
    BY <1>4, <2>1
  <2>2. CASE parts' # parts
    <3>1. PICK q \in SentParts :
              /\ parts' = Append(parts, q)
              /\ IsCall(q) => toolNames'[q.id] # Blank
              /\ IsResult(q) =>
                    IF q.name = Unknown
                    THEN /\ ~Called(sent, q.id)
                         /\ \A l \in DOMAIN parts : ~(IsCall(parts[l]) /\ parts[l].id = q.id)
                    ELSE Given(conversation', Message', q.name, q.id)
      BY <2>2
    <3>2. /\ DOMAIN parts' = 1 .. Len(parts) + 1
          /\ \A l \in DOMAIN parts : parts'[l] = parts[l]
          /\ parts'[Len(parts) + 1] = q
      <4>1. parts' = Append(parts, q) /\ parts \in Seq(SentParts)
        BY <1>1, <3>1
      <4> QED
        BY <4>1, Appended
    <3>3. \A k \in DOMAIN parts : \A l \in 1 .. k : parts'[l] = parts[l]
      BY <1>1, <3>2
    <3>4. Sound(Len(parts) + 1)
      <4>1. \A l \in 1 .. Len(parts) + 1 - 1 : l \in DOMAIN parts /\ parts'[l] = parts[l]
        BY <1>1, <3>2
      <4> QED
        BY <3>1, <3>2, <4>1
    <3> HIDE DEF Sound
    <3> QED
      BY <1>1, <1>4, <3>2, <3>3, <3>4
  <2> QED
    BY <2>1, <2>2
<1> QED
  BY <1>2, <1>3, <1>5 DEF NamesInv

LEMMA ReadPartNames ==
    ASSUME TypeOK, ScanInv, NamesInv, [Next]_vars, NEW p \in Parts, ReadPart(p)
    PROVE  NamesInv'
<1>1. p.id \in Ids /\ p.name \in Names /\ p \in PartRecords
  BY ClientSends DEF PartRecords
<1>2. /\ parts' = parts \o Parsed(p) /\ content' = Append(content, p)
      /\ sent' = sent /\ calls' = calls
      /\ IF IsCall(p) THEN Remember(p.id, p.name) ELSE toolNames' = toolNames
  BY DEF ReadPart, IsCall
<1>3. \A i \in CallIds :
         toolNames'[i] = IF IsCall(p) /\ i = p.id /\ p.name # Blank THEN p.name
                         ELSE toolNames[i]
  <2>1. CASE IsCall(p)
    BY <1>1, <1>2, <2>1, Remembered
  <2>2. CASE ~IsCall(p)
    BY <1>2, <2>2
  <2> QED
    BY <2>1, <2>2
<1>4. p.name \in NamesGiven(Message', p.id)
  <2>1. Len(content) + 1 \in DOMAIN content' /\ content'[Len(content) + 1] = p
    BY <1>1, <1>2, Appended DEF TypeOK
  <2>2. Message'.content = content'
    BY DEF Message
  <2> QED
    BY <2>1, <2>2, NamesSpelled
<1>5. ASSUME NEW q \in SentParts,
             IsCall(q) => IsCall(p) /\ p.id # Blank /\ p.name # Blank /\ q.id = p.id,
             IsResult(q) => ~IsCall(p) /\ q.id = p.id /\ q.name = NameOf(p.id, p.name)
      PROVE  /\ IsCall(q) => toolNames'[q.id] # Blank
             /\ IsResult(q) =>
                   IF q.name = Unknown
                   THEN /\ ~Called(sent, q.id)
                        /\ \A l \in DOMAIN parts : ~(IsCall(parts[l]) /\ parts[l].id = q.id)
                   ELSE Given(conversation', Message', q.name, q.id)
  <2>1. IsCall(q) \/ IsResult(q) => q.id \in CallIds
    BY SentCalls
  <2>2. IsCall(q) => toolNames'[q.id] # Blank
    BY <1>3, <1>5, <2>1
  <2>3. ASSUME IsResult(q)
        PROVE  IF q.name = Unknown
               THEN /\ ~Called(sent, q.id)
                    /\ \A l \in DOMAIN parts : ~(IsCall(parts[l]) /\ parts[l].id = q.id)
               ELSE Given(conversation', Message', q.name, q.id)
    <3>1. q.id = p.id /\ q.id \in CallIds /\ q.name = NameOf(p.id, p.name)
      BY <1>5, <2>1, <2>3
    <3>2. IF q.name = Unknown
          THEN /\ ~Called(sent, q.id)
               /\ \A l \in DOMAIN parts : ~(IsCall(parts[l]) /\ parts[l].id = q.id)
          ELSE \/ q.name = p.name
               \/ Given(conversation, Message, q.name, q.id)
      BY <1>1, <3>1, NamedSoundly
    <3>3. q.name = p.name => Given(conversation', Message', q.name, q.id)
      BY <1>4, <3>1 DEF Given
    <3>4. Given(conversation, Message, q.name, q.id)
             => Given(conversation', Message', q.name, q.id)
      BY <3>1, GivenGrows
    <3> QED
      BY <3>2, <3>3, <3>4
  <2> QED
    BY <2>2, <2>3
<1>6. \A i \in CallIds : toolNames[i] # Blank => toolNames'[i] # Blank
  BY <1>3
<1>7. \A i \in CallIds : toolNames'[i] # toolNames[i] =>
         Given(conversation', Message', toolNames'[i], i)
  BY <1>3, <1>4 DEF Given
<1>8. \/ parts' = parts
      \/ \E q \in SentParts :
            /\ parts' = Append(parts, q)
            /\ IsCall(q) => IsCall(p) /\ p.id # Blank /\ p.name # Blank /\ q.id = p.id
            /\ IsResult(q) => ~IsCall(p) /\ q.id = p.id /\ q.name = NameOf(p.id, p.name)
  BY <1>2, PartEffect
<1> QED
  BY <1>2, <1>5, <1>6, <1>7, <1>8, PartsNames

(***************************************************************************)
(* The one result of a tool message, and what it is named.                 *)
(***************************************************************************)
LEMMA ResultSent ==
    ASSUME TypeOK, ScanInv, NamesInv, SendResult, head.callId # Blank
    PROVE  \E q \in SentParts :
              /\ <<q>> \in Seq(SentParts)
              /\ Send(<<q>>) /\ UNCHANGED toolNames
              /\ IsResult(q) /\ ~IsCall(q)
              /\ IF q.name = Unknown THEN ~Called(sent, q.id)
                 ELSE Given(conversation, Message, q.name, q.id)
<1> DEFINE q == ToolResult(head.callId, NameOf(head.callId, head.name), head.error)
<1>1. head.callId \in CallIds /\ head.name \in Names /\ head.error \in BOOLEAN
  BY DEF TypeOK, HeadRecords, Ids
<1>2. NameOf(head.callId, head.name) \in ToolNames \cup {Unknown}
  BY <1>1, NameType
<1>3. /\ q \in SentParts /\ IsResult(q) /\ ~IsCall(q) /\ q.id = head.callId
      /\ q.name = NameOf(head.callId, head.name)
  BY <1>1, <1>2, ResultType
<1>4. Send(<<q>>) /\ UNCHANGED toolNames
  BY DEF SendResult
<1> HIDE DEF q
<1>5. Message.head = head
  BY DEF Message
<1>6. IF q.name = Unknown THEN ~Called(sent, q.id)
      ELSE q.name = head.name \/ Given(conversation, Message, q.name, q.id)
  BY <1>1, <1>3, NamedSoundly
<1>7. q.name = head.name => Given(conversation, Message, q.name, q.id)
  BY <1>3, <1>5, NamesSpelled DEF Given
<1>8. <<q>> \in Seq(SentParts)
  BY <1>3
<1> QED
  BY <1>3, <1>4, <1>6, <1>7, <1>8

(***************************************************************************)
(* Every step keeps the names in order, and the results that are sent      *)
(* named.                                                                  *)
(***************************************************************************)
LEMMA EndedNames ==
    ASSUME TypeOK, ScanInv, TurnsInOrder, NamesInv, [Next]_vars,
           NEW x \in Seq(SentParts), Send(x), UNCHANGED toolNames,
           \A l \in DOMAIN x : IsCall(x[l]) => toolNames[x[l].id] # Blank
    PROVE  NamesInv'
<1>1. calls' = <<>> /\ parts' = <<>>
  BY DEF Send, ForgetMessage
<1>2. \A id \in CallIds : Called(sent', id) => Called(sent, id) \/ toolNames[id] # Blank
  BY SentLater
<1> QED
  BY <1>1, <1>2, IterationNames

LEMMA NamesStep ==
    TypeOK /\ ScanInv /\ TurnsInOrder /\ NamesInv /\ [Next]_vars => NamesInv'
<1> SUFFICES ASSUME TypeOK, ScanInv, TurnsInOrder, NamesInv, [Next]_vars PROVE NamesInv'
  OBVIOUS
<1>t. parts \in Seq(SentParts)
  BY DEF TypeOK
<1>s. Send(parts) /\ UNCHANGED toolNames => NamesInv'
  BY <1>t, EndedNames DEF NamesInv
<1>k. ASSUME NEW m, Skip(m), UNCHANGED toolNames PROVE NamesInv'
  <2>1. calls' = <<>> /\ parts' = <<>> /\ sent' = sent
    BY <1>k DEF Skip, ForgetMessage
  <2> QED
    BY <1>k, <2>1, IterationNames
<1>u. ASSUME UNCHANGED <<toolNames, sent, calls, parts>> PROVE NamesInv'
  BY <1>u, PartsNames
<1>1. CASE \E h \in Heads : ReadHead(h)
  <2>1. PICK h \in Heads : ReadHead(h)
    BY <1>1
  <2>2. CASE NormalizeRole(h.role) = ""
    BY <1>k, <2>1, <2>2 DEF ReadHead
  <2>3. CASE NormalizeRole(h.role) # ""
    BY <1>u, <2>1, <2>3 DEF ReadHead
  <2> QED
    BY <2>2, <2>3
<1>2. CASE \E c \in Calls : ReadCall(c)
  BY <1>2, ReadCallNames
<1>3. CASE SendResult
  <2>1. CASE head.callId = Blank
    BY <1>3, <1>k, <2>1 DEF SendResult
  <2>2. CASE head.callId # Blank
    <3>1. PICK q \in SentParts : /\ <<q>> \in Seq(SentParts) /\ Send(<<q>>)
                                 /\ UNCHANGED toolNames /\ ~IsCall(q)
      BY <1>3, <2>2, ResultSent
    <3>2. \A l \in DOMAIN <<q>> : ~IsCall(<<q>>[l])
      BY <3>1
    <3> QED
      BY <3>1, <3>2, EndedNames
  <2> QED
    BY <2>1, <2>2
<1>4. CASE ReadContent \/ Return \/ UNCHANGED vars
  BY <1>4, <1>u DEF ReadContent, Return, vars, messageVars
<1>5. CASE \E p \in Parts : ReadPart(p)
  BY <1>5, ReadPartNames
<1>6. CASE EndContent
  BY <1>6, <1>s, <1>u DEF EndContent, messageVars
<1>7. CASE MergeCall
  <2> DEFINE c == calls[merged + 1]
  <2>1. merged + 1 \in DOMAIN calls /\ sent' = sent /\ calls' = calls /\ toolNames' = toolNames
    BY <1>7, MergeEffect DEF MergeCall
  <2>2. parts' = parts \/ \E q \in SentParts :
           /\ parts' = Append(parts, q) /\ IsCall(q) /\ ~IsResult(q)
           /\ q.id = c.id /\ c.id # Blank /\ c.name # Blank
    BY <1>7, MergeEffect
  <2>3. c.id # Blank /\ c.name # Blank => toolNames[c.id] # Blank
    BY <2>1 DEF NamesInv
  <2> HIDE DEF c
  <2>4. parts' = parts \/ \E q \in SentParts :
           /\ parts' = Append(parts, q) /\ ~IsResult(q) /\ toolNames'[q.id] # Blank
    BY <2>1, <2>2, <2>3
  <2> QED
    BY <2>1, <2>4, PartsNames
<1>8. CASE EndMerge
  BY <1>8, <1>s DEF EndMerge
<1> QED
  BY <1>1, <1>2, <1>3, <1>4, <1>5, <1>6, <1>7, <1>8 DEF Next

LEMMA ResultsStep ==
    TypeOK /\ ScanInv /\ TurnsInOrder /\ NamesInv /\ ResultsNamed /\ [Next]_vars
        => ResultsNamed'
<1> SUFFICES ASSUME TypeOK, ScanInv, TurnsInOrder, NamesInv, ResultsNamed, [Next]_vars
             PROVE  ResultsNamed'
  OBVIOUS
<1>1. CASE UNCHANGED <<conversation, sent, origin>>
  BY <1>1 DEF ResultsNamed
<1>2. CASE \E m \in Messages : Skip(m)
  <2>1. PICK m \in Messages : Skip(m)
    BY <1>2
  <2>2. conversation' = Append(conversation, m) /\ UNCHANGED <<sent, origin>>
    BY <2>1 DEF Skip
  <2>3. /\ Len(conversation) \in Nat /\ DOMAIN conversation = 1 .. Len(conversation)
        /\ \A n \in DOMAIN conversation : conversation'[n] = conversation[n]
    BY <2>2, ConversationGrows
  <2>4. \A k \in DOMAIN sent : origin[k] \in DOMAIN conversation
    BY DEF TurnsInOrder
  <2>5. \A k \in DOMAIN sent : \A n \in 1 .. origin[k] : conversation'[n] = conversation[n]
    BY <2>3, <2>4
  <2> SUFFICES ASSUME NEW k \in DOMAIN sent, NEW i \in DOMAIN sent[k].content,
                      IsResult(sent[k].content[i])
               PROVE  LET p == sent[k].content[i] IN
                      IF p.name = Unknown THEN ~CalledBefore(sent, p.id, k, i)
                      ELSE \E n \in 1 .. origin[k] :
                              p.name \in NamesGiven(conversation'[n], p.id)
    BY <2>2 DEF ResultsNamed
  <2> DEFINE p == sent[k].content[i]
  <2>6. IF p.name = Unknown THEN ~CalledBefore(sent, p.id, k, i)
        ELSE \E n \in 1 .. origin[k] : p.name \in NamesGiven(conversation[n], p.id)
    BY DEF ResultsNamed
  <2> QED
    BY <2>5, <2>6
<1>3. CASE SendResult /\ head.callId # Blank
  <2>1. PICK q \in SentParts :
           /\ <<q>> \in Seq(SentParts) /\ Send(<<q>>) /\ IsResult(q)
           /\ IF q.name = Unknown THEN ~Called(sent, q.id)
              ELSE Given(conversation, Message, q.name, q.id)
    BY <1>3, ResultSent
  <2> DEFINE x == <<q>>
  <2>2. DOMAIN x = {1} /\ x[1] = q
    OBVIOUS
  <2>3. 1 .. 1 - 1 = {}
    OBVIOUS
  <2> HIDE DEF x
  <2>4. \A i \in DOMAIN x : IsResult(x[i]) =>
           IF x[i].name = Unknown
           THEN /\ ~Called(sent, x[i].id)
                /\ \A l \in 1 .. i - 1 : ~(IsCall(x[l]) /\ x[l].id = x[i].id)
           ELSE Given(conversation, Message, x[i].name, x[i].id)
    BY <2>1, <2>2, <2>3
  <2>5. x \in Seq(SentParts) /\ Send(x)
    BY <2>1 DEF x
  <2> QED
    BY <2>4, <2>5, SendNamed
<1>4. CASE Send(parts)
  BY <1>4, SendNamed DEF NamesInv, TypeOK
<1> QED
  BY <1>1, <1>2, <1>3, <1>4, StepShape

(***************************************************************************)
(* Steps that send nothing keep what is said of the messages sent.         *)
(***************************************************************************)
LEMMA NothingSent ==
    ASSUME TypeOK, ScanInv, TurnsInOrder, [Next]_vars, UNCHANGED <<sent, origin>>
    PROVE  \A k \in DOMAIN sent : conversation'[origin[k]] = conversation[origin[k]]
<1>1. \A k \in DOMAIN sent : origin[k] \in DOMAIN conversation
  BY DEF TurnsInOrder
<1>2. CASE conversation' = conversation
  BY <1>2
<1>3. CASE \E m \in Messages : conversation' = Append(conversation, m)
  BY <1>1, <1>3, ConversationGrows
<1> QED
  BY <1>2, <1>3, StepShape, MessageType DEF Skip, Send, SendResult

(***************************************************************************)
(* No complete call gets lost among the parts.                             *)
(***************************************************************************)
LEMMA NothingToKeep ==
    ASSUME parts' = <<>>, content' = <<>>, merged' = 0
    PROVE  KeptInv'
<1>1. DOMAIN parts' = {} /\ DOMAIN content' = {} /\ 1 .. merged' = {}
  OBVIOUS
<1> QED
  BY <1>1 DEF KeptInv

\* A null input is stated where it can be found.
NullGiven(s, t, id) ==
    \/ \E l \in DOMAIN s : s[l].id = id /\ s[l].input = "null"
    \/ \E l \in DOMAIN t : t[l].id = id /\ t[l].input = "null"

LEMMA ReadPartKept ==
    ASSUME TypeOK, ScanInv, KeptInv, NEW p \in Parts, ReadPart(p)
    PROVE  KeptInv'
<1>1. /\ content' = Append(content, p) /\ p \in PartRecords /\ merged' = 0
      /\ calls' = calls /\ parts' = parts \o Parsed(p)
      /\ content \in Seq(PartRecords) /\ parts \in Seq(SentParts)
  BY ClientSends DEF ReadPart, ScanInv, TypeOK
<1>2. /\ Len(content) \in Nat /\ DOMAIN content = 1 .. Len(content)
      /\ DOMAIN content' = 1 .. Len(content) + 1
      /\ \A l \in DOMAIN content : l \in DOMAIN content' /\ content'[l] = content[l]
      /\ Len(content) + 1 \in DOMAIN content' /\ content'[Len(content) + 1] = p
  BY <1>1, Appended
<1>3. \/ /\ parts' = parts
         /\ ~(IsCall(p) /\ p.id # Blank /\ p.name # Blank)
      \/ \E q \in SentParts :
            /\ parts' = Append(parts, q)
            /\ IsCall(p) /\ p.id # Blank /\ p.name # Blank => IsCall(q)
            /\ IsCall(q) => q.id = p.id /\ (q.input = "absent" => p.input = "null")
  BY <1>1, PartEffect
<1>4. /\ \A k \in DOMAIN parts : k \in DOMAIN parts' /\ parts'[k] = parts[k]
      /\ \A k \in DOMAIN parts' : k \notin DOMAIN parts /\ IsCall(parts'[k]) =>
            parts'[k].id = p.id /\ (parts'[k].input = "absent" => p.input = "null")
      /\ IsCall(p) /\ p.id # Blank /\ p.name # Blank => HasCall(parts', p.id)
  <2>1. CASE parts' = parts /\ ~(IsCall(p) /\ p.id # Blank /\ p.name # Blank)
    BY <2>1
  <2>2. ASSUME NEW q \in SentParts, parts' = Append(parts, q),
               IsCall(p) /\ p.id # Blank /\ p.name # Blank => IsCall(q),
               IsCall(q) => q.id = p.id /\ (q.input = "absent" => p.input = "null")
        PROVE  <1>4!:
    <3>1. /\ DOMAIN parts' = 1 .. Len(parts) + 1 /\ DOMAIN parts = 1 .. Len(parts)
          /\ Len(parts) \in Nat
          /\ \A k \in DOMAIN parts : parts'[k] = parts[k]
          /\ parts'[Len(parts) + 1] = q
      BY <1>1, <2>2, Appended
    <3>2. \A k \in DOMAIN parts' : k \in DOMAIN parts \/ k = Len(parts) + 1
      BY <3>1
    <3>3. \A k \in DOMAIN parts : k \in DOMAIN parts'
      BY <3>1
    <3>4. Len(parts) + 1 \in DOMAIN parts'
      BY <3>1
    <3> QED
      BY <2>2, <3>1, <3>2, <3>3, <3>4 DEF HasCall
  <2> QED
    BY <1>3, <2>1, <2>2
<1>5. ASSUME NEW k \in DOMAIN parts', IsCall(parts'[k]), parts'[k].input = "absent"
      PROVE  NullGiven(calls', content', parts'[k].id)
  <2>1. CASE k \in DOMAIN parts
    <3>1. NullGiven(calls, content, parts[k].id)
      BY <1>4, <1>5, <2>1 DEF KeptInv, NullGiven
    <3> QED
      BY <1>1, <1>2, <1>4, <2>1, <3>1 DEF NullGiven
  <2>2. CASE k \notin DOMAIN parts
    BY <1>2, <1>4, <1>5, <2>2 DEF NullGiven
  <2> QED
    BY <2>1, <2>2
<1>6. ASSUME NEW l \in DOMAIN content', IsCall(content'[l]),
             content'[l].id # Blank, content'[l].name # Blank
      PROVE  HasCall(parts', content'[l].id)
  <2>1. CASE l \in DOMAIN content
    <3>1. HasCall(parts, content[l].id)
      BY <1>2, <1>6, <2>1 DEF KeptInv
    <3> QED
      BY <1>2, <1>4, <2>1, <3>1 DEF HasCall
  <2>2. CASE l = Len(content) + 1
    BY <1>2, <1>4, <1>6, <2>2
  <2> QED
    BY <1>2, <2>1, <2>2
<1>7. 1 .. merged' = {}
  BY <1>1
<1> QED
  BY <1>5, <1>6, <1>7 DEF KeptInv, NullGiven

LEMMA MergeKept ==
    ASSUME TypeOK, ScanInv, KeptInv, MergeCall
    PROVE  KeptInv'
<1> DEFINE c == calls[merged + 1]
<1>1. /\ UNCHANGED <<calls, content>> /\ merged' = merged + 1 /\ merged \in Nat
      /\ parts \in Seq(SentParts)
  BY DEF MergeCall, TypeOK
<1>2. /\ merged + 1 \in DOMAIN calls
      /\ \/ /\ parts' = parts
            /\ c.id # Blank /\ c.name # Blank => HasCall(parts, c.id)
         \/ \E q \in SentParts :
               /\ parts' = Append(parts, q) /\ IsCall(q) /\ q.id = c.id
               /\ q.input = "absent" => c.input = "null"
  BY MergeEffect
<1>3. /\ \A k \in DOMAIN parts : k \in DOMAIN parts' /\ parts'[k] = parts[k]
      /\ \A k \in DOMAIN parts' : k \notin DOMAIN parts =>
            parts'[k].id = c.id /\ (parts'[k].input = "absent" => c.input = "null")
      /\ c.id # Blank /\ c.name # Blank => HasCall(parts', c.id)
  <2>1. CASE parts' = parts /\ (c.id # Blank /\ c.name # Blank => HasCall(parts, c.id))
    BY <2>1
  <2>2. ASSUME NEW q \in SentParts, parts' = Append(parts, q), IsCall(q), q.id = c.id,
               q.input = "absent" => c.input = "null"
        PROVE  <1>3!:
    <3> HIDE DEF c
    <3>1. /\ DOMAIN parts' = 1 .. Len(parts) + 1 /\ DOMAIN parts = 1 .. Len(parts)
          /\ Len(parts) \in Nat
          /\ \A k \in DOMAIN parts : parts'[k] = parts[k]
          /\ parts'[Len(parts) + 1] = q
      BY <1>1, <2>2, Appended
    <3>2. \A k \in DOMAIN parts' : k \in DOMAIN parts \/ k = Len(parts) + 1
      BY <3>1
    <3>3. \A k \in DOMAIN parts : k \in DOMAIN parts'
      BY <3>1
    <3>4. Len(parts) + 1 \in DOMAIN parts'
      BY <3>1
    <3> QED
      BY <2>2, <3>1, <3>2, <3>3, <3>4 DEF HasCall
  <2> QED
    BY <1>2, <2>1, <2>2
<1>4. ASSUME NEW k \in DOMAIN parts', IsCall(parts'[k]), parts'[k].input = "absent"
      PROVE  NullGiven(calls', content', parts'[k].id)
  <2>1. CASE k \in DOMAIN parts
    BY <1>1, <1>3, <1>4, <2>1 DEF KeptInv, NullGiven
  <2>2. CASE k \notin DOMAIN parts
    BY <1>1, <1>2, <1>3, <1>4, <2>2 DEF NullGiven
  <2> QED
    BY <2>1, <2>2
<1>5. \A id : HasCall(parts, id) => HasCall(parts', id)
  BY <1>3 DEF HasCall
<1>6. \A l \in DOMAIN content' :
         IsCall(content'[l]) /\ content'[l].id # Blank /\ content'[l].name # Blank =>
            HasCall(parts', content'[l].id)
  BY <1>1, <1>5 DEF KeptInv
<1>7. ASSUME NEW l \in 1 .. merged', calls'[l].id # Blank, calls'[l].name # Blank
      PROVE  HasCall(parts', calls'[l].id)
  <2>1. l \in 1 .. merged \/ l = merged + 1
    BY <1>1
  <2> QED
    BY <1>1, <1>3, <1>5, <1>7, <2>1 DEF KeptInv
<1> QED
  BY <1>4, <1>6, <1>7 DEF KeptInv, NullGiven

LEMMA KeptStep == TypeOK /\ ScanInv /\ KeptInv /\ [Next]_vars => KeptInv'
<1> SUFFICES ASSUME TypeOK, ScanInv, KeptInv, [Next]_vars PROVE KeptInv'
  OBVIOUS
<1>u. UNCHANGED <<parts, content, calls, merged>> => KeptInv'
  BY DEF KeptInv
<1>1. CASE \E h \in Heads : ReadHead(h)
  BY <1>1, NothingToKeep DEF ReadHead, Skip, ForgetMessage, ScanInv
<1>2. CASE \E c \in Calls : ReadCall(c)
  BY <1>2, NothingToKeep DEF ReadCall, ScanInv
<1>3. CASE SendResult \/ EndMerge
  BY <1>3, NothingToKeep DEF SendResult, EndMerge, Skip, Send, ForgetMessage
<1>4. CASE ReadContent \/ Return \/ UNCHANGED vars
  BY <1>4, <1>u DEF ReadContent, Return, vars, messageVars
<1>5. CASE \E p \in Parts : ReadPart(p)
  BY <1>5, ReadPartKept
<1>6. CASE EndContent
  BY <1>6, <1>u, NothingToKeep DEF EndContent, messageVars, Send, ForgetMessage
<1>7. CASE MergeCall
  BY <1>7, MergeKept
<1> QED
  BY <1>1, <1>2, <1>3, <1>4, <1>5, <1>6, <1>7 DEF Next

LEMMA SendKept ==
    ASSUME TypeOK, ScanInv, TurnsInOrder, CallsKept, NEW x \in Seq(SentParts), Send(x),
           head.role = "assistant" =>
              /\ \A i \in DOMAIN x : IsCall(x[i]) /\ x[i].input = "absent" =>
                    NullGiven(calls, content, x[i].id)
              /\ \A l \in DOMAIN calls :
                    calls[l].id # Blank /\ calls[l].name # Blank => HasCall(x, calls[l].id)
              /\ \A l \in DOMAIN content :
                    IsCall(content[l]) /\ content[l].id # Blank /\ content[l].name # Blank =>
                       HasCall(x, content[l].id)
    PROVE  CallsKept'
<1> DEFINE new == Len(sent) + 1
<1>1. /\ \A k \in DOMAIN sent :
            /\ sent'[k] = sent[k]
            /\ conversation'[origin'[k]] = conversation[origin[k]]
      /\ sent'[new].content = x /\ sent'[new].role = head.role
      /\ conversation'[origin'[new]] = Message
      /\ \A k \in DOMAIN sent' : k \in DOMAIN sent \/ k = new
  BY SendGrows
<1> HIDE DEF new
<1> DEFINE Kept(s, m, id) ==
              \E i \in DOMAIN s : /\ IsCall(s[i]) /\ s[i].id = id
                                  /\ s[i].input = "absent" => NullGiven(m.calls, m.content, id)
           AllKept(s, m) ==
              /\ \A l \in DOMAIN m.calls :
                    m.calls[l].id # Blank /\ m.calls[l].name # Blank =>
                       Kept(s, m, m.calls[l].id)
              /\ \A l \in DOMAIN m.content :
                    IsCall(m.content[l]) /\ m.content[l].id # Blank /\ m.content[l].name # Blank
                       => Kept(s, m, m.content[l].id)
<1>2. ASSUME CallsKept, NEW k \in DOMAIN sent, sent[k].role = "assistant"
      PROVE  AllKept(sent[k].content, conversation[origin[k]])
  BY <1>2 DEF CallsKept, Source, NullGiven
<1>3. ASSUME head.role = "assistant"
      PROVE  AllKept(x, Message)
  <2>1. Message.calls = calls /\ Message.content = content
    BY DEF Message
  <2>2. ASSUME NEW id, HasCall(x, id) PROVE Kept(x, Message, id)
    BY <1>3, <2>1, <2>2 DEF HasCall
  <2> HIDE DEF Kept
  <2> QED
    BY <1>3, <2>1, <2>2
<1>4. ASSUME NEW k \in DOMAIN sent', sent'[k].role = "assistant"
      PROVE  AllKept(sent'[k].content, conversation'[origin'[k]])
  <2> HIDE DEF AllKept
  <2> QED
    BY <1>1, <1>2, <1>3, <1>4
<1>5. ASSUME NEW s, NEW m, NEW id, Kept(s, m, id)
      PROVE  \E i \in DOMAIN s :
                /\ IsCall(s[i]) /\ s[i].id = id
                /\ s[i].input = "absent" =>
                      \E t \in {m.calls, m.content} : \E l \in DOMAIN t :
                         t[l].id = id /\ t[l].input = "null"
  BY <1>5 DEF NullGiven
<1> HIDE DEF Kept
<1> SUFFICES ASSUME NEW k \in DOMAIN sent', sent'[k].role = "assistant"
             PROVE  LET m == conversation'[origin'[k]]
                        Held(c) == \E i \in DOMAIN sent'[k].content :
                           /\ IsCall(sent'[k].content[i]) /\ sent'[k].content[i].id = c.id
                           /\ sent'[k].content[i].input = "absent" =>
                                 \E t \in {m.calls, m.content} : \E l \in DOMAIN t :
                                    t[l].id = c.id /\ t[l].input = "null"
                        Complete(c) == c.id # Blank /\ c.name # Blank
                    IN /\ \A l \in DOMAIN m.calls : Complete(m.calls[l]) => Held(m.calls[l])
                       /\ \A l \in DOMAIN m.content :
                             IsCall(m.content[l]) /\ Complete(m.content[l])
                                => Held(m.content[l])
  BY DEF CallsKept, Source
<1> DEFINE m == conversation'[origin'[k]]
           Held(c) == \E i \in DOMAIN sent'[k].content :
              /\ IsCall(sent'[k].content[i]) /\ sent'[k].content[i].id = c.id
              /\ sent'[k].content[i].input = "absent" =>
                    \E t \in {m.calls, m.content} : \E l \in DOMAIN t :
                       t[l].id = c.id /\ t[l].input = "null"
<1>6. AllKept(sent'[k].content, m)
  BY <1>4
<1>7. \A c : Kept(sent'[k].content, m, c.id) => Held(c)
  BY <1>5
<1> HIDE DEF m, Held
<1>8. /\ \A l \in DOMAIN m.calls :
            m.calls[l].id # Blank /\ m.calls[l].name # Blank => Held(m.calls[l])
      /\ \A l \in DOMAIN m.content :
            IsCall(m.content[l]) /\ m.content[l].id # Blank /\ m.content[l].name # Blank
               => Held(m.content[l])
  BY <1>6, <1>7
<1> QED
  BY <1>8 DEF m, Held

LEMMA CallsKeptStep ==
    TypeOK /\ ScanInv /\ TurnsInOrder /\ NamesInv /\ KeptInv /\ CallsKept /\ [Next]_vars
        => CallsKept'
<1> SUFFICES ASSUME TypeOK, ScanInv, TurnsInOrder, NamesInv, KeptInv, CallsKept, [Next]_vars
             PROVE  CallsKept'
  OBVIOUS
<1>1. CASE UNCHANGED <<sent, origin>>
  BY <1>1, NothingSent DEF CallsKept, Source
<1>2. CASE SendResult /\ head.callId # Blank
  <2>1. PICK q \in SentParts : <<q>> \in Seq(SentParts) /\ Send(<<q>>)
    BY <1>2, ResultSent
  <2>2. head.role # "assistant"
    BY <1>2 DEF SendResult
  <2> QED
    BY <2>1, <2>2, SendKept
<1>3. CASE /\ EndContent \/ EndMerge
           /\ Send(parts)
           /\ EndMerge \/ ~(head.role = "assistant" /\ calls # <<>>)
  <2>1. parts \in Seq(SentParts) /\ calls \in Seq(CallRecords)
    BY DEF TypeOK
  <2>2. head.role = "assistant" => DOMAIN calls \subseteq 1 .. merged
    <3>1. CASE EndMerge
      BY <2>1, <3>1 DEF EndMerge
    <3>2. CASE ~(head.role = "assistant" /\ calls # <<>>)
      BY <3>2
    <3> QED
      BY <1>3, <3>1, <3>2
  <2> QED
    BY <1>3, <2>1, <2>2, SendKept DEF KeptInv, NullGiven
<1> QED
  BY <1>1, <1>2, <1>3, StepShape DEF Skip

(***************************************************************************)
(* Places of parts that can be sent.                                       *)
(***************************************************************************)
LEMMA PlaceStarts == ASSUME NEW s PROVE Place(s, 0) = 0
<1>1. {j \in 1 .. 0 : Sendable(s[j])} = {}
  OBVIOUS
<1> QED
  BY <1>1, FS_EmptySet DEF Place

LEMMA PlaceNext ==
    ASSUME NEW s, NEW l \in Nat
    PROVE  /\ Place(s, l) \in Nat
           /\ Place(s, l + 1) = Place(s, l) + IF Sendable(s[l + 1]) THEN 1 ELSE 0
<1> DEFINE S == {j \in 1 .. l : Sendable(s[j])}
           T == {j \in 1 .. l + 1 : Sendable(s[j])}
<1>1. IsFiniteSet(S) /\ Cardinality(S) \in Nat
  <2>1. IsFiniteSet(1 .. l) /\ S \in SUBSET (1 .. l)
    BY FS_Interval
  <2> QED
    BY <2>1, FS_Subset, FS_CardinalityType
<1>2. CASE Sendable(s[l + 1])
  <2>1. T = S \cup {l + 1} /\ l + 1 \notin S
    BY <1>2
  <2> HIDE DEF S, T
  <2>2. Cardinality(T) = Cardinality(S) + 1
    BY <1>1, <2>1, FS_AddElement
  <2> QED
    BY <1>1, <1>2, <2>2 DEF Place, S, T
<1>3. CASE ~Sendable(s[l + 1])
  <2>1. T = S
    BY <1>3
  <2> HIDE DEF S, T
  <2> QED
    BY <1>1, <1>3, <2>1 DEF Place, S, T
<1> QED
  BY <1>2, <1>3

\* A part more does not move those before it.
LEMMA PlaceAppended ==
    ASSUME NEW s \in Seq(PartRecords), NEW p \in PartRecords
    PROVE  LET n == Len(s)  t == Append(s, p) IN
           /\ Place(s, n) \in Nat
           /\ \A l \in 1 .. n : Place(t, l) = Place(s, l) /\ t[l] = s[l]
           /\ Place(t, n + 1) = Place(s, n) + IF Sendable(p) THEN 1 ELSE 0
<1> DEFINE n == Len(s)  t == Append(s, p)
<1>1. n \in Nat /\ (\A l \in 1 .. n : t[l] = s[l]) /\ t[n + 1] = p
  BY Appended
<1> HIDE DEF n, t
<1>2. ASSUME NEW l \in 0 .. n PROVE Place(t, l) = Place(s, l)
  <2>1. {j \in 1 .. l : Sendable(t[j])} = {j \in 1 .. l : Sendable(s[j])}
    BY <1>1
  <2> QED
    BY <2>1 DEF Place
<1>3. /\ Place(t, n) \in Nat
      /\ Place(t, n + 1) = Place(t, n) + IF Sendable(t[n + 1]) THEN 1 ELSE 0
  BY <1>1, PlaceNext
<1>4. Place(t, n) = Place(s, n)
  BY <1>1, <1>2
<1>5. \A l \in 1 .. n : Place(t, l) = Place(s, l)
  BY <1>1, <1>2
<1> QED
  BY <1>1, <1>3, <1>4, <1>5 DEF n, t

(***************************************************************************)
(* A part that can be sent is converted to one of its kind, others to none.*)
(***************************************************************************)
LEMMA PartConveyed ==
    ASSUME TypeOK, NEW p \in Parts
    PROVE  \/ ~Sendable(p) /\ parts \o Parsed(p) = parts
           \/ /\ Sendable(p)
              /\ \E q \in SentParts : parts \o Parsed(p) = Append(parts, q) /\ Conveys(q, p)
<1>1. /\ p \in PartRecords /\ parts \in Seq(SentParts)
      /\ p.id \in Ids /\ p.name \in Names /\ p.input \in RawInputs /\ p.error \in BOOLEAN
  BY ClientSends DEF TypeOK, PartRecords
<1>2. \A q \in SentParts : parts \o <<q>> = Append(parts, q)
  BY <1>1
<1>3. parts \o <<>> = parts
  BY <1>1
<1>4. CASE p.type \in {"text", "reasoning"}
  <2>1. Parsed(p) = <<Speech(p.type)>> /\ Sendable(p)
    BY <1>4 DEF Parsed, Sendable
  <2>2. Conveys(Speech(p.type), p)
    BY <1>4 DEF Conveys, Speech, IsCall, IsResult
  <2> QED
    BY <1>2, <1>4, <2>1, <2>2, SpeechType
<1>5. CASE p.type = "tool-call" /\ p.id # Blank /\ p.name # Blank
  <2> DEFINE q == ToolCall(p.id, p.name, ParseToolInputJSON(p.input))
  <2>1. Parsed(p) = <<q>> /\ Sendable(p)
    BY <1>5 DEF Parsed, Sendable
  <2>2. p.id \in CallIds /\ p.name \in ToolNames /\ ParseToolInputJSON(p.input) \in Inputs
    BY <1>1, <1>5, InputType DEF Ids, Names
  <2>3. q \in SentParts
    BY <2>2, CallType
  <2>4. Conveys(q, p)
    BY <1>5 DEF Conveys, ToolCall
  <2> HIDE DEF q
  <2> QED
    BY <1>2, <2>1, <2>3, <2>4
<1>6. CASE p.type = "tool-result" /\ p.id # Blank
  <2> DEFINE q == ToolResult(p.id, NameOf(p.id, p.name), p.error)
  <2>1. Parsed(p) = <<q>> /\ Sendable(p)
    BY <1>6 DEF Parsed, Sendable
  <2>2. p.id \in CallIds
    BY <1>1, <1>6 DEF Ids
  <2>3. NameOf(p.id, p.name) \in ToolNames \cup {Unknown}
    BY <1>1, <2>2, NameType
  <2>4. q \in SentParts
    BY <1>1, <2>2, <2>3, ResultType
  <2>5. Conveys(q, p)
    BY <1>6 DEF Conveys, ToolResult
  <2> HIDE DEF q
  <2> QED
    BY <1>2, <2>1, <2>4, <2>5
<1>7. CASE ~(p.type \in {"text", "reasoning"})
           /\ ~(p.type = "tool-call" /\ p.id # Blank /\ p.name # Blank)
           /\ ~(p.type = "tool-result" /\ p.id # Blank)
  BY <1>3, <1>7 DEF Parsed, Sendable
<1> QED
  BY <1>4, <1>5, <1>6, <1>7

LEMMA ReadPartOrdered ==
    ASSUME TypeOK, ScanInv, OrderInv, NEW p \in Parts, ReadPart(p)
    PROVE  OrderInv'
<1> DEFINE n == Len(content)
<1>1. /\ phase = "content" /\ phase' = "content" /\ calls' = calls
      /\ content' = Append(content, p) /\ parts' = parts \o Parsed(p)
      /\ content \in Seq(PartRecords) /\ p \in PartRecords /\ parts \in Seq(SentParts)
  BY ClientSends DEF ReadPart, TypeOK
<1>2. /\ n \in Nat /\ DOMAIN content = 1 .. n
      /\ DOMAIN content' = 1 .. n + 1 /\ Len(content') = n + 1 /\ content'[n + 1] = p
  BY <1>1, Appended
<1>3. /\ Place(content, n) \in Nat
      /\ \A l \in 1 .. n : Place(content', l) = Place(content, l) /\ content'[l] = content[l]
      /\ Place(content', n + 1) = Place(content, n) + IF Sendable(p) THEN 1 ELSE 0
  BY <1>1, PlaceAppended
<1>4. /\ Len(parts) = Place(content, n)
      /\ \A l \in 1 .. n : Sendable(content[l]) =>
            /\ Place(content, l) \in DOMAIN parts
            /\ Conveys(parts[Place(content, l)], content[l])
  BY <1>1, <1>2 DEF OrderInv
<1> HIDE DEF n
<1>5. CASE ~Sendable(p) /\ parts' = parts
  <2>1. Len(parts') = Place(content', n + 1)
    BY <1>3, <1>4, <1>5
  <2>2. \A i \in DOMAIN parts' : i <= Len(parts')
    BY <1>1, <1>5
  <2>3. \A l \in 1 .. n + 1 : Sendable(content'[l]) => l \in 1 .. n
    BY <1>2, <1>5
  <2>4. Place(content', n + 1) \in Nat
    BY <1>3, <1>5
  <2> QED
    BY <1>2, <1>3, <1>4, <1>5, <2>1, <2>2, <2>3, <2>4 DEF OrderInv
<1>6. ASSUME Sendable(p), NEW q \in SentParts, parts' = Append(parts, q), Conveys(q, p)
      PROVE  OrderInv'
  <2>1. /\ Len(parts) \in Nat /\ DOMAIN parts = 1 .. Len(parts)
        /\ DOMAIN parts' = 1 .. Len(parts) + 1 /\ Len(parts') = Len(parts) + 1
        /\ \A i \in DOMAIN parts : parts'[i] = parts[i]
        /\ parts'[Len(parts) + 1] = q
    BY <1>1, <1>6, Appended
  <2>2. Place(content', n + 1) = Len(parts) + 1
    BY <1>3, <1>4, <1>6
  <2>3. ASSUME NEW l \in 1 .. n + 1, Sendable(content'[l])
        PROVE  /\ Place(content', l) \in DOMAIN parts'
               /\ Conveys(parts'[Place(content', l)], content'[l])
    <3>1. CASE l \in 1 .. n
      BY <1>3, <1>4, <2>1, <2>3, <3>1
    <3>2. CASE l = n + 1
      BY <1>2, <1>6, <2>1, <2>2, <3>2
    <3> QED
      BY <1>2, <3>1, <3>2
  <2>4. \A i \in DOMAIN parts' : ~(i > Place(content', n + 1))
    BY <2>1, <2>2
  <2> QED
    BY <1>1, <1>2, <2>1, <2>2, <2>3, <2>4 DEF OrderInv
<1> QED
  BY <1>1, <1>5, <1>6, PartConveyed

LEMMA MergeOrdered ==
    ASSUME TypeOK, ScanInv, OrderInv, MergeCall
    PROVE  OrderInv'
<1>1. /\ phase = "merge" /\ phase' = "merge" /\ calls' = calls /\ content' = content
      /\ parts \in Seq(SentParts) /\ content \in Seq(PartRecords)
  BY DEF MergeCall, TypeOK
<1>2. Place(content, Len(content)) \in Nat
  BY <1>1, PlaceNext
<1>3. CASE parts' = parts
  BY <1>1, <1>3 DEF OrderInv
<1>4. ASSUME NEW q \in SentParts, parts' = Append(parts, q), merged + 1 \in DOMAIN calls,
             IsCall(q), q.id = calls[merged + 1].id
      PROVE  OrderInv'
  <2>1. /\ Len(parts) \in Nat /\ DOMAIN parts = 1 .. Len(parts)
        /\ DOMAIN parts' = 1 .. Len(parts) + 1 /\ Len(parts') = Len(parts) + 1
        /\ \A i \in DOMAIN parts : i \in DOMAIN parts' /\ parts'[i] = parts[i]
        /\ parts'[Len(parts) + 1] = q
    BY <1>1, <1>4, Appended
  <2>2. Place(content, Len(content)) <= Len(parts')
    BY <1>2, <2>1 DEF OrderInv
  <2>3. \A l \in DOMAIN content : Sendable(content[l]) =>
           /\ Place(content, l) \in DOMAIN parts'
           /\ Conveys(parts'[Place(content, l)], content[l])
    BY <2>1 DEF OrderInv
  <2>4. ASSUME NEW i \in DOMAIN parts', i > Place(content, Len(content))
        PROVE  IsCall(parts'[i]) /\ \E l \in DOMAIN calls : calls[l].id = parts'[i].id
    <3>1. CASE i \in DOMAIN parts
      BY <2>1, <2>4, <3>1 DEF OrderInv
    <3>2. CASE i = Len(parts) + 1
      BY <1>4, <2>1, <3>2
    <3> QED
      BY <2>1, <3>1, <3>2
  <2> QED
    BY <1>1, <2>2, <2>3, <2>4 DEF OrderInv
<1> QED
  BY <1>3, <1>4, MergeEffect

LEMMA NothingOrdered ==
    ASSUME parts' = <<>>, content' = <<>>
    PROVE  OrderInv'
<1>1. /\ DOMAIN parts' = {} /\ DOMAIN content' = {} /\ Len(parts') = 0 /\ Len(content') = 0
  OBVIOUS
<1>2. Place(content', Len(content')) = 0
  BY <1>1, PlaceStarts
<1> QED
  BY <1>1, <1>2 DEF OrderInv

LEMMA OrderStep == TypeOK /\ ScanInv /\ OrderInv /\ [Next]_vars => OrderInv'
<1> SUFFICES ASSUME TypeOK, ScanInv, OrderInv, [Next]_vars PROVE OrderInv'
  OBVIOUS
<1>u. UNCHANGED <<parts, content, calls>> /\ (phase # "merge" \/ phase' = "merge") => OrderInv'
  BY DEF OrderInv
<1>1. CASE (\E h \in Heads : ReadHead(h)) \/ \E c \in Calls : ReadCall(c)
  BY <1>1, NothingOrdered DEF ReadHead, Skip, ForgetMessage, ReadCall, ScanInv
<1>2. CASE SendResult \/ EndMerge
  BY <1>2, NothingOrdered DEF SendResult, EndMerge, Skip, Send, ForgetMessage
<1>3. CASE ReadContent \/ Return \/ UNCHANGED vars
  BY <1>3, <1>u DEF ReadContent, Return, vars, messageVars
<1>4. CASE \E p \in Parts : ReadPart(p)
  BY <1>4, ReadPartOrdered
<1>5. CASE EndContent
  BY <1>5, <1>u, NothingOrdered DEF EndContent, messageVars, Send, ForgetMessage
<1>6. CASE MergeCall
  BY <1>6, MergeOrdered
<1> QED
  BY <1>1, <1>2, <1>3, <1>4, <1>5, <1>6 DEF Next

\* What ContentKept says of one message.
InOrder(got, m) ==
    /\ \A l \in DOMAIN m.content : Sendable(m.content[l]) =>
          /\ Place(m.content, l) \in DOMAIN got
          /\ Conveys(got[Place(m.content, l)], m.content[l])
    /\ \A i \in DOMAIN got : i > Place(m.content, Len(m.content)) =>
          IsCall(got[i]) /\ \E l \in DOMAIN m.calls : m.calls[l].id = got[i].id

LEMMA SendOrdered ==
    ASSUME TypeOK, ScanInv, TurnsInOrder, ContentKept, NEW x \in Seq(SentParts), Send(x),
           head.role # "tool" => InOrder(x, Message)
    PROVE  ContentKept'
<1> DEFINE new == Len(sent) + 1
<1>1. /\ \A k \in DOMAIN sent :
            /\ sent'[k] = sent[k]
            /\ conversation'[origin'[k]] = conversation[origin[k]]
      /\ sent'[new].content = x /\ sent'[new].role = head.role
      /\ conversation'[origin'[new]] = Message
      /\ \A k \in DOMAIN sent' : k \in DOMAIN sent \/ k = new
  BY SendGrows
<1> HIDE DEF new
<1>2. ASSUME NEW k \in DOMAIN sent, sent[k].role # "tool"
      PROVE  InOrder(sent[k].content, conversation[origin[k]])
  BY <1>2 DEF ContentKept, Source, InOrder
<1>3. ASSUME NEW k \in DOMAIN sent', sent'[k].role # "tool"
      PROVE  InOrder(sent'[k].content, conversation'[origin'[k]])
  BY <1>1, <1>2, <1>3
<1> QED
  BY <1>3 DEF ContentKept, Source, InOrder

LEMMA ContentStep ==
    TypeOK /\ ScanInv /\ TurnsInOrder /\ NamesInv /\ OrderInv /\ ContentKept /\ [Next]_vars
        => ContentKept'
<1> SUFFICES ASSUME TypeOK, ScanInv, TurnsInOrder, NamesInv, OrderInv, ContentKept,
                    [Next]_vars
             PROVE  ContentKept'
  OBVIOUS
<1>1. CASE UNCHANGED <<sent, origin>>
  <2>1. \A k \in DOMAIN sent : conversation'[origin[k]] = conversation[origin[k]]
    BY <1>1, NothingSent
  <2>2. \A k \in DOMAIN sent : sent[k].role # "tool" =>
           InOrder(sent[k].content, conversation[origin[k]])
    BY DEF ContentKept, Source, InOrder
  <2>3. \A k \in DOMAIN sent' : sent'[k].role # "tool" =>
           InOrder(sent'[k].content, conversation'[origin'[k]])
    BY <1>1, <2>1, <2>2
  <2> QED
    BY <2>3 DEF ContentKept, Source, InOrder
<1>2. CASE SendResult /\ head.callId # Blank
  <2>1. PICK q \in SentParts : <<q>> \in Seq(SentParts) /\ Send(<<q>>)
    BY <1>2, ResultSent
  <2>2. head.role = "tool"
    BY <1>2 DEF SendResult
  <2> QED
    BY <2>1, <2>2, SendOrdered
<1>3. CASE Send(parts)
  <2>1. parts \in Seq(SentParts) /\ Message.content = content /\ Message.calls = calls
    BY DEF TypeOK, Message
  <2>2. InOrder(parts, Message)
    BY <2>1 DEF OrderInv, InOrder
  <2> QED
    BY <1>3, <2>1, <2>2, SendOrdered
<1> QED
  BY <1>1, <1>2, <1>3, StepShape DEF Skip

(***************************************************************************)
(* Only calls of the content are repeated.                                 *)
(***************************************************************************)
LEMMA NoParts ==
    ASSUME parts' = <<>>
    PROVE  UniqueInv'
<1>1. DOMAIN parts' = {}
  OBVIOUS
<1> QED
  BY <1>1 DEF UniqueInv

LEMMA UniqueStep == TypeOK /\ ScanInv /\ UniqueInv /\ OrderInv /\ [Next]_vars => UniqueInv'
<1> SUFFICES ASSUME TypeOK, ScanInv, UniqueInv, OrderInv, [Next]_vars PROVE UniqueInv'
  OBVIOUS
<1>t. /\ parts \in Seq(SentParts) /\ content \in Seq(PartRecords)
      /\ content' \in Seq(PartRecords)
      /\ DOMAIN parts = 1 .. Len(parts) /\ Len(parts) \in Nat
      /\ DOMAIN content = 1 .. Len(content) /\ Len(content) \in Nat
  BY TypeStep DEF TypeOK
<1>n. parts' = <<>> => UniqueInv'
  BY NoParts
<1>1. CASE \E h \in Heads : ReadHead(h)
  BY <1>1, <1>n DEF ReadHead, Skip, ForgetMessage, ScanInv
<1>2. CASE (\E c \in Calls : ReadCall(c)) \/ ReadContent
  BY <1>2, <1>n DEF ReadCall, ReadContent, messageVars, ScanInv
<1>3. CASE SendResult \/ EndMerge
  BY <1>3, <1>n DEF SendResult, EndMerge, Skip, Send, ForgetMessage
<1>4. CASE \E p \in Parts : ReadPart(p)
  <2>1. PICK p \in Parts : ReadPart(p)
    BY <1>4
  <2>2. /\ content' = Append(content, p) /\ p \in PartRecords
        /\ phase = "content" /\ phase' = phase
    BY <2>1, ClientSends DEF ReadPart
  <2>3. \/ parts' = parts
        \/ \E q \in SentParts : parts' = Append(parts, q) /\ (IsCall(q) => q.id = p.id)
    BY <2>1, PartEffect DEF ReadPart
  <2>4. /\ DOMAIN content' = 1 .. Len(content) + 1 /\ Len(content') = Len(content) + 1
        /\ \A l \in DOMAIN content : content'[l] = content[l]
        /\ content'[Len(content) + 1] = p
    BY <1>t, <2>2, Appended
  <2>5. \A k \in DOMAIN parts : IsCall(parts[k]) =>
           \E l \in DOMAIN content : content[l].id = parts[k].id
    BY <2>2 DEF UniqueInv
  <2>6. \A k \in DOMAIN parts' : IsCall(parts'[k]) =>
           \E l \in DOMAIN content' : content'[l].id = parts'[k].id
    <3>1. CASE parts' = parts
      <4>1. \A l \in DOMAIN content : l \in DOMAIN content'
        BY <1>t, <2>4
      <4> QED
        BY <2>4, <2>5, <3>1, <4>1
    <3>2. CASE parts' # parts
      <4>1. PICK q \in SentParts : parts' = Append(parts, q) /\ (IsCall(q) => q.id = p.id)
        BY <2>3, <3>2
      <4>2. /\ DOMAIN parts' = 1 .. Len(parts) + 1 /\ Len(parts') = Len(parts) + 1
            /\ \A k \in DOMAIN parts : parts'[k] = parts[k]
            /\ parts'[Len(parts) + 1] = q
        BY <1>t, <4>1, Appended
      <4>3. \A l \in DOMAIN content : l \in DOMAIN content'
        BY <1>t, <2>4
      <4>4. Len(content) + 1 \in DOMAIN content'
        BY <1>t, <2>4
      <4>5. ASSUME NEW k \in DOMAIN parts', IsCall(parts'[k])
            PROVE  \E l \in DOMAIN content' : content'[l].id = parts'[k].id
        <5>1. CASE k \in DOMAIN parts
          BY <2>4, <2>5, <4>2, <4>3, <4>5, <5>1
        <5>2. CASE k = Len(parts) + 1
          BY <2>4, <4>1, <4>2, <4>4, <4>5, <5>2
        <5> QED
          BY <1>t, <4>2, <5>1, <5>2
      <4> QED
        BY <4>5
    <3> QED
      BY <3>1, <3>2
  <2>7. \A j \in DOMAIN parts' : j <= Place(content', Len(content'))
    <3>1. parts' \in Seq(SentParts) /\ Len(parts') = Place(content', Len(content'))
      BY <2>2, OrderStep, TypeStep DEF OrderInv, TypeOK
    <3> QED
      BY <3>1
  <2> QED
    BY <2>6, <2>7 DEF UniqueInv
<1>5. CASE EndContent
  <2>1. CASE phase' = "merge"
    <3>1. UNCHANGED <<parts, content>>
      BY <1>5, <2>1 DEF EndContent, messageVars, Send
    <3> QED
      BY <2>1, <3>1 DEF UniqueInv
  <2>2. CASE phase' # "merge"
    BY <1>5, <1>n, <2>2 DEF EndContent, Send, ForgetMessage
  <2> QED
    BY <2>1, <2>2
<1>6. CASE MergeCall
  <2>1. content' = content /\ phase' = "merge"
    BY <1>6 DEF MergeCall
  <2>2. \/ parts' = parts
        \/ \E q \in SentParts : parts' = Append(parts, q) /\ ~HasCall(parts, q.id)
    BY <1>6, MergeEffect
  <2>3. CASE parts' = parts
    BY <2>1, <2>3 DEF UniqueInv
  <2>4. CASE parts' # parts
    <3>1. PICK q \in SentParts : parts' = Append(parts, q) /\ ~HasCall(parts, q.id)
      BY <2>2, <2>4
    <3>2. /\ DOMAIN parts' = 1 .. Len(parts) + 1
          /\ \A k \in DOMAIN parts : parts'[k] = parts[k]
          /\ parts'[Len(parts) + 1] = q
      BY <1>t, <3>1, Appended
    <3> SUFFICES ASSUME NEW i \in DOMAIN parts', NEW j \in DOMAIN parts', i < j,
                        IsCall(parts'[i]), IsCall(parts'[j]), parts'[i].id = parts'[j].id
                 PROVE  /\ j <= Place(content, Len(content))
                        /\ \E l \in DOMAIN content : content[l].id = parts'[j].id
      BY <2>1 DEF UniqueInv
    <3>3. i \in DOMAIN parts
      BY <1>t, <3>2
    <3>4. parts'[i] = parts[i]
      BY <3>2, <3>3
    <3>5. j # Len(parts) + 1
      BY <3>1, <3>2, <3>3, <3>4 DEF HasCall
    <3>6. j \in DOMAIN parts /\ parts'[j] = parts[j]
      BY <1>t, <3>2, <3>5
    <3> QED
      BY <3>3, <3>4, <3>6 DEF UniqueInv
  <2> QED
    BY <2>3, <2>4
<1>7. CASE Return \/ UNCHANGED vars
  <2>1. UNCHANGED <<parts, content>> /\ (phase' = "merge" => phase = "merge")
        /\ (phase = "merge" => phase' = "merge")
    BY <1>7 DEF Return, vars, messageVars
  <2> QED
    BY <2>1 DEF UniqueInv
<1> QED
  BY <1>1, <1>2, <1>3, <1>4, <1>5, <1>6, <1>7 DEF Next

LEMMA SendUnique ==
    ASSUME TypeOK, ScanInv, TurnsInOrder, CallsUnique, NEW x \in Seq(SentParts), Send(x),
           \A i, j \in DOMAIN x :
              i < j /\ IsCall(x[i]) /\ IsCall(x[j]) /\ x[i].id = x[j].id =>
                 /\ j <= Place(content, Len(content))
                 /\ \E l \in DOMAIN content : content[l].id = x[j].id
    PROVE  CallsUnique'
<1> DEFINE new == Len(sent) + 1
<1>1. /\ \A k \in DOMAIN sent :
            /\ sent'[k] = sent[k]
            /\ conversation'[origin'[k]] = conversation[origin[k]]
      /\ sent'[new].content = x
      /\ conversation'[origin'[new]] = Message
      /\ \A k \in DOMAIN sent' : k \in DOMAIN sent \/ k = new
  BY SendGrows
<1>2. Message.content = content
  BY DEF Message
<1> HIDE DEF new
<1> SUFFICES ASSUME NEW k \in DOMAIN sent',
                    NEW i \in DOMAIN sent'[k].content, NEW j \in DOMAIN sent'[k].content,
                    i < j, IsCall(sent'[k].content[i]), IsCall(sent'[k].content[j]),
                    sent'[k].content[i].id = sent'[k].content[j].id
             PROVE  LET m == conversation'[origin'[k]]  p == sent'[k].content[i] IN
                    /\ j <= Place(m.content, Len(m.content))
                    /\ \E l \in DOMAIN m.content : m.content[l].id = p.id
  BY DEF CallsUnique, Source
<1>3. CASE k \in DOMAIN sent
  BY <1>1, <1>3 DEF CallsUnique, Source
<1>4. CASE k = new
  <2>1. /\ j <= Place(content, Len(content))
        /\ \E l \in DOMAIN content : content[l].id = x[j].id
    BY <1>1, <1>4
  <2> QED
    BY <1>1, <1>2, <1>4, <2>1
<1> QED
  BY <1>1, <1>3, <1>4

LEMMA CallsUniqueStep ==
    TypeOK /\ ScanInv /\ TurnsInOrder /\ NamesInv /\ UniqueInv /\ CallsUnique /\ [Next]_vars
        => CallsUnique'
<1> SUFFICES ASSUME TypeOK, ScanInv, TurnsInOrder, NamesInv, UniqueInv, CallsUnique,
                    [Next]_vars
             PROVE  CallsUnique'
  OBVIOUS
<1>1. CASE UNCHANGED <<sent, origin>>
  BY <1>1, NothingSent DEF CallsUnique, Source
<1>2. CASE SendResult /\ head.callId # Blank
  <2>1. PICK q \in SentParts : <<q>> \in Seq(SentParts) /\ Send(<<q>>) /\ ~IsCall(q)
    BY <1>2, ResultSent
  <2>2. \A i \in DOMAIN <<q>> : ~IsCall(<<q>>[i])
    BY <2>1
  <2> QED
    BY <2>1, <2>2, SendUnique
<1>3. CASE Send(parts)
  BY <1>3, SendUnique DEF UniqueInv, TypeOK
<1> QED
  BY <1>1, <1>2, <1>3, StepShape DEF Skip

(***************************************************************************)
(* The invariant holds throughout.                                         *)
(***************************************************************************)
LEMMA InitInv == Init => IInv
<1> SUFFICES ASSUME Init PROVE IInv
  OBVIOUS
<1> USE DEF Init
<1>1. TypeOK
  <2>1. [id \in CallIds |-> Blank] \in [CallIds -> Names]
    BY DEF Names
  <2>2. 0 \in 0 .. MaxItems
    BY BoundsAreNat
  <2>3. /\ <<>> \in Seq(Messages) /\ <<>> \in Seq(SentMessages) /\ <<>> \in Seq(Nat)
    OBVIOUS
  <2> QED
    BY <2>1, <2>2, <2>3, ForgottenType DEF TypeOK
<1>2. ScanInv
  BY DEF ScanInv, NoHead
<1>e. /\ DOMAIN sent = {} /\ DOMAIN parts = {} /\ DOMAIN calls = {}
      /\ DOMAIN content = {} /\ DOMAIN conversation = {} /\ 1 .. merged = {}
      /\ Len(parts) = 0 /\ Len(content) = 0 /\ Len(sent) = 0 /\ Len(origin) = 0
  OBVIOUS
<1>3. TurnsInOrder /\ ResultsNamed /\ CallsUnique /\ CallsKept
  BY <1>e DEF TurnsInOrder, ResultsNamed, CallsUnique, CallsKept
<1>4. NamesInv
  BY <1>e DEF NamesInv, Called
<1>5. UniqueInv /\ KeptInv
  BY <1>e DEF UniqueInv, KeptInv
<1>6. OrderInv /\ ContentKept
  <2>1. Place(content, 0) = 0
    BY PlaceStarts
  <2> QED
    BY <1>e, <2>1 DEF OrderInv, ContentKept
<1> QED
  BY <1>1, <1>2, <1>3, <1>4, <1>5, <1>6 DEF IInv

THEOREM Invariance == Spec => []IInv
<1>1. IInv /\ [Next]_vars => IInv'
  BY TypeStep, TurnsStep, NamesStep, ResultsStep, UniqueStep, CallsUniqueStep, KeptStep,
     CallsKeptStep, OrderStep, ContentStep DEF IInv
<1> QED
  BY <1>1, InitInv, PTL DEF Spec

(***************************************************************************)
(* What ConvertMessages keeps and sends is well typed: only roles and      *)
(* parts that CommandCode accepts are sent.                                *)
(***************************************************************************)
THEOREM TypeCorrectness == Spec => []TypeOK
<1>1. IInv => TypeOK
  BY DEF IInv
<1> QED
  BY <1>1, Invariance, PTL

(***************************************************************************)
(* The turns are sent once each, in order and in their roles, and          *)
(* instructions not at all.                                                *)
(***************************************************************************)
THEOREM TurnsOrdered == Spec => []TurnsInOrder
<1>1. IInv => TurnsInOrder
  BY DEF IInv
<1> QED
  BY <1>1, Invariance, PTL

(***************************************************************************)
(* A result that follows its call is sent with a name its id was given.    *)
(***************************************************************************)
THEOREM NamesSound == Spec => []ResultsNamed
<1>1. IInv => ResultsNamed
  BY DEF IInv
<1> QED
  BY <1>1, Invariance, PTL

(***************************************************************************)
(* A call is in a message once, unless the content repeats it.             *)
(***************************************************************************)
THEOREM CallsDistinct == Spec => []CallsUnique
<1>1. IInv => CallsUnique
  BY DEF IInv
<1> QED
  BY <1>1, Invariance, PTL

(***************************************************************************)
(* No complete call of an assistant is lost on the way to CommandCode.     *)
(***************************************************************************)
THEOREM NoCallLost == Spec => []CallsKept
<1>1. IInv => CallsKept
  BY DEF IInv
<1> QED
  BY <1>1, Invariance, PTL

(***************************************************************************)
(* What can be sent of a message's content is sent, in the client's order, *)
(* and only calls of tool_calls follow it.                                 *)
(***************************************************************************)
THEOREM ContentInOrder == Spec => []ContentKept
<1>1. IInv => ContentKept
  BY DEF IInv
<1> QED
  BY <1>1, Invariance, PTL
===============================================================================
