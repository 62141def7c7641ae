------------------------------ MODULE Conversion ------------------------------
(***************************************************************************)
(* DropSystemMessages, ConvertMessages and parseContent                    *)
(* (internal/proxy/convert.go): one scan over the client's conversation    *)
(* that makes the messages sent to CommandCode, and remembers on its way   *)
(* which tool each call id named, for the results that come later.         *)
(*                                                                         *)
(* A loop iteration is a step, and what it reads is chosen when it reads   *)
(* it: the conversation is any the client may send.  Both passes are one,  *)
(* since a dropped message touches nothing.  Content is a sequence of      *)
(* parts: nil and "" are the empty one, a plain string is one text part.   *)
(* Images are text parts, thinking is reasoning; texts are not told apart. *)
(***************************************************************************)
EXTENDS Naturals, Sequences, FiniteSets

CONSTANTS
    CallIds,        \* ids of tool calls
    ToolNames,      \* names of tools
    Blank,          \* the empty id or name
    Unknown,        \* the name "unknown"
    Heads,          \* messages the client may send, without calls and content
    Calls,          \* entries of a message's tool_calls the client may send
    Parts,          \* content parts the client may send
    MaxMessages,    \* bound: messages of a conversation
    MaxItems        \* bound: tool_calls entries and content parts, in all

Ids == CallIds \cup {Blank}
Names == ToolNames \cup {Blank}
Roles == {"system", "developer", "user", "assistant", "tool", "function"}

\* The arguments of a call, as the client writes them: none at all, an empty
\* string, a JSON object or one spelled as a string, null, or no JSON.
RawInputs == {"none", "empty", "object", "null", "broken"}

\* The input CommandCode is sent: {}, "", the object, nothing, or an object
\* that holds what could not be parsed.
Inputs == {"{}", "empty", "object", "absent", "wrapped"}

HeadRecords == [role: Roles, name: Names, callId: Ids, error: BOOLEAN,
                reasoning: BOOLEAN]
CallRecords == [id: Ids, name: Names, input: RawInputs \ {"none"}]
PartRecords == [type: {"text", "reasoning", "tool-call", "tool-result", "other"},
                id: Ids, name: Names, input: RawInputs, error: BOOLEAN]
Messages == [head: HeadRecords, calls: Seq(CallRecords), content: Seq(PartRecords)]

\* api.CCContentPart; fields a type lacks are Blank or "absent".  Calls and
\* results without an id or a name are refused by CommandCode.
SpeechParts == [type: {"text", "reasoning"}, id: {Blank}, name: {Blank},
                input: {"absent"}, output: {"absent"}]
CallParts == [type: {"tool-call"}, id: CallIds, name: ToolNames, input: Inputs,
              output: {"absent"}]
ResultParts == [type: {"tool-result"}, id: CallIds, name: ToolNames \cup {Unknown},
                input: {"absent"}, output: {"text", "error-text"}]
SentParts == SpeechParts \cup CallParts \cup ResultParts
SentMessages == [role: {"user", "assistant", "tool"}, content: Seq(SentParts)]

ASSUME BlankIsNothing == Blank \notin CallIds \cup ToolNames \cup {Unknown}
ASSUME UnknownIsNoTool == Unknown \notin ToolNames
ASSUME ClientSends ==
    Heads \subseteq HeadRecords /\ Calls \subseteq CallRecords /\ Parts \subseteq PartRecords
ASSUME BoundsAreNat == MaxMessages \in Nat /\ MaxItems \in Nat

VARIABLES
    conversation,   \* history: the messages the scan is past
    sent,           \* ccMsgs
    origin,         \* history: of each message of sent, its place in conversation
    toolNames,      \* toolNames, Blank where there is no entry
    phase,          \* the loop: "messages", "calls", "content", "merge" or "done"
    head, calls, content,   \* the message the scan is at, as far as it was read
    parts,          \* contentParts
    merged,         \* tool_calls entries the merging loop is past
    items           \* tool_calls entries and content parts read, for the bound

messageVars == <<head, calls, content, parts, merged>>
vars == <<conversation, sent, origin, toolNames, phase, messageVars, items>>

NoHead == [role |-> "user", name |-> Blank, callId |-> Blank, error |-> FALSE,
           reasoning |-> FALSE]

TypeOK ==
    /\ conversation \in Seq(Messages)
    /\ sent \in Seq(SentMessages)
    /\ origin \in Seq(Nat)
    /\ toolNames \in [CallIds -> Names]
    /\ phase \in {"messages", "calls", "content", "merge", "done"}
    /\ head \in HeadRecords
    /\ calls \in Seq(CallRecords)
    /\ content \in Seq(PartRecords)
    /\ parts \in Seq(SentParts)
    /\ merged \in 0 .. Len(calls)
    /\ items \in 0 .. MaxItems

Init ==
    /\ conversation = <<>> /\ sent = <<>> /\ origin = <<>>
    /\ toolNames = [id \in CallIds |-> Blank]
    /\ phase = "messages"
    /\ head = NoHead /\ calls = <<>> /\ content = <<>>
    /\ parts = <<>> /\ merged = 0
    /\ items = 0

-------------------------------------------------------------------------------
(***************************************************************************)
(* The conversions of single values.                                       *)
(***************************************************************************)

\* Seeded defect: instructions are rewritten as a turn of the user.
NormalizeRoleRewrites(role) ==
    IF role \in {"system", "developer"} THEN "user"
    ELSE IF role = "function" THEN "" ELSE role

\* normalizeRole, after DropSystemMessages: "" is not sent.
NormalizeRole(role) == IF role \in {"user", "assistant", "tool"} THEN role ELSE ""

\* parseToolInput, for the string of a tool_calls entry.
ParseToolInput(raw) ==
    [none |-> "{}", empty |-> "{}", object |-> "object", null |-> "absent",
     broken |-> "wrapped"][raw]

\* parseToolInputJSON, for a content part: "" is passed on as it is.
ParseToolInputJSON(raw) == IF raw = "empty" THEN "empty" ELSE ParseToolInput(raw)

\* A result's tool, by its own name or by the call with its id.
NameOf(id, own) ==
    IF own # Blank THEN own
    ELSE IF id # Blank /\ toolNames[id] # Blank THEN toolNames[id]
    ELSE Unknown

\* The parts sent.
Speech(type) == [type |-> type, id |-> Blank, name |-> Blank, input |-> "absent",
                 output |-> "absent"]
ToolCall(id, name, input) ==
    [type |-> "tool-call", id |-> id, name |-> name, input |-> input,
     output |-> "absent"]
ToolResult(id, name, error) ==
    [type |-> "tool-result", id |-> id, name |-> name, input |-> "absent",
     output |-> IF error THEN "error-text" ELSE "text"]

\* A call's name is remembered, over an earlier one.
Remember(id, name) ==
    toolNames' = IF id # Blank /\ name # Blank
                 THEN [toolNames EXCEPT ![id] = name] ELSE toolNames

\* Seeded defect: any part with an id hides the call, a result too.
AddedToolsAnyPart == {parts[i].id : i \in DOMAIN parts}

\* addedTools: the calls among the parts so far.
AddedTools == {parts[i].id : i \in {j \in DOMAIN parts : parts[j].type = "tool-call"}}

-------------------------------------------------------------------------------
(***************************************************************************)
(* The scan.                                                               *)
(***************************************************************************)

Message == [head |-> head, calls |-> calls, content |-> content]

ForgetMessage ==
    /\ head' = NoHead /\ calls' = <<>> /\ content' = <<>>
    /\ parts' = <<>> /\ merged' = 0

\* The iteration ends and its message is sent.
Send(sentContent) ==
    /\ sent' = Append(sent, [role |-> NormalizeRole(head.role), content |-> sentContent])
    /\ origin' = Append(origin, Len(conversation) + 1)
    /\ conversation' = Append(conversation, Message)
    /\ phase' = "messages"
    /\ ForgetMessage

\* The iteration ends by `continue', and nothing is sent.
Skip(message) ==
    /\ conversation' = Append(conversation, message)
    /\ phase' = "messages"
    /\ ForgetMessage
    /\ UNCHANGED <<sent, origin>>

\* The scan comes to a message; those with other roles are not looked into.
ReadHead(h) ==
    /\ phase = "messages" /\ Len(conversation) < MaxMessages
    /\ IF NormalizeRole(h.role) = ""
       THEN Skip([head |-> h, calls |-> <<>>, content |-> <<>>])
       ELSE /\ phase' = "calls" /\ head' = h
            /\ UNCHANGED <<conversation, sent, origin, calls, content, parts, merged>>
    /\ UNCHANGED <<toolNames, items>>

\* First, an entry of tool_calls is remembered, of a message of any role.
ReadCall(c) ==
    /\ phase = "calls" /\ items < MaxItems
    /\ calls' = Append(calls, c)
    /\ Remember(c.id, c.name)
    /\ items' = items + 1
    /\ UNCHANGED <<conversation, sent, origin, phase, head, content, parts, merged>>

\* A tool message is one result, unless it does not say of which call.
SendResult ==
    /\ phase = "calls" /\ head.role = "tool"
    /\ IF head.callId = Blank THEN Skip(Message)
       ELSE Send(<<ToolResult(head.callId, NameOf(head.callId, head.name), head.error)>>)
    /\ UNCHANGED <<toolNames, items>>

\* Other messages go on with their content.
ReadContent ==
    /\ phase = "calls" /\ head.role # "tool"
    /\ phase' = "content"
    /\ UNCHANGED <<conversation, sent, origin, toolNames, messageVars, items>>

\* parseContent, for one part: what it adds to the parts.
Parsed(p) ==
    IF p.type \in {"text", "reasoning"} THEN <<Speech(p.type)>>
    ELSE IF p.type = "tool-call" /\ p.id # Blank /\ p.name # Blank
         THEN <<ToolCall(p.id, p.name, ParseToolInputJSON(p.input))>>
    ELSE IF p.type = "tool-result" /\ p.id # Blank
         THEN <<ToolResult(p.id, NameOf(p.id, p.name), p.error)>>
    ELSE <<>>

\* Seeded defect: calls among the content are not remembered.
ReadPartForgets(p) ==
    /\ phase = "content" /\ items < MaxItems
    /\ content' = Append(content, p)
    /\ parts' = parts \o Parsed(p)
    /\ items' = items + 1
    /\ UNCHANGED <<conversation, sent, origin, toolNames, phase, head, calls, merged>>

\* A part is converted or left out; a call is remembered, in any role.
ReadPart(p) ==
    /\ phase = "content" /\ items < MaxItems
    /\ content' = Append(content, p)
    /\ parts' = parts \o Parsed(p)
    /\ IF p.type = "tool-call" THEN Remember(p.id, p.name) ELSE UNCHANGED toolNames
    /\ items' = items + 1
    /\ UNCHANGED <<conversation, sent, origin, phase, head, calls, merged>>

\* Seeded defect: content is null beside tool_calls, as in the proxy's answers.
EndContentNull ==
    /\ phase = "content"
    /\ IF head.role = "assistant" /\ calls # <<>>
       THEN /\ phase' = "merge" /\ parts' = <<>>
            /\ UNCHANGED <<conversation, sent, origin, head, calls, content, merged>>
       ELSE Send(parts)
    /\ UNCHANGED <<toolNames, items>>

\* The content is the message, unless an assistant's tool_calls are to follow.
EndContent ==
    /\ phase = "content"
    /\ IF head.role = "assistant" /\ calls # <<>>
       THEN /\ phase' = "merge"
            /\ UNCHANGED <<conversation, sent, origin, messageVars>>
       ELSE Send(parts)
    /\ UNCHANGED <<toolNames, items>>

\* Seeded defect: entries the content has already are added again.
MergeCallTwice ==
    /\ phase = "merge" /\ merged < Len(calls)
    /\ LET c == calls[merged + 1]
       IN parts' = IF c.id = Blank \/ c.name = Blank THEN parts
                   ELSE Append(parts, ToolCall(c.id, c.name, ParseToolInput(c.input)))
    /\ merged' = merged + 1
    /\ UNCHANGED <<conversation, sent, origin, toolNames, phase, head, calls, content, items>>

\* Seeded defect: an entry without a name is sent.
MergeCallUnchecked ==
    /\ phase = "merge" /\ merged < Len(calls)
    /\ LET c == calls[merged + 1]
       IN parts' = IF c.id \in AddedTools \/ c.id = Blank THEN parts
                   ELSE Append(parts, ToolCall(c.id, c.name, ParseToolInput(c.input)))
    /\ merged' = merged + 1
    /\ UNCHANGED <<conversation, sent, origin, toolNames, phase, head, calls, content, items>>

\* An entry of tool_calls follows the content, unless it is there already or
\* lacks its id or name.
MergeCall ==
    /\ phase = "merge" /\ merged < Len(calls)
    /\ LET c == calls[merged + 1]
       IN parts' = IF c.id \in AddedTools \/ c.id = Blank \/ c.name = Blank THEN parts
                   ELSE Append(parts, ToolCall(c.id, c.name, ParseToolInput(c.input)))
    /\ merged' = merged + 1
    /\ UNCHANGED <<conversation, sent, origin, toolNames, phase, head, calls, content, items>>

EndMerge ==
    /\ phase = "merge" /\ merged = Len(calls)
    /\ Send(parts)
    /\ UNCHANGED <<toolNames, items>>

Return ==
    /\ phase = "messages"
    /\ phase' = "done"
    /\ UNCHANGED <<conversation, sent, origin, toolNames, messageVars, items>>

Next ==
    \/ \E h \in Heads : ReadHead(h)
    \/ \E c \in Calls : ReadCall(c)
    \/ SendResult
    \/ ReadContent
    \/ \E p \in Parts : ReadPart(p)
    \/ EndContent
    \/ MergeCall
    \/ EndMerge
    \/ Return

Spec == Init /\ [][Next]_vars

-------------------------------------------------------------------------------
(***************************************************************************)
(* Properties.                                                             *)
(***************************************************************************)

\* The message a sent one was made of.
Source(k) == conversation[origin[k]]

\* What CommandCode can take as a turn.
IsTurn(m) == \/ m.head.role \in {"user", "assistant"}
             \/ m.head.role = "tool" /\ m.head.callId # Blank

\* What is sent is the conversation's turns, each once, in order and in its
\* role: instructions never turn up as something the user said, which is the
\* defect that DropSystemMessages and normalizeRole were rewritten for.
TurnsInOrder ==
    /\ Len(origin) = Len(sent)
    /\ \A k \in DOMAIN sent :
          /\ origin[k] \in DOMAIN conversation
          /\ IsTurn(Source(k)) /\ sent[k].role = Source(k).head.role
          /\ \A j \in DOMAIN sent : j < k => origin[j] < origin[k]
    /\ \A n \in DOMAIN conversation :
          IsTurn(conversation[n]) => \E k \in DOMAIN sent : origin[k] = n

IsCall(p) == p.type = "tool-call"
IsResult(p) == p.type = "tool-result"

\* The names the client gave an id, by a call or by a result.
NamesGiven(m, id) ==
    {m.calls[i].name : i \in {j \in DOMAIN m.calls : m.calls[j].id = id}}
    \cup {m.content[i].name : i \in {j \in DOMAIN m.content : m.content[j].id = id}}
    \cup (IF m.head.callId = id THEN {m.head.name} ELSE {})

\* A call with the id comes before part i of message k, as CommandCode reads.
CalledBefore(messages, id, k, i) ==
    \/ \E j \in 1 .. k - 1 : \E l \in DOMAIN messages[j].content :
          IsCall(messages[j].content[l]) /\ messages[j].content[l].id = id
    \/ \E l \in 1 .. i - 1 :
          IsCall(messages[k].content[l]) /\ messages[k].content[l].id = id

\* A result that follows its call is sent with a name, and with none but one
\* that the client gave its id; "unknown" is left to results without a call
\* (toolNames is filled in two loops, and read in two places).
ResultsNamed ==
    \A k \in DOMAIN sent : \A i \in DOMAIN sent[k].content :
        LET p == sent[k].content[i] IN IsResult(p) =>
            IF p.name = Unknown THEN ~CalledBefore(sent, p.id, k, i)
            ELSE \E n \in 1 .. origin[k] : p.name \in NamesGiven(conversation[n], p.id)

\* The parts that can be sent, and how many of them there are up to a place.
Sendable(p) == \/ p.type \in {"text", "reasoning"}
               \/ p.type = "tool-call" /\ p.id # Blank /\ p.name # Blank
               \/ p.type = "tool-result" /\ p.id # Blank
Place(s, l) == Cardinality({j \in 1 .. l : Sendable(s[j])})

\* A call is in a message once, though clients state it in the content, in
\* tool_calls or in both: only the parts made of the content can repeat it,
\* and no call of tool_calls is merged with one that is there already.
CallsUnique ==
    \A k \in DOMAIN sent : \A i, j \in DOMAIN sent[k].content :
        LET p == sent[k].content[i]  q == sent[k].content[j]  m == Source(k) IN
        i < j /\ IsCall(p) /\ IsCall(q) /\ p.id = q.id =>
            /\ j <= Place(m.content, Len(m.content))
            /\ \E l \in DOMAIN m.content : m.content[l].id = p.id

\* No complete call of an assistant is lost, wherever it was stated, and
\* unless its arguments were null it has an input: results that follow it
\* have something to refer to.
CallsKept ==
    \A k \in DOMAIN sent : sent[k].role = "assistant" =>
        LET m == Source(k)
            Kept(c) == \E i \in DOMAIN sent[k].content :
                          /\ IsCall(sent[k].content[i]) /\ sent[k].content[i].id = c.id
                          /\ sent[k].content[i].input = "absent" =>
                                \E s \in {m.calls, m.content} : \E l \in DOMAIN s :
                                    s[l].id = c.id /\ s[l].input = "null"
            Complete(c) == c.id # Blank /\ c.name # Blank
        IN /\ \A l \in DOMAIN m.calls : Complete(m.calls[l]) => Kept(m.calls[l])
           /\ \A l \in DOMAIN m.content :
                 IsCall(m.content[l]) /\ Complete(m.content[l]) => Kept(m.content[l])

\* The part sent is of the kind of the client's, and of the same call.
Conveys(q, p) == q.type = p.type /\ (IsCall(p) \/ IsResult(p) => q.id = p.id)

\* The parts that can be sent are sent first and in the client's order, beside
\* tool_calls too: what is said before a call stays before it.  What follows
\* them are calls of tool_calls, and nothing the client did not say.
ContentKept ==
    \A k \in DOMAIN sent : sent[k].role # "tool" =>
        LET m == Source(k)  said == m.content  got == sent[k].content
        IN /\ \A l \in DOMAIN said : Sendable(said[l]) =>
                 /\ Place(said, l) \in DOMAIN got
                 /\ Conveys(got[Place(said, l)], said[l])
           /\ \A i \in DOMAIN got : i > Place(said, Len(said)) =>
                 IsCall(got[i]) /\ \E l \in DOMAIN m.calls : m.calls[l].id = got[i].id

-------------------------------------------------------------------------------
(***************************************************************************)
(* The inductive invariant behind them, by concern.                        *)
(***************************************************************************)

\* Where the scan is, and what of the message it has read there.
ScanInv ==
    /\ head.role \in {"user", "assistant", "tool"}
    /\ phase \in {"messages", "done"} => head = NoHead /\ calls = <<>>
    /\ phase \notin {"content", "merge"} => content = <<>> /\ parts = <<>>
    /\ phase # "merge" => merged = 0
    /\ phase \in {"content", "merge"} => head.role # "tool"

\* Messages, the last of them perhaps unfinished, give the id the name; and
\* messages sent hold a call with the id.
Given(history, m, name, id) ==
    \/ \E n \in DOMAIN history : name \in NamesGiven(history[n], id)
    \/ name \in NamesGiven(m, id)
Called(messages, id) ==
    \E j \in DOMAIN messages : \E l \in DOMAIN messages[j].content :
        IsCall(messages[j].content[l]) /\ messages[j].content[l].id = id

\* Every call that was or will be sent has its name remembered, and every name
\* remembered was given; the results among the parts were named accordingly.
NamesInv ==
    /\ \A id \in CallIds :
          /\ toolNames[id] # Blank => Given(conversation, Message, toolNames[id], id)
          /\ Called(sent, id) => toolNames[id] # Blank
    /\ \A l \in DOMAIN calls :
          calls[l].id # Blank /\ calls[l].name # Blank => toolNames[calls[l].id] # Blank
    /\ \A i \in DOMAIN parts : IsCall(parts[i]) => toolNames[parts[i].id] # Blank
    /\ \A i \in DOMAIN parts : IsResult(parts[i]) =>
          IF parts[i].name = Unknown
          THEN /\ ~Called(sent, parts[i].id)
               /\ \A l \in 1 .. i - 1 : ~(IsCall(parts[l]) /\ parts[l].id = parts[i].id)
          ELSE Given(conversation, Message, parts[i].name, parts[i].id)

\* Until the merge, a call stands for one of the content; only those repeat.
UniqueInv ==
    /\ phase # "merge" => \A i \in DOMAIN parts : IsCall(parts[i]) =>
          \E l \in DOMAIN content : content[l].id = parts[i].id
    /\ \A i, j \in DOMAIN parts :
          i < j /\ IsCall(parts[i]) /\ IsCall(parts[j]) /\ parts[i].id = parts[j].id =>
              /\ j <= Place(content, Len(content))
              /\ \E l \in DOMAIN content : content[l].id = parts[j].id

HasCall(s, id) == \E i \in DOMAIN s : IsCall(s[i]) /\ s[i].id = id

\* Complete calls of the content, and of tool_calls as far as merged, are among
\* the parts, and a part lacks its input only where it was null.
KeptInv ==
    /\ \A i \in DOMAIN parts : IsCall(parts[i]) /\ parts[i].input = "absent" =>
          \/ \E l \in DOMAIN calls : calls[l].id = parts[i].id /\ calls[l].input = "null"
          \/ \E l \in DOMAIN content : content[l].id = parts[i].id /\ content[l].input = "null"
    /\ \A l \in DOMAIN content :
          IsCall(content[l]) /\ content[l].id # Blank /\ content[l].name # Blank =>
              HasCall(parts, content[l].id)
    /\ \A l \in 1 .. merged :
          calls[l].id # Blank /\ calls[l].name # Blank => HasCall(parts, calls[l].id)

\* The parts are those of the content that can be sent, each at its place, and
\* then those that were merged.
OrderInv ==
    /\ phase # "merge" => Len(parts) = Place(content, Len(content))
    /\ Place(content, Len(content)) <= Len(parts)
    /\ \A l \in DOMAIN content : Sendable(content[l]) =>
          /\ Place(content, l) \in DOMAIN parts
          /\ Conveys(parts[Place(content, l)], content[l])
    /\ \A i \in DOMAIN parts : i > Place(content, Len(content)) =>
          IsCall(parts[i]) /\ \E l \in DOMAIN calls : calls[l].id = parts[i].id

IInv ==
    /\ TypeOK /\ ScanInv
    /\ TurnsInOrder
    /\ NamesInv /\ ResultsNamed
    /\ UniqueInv /\ CallsUnique
    /\ KeptInv /\ CallsKept
    /\ OrderInv /\ ContentKept

-------------------------------------------------------------------------------
(***************************************************************************)
(* A claim of the documentation, as stated.                                *)
(***************************************************************************)

\* README.md:22: "Tools, tool calls, images, and thinking/reasoning content
\* round-trip cleanly".  The proxy answers with reasoning_content, which
\* clients send back with the assistant's message.
ReasoningRoundTrips ==
    \A k \in DOMAIN sent : Source(k).head.reasoning =>
        \E i \in DOMAIN sent[k].content : sent[k].content[i].type = "reasoning"
===============================================================================
