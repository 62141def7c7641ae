---------------------------- MODULE RequestBuilding ----------------------------
(***************************************************************************)
(* What HandleChatCompletions and HandleResponses (internal/proxy/         *)
(* handler.go) do with a request until it is sent: the Responses shim, the *)
(* two refusals of a request with nothing to say, and                      *)
(* BuildCCRequestWithWorkingDir (proxy.go), which takes each choice from   *)
(* the client, or else the operator's flags, or else a default, and where  *)
(* the client sent no configuration takes an EnvironmentSnapshot of the    *)
(* project, which goes on changing.                                        *)
(*                                                                         *)
(* The conversion of messages is Conversion's; here it matters which are   *)
(* turns.  Model names, memory, skills, taste and ids are passed through.  *)
(***************************************************************************)
EXTENDS EnvironmentSnapshot

CONSTANTS
    None,           \* an absent field, JSON null
    Texts,          \* what turns say
    Limits,         \* limits of tokens a client may set
    Requests,       \* requests the client may send
    Flags           \* flags the operator may have started the proxy with

DefaultLimit == 64000

Roles == {"system", "developer", "user", "assistant", "tool", "function", ""}

\* A message of the chat API; called is whether it has a tool_call_id.
ChatMessages == [role: Roles, content: Texts \cup {None}, called: BOOLEAN]

\* An item of a Responses input: its role, and three places for what it says.
\* None stands for an item that is no object, such as a string.
Items == [role: Roles, content: Texts \cup {None}, text: Texts \cup {None},
          input: Texts \cup {None}]

\* A Responses input that is not a list is one text, a string or other JSON.
Inputs == [kind: {"none", "list", "text"}, items: Seq(Items \cup {None}),
           text: Texts \cup {None}]

\* Tools as the chat API declares them, as the Responses API does, without a
\* name, as CommandCode does.
ToolForms == {"chat", "responses", "nameless", "native"}

Choices == [dir: {None, "client"}, config: {"none", "partial", "full"},
            taste: {None} \cup BOOLEAN, tools: SUBSET ToolForms]
LimitFields == [tokens: Limits \cup {None}, output: Limits \cup {None},
                completion: Limits \cup {None}]
RequestRecords == [route: {"chat", "responses"}, messages: Seq(ChatMessages),
                   input: Inputs, instructions: BOOLEAN, limits: LimitFields,
                   choices: Choices]
FlagRecords == [dir: {None, "flag"}, taste: {None} \cup BOOLEAN]

\* api.OpenAIChatRequest and api.CCRequestBody with the header sent beside it.
ChatRequests == [messages: Seq(ChatMessages), tokens: Limits \cup {None},
                 completion: Limits \cup {None}, choices: Choices]
Bodies == [messages: Seq([role: {"user", "assistant", "tool"},
                          content: Texts \cup {None}]),
           limit: Limits \cup {DefaultLimit}, tools: SUBSET {"chat", "native"},
           config: {"client", "disk"}, dir: {"client", "flag", "cwd"}, taste: BOOLEAN]

ASSUME TextsExist == Texts # {}
ASSUME RequestsAreRequests == Requests \subseteq RequestRecords
ASSUME FlagsAreFlags == Flags \subseteq FlagRecords

VARIABLES
    request,    \* what the client sent
    flags,      \* Proxy.WorkingDir and Proxy.TasteLearning
    chat,       \* openAIReq, or None before it is read
    body,       \* ccBody, or None before it is built
    phase       \* where the handler is

vars == <<request, flags, chat, body, phase, projectVars, snapshotVars>>

TypeOK ==
    /\ request \in RequestRecords /\ flags \in FlagRecords
    /\ chat \in ChatRequests \cup {None}
    /\ body \in Bodies \cup {None}
    /\ phase \in {"received", "checking", "building", "reading", "built", "sent",
                  "refused"}
    /\ SnapshotTypeOK

Init ==
    /\ request \in Requests /\ flags \in Flags
    /\ chat = None /\ body = None
    /\ phase = "received"
    /\ SnapshotInit

-------------------------------------------------------------------------------
(***************************************************************************)
(* The Responses shim.                                                     *)
(***************************************************************************)

\* A loop that appends what it keeps: the elements of s at the places I, in order.
Rank(I, i) == Cardinality({j \in I : j <= i})
Kept(s, I) == [k \in 1 .. Cardinality(I) |-> s[CHOOSE i \in I : Rank(I, i) = k]]

Message(role, content) == [role |-> role, content |-> content, called |-> FALSE]

Or(x, y) == IF x # None THEN x ELSE y

\* Seeded defect: items that have only a text are forwarded without it.
ItemMessageContentOnly(item) ==
    Message(IF item.role = "" THEN "user" ELSE item.role, item.content)

\* responseItemsToMessages, for an object: one without a role is the user's.
ItemMessage(item) ==
    Message(IF item.role = "" THEN "user" ELSE item.role,
            Or(item.content, Or(item.text, item.input)))

\* responsesInputToMessages; a list without objects is a message that is kept,
\* and whose content comes to nothing when it is converted.
InputMessages(input) ==
    LET objects == Kept(input.items, {i \in DOMAIN input.items : input.items[i] # None})
    IN
    IF input.kind = "none" THEN <<>>
    ELSE IF input.kind = "text" THEN <<Message("user", input.text)>>
    ELSE IF objects = <<>> THEN <<Message("user", None)>>
    ELSE [i \in DOMAIN objects |-> ItemMessage(objects[i])]

\* The limit responsesToChatRequest makes max_completion_tokens.
ShimLimit(limits) == Or(limits.completion, Or(limits.output, limits.tokens))

\* responsesToChatRequest, marshalled and read again.
Shim(r) ==
    [messages |-> (IF r.instructions THEN <<Message("system", CHOOSE t \in Texts : TRUE)>>
                   ELSE <<>>) \o InputMessages(r.input),
     tokens |-> r.limits.tokens, completion |-> ShimLimit(r.limits),
     choices |-> r.choices]

AcceptChat ==
    /\ phase = "received" /\ request.route = "chat"
    /\ chat' = [messages |-> request.messages, tokens |-> request.limits.tokens,
                completion |-> request.limits.completion, choices |-> request.choices]
    /\ phase' = "checking"
    /\ UNCHANGED <<request, flags, body, projectVars, snapshotVars>>

AcceptResponses ==
    /\ phase = "received" /\ request.route = "responses"
    /\ chat' = Shim(request)
    /\ phase' = "checking"
    /\ UNCHANGED <<request, flags, body, projectVars, snapshotVars>>

-------------------------------------------------------------------------------
(***************************************************************************)
(* Building the body.                                                      *)
(***************************************************************************)

\* Seeded defect: a client cannot turn learning off.
ResolveTasteLearningIgnoresFalse(perRequest, proxyDefault) ==
    IF perRequest = TRUE THEN TRUE
    ELSE IF proxyDefault # None THEN proxyDefault ELSE TRUE

\* The header x-taste-learning.
ResolveTasteLearning(perRequest, proxyDefault) ==
    Or(perRequest, Or(proxyDefault, TRUE))

\* The messages that ConvertMessages, after DropSystemMessages, makes turns of.
IsTurn(m) == m.role \in {"user", "assistant"} \/ (m.role = "tool" /\ m.called)

Turns(messages) ==
    LET turns == Kept(messages, {i \in DOMAIN messages : IsTurn(messages[i])})
    IN [i \in DOMAIN turns |-> [role |-> turns[i].role, content |-> turns[i].content]]

\* max_completion_tokens over max_tokens over the default.
MaxTokens(c) == Or(c.completion, Or(c.tokens, DefaultLimit))

\* Seeded defect: a function needs no name.
ConvertToolsNameless(tools) == tools \ {"responses"}

\* A function without a function object, or without a name in it, is left out.
ConvertTools(tools) == tools \cap {"chat", "native"}

\* The directory: the request's, the flag's, or the proxy's own.
WorkingDir(c) == Or(c.choices.dir, Or(flags.dir, "cwd"))

\* The check for messages; nothing is built for a request without any.
CheckMessages ==
    /\ phase = "checking"
    /\ phase' = IF chat.messages = <<>> THEN "refused" ELSE "building"
    /\ UNCHANGED <<request, flags, chat, body, projectVars, snapshotVars>>

\* resolveConfig goes to the disk unless the client's config names a directory.
Build(source) ==
    /\ phase = "building"
    /\ source = IF chat.choices.config = "full" THEN "client" ELSE "disk"
    /\ body' = [messages |-> Turns(chat.messages), limit |-> MaxTokens(chat),
                tools |-> ConvertTools(chat.choices.tools), config |-> source,
                dir |-> IF source = "client" THEN "client" ELSE WorkingDir(chat),
                taste |-> ResolveTasteLearning(chat.choices.taste, flags.taste)]
    /\ UNCHANGED <<request, flags, chat>>

BuildFromClient ==
    /\ Build("client")
    /\ phase' = "built"
    /\ UNCHANGED <<projectVars, snapshotVars>>

\* The directory is no repository: IsGitRepo stays false.
BuildOutsideGit ==
    /\ Build("disk")
    /\ phase' = "built"
    /\ UNCHANGED <<projectVars, snapshotVars>>

BuildFromGit ==
    /\ Build("disk")
    /\ phase' = "reading"
    /\ BeginReading

GitAnswers(ok) ==
    /\ phase = "reading"
    /\ ReadField(ok)
    /\ phase' = IF read' = "none" THEN "built" ELSE "reading"
    /\ UNCHANGED <<request, flags, chat, body>>

\* The check for turns, after all has been read.
Generate ==
    /\ phase = "built"
    /\ phase' = IF body.messages = <<>> THEN "refused" ELSE "sent"
    /\ UNCHANGED <<request, flags, chat, body, projectVars, snapshotVars>>

\* The developer works on.  What happens before the reading is in Init already,
\* and what happens after it is not seen.
WorkGoesOn ==
    /\ phase = "reading"
    /\ ProjectStep
    /\ UNCHANGED <<request, flags, chat, body, phase>>

Next ==
    \/ AcceptChat
    \/ AcceptResponses
    \/ CheckMessages
    \/ BuildFromClient
    \/ BuildOutsideGit
    \/ BuildFromGit
    \/ \E ok \in BOOLEAN : GitAnswers(ok)
    \/ Generate
    \/ WorkGoesOn

Spec == Init /\ [][Next]_vars

-------------------------------------------------------------------------------
(***************************************************************************)
(* Properties.  SummaryTrue and ChangesSeen are EnvironmentSnapshot's.     *)
(***************************************************************************)

\* What a request says, in the records of its route: its turns.  Messages and
\* items of the roles "system" and "developer", of a role unknown, and the
\* instructions of a Responses request are no turns, and are dropped
\* (proxy.go:73-78; README.md:29 and 280 say otherwise).
Said ==
    IF request.route = "chat"
    THEN Kept(request.messages,
              {i \in DOMAIN request.messages : IsTurn(request.messages[i])})
    ELSE IF request.input.kind = "list"
    THEN Kept(request.input.items,
              {i \in DOMAIN request.input.items :
                  /\ request.input.items[i] # None
                  /\ request.input.items[i].role \in {"user", "assistant", ""}})
    ELSE IF request.input.kind = "text" THEN <<Message("", request.input.text)>>
    ELSE <<>>

\* The places of a record in which it may say it.
TextsOf(m) == {m[field] : field \in {"content", "text", "input"} \cap DOMAIN m} \ {None}

\* What the client says reaches CommandCode whole, in order and in its role, by
\* either API and however an item spells it, and a request is refused only if
\* it says nothing.  Excepted: system and developer messages and instructions,
\* which are dropped (Said); tool messages without an id, and items of the role
\* "tool", which cannot have one; a Responses list without objects, sent as an
\* empty turn of the user; and an item with none of three fields, sent empty.
PromptKept ==
    /\ phase = "refused" => Said = <<>>
    /\ phase = "sent" /\ Said = <<>> =>
          /\ request.route = "responses" /\ request.input.kind = "list"
          /\ \A i \in DOMAIN request.input.items : request.input.items[i] = None
          /\ body.messages = <<[role |-> "user", content |-> None]>>
    /\ phase = "sent" /\ Said # <<>> =>
          /\ Len(body.messages) = Len(Said)
          /\ \A i \in DOMAIN Said :
                LET m == body.messages[i] IN
                /\ m.role = IF Said[i].role = "" THEN "user" ELSE Said[i].role
                /\ IF TextsOf(Said[i]) = {} THEN m.content = None
                   ELSE m.content \in TextsOf(Said[i])

\* What the client decided is never overruled by a flag or a default, through
\* the shim or without it, and what the operator decided by no default:
\* neither where the choice is FALSE, nor where it has several names.
\* Excepted: a configuration without a working directory, which is replaced by
\* one read from disk; tools in the Responses API's flat form, which are
\* dropped; max_output_tokens by the chat API, which has no such field; and
\* temperature, for which CommandCode's request has none.  Of several limits
\* max_completion_tokens goes first, and any of the others may be used.
ClientDecides ==
    phase = "sent" =>
        LET limits == request.limits  choices == request.choices
            given == ({limits.tokens, limits.completion}
                      \cup (IF request.route = "responses" THEN {limits.output} ELSE {}))
                     \ {None}
        IN /\ body.limit \in IF given = {} THEN {DefaultLimit} ELSE given
           /\ limits.completion # None => body.limit = limits.completion
           /\ choices.taste # None => body.taste = choices.taste
           /\ choices.taste = None /\ flags.taste # None => body.taste = flags.taste
           /\ choices.dir # None \/ choices.config = "full" => body.dir = "client"
           /\ body.dir = "cwd" => flags.dir = None
           /\ choices.config = "full" <=> body.config = "client"
           /\ choices.tools \cap {"chat", "native"} \subseteq body.tools

-------------------------------------------------------------------------------
(***************************************************************************)
(* The inductive invariant behind them.                                    *)
(***************************************************************************)

\* The chat request has the client's choices, and the body is made of them.
ChoicesInv ==
    /\ phase # "received" =>
          /\ chat.choices = request.choices
          /\ chat.tokens = request.limits.tokens
          /\ chat.completion = IF request.route = "chat" THEN request.limits.completion
                               ELSE ShimLimit(request.limits)
    /\ phase \in {"reading", "built", "sent"} =>
          /\ body.config = IF request.choices.config = "full" THEN "client" ELSE "disk"
          /\ body.dir = IF body.config = "client" THEN "client" ELSE WorkingDir(chat)
          /\ body.limit = MaxTokens(chat)
          /\ body.tools = ConvertTools(chat.choices.tools)
          /\ body.taste = ResolveTasteLearning(chat.choices.taste, flags.taste)

\* The chat request has the client's messages, or the shim's, and the body has
\* their turns; it is sent if there are any.
PromptInv ==
    /\ phase # "received" =>
          /\ chat \in ChatRequests
          /\ chat.messages = IF request.route = "chat" THEN request.messages
                             ELSE Shim(request).messages
    /\ phase \in {"reading", "built", "sent"} => body.messages = Turns(chat.messages)
    /\ phase = "sent" => body.messages # <<>>
    /\ phase = "refused" => Turns(chat.messages) = <<>>

\* The handler waits while the snapshot is taken.
ReadingInv == phase = "reading" <=> read # "none"

IInv == TypeOK /\ ChoicesInv /\ PromptInv /\ ReadingInv /\ SnapshotInv
===============================================================================
