----------------------------- MODULE ChunkProtocol -----------------------------
(***************************************************************************)
(* What a client that reads chat.completion.chunk objects (internal/api/   *)
(* openai.go) may be told, chunk by chunk, with nothing said of registries,*)
(* sinks or the gateway.  The role comes first and once.  Calls are opened *)
(* at the indexes 0, 1, 2, ... and each keeps its index; arguments are     *)
(* only ever added to, and an id once told stays.  The end is told once,   *)
(* and nothing after it.                                                   *)
(*                                                                         *)
(* Two lapses of upstream are passed on: a fragment of a call that was     *)
(* never announced ("orphan") may come before the role, or open a call     *)
(* without an id; and a further step ("multistep") goes on after the end.  *)
(***************************************************************************)
EXTENDS Naturals, Sequences, Tools

CONSTANT Pieces     \* pieces of arguments

VARIABLES
    roles,      \* chunks with the role
    heard,      \* deltas of text and of reasoning
    opened,     \* calls opened
    calls,      \* the calls, by index
    ended,      \* times the end has been told
    reason,     \* with it, why
    usage,      \* and whether with usage
    lapses      \* the lapses there were

protocolVars == <<roles, heard, opened, calls, ended, reason, usage, lapses>>
endVars == <<ended, reason, usage>>

Indexes == 0 .. opened - 1

ProtocolInit ==
    /\ roles = 0
    /\ \A ch \in DOMAIN heard : heard[ch] = 0
    /\ opened = 0 /\ DOMAIN calls = {}
    /\ ended = 0 /\ reason = "" /\ ~usage
    /\ lapses = {}

\* A chunk that is not the end comes before it.
MayWrite == lapses \subseteq lapses' /\ (ended > 0 => "multistep" \in lapses')

\* A chunk without the role comes after the one with it.
RoleKnown == roles' = roles /\ (roles = 0 => "orphan" \in lapses')

\* All calls but the one at an index are left alone.
OthersKept(index) == \A i \in Indexes \ {index} : calls'[i] = calls[i]

\* No other call has the id.
OnlyAt(index, id) == \A i \in Indexes \ {index} : calls[i].id # id

Speak(ch) ==
    /\ MayWrite
    /\ roles' = 1
    /\ heard' = [heard EXCEPT ![ch] = @ + 1]
    /\ UNCHANGED <<opened, calls, endVars>>

\* A call comes with an id of its own, and with what is known of it.
OpenCall ==
    /\ MayWrite
    /\ roles' = 1
    /\ opened' = opened + 1
    /\ DOMAIN calls' = 0 .. opened /\ OthersKept(opened)
    /\ calls'[opened] \in [id: ToolIds, name: Names, args: Seq(Pieces)]
    /\ OnlyAt(opened, calls'[opened].id)
    /\ UNCHANGED <<heard, endVars>>

\* A fragment of no call opens one.
OpenOrphan ==
    /\ MayWrite
    /\ RoleKnown /\ "orphan" \in lapses'
    /\ opened' = opened + 1
    /\ DOMAIN calls' = 0 .. opened /\ OthersKept(opened)
    /\ \E piece \in Pieces :
          calls'[opened] = [id |-> Blank, name |-> Blank, args |-> <<piece>>]
    /\ UNCHANGED <<heard, endVars>>

\* An open call is told its name, or its id if it had none.
Restate(index) ==
    /\ MayWrite
    /\ roles' = 1
    /\ DOMAIN calls' = Indexes /\ OthersKept(index)
    /\ calls'[index] \in [id: ToolIds, name: ToolIds \cup {calls[index].name},
                         args: {calls[index].args}]
    /\ calls[index].id \in {calls'[index].id, Blank}
    /\ OnlyAt(index, calls'[index].id)
    /\ UNCHANGED <<heard, opened, endVars>>

\* Arguments are added to.
Continue(index) ==
    /\ MayWrite
    /\ RoleKnown
    /\ DOMAIN calls' = Indexes /\ OthersKept(index)
    /\ \E piece \in Pieces :
          calls'[index] = [id |-> calls[index].id, name |-> calls[index].name,
                           args |-> Append(calls[index].args, piece)]
    /\ UNCHANGED <<heard, opened, endVars>>

\* The finish chunk and [DONE].
End ==
    /\ ended = 0 /\ ended' = 1
    /\ reason' # ""
    /\ UNCHANGED <<roles, heard, opened, calls, lapses>>

Lapse ==
    /\ lapses \subseteq lapses'
    /\ UNCHANGED <<roles, heard, opened, calls, endVars>>

ProtocolNext ==
    \/ \E ch \in DOMAIN heard : Speak(ch)
    \/ OpenCall
    \/ OpenOrphan
    \/ \E index \in Indexes : Restate(index)
    \/ \E index \in Indexes : Continue(index)
    \/ End
    \/ Lapse

Protocol == ProtocolInit /\ [][ProtocolNext]_protocolVars
===============================================================================
