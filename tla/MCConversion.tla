----------------------------- MODULE MCConversion ------------------------------
(***************************************************************************)
(* Small instances of Conversion: what the client may say.                 *)
(***************************************************************************)
EXTENDS Conversion

CONSTANTS a, b, f, g

HeadOf(role, name, callId, error) ==
    [role |-> role, name |-> name, callId |-> callId, error |-> error,
     reasoning |-> FALSE]

\* A message of every kind of role ("developer" is treated as "system" is), and
\* results of no call, of a call, and of one that they name themselves.
MCHeads ==
    {HeadOf(role, Blank, Blank, FALSE) : role \in Roles \ {"developer"}}
    \cup {HeadOf("tool", Blank, a, FALSE), HeadOf("tool", g, a, TRUE)}

\* The proxy's own answer, sent back.
EchoHeads == {[NoHead EXCEPT !.role = "assistant", !.reasoning = r] : r \in BOOLEAN}
             \cup {NoHead}

CallOf(id, name, input) == [id |-> id, name |-> name, input |-> input]

\* Two calls, one under two names, and entries without an id or a name.
MCCalls ==
    {CallOf(a, f, "empty"), CallOf(a, g, "broken"), CallOf(b, f, "null"),
     CallOf(Blank, f, "object"), CallOf(a, Blank, "object")}

PartOf(type, id, name, input) ==
    [type |-> type, id |-> id, name |-> name, input |-> input, error |-> FALSE]

\* Every type of part, complete and not.
MCParts ==
    {PartOf(type, Blank, Blank, "none") : type \in {"reasoning", "other"}}
    \cup {PartOf("tool-call", a, f, "empty"), PartOf("tool-call", a, Blank, "object"),
          PartOf("tool-result", a, Blank, "none"), PartOf("tool-result", b, f, "none"),
          PartOf("tool-result", Blank, f, "none")}

TextParts == {PartOf("text", Blank, Blank, "none")}
===============================================================================
