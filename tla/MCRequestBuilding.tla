--------------------------- MODULE MCRequestBuilding ---------------------------
(***************************************************************************)
(* Small instances of RequestBuilding.                                     *)
(***************************************************************************)
EXTENDS RequestBuilding

CONSTANTS t, u

\* What an editor, a rm and a `git add' make of a file.
MCEdits == {<<" ", "M">>, <<" ", "D">>, <<"M", " ">>, Untracked}

\* The pi extension's request, and that of another client in a directory.
Chosen == [dir |-> "client", config |-> "full", taste |-> TRUE, tools |-> {}]
Reading == [Chosen EXCEPT !.config = "none"]
NoLimits == [tokens |-> None, output |-> None, completion |-> None]
Asked == Message("user", t)

ChatOf(messages, limits, choices) ==
    [route |-> "chat", messages |-> messages,
     input |-> [kind |-> "none", items |-> <<>>, text |-> None],
     instructions |-> FALSE, limits |-> limits, choices |-> choices]

ResponsesOf(input, instructions, limits, choices) ==
    [route |-> "responses", messages |-> <<>>, input |-> input,
     instructions |-> instructions, limits |-> limits, choices |-> choices]

TextInput == [kind |-> "text", items |-> <<>>, text |-> t]
ListInput(items) == [kind |-> "list", items |-> items, text |-> None]
ItemOf(role, content, text, input) ==
    [role |-> role, content |-> content, text |-> text, input |-> input]

\* One item in each spelling; function_call_output has none of the three.
SomeItems ==
    {None, ItemOf("", t, None, None), ItemOf("assistant", None, u, None),
     ItemOf("system", t, None, None), ItemOf("user", None, None, t),
     ItemOf("tool", u, None, None), ItemOf("", None, None, None),
     ItemOf("user", t, u, None)}

Conversations == UNION {[1 .. n -> SomeItems] : n \in 0 .. 2}

SomeMessages == {[role |-> r, content |-> t, called |-> FALSE] : r \in Roles}
                \cup {[role |-> "tool", content |-> u, called |-> TRUE]}

\* One thing varies at a time: messages, limits, choices.
MCRequests ==
    {ChatOf(m, NoLimits, Chosen) : m \in UNION {[1 .. n -> SomeMessages] : n \in 0 .. 2}}
    \cup {ResponsesOf(ListInput(items), i, NoLimits, Chosen) :
              items \in Conversations, i \in BOOLEAN}
    \cup {ResponsesOf([TextInput EXCEPT !.kind = "none"], i, NoLimits, Chosen) :
              i \in BOOLEAN}
    \cup {ChatOf(<<Asked>>, l, Chosen) : l \in LimitFields}
    \cup {ResponsesOf(TextInput, TRUE, l, Chosen) : l \in LimitFields}
    \cup {ChatOf(<<Asked>>, NoLimits, c) : c \in {x \in Choices : x.tools \in {{}, ToolForms}}}

\* The project matters to a request whose directory is read, and the flags to
\* one that leaves a choice to them.
MCInit ==
    /\ Init
    /\ request.choices.config = "full" => worktree = [f \in Files |-> Clean]
    /\ request.choices \in {Chosen, Reading} => flags = [dir |-> None, taste |-> None]
    /\ request.choices \notin {Chosen, Reading} => worktree = [f \in Files |-> Clean]

MCSpec == MCInit /\ [][Next]_vars
===============================================================================
