--------------------------------- MODULE Tools ---------------------------------
(***************************************************************************)
(* The vocabulary of tool calls shared by the gateway and the assemblers.  *)
(***************************************************************************)
CONSTANTS
    ToolIds,        \* ids of the tool calls a generation may make
    Blank           \* the empty id or name

ASSUME BlankIsNoTool == Blank \notin ToolIds

\* A tool is named after the id of the one call that uses it.
Names == ToolIds \cup {Blank}
===============================================================================
