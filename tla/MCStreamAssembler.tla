--------------------------- MODULE MCStreamAssembler ---------------------------
(***************************************************************************)
(* Small instances of StreamAssembler.                                     *)
(***************************************************************************)
EXTENDS StreamAssembler, FiniteSets, TLC

CONSTANTS a, b, x, y

Symmetry == Permutations(ToolIds) \cup Permutations(Fragments)

\* Two kinds of streams: how calls interleave does not depend on what is spoken
\* between them or how the stream ends, and one call with one fragment is enough
\* to come before an ending.
ToolsInQuestion ==
    /\ Survived({"sparse", "cut", "error"})
    /\ verdict = ""
    /\ \A ch \in Channels : spoken[ch] = 0

EndInQuestion ==
    /\ Survived({"restart", "repeat"})
    /\ Cardinality({id \in ToolIds : call[id] # "none"}) <= 1
    /\ \A id \in ToolIds : Len(meant[id].args) <= 1

OneInQuestion == ToolsInQuestion \/ EndInQuestion
===============================================================================
