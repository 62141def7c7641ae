--------------------------- MODULE ResponseAssembler ---------------------------
(***************************************************************************)
(* What both response modes share: the EventTranslator's filter            *)
(* (translator.go), the Run loop and the registry half of the event        *)
(* dispatch `handle' (assembler.go).  StreamAssembler and FinalAssembler   *)
(* extend it with the sink each mode delegates to.                         *)
(*                                                                         *)
(* One goroutine reads a line, filters it, checks the context and handles  *)
(* the event, and nothing flows back to the gateway, so a line and its     *)
(* handling are one step.  Handling never reads the context: a             *)
(* cancellation that lands between the check and the handling is the same  *)
(* behaviour as one that lands just after.                                 *)
(***************************************************************************)
EXTENDS Gateway, ToolRegistry

VARIABLES
    registry,    \* ResponseAssembler.toolRegistry
    finishSeen,  \* EventTranslator.finishSeen
    run,         \* "scanning", or how Run returned: "finalized", "failed" (a
                 \* read error), "cancelled"
    ctxDone      \* the request context is cancelled

assemblerVars == <<registry, finishSeen, run, ctxDone>>

AssemblerTypeOK ==
    /\ registry \in Registries
    /\ finishSeen \in BOOLEAN
    /\ run \in {"scanning", "finalized", "failed", "cancelled"}
    /\ ctxDone \in BOOLEAN

AssemblerInit ==
    /\ registry = NewRegistry
    /\ finishSeen = FALSE
    /\ run = "scanning"
    /\ ctxDone = FALSE

\* Seeded defect: no de-duplication of finish-step and finish.
FinishPassesTwice(kind, usage, seen) == usage \/ kind = "finish"

\* Seeded defect: the first finish line passes, with usage or without.
FinishPassesFirst(kind, usage, seen) == ~seen

\* Whether Next yields a finish line: the first with usage, or else `finish'.
FinishPasses(kind, usage, seen) == ~seen /\ (usage \/ kind = "finish")

\* Seeded defect: upstream's spelling is passed on.
NormalizePassesThrough(reason) == reason

\* normalizeFinishReason
Normalize(reason) ==
    CASE reason \in {"tool_calls", "tool-calls"} -> "tool_calls"
      [] reason \in {"length", "max_tokens", "max_output_tokens", "max-tokens"}
           -> "length"
      [] reason \in {"content_filter", "content-filter"} -> "content_filter"
      [] OTHER -> "stop"

OpenAIReasons == {"stop", "length", "tool_calls", "content_filter"}

-------------------------------------------------------------------------------
(***************************************************************************)
(* Run.                                                                    *)
(***************************************************************************)

\* The loop holds an event and its context check passes.
Handling == run = "scanning" /\ ~ctxDone

\* Parts of an action that leave the loop, or the filter, as they are.
KeepRunning == UNCHANGED <<run, ctxDone>>
KeepFilter == UNCHANGED <<finishSeen, run, ctxDone>>

\* The client goes away, or the server cancels the request.
CancelRequest ==
    /\ ~ctxDone
    /\ run = "scanning"
    /\ ctxDone' = TRUE
    /\ UNCHANGED <<gatewayVars, registry, finishSeen, run>>

\* Run finds the context cancelled when the next event arrives.
AbortOnEvent ==
    /\ run = "scanning" /\ ctxDone
    /\ run' = "cancelled"
    /\ UNCHANGED <<gatewayVars, registry, finishSeen, ctxDone>>

\* The scanner stops on a read error: the body was closed under it, the
\* client timed out, or a line passed the scanner's one-megabyte limit.
FailRead ==
    /\ run = "scanning"
    /\ run' = "failed"
    /\ UNCHANGED <<gatewayVars, registry, finishSeen, ctxDone>>

\* The scanner reaches the end of the body; each mode adds its finalize.
ReachEnd ==
    /\ run = "scanning"
    /\ EndStream
    /\ run' = "finalized"
    /\ UNCHANGED <<registry, finishSeen, ctxDone>>
===============================================================================
