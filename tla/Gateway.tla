-------------------------------- MODULE Gateway --------------------------------
(***************************************************************************)
(* EXTERNAL.  The CommandCode gateway as the proxy sees it: the order of   *)
(* NDJSON lines one generation may produce.  It is modelled from what the  *)
(* code in src/ expects of it: the event switch of translator.go, the      *)
(* contract quoted in the comments of assembler.go, and the recorded       *)
(* streams described in captures/README.md.                                *)
(*                                                                         *)
(* Beside the lines, the module keeps what they MEAN (call, meant, spoken, *)
(* verdict), which is what a client of the proxy ought to be told.         *)
(*                                                                         *)
(* A real gateway also strays from the contract in ways the code has a     *)
(* branch for.  Each way has a name; Deviations is the set of those a run  *)
(* admits and `deviated' the set of those that have happened, so that a    *)
(* property can say exactly which of them it survives:                     *)
(*   restart    a call already announced is announced again                *)
(*   orphan     an argument fragment for no announced call                 *)
(*   sparse     a name missing, or arguments first shown by tool-call      *)
(*   repeat     tool-call sent twice for one call                          *)
(*   multistep  a finish-step is followed by a further step                *)
(*   cut        the stream ends before its finish event                    *)
(*   error      an error event is sent                                     *)
(***************************************************************************)
EXTENDS Naturals, Sequences, Tools

CONSTANTS
    Fragments,      \* pieces of tool arguments
    RawReasons,     \* finish reasons as upstream spells them, "" if absent
    Deviations,     \* the deviations of this instance
    MaxFragments,   \* bound: fragments per call
    MaxStrays,      \* bound: orphaned fragments and restarts per stream
    MaxSpeech,      \* bound: text (and reasoning) deltas per stream
    MaxSteps        \* bound: steps per generation

AllDeviations ==
    {"restart", "orphan", "sparse", "repeat", "multistep", "cut", "error"}

ASSUME ReasonMayBeAbsent == "" \in RawReasons
ASSUME KnownDeviations == Deviations \subseteq AllDeviations
ASSUME BoundsAreNat == MaxFragments \in Nat /\ MaxStrays \in Nat
                       /\ MaxSpeech \in Nat /\ MaxSteps \in Nat

VARIABLES
    call,       \* per id: "none", "open" (announced) or "complete"
    meant,      \* per id: the name and arguments upstream has stated
    latest,     \* the call announced last, which an id-less delta extends
    stage,      \* "step", "stepped" (finish-step sent) or "finished"
    steps,      \* finish-steps sent
    verdict,    \* the finish reason upstream has stated
    usageSent,  \* whether a finish line carried usage
    spoken,     \* text and reasoning deltas sent
    strays,     \* orphaned fragments and restarts sent
    errored,    \* whether an error event was sent
    deviated    \* the deviations that have happened

gatewayVars == <<call, meant, latest, stage, steps, verdict, usageSent,
                 spoken, strays, errored, deviated>>

Channels == {"text", "reasoning"}

\* Whole inputs, bounded; the empty sequence is an absent input.
Inputs == UNION {[1 .. n -> Fragments] : n \in 0 .. MaxFragments}

GatewayTypeOK ==
    /\ call \in [ToolIds -> {"none", "open", "complete"}]
    /\ meant \in [ToolIds -> [name: Names, args: Seq(Fragments)]]
    /\ latest \in Names
    /\ stage \in {"step", "stepped", "finished"}
    /\ steps \in Nat
    /\ verdict \in RawReasons
    /\ usageSent \in BOOLEAN
    /\ spoken \in [Channels -> Nat]
    /\ strays \in Nat
    /\ errored \in BOOLEAN
    /\ deviated \in SUBSET AllDeviations

GatewayInit ==
    /\ call = [id \in ToolIds |-> "none"]
    /\ meant = [id \in ToolIds |-> [name |-> Blank, args |-> <<>>]]
    /\ latest = Blank
    /\ stage = "step"
    /\ steps = 0
    /\ verdict = ""
    /\ usageSent = FALSE
    /\ spoken = [ch \in Channels |-> 0]
    /\ strays = 0
    /\ errored = FALSE
    /\ deviated = {}

\* The departures a line makes are admitted, and remembered.
Deviate(how) == how \subseteq Deviations /\ deviated' = deviated \cup how

\* What is known of a call once a name and an input, if given, replace it.
Amend(known, name, input) ==
    [name |-> IF name = Blank THEN known.name ELSE name,
     args |-> IF input = <<>> THEN known.args ELSE input]

\* None of the departures in a set has happened.
Survived(how) == deviated \cap how = {}

If(condition, how) == IF condition THEN {how} ELSE {}

-------------------------------------------------------------------------------
(***************************************************************************)
(* The lines, one action per kind.                                         *)
(***************************************************************************)

\* text-delta and reasoning-delta.
SendSpeech(ch) ==
    /\ stage = "step"
    /\ spoken[ch] < MaxSpeech
    /\ spoken' = [spoken EXCEPT ![ch] = @ + 1]
    /\ UNCHANGED <<call, meant, latest, stage, steps, verdict, usageSent,
                   strays, errored, deviated>>

\* tool-use and tool-input-start, with or without the tool's name.
SendToolStart(id, name) ==
    /\ stage = "step"
    /\ call[id] \in {"none", "open"}
    /\ Deviate(If(call[id] = "open", "restart") \cup If(name = Blank, "sparse"))
    /\ call' = [call EXCEPT ![id] = "open"]
    /\ meant' = [meant EXCEPT ![id] = Amend(@, name, <<>>)]
    /\ latest' = id
    /\ strays' = strays + (IF call[id] = "open" THEN 1 ELSE 0)
    /\ strays' <= MaxStrays
    /\ UNCHANGED <<stage, steps, verdict, usageSent, spoken, errored>>

\* A fragment for an open call: tool-input-delta names it, tool-delta means
\* the latest.
SendFragment(id, fragment) ==
    /\ stage = "step"
    /\ id \in ToolIds /\ call[id] = "open"
    /\ Len(meant[id].args) < MaxFragments
    /\ meant' = [meant EXCEPT ![id] =
                   [name |-> @.name, args |-> Append(@.args, fragment)]]
    /\ UNCHANGED <<call, latest, stage, steps, verdict, usageSent, spoken,
                   strays, errored, deviated>>

\* A tool-input-delta for a call never announced, or a tool-delta before any.
SendStray(id) ==
    /\ stage = "step"
    /\ id = Blank => latest = Blank
    /\ id # Blank => call[id] = "none"
    /\ strays < MaxStrays
    /\ strays' = strays + 1
    /\ Deviate({"orphan"})
    /\ UNCHANGED <<call, meant, latest, stage, steps, verdict, usageSent,
                   spoken, errored>>

\* tool-call: the whole call at once, announced before or not.  The streamed
\* fragments and the input are two spellings of one value.
SendToolCall(id, name, input) ==
    /\ stage = "step"
    /\ Deviate(If(call[id] = "complete", "repeat")
               \cup If(name = Blank /\ meant[id].name = Blank, "sparse")
               \cup If(call[id] # "none" /\ input \notin {<<>>, meant[id].args},
                       "sparse"))
    /\ call' = [call EXCEPT ![id] = "complete"]
    /\ meant' = [meant EXCEPT ![id] = Amend(@, name, input)]
    /\ latest' = IF call[id] = "none" THEN id ELSE latest
    /\ UNCHANGED <<stage, steps, verdict, usageSent, spoken, strays, errored>>

\* start-step after a finish-step; the translator skips the line.
SendNextStep ==
    /\ stage = "stepped"
    /\ steps < MaxSteps
    /\ Deviate({"multistep"})
    /\ stage' = "step"
    /\ UNCHANGED <<call, meant, latest, steps, verdict, usageSent, spoken,
                   strays, errored>>

\* finish-step closes a step, finish the generation; after a finish-step,
\* finish restates its reason.  Either may lack usage.
SendFinish(kind, reason, usage) ==
    /\ \/ kind = "finish-step" /\ stage = "step" /\ steps < MaxSteps
          /\ stage' = "stepped" /\ steps' = steps + 1
       \/ kind = "finish" /\ stage \in {"step", "stepped"}
          /\ (stage = "stepped" => reason = verdict)
          /\ stage' = "finished" /\ steps' = steps
    /\ verdict' = reason
    /\ usageSent' = (usageSent \/ usage)
    /\ UNCHANGED <<call, meant, latest, spoken, strays, errored, deviated>>

\* error: announced in-band, after which the gateway may or may not go on.
SendError ==
    /\ ~errored /\ stage # "finished"
    /\ Deviate({"error"})
    /\ errored' = TRUE
    /\ UNCHANGED <<call, meant, latest, stage, steps, verdict, usageSent,
                   spoken, strays>>

\* End of the body.
EndStream ==
    /\ Deviate(If(stage # "finished" /\ ~errored, "cut"))
    /\ UNCHANGED <<call, meant, latest, stage, steps, verdict, usageSent,
                   spoken, strays, errored>>
===============================================================================
