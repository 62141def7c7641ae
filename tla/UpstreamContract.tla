---------------------------- MODULE UpstreamContract ----------------------------
(***************************************************************************)
(* What the interface Upstream (internal/proxy/upstream.go) promises the   *)
(* handler of Generate, with nothing said of attempts, timers or statuses: *)
(* a call returns a body or an error; only a returned body is still held,  *)
(* until its caller closes it; and every call that starts returns.         *)
(***************************************************************************)

VARIABLES
    called,     \* "idle", "running" or "returned"
    result,     \* "none", then "body", "upstreamError" or "error"
    holding     \* a response body is held by the caller

contractVars == <<called, result, holding>>

ContractInit ==
    /\ called = "idle"
    /\ result = "none"
    /\ holding = FALSE

CallStarts ==
    /\ called = "idle"
    /\ called' = "running"
    /\ UNCHANGED <<result, holding>>

CallReturns ==
    /\ called = "running"
    /\ called' = "returned"
    /\ result' \in {"body", "upstreamError", "error"}
    /\ holding' = (result' = "body")

CallerCloses ==
    /\ called = "returned" /\ holding
    /\ holding' = FALSE
    /\ UNCHANGED <<called, result>>

ContractNext == CallStarts \/ CallReturns \/ CallerCloses

Contract ==
    /\ ContractInit
    /\ [][ContractNext]_contractVars
    /\ WF_contractVars(CallReturns)
===============================================================================
