----------------------------- MODULE ToolRegistry -----------------------------
(***************************************************************************)
(* The tool-index registry of internal/proxy/assembler.go: it gives every  *)
(* distinct tool id a stable slot number for the lifetime of one response. *)
(* A registry is a record; the operators below are the methods of          *)
(* toolIndexRegistry, as functions from a registry to a registry or index. *)
(***************************************************************************)
EXTENDS Integers, Tools

\* indexes is the Go map as a total function: NoIndex stands for "no entry".
NoIndex == -1

Registries == [indexes: [ToolIds -> Nat \cup {NoIndex}],
               nextIdx: Nat,
               lastIdx: Nat \cup {NoIndex}]

NewRegistry == [indexes |-> [id \in ToolIds |-> NoIndex],
                nextIdx |-> 0,
                lastIdx |-> NoIndex]

Known(r, id) == r.indexes[id] # NoIndex
Lookup(r, id) == r.indexes[id]
LastIndex(r) == r.lastIdx

\* Seeded defect: allocates a new slot on every call, seen before or not.
RegisterAlwaysFresh(r, id) ==
    [indexes |-> [r.indexes EXCEPT ![id] = r.nextIdx],
     nextIdx |-> r.nextIdx + 1,
     lastIdx |-> r.nextIdx]

\* register leaves lastIdx alone when the id already has a slot.
Register(r, id) ==
    IF Known(r, id) THEN r
    ELSE [indexes |-> [r.indexes EXCEPT ![id] = r.nextIdx],
          nextIdx |-> r.nextIdx + 1,
          lastIdx |-> r.nextIdx]

-------------------------------------------------------------------------------

(***************************************************************************)
(* What every reachable registry satisfies: slots are dense, no two ids    *)
(* share one, and the last allocated slot is the highest.                  *)
(***************************************************************************)
SlotsDistinct(r) ==
    \A i, j \in ToolIds :
        Known(r, i) /\ Known(r, j) /\ Lookup(r, i) = Lookup(r, j) => i = j

SlotsDense(r) ==
    /\ \A id \in ToolIds : Known(r, id) => Lookup(r, id) \in 0 .. r.nextIdx - 1
    /\ \A k \in 0 .. r.nextIdx - 1 : \E id \in ToolIds : Lookup(r, id) = k

RegistryOK(r) ==
    /\ r \in Registries
    /\ SlotsDistinct(r)
    /\ SlotsDense(r)
    /\ LastIndex(r) = r.nextIdx - 1
===============================================================================
