--------------------------- MODULE ModelsCache_proofs ---------------------------
(***************************************************************************)
(* Proofs about ModelsCache, for any number of concurrent requests, any    *)
(* lists, any lifetime and any timeout.                                    *)
(***************************************************************************)
EXTENDS ModelsCache, TLAPS

(***************************************************************************)
(* The initial state satisfies the invariant.                              *)
(***************************************************************************)
LEMMA InitInv == Init => IInv
<1> SUFFICES ASSUME Init PROVE IInv
  OBVIOUS
<1> USE DEF Init
<1>1. Idle \in Jobs /\ NoAnswer \in Answers
  BY DEF Idle, Jobs, Keys, Lists, NoAnswer, Answers
<1>2. TypeOK
  BY <1>1 DEF TypeOK, Lists
<1>3. FetchInv /\ EntryInv
  BY DurationsAreNat DEF FetchInv, EntryInv, Idle
<1>4. BoundedStaleness /\ AnswerUsable
  BY DEF BoundedStaleness, AnswerUsable, NoAnswer
<1> QED
  BY <1>2, <1>3, <1>4 DEF IInv

(***************************************************************************)
(* What HandleModels answers is usable, whatever FetchModels returned.     *)
(***************************************************************************)
LEMMA ListUsable ==
    ASSUME NEW list \in Lists, NEW from
    PROVE  LET shown == Filter(Chosen(list, from)) IN
           /\ shown \in Lists
           /\ ~ListClosed => shown \cap Closed = {}
           /\ shown = {} => ~ListClosed /\ list # {}
<1>1. Fallback # {} /\ Fallback \cap Closed = {} /\ Fallback \subseteq Models
  BY FallbackIsOpen, ModelsAreListed
<1>2. CASE list = {}
  BY <1>1, <1>2 DEF Filter, Chosen, Lists
<1>3. CASE list # {}
  BY <1>3 DEF Filter, Chosen, Lists
<1> QED
  BY <1>2, <1>3

(***************************************************************************)
(* An answer keeps the invariant, if it is as fresh as promised.           *)
(***************************************************************************)
LEMMA ReplyKeeps ==
    ASSUME IInv, NEW c \in Clients, NEW list \in Lists, NEW from, NEW read \in Nat,
           Reply(c, list, from, read), UNCHANGED <<now, catalog>>,
           list # {} => /\ from \in {"cache", "upstream"} /\ read <= now
                        /\ from = "cache" => now - read < TTL + FetchTimeout
                        /\ from = "upstream" => now - read <= FetchTimeout,
           cache' \in Lists, cachedAt' \in 0 .. now, readAt' \in 0 .. now, EntryInv'
    PROVE  IInv'
<1>1. /\ TypeOK /\ FetchInv /\ BoundedStaleness /\ AnswerUsable
      /\ now \in Nat /\ job \in [Clients -> Jobs] /\ answer \in [Clients -> Answers]
  BY DEF IInv, TypeOK
<1> DEFINE given == answer'[c]
<1>2. /\ job' = [job EXCEPT ![c] = Idle]
      /\ given.list = Filter(Chosen(list, from))
      /\ given.from = IF list = {} THEN "fallback" ELSE from
      /\ given.age = IF list = {} THEN 0 ELSE now - read
      /\ given = [list |-> given.list, from |-> given.from, age |-> given.age]
      /\ answer' = [answer EXCEPT ![c] = given]
      /\ \A d \in Clients \ {c} : answer'[d] = answer[d]
  BY <1>1 DEF Reply
<1>3. /\ given.list \in Lists
      /\ ~ListClosed => given.list \cap Closed = {}
      /\ given.list = {} => ~ListClosed /\ list # {}
  BY <1>2, ListUsable
<1>4. /\ given.from \in {"cache", "upstream", "fallback"} /\ given.age \in Nat
      /\ given.from = "fallback" => list = {}
  BY <1>1, <1>2
<1>5. given \in Answers
  BY <1>2, <1>3, <1>4 DEF Answers
<1> HIDE DEF given
<1>6. TypeOK'
  <2>1. Idle \in Jobs
    BY DEF Idle, Jobs, Keys, Lists
  <2> QED
    BY <1>1, <1>2, <1>5, <2>1 DEF TypeOK
<1>7. FetchInv'
  BY <1>1, <1>2 DEF FetchInv, Idle
<1>8. BoundedStaleness'
  <2>1. /\ given.from = "cache" => given.age < TTL + FetchTimeout
        /\ given.from = "upstream" => given.age <= FetchTimeout
    BY <1>2, <1>4
  <2> QED
    BY <1>1, <1>2, <2>1 DEF BoundedStaleness, given
<1>9. AnswerUsable'
  <2>1. given.list = {} => ~ListClosed /\ given.from \in {"cache", "upstream"}
    BY <1>2, <1>3
  <2> QED
    BY <1>1, <1>2, <1>3, <2>1 DEF AnswerUsable, given
<1> QED
  BY <1>6, <1>7, <1>8, <1>9 DEF IInv

(***************************************************************************)
(* A request keeps the invariant, whether it is answered at once or not.   *)
(***************************************************************************)
LEMMA AskKeeps == ASSUME IInv, NEW c \in Clients, NEW key \in Keys, Ask(c, key) PROVE IInv'
<1>1. /\ TypeOK /\ FetchInv /\ EntryInv /\ BoundedStaleness /\ AnswerUsable
      /\ UNCHANGED <<now, catalog, cache, cachedAt, readAt>>
  BY DEF IInv, Ask, cacheVars
<1>2. /\ now \in Nat /\ cache \in Lists /\ cachedAt \in 0 .. now /\ readAt \in 0 .. now
      /\ job \in [Clients -> Jobs] /\ TTL \in Nat /\ FetchTimeout \in Nat
  BY <1>1, DurationsAreNat DEF TypeOK
<1>3. EntryInv'
  BY <1>1 DEF EntryInv
<1>4. CASE key = "none"
  <2>1. Reply(c, {}, "none", 0) /\ {} \in Lists
    BY <1>4 DEF Ask, Lists
  <2> QED
    BY <1>1, <1>2, <1>3, <2>1, ReplyKeeps
<1>5. CASE key # "none" /\ Hit
  <2>1. Reply(c, cache, "cache", readAt)
    BY <1>5 DEF Ask
  <2>2. now - readAt < TTL + FetchTimeout /\ readAt <= now /\ readAt \in Nat
    BY <1>1, <1>2, <1>5 DEF Hit, EntryInv
  <2> QED
    BY <1>1, <1>2, <1>3, <2>1, <2>2, ReplyKeeps
<1>6. CASE key # "none" /\ ~Hit
  <2> DEFINE began == [at |-> "fetching", key |-> key, began |-> now, list |-> {}, read |-> 0]
  <2>1. job' = [job EXCEPT ![c] = began] /\ answer' = answer
    BY <1>6 DEF Ask
  <2>2. began \in Jobs
    BY <1>2 DEF Jobs, Lists
  <2>3. TypeOK'
    BY <1>1, <2>1, <2>2 DEF TypeOK
  <2>4. FetchInv'
    BY <1>1, <1>2, <2>1 DEF FetchInv
  <2>5. BoundedStaleness' /\ AnswerUsable'
    BY <1>1, <2>1 DEF BoundedStaleness, AnswerUsable
  <2> QED
    BY <1>3, <2>3, <2>4, <2>5 DEF IInv
<1> QED
  BY <1>4, <1>5, <1>6

(***************************************************************************)
(* Upstream's answer, and what becomes of it, keep the invariant.          *)
(***************************************************************************)
LEMMA FetchKeeps ==
    ASSUME IInv, NEW c \in Clients, Serve(c) \/ Store(c) \/ Fail(c)
    PROVE  IInv'
<1>1. /\ TypeOK /\ FetchInv /\ EntryInv /\ BoundedStaleness /\ AnswerUsable
      /\ UNCHANGED <<now, catalog>>
  BY DEF IInv, Serve, Store, Fail
<1>2. /\ now \in Nat /\ catalog \in Lists /\ cache \in Lists
      /\ cachedAt \in 0 .. now /\ readAt \in 0 .. now
      /\ job \in [Clients -> Jobs] /\ job[c] \in Jobs /\ FetchTimeout \in Nat
  BY <1>1, DurationsAreNat, ModelsAreListed DEF TypeOK, Lists
<1>3. CASE Serve(c)
  <2> DEFINE served == [at |-> "served", key |-> job[c].key, began |-> job[c].began,
                        list |-> catalog, read |-> now]
  <2>1. /\ job[c].at = "fetching" /\ job' = [job EXCEPT ![c] = served]
        /\ UNCHANGED <<cache, cachedAt, readAt, answer>>
    BY <1>3 DEF Serve, cacheVars
  <2>2. served \in Jobs
    BY <1>2 DEF Jobs
  <2>3. TypeOK'
    BY <1>1, <2>1, <2>2 DEF TypeOK
  <2>4. FetchInv'
    BY <1>1, <1>2, <2>1 DEF FetchInv
  <2>5. EntryInv' /\ BoundedStaleness' /\ AnswerUsable'
    BY <1>1, <2>1 DEF EntryInv, BoundedStaleness, AnswerUsable
  <2> QED
    BY <2>3, <2>4, <2>5 DEF IInv
<1>4. CASE Store(c)
  <2>1. /\ job[c].at = "served" /\ Reply(c, job[c].list, "upstream", job[c].read)
        /\ cache' = job[c].list /\ cachedAt' = now /\ readAt' = job[c].read
    BY <1>4 DEF Store
  <2>2. /\ job[c].list \in Lists /\ job[c].read \in Nat /\ job[c].began \in Nat
        /\ job[c].began <= job[c].read /\ job[c].read <= now
        /\ now <= job[c].began + FetchTimeout
    BY <1>1, <1>2, <2>1 DEF FetchInv, Jobs
  <2>3. now - job[c].read <= FetchTimeout /\ job[c].read \in 0 .. now /\ now \in 0 .. now
    BY <1>2, <2>2
  <2>4. EntryInv'
    BY <2>1, <2>2, <2>3 DEF EntryInv
  <2> QED
    BY <1>1, <2>1, <2>2, <2>3, <2>4, ReplyKeeps
<1>5. CASE Fail(c)
  <2>1. /\ Reply(c, {}, "none", 0) /\ UNCHANGED <<cache, cachedAt, readAt>> /\ {} \in Lists
    BY <1>5 DEF Fail, cacheVars, Lists
  <2>2. EntryInv'
    BY <1>1, <2>1 DEF EntryInv
  <2> QED
    BY <1>1, <1>2, <2>1, <2>2, ReplyKeeps
<1> QED
  BY <1>3, <1>4, <1>5

(***************************************************************************)
(* Neither a new list nor the clock breaks the invariant.                  *)
(***************************************************************************)
LEMMA SurroundingsKeep ==
    ASSUME IInv, Relist \/ TimePasses \/ UNCHANGED vars
    PROVE  IInv'
<1>1. /\ TypeOK /\ FetchInv /\ EntryInv /\ BoundedStaleness /\ AnswerUsable
      /\ UNCHANGED <<cache, cachedAt, readAt, job, answer>>
  BY DEF IInv, Relist, TimePasses, vars, cacheVars
<1>2. now \in Nat /\ now' \in {now, now + 1} /\ catalog' \in Catalogs
  BY <1>1 DEF TypeOK, Relist, TimePasses, vars
<1>3. TypeOK'
  BY <1>1, <1>2 DEF TypeOK
<1>4. FetchInv'
  <2>1. CASE TimePasses
    <3> SUFFICES ASSUME NEW c \in Clients, job[c].at # "idle"
                 PROVE  now' <= job[c].began + FetchTimeout
      BY <1>1, <1>2 DEF FetchInv, TypeOK, Jobs
    <3>1. job[c] # Idle /\ job[c].began \in Nat
      BY <1>1 DEF Idle, TypeOK, Jobs
    <3> QED
      BY <1>2, <2>1, <3>1, DurationsAreNat DEF TimePasses
  <2>2. CASE Relist \/ UNCHANGED vars
    BY <1>1, <2>2 DEF Relist, vars, FetchInv
  <2> QED
    BY <2>1, <2>2
<1>5. EntryInv' /\ BoundedStaleness' /\ AnswerUsable'
  BY <1>1 DEF EntryInv, BoundedStaleness, AnswerUsable
<1> QED
  BY <1>3, <1>4, <1>5 DEF IInv

(***************************************************************************)
(* The invariant holds throughout.                                         *)
(***************************************************************************)
THEOREM Invariance == Spec => []IInv
<1>1. IInv /\ [Next]_vars => IInv'
  BY AskKeeps, FetchKeeps, SurroundingsKeep DEF Next
<1> QED
  BY <1>1, InitInv, PTL DEF Spec

(***************************************************************************)
(* The clock, the cached list, the fetches and the answers keep their      *)
(* types.                                                                  *)
(***************************************************************************)
THEOREM TypeCorrectness == Spec => []TypeOK
<1>1. IInv => TypeOK
  BY DEF IInv
<1> QED
  BY <1>1, Invariance, PTL

(***************************************************************************)
(* No client is told of a list older than a lifetime and a fetch, though   *)
(* FetchModels lets go of the lock while it fetches.                       *)
(***************************************************************************)
THEOREM StalenessBounded == Spec => []BoundedStaleness
<1>1. IInv => BoundedStaleness
  BY DEF IInv
<1> QED
  BY <1>1, Invariance, PTL

(***************************************************************************)
(* HandleModels shows no hidden model, and an empty list only where        *)
(* upstream's own had nothing to show.                                     *)
(***************************************************************************)
THEOREM AnswersUsable == Spec => []AnswerUsable
<1>1. IInv => AnswerUsable
  BY DEF IInv
<1> QED
  BY <1>1, Invariance, PTL
===============================================================================
