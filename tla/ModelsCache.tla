------------------------------ MODULE ModelsCache ------------------------------
(***************************************************************************)
(* GET /v1/models: HandleModels (internal/proxy/handler.go), the list      *)
(* cached by ccAdapter.FetchModels (internal/proxy/adapter.go), and the    *)
(* fallback and filter of internal/proxy/model.go.  Concurrent requests,   *)
(* with different API keys or none, share the one cached list; its lock is *)
(* not held across a fetch.                                                *)
(*                                                                         *)
(* A list is the set of its models: none of the code depends on the order. *)
(* Time is a clock that stands still while a goroutine can run.            *)
(***************************************************************************)
EXTENDS Integers

CONSTANTS
    Clients,        \* requests for the list in progress at a time
    Models,         \* models upstream may list
    Closed,         \* the models that are not open (isOpenModel)
    Fallback,       \* fallbackModels
    Catalogs,       \* lists upstream may have
    ListClosed,     \* Proxy.ListClosedModels
    TTL,            \* modelsCacheTTL
    FetchTimeout,   \* the client's Timeout
    MaxTime         \* bound: the clock

ASSUME ModelsAreListed ==
    Closed \subseteq Models /\ Fallback \subseteq Models /\ Catalogs \subseteq SUBSET Models
ASSUME FallbackIsOpen == Fallback # {} /\ Fallback \cap Closed = {}
ASSUME FlagIsBoolean == ListClosed \in BOOLEAN
ASSUME DurationsAreNat == TTL \in Nat /\ FetchTimeout \in Nat /\ MaxTime \in Nat

VARIABLES
    now,        \* the clock
    catalog,    \* upstream's list
    cache,      \* modelsCache
    cachedAt,   \* modelsCacheTime
    readAt,     \* when upstream read out the cached list
    job,        \* per client: its FetchModels call, or Idle
    answer      \* per client: the last list it was answered with

cacheVars == <<cache, cachedAt, readAt>>
vars == <<now, catalog, cacheVars, job, answer>>

Keys == {"none", "accepted", "refused"}
Lists == SUBSET Models

\* A call: where it is, its key, when it began, and the list it was served.
Idle == [at |-> "idle", key |-> "none", began |-> 0, list |-> {}, read |-> 0]
Jobs == [at: {"idle", "fetching", "served"}, key: Keys, began: Nat,
         list: Lists, read: Nat]

\* An answer: the list, where it is from and how old its reading was.
NoAnswer == [list |-> {}, from |-> "none", age |-> 0]
Answers == [list: Lists, from: {"none", "cache", "upstream", "fallback"}, age: Nat]

TypeOK ==
    /\ now \in Nat
    /\ catalog \in Catalogs
    /\ cache \in Lists
    /\ cachedAt \in 0 .. now /\ readAt \in 0 .. now
    /\ job \in [Clients -> Jobs]
    /\ answer \in [Clients -> Answers]

Init ==
    /\ now = 0
    /\ catalog \in Catalogs
    /\ cache = {} /\ cachedAt = 0 /\ readAt = 0
    /\ job = [c \in Clients |-> Idle]
    /\ answer = [c \in Clients |-> NoAnswer]

-------------------------------------------------------------------------------

\* Seeded defect: the fallback is for errors only.
ChosenOnError(list, from) == IF from = "none" THEN Fallback ELSE list

\* HandleModels falls back on errors and on empty lists alike.
Chosen(list, from) == IF list = {} THEN Fallback ELSE list

\* filterModels
Filter(list) == IF ListClosed THEN list ELSE list \ Closed

\* The rest of HandleModels, with what FetchModels returned; {} for an error.
Reply(c, list, from, read) ==
    /\ job' = [job EXCEPT ![c] = Idle]
    /\ answer' = [answer EXCEPT ![c] =
          [list |-> Filter(Chosen(list, from)),
           from |-> IF list = {} THEN "fallback" ELSE from,
           age  |-> IF list = {} THEN 0 ELSE now - read]]

\* Seeded defect: the age of the entry is not looked at.
HitAnyAge == cache # {}

\* An empty list is never a hit.
Hit == cache # {} /\ now - cachedAt < TTL

\* HandleModels asks the cache, or upstream if that has nothing; without a key
\* it asks neither.
Ask(c, key) ==
    /\ job[c] = Idle
    /\ IF key = "none" THEN Reply(c, {}, "none", 0)
       ELSE IF Hit THEN Reply(c, cache, "cache", readAt)
       ELSE /\ job' = [job EXCEPT ![c] =
                   [at |-> "fetching", key |-> key, began |-> now, list |-> {}, read |-> 0]]
            /\ UNCHANGED answer
    /\ UNCHANGED <<now, catalog, cacheVars>>

\* Upstream serves its list to a key it accepts (external).
Serve(c) ==
    /\ job[c].at = "fetching" /\ job[c].key = "accepted"
    /\ job' = [job EXCEPT ![c] = [at |-> "served", key |-> @.key, began |-> @.began,
                                  list |-> catalog, read |-> now]]
    /\ UNCHANGED <<now, catalog, cacheVars, answer>>

\* Seeded defect: the entry is given its expiry time as its age.
StoreExpiry(c) ==
    /\ job[c].at = "served"
    /\ cache' = job[c].list /\ cachedAt' = now + TTL /\ readAt' = job[c].read
    /\ Reply(c, job[c].list, "upstream", job[c].read)
    /\ UNCHANGED <<now, catalog>>

\* The list is decoded, stored, and returned; it may be empty.
Store(c) ==
    /\ job[c].at = "served"
    /\ cache' = job[c].list /\ cachedAt' = now /\ readAt' = job[c].read
    /\ Reply(c, job[c].list, "upstream", job[c].read)
    /\ UNCHANGED <<now, catalog>>

\* FetchModels returns an error: no connection, its timeout, the request's
\* context, a status other than 200, or a list that does not parse.  What is
\* cached is left alone, and not used either.
Fail(c) ==
    /\ job[c].at \in {"fetching", "served"}
    /\ Reply(c, {}, "none", 0)
    /\ UNCHANGED <<now, catalog, cacheVars>>

\* Upstream's list changes (external).
Relist ==
    /\ catalog' \in Catalogs \ {catalog}
    /\ UNCHANGED <<now, cacheVars, job, answer>>

\* Time passes while every call waits, none longer than the timeout.
TimePasses ==
    /\ now < MaxTime
    /\ \A c \in Clients : job[c] # Idle => now < job[c].began + FetchTimeout
    /\ now' = now + 1
    /\ UNCHANGED <<catalog, cacheVars, job, answer>>

Next ==
    \/ \E c \in Clients, key \in Keys : Ask(c, key)
    \/ \E c \in Clients : Serve(c) \/ Store(c) \/ Fail(c)
    \/ Relist
    \/ TimePasses

Spec == Init /\ [][Next]_vars

-------------------------------------------------------------------------------
(***************************************************************************)
(* Properties.                                                             *)
(***************************************************************************)

\* A client is never told of a list that upstream last had longer ago than an
\* entry's lifetime and one fetch, though a slow fetch may overwrite a newer
\* entry, and an empty one any.
BoundedStaleness ==
    \A c \in Clients :
        /\ answer[c].from = "cache" => answer[c].age < TTL + FetchTimeout
        /\ answer[c].from = "upstream" => answer[c].age <= FetchTimeout

\* A client is shown no model the flag hides, and an empty list only where
\* upstream's own had nothing else: failures, empty lists and clients without
\* a key end at the fallback, which is never empty.
AnswerUsable ==
    \A c \in Clients : answer[c].from # "none" =>
        /\ ~ListClosed => answer[c].list \cap Closed = {}
        /\ answer[c].list = {} =>
              ~ListClosed /\ answer[c].from \in {"cache", "upstream"}

-------------------------------------------------------------------------------
(***************************************************************************)
(* The inductive invariant behind them, by concern.                        *)
(***************************************************************************)

\* No fetch outlives its timeout, and a list it was served was read within it.
FetchInv ==
    \A c \in Clients :
        /\ job[c].at = "idle" => job[c] = Idle
        /\ job[c].at # "idle" =>
              job[c].began <= now /\ now <= job[c].began + FetchTimeout
        /\ job[c].at = "served" =>
              job[c].began <= job[c].read /\ job[c].read <= now

\* The entry was read at most one fetch before it was stored.
EntryInv == readAt <= cachedAt /\ cachedAt - readAt <= FetchTimeout

IInv == TypeOK /\ FetchInv /\ EntryInv /\ BoundedStaleness /\ AnswerUsable
===============================================================================
