------------------------------ MODULE VersionCache ------------------------------
(***************************************************************************)
(* NPMProvider (internal/version/version.go): the CLI version sent with    *)
(* every upstream request, fetched from the npm registry and cached.       *)
(* Every request of the proxy calls Get, so many goroutines share the      *)
(* cache; the lock is held to read it and to write it, never across a      *)
(* fetch.                                                                  *)
(*                                                                         *)
(* Versions are numbered in the order they are published.  Time is a clock *)
(* that stands still while a goroutine can run: only fetches take time.    *)
(***************************************************************************)
EXTENDS Integers

CONSTANTS
    Callers,        \* goroutines that call Get
    TTL,            \* cacheTTL
    FetchTimeout,   \* the registry client's Timeout
    MaxVersion,     \* bound: versions published
    MaxTime         \* bound: the clock

ASSUME DurationsAreNat == TTL \in Nat /\ FetchTimeout \in Nat
ASSUME BoundsAreNat == MaxVersion \in Nat /\ MaxTime \in Nat
ASSUME VersionsExist == MaxVersion >= 1

VARIABLES
    now,        \* the clock
    published,  \* the registry's latest version
    cached,     \* NPMProvider.cached
    valid,      \* NPMProvider.valid
    cachedAt,   \* NPMProvider.cachedAt
    readAt,     \* when the registry read out the cached version
    caller,     \* per caller: "idle", "fetching", "served", "failed"
    began,      \* per caller: when its fetch began
    reply,      \* per caller: the version its fetch was served
    served,     \* per caller: when the registry served it
    result      \* per caller: what its last Get returned

cacheVars == <<cached, valid, cachedAt, readAt>>
fetchVars == <<began, reply, served>>
vars == <<now, published, cacheVars, caller, fetchVars, result>>

Versions == 1 .. MaxVersion

\* A result: the version, how Get came by it and how old its reading was.
NoResult == [how |-> "none", version |-> 0, age |-> 0]
Unknown == [how |-> "unknown", version |-> 0, age |-> 0]
Known(how, version, read) ==
    [how |-> how, version |-> version, age |-> now - read]

Results == [how: {"none", "unknown", "hit", "fetched", "stale"},
            version: {0} \cup Versions, age: Nat]

TypeOK ==
    /\ now \in Nat
    /\ published \in Versions
    /\ cached \in {0} \cup Versions
    /\ valid \in BOOLEAN
    /\ valid => cached \in Versions
    /\ cachedAt \in Nat
    /\ readAt \in Nat
    /\ caller \in [Callers -> {"idle", "fetching", "served", "failed"}]
    /\ began \in [Callers -> Nat]
    /\ reply \in [Callers -> {0} \cup Versions]
    /\ served \in [Callers -> Nat]
    /\ result \in [Callers -> Results]

Init ==
    /\ now = 0
    /\ published = 1
    /\ cached = 0
    /\ valid = FALSE
    /\ cachedAt = 0
    /\ readAt = 0
    /\ caller = [c \in Callers |-> "idle"]
    /\ began = [c \in Callers |-> 0]
    /\ reply = [c \in Callers |-> 0]
    /\ served = [c \in Callers |-> 0]
    /\ result = [c \in Callers |-> NoResult]

-------------------------------------------------------------------------------
(***************************************************************************)
(* Get and fetch.                                                          *)
(***************************************************************************)

\* The call's local variables go with it.
Returns(c, what) ==
    /\ caller' = [caller EXCEPT ![c] = "idle"]
    /\ began' = [began EXCEPT ![c] = 0]
    /\ reply' = [reply EXCEPT ![c] = 0]
    /\ served' = [served EXCEPT ![c] = 0]
    /\ result' = [result EXCEPT ![c] = what]

\* Seeded defect: an entry never expires.
FreshForEver == valid

\* The entry can be served without a fetch.
Fresh == valid /\ now - cachedAt < TTL

\* Get looks at the cache, under the read lock.
Get(c) ==
    /\ caller[c] = "idle"
    /\ IF Fresh
       THEN Returns(c, Known("hit", cached, readAt))
       ELSE /\ caller' = [caller EXCEPT ![c] = "fetching"]
            /\ began' = [began EXCEPT ![c] = now]
            /\ UNCHANGED <<reply, served, result>>
    /\ UNCHANGED <<now, published, cacheVars>>

\* Seeded defect: an answer without a version is taken for one.
ServeUnversioned(c) ==
    /\ caller[c] = "fetching"
    /\ caller' = [caller EXCEPT ![c] = "served"]
    /\ reply' = [reply EXCEPT ![c] = 0]
    /\ served' = [served EXCEPT ![c] = now]
    /\ UNCHANGED <<now, published, cacheVars, began, result>>

\* The registry answers with the version it has now.
Serve(c) ==
    /\ caller[c] = "fetching"
    /\ caller' = [caller EXCEPT ![c] = "served"]
    /\ reply' = [reply EXCEPT ![c] = published]
    /\ served' = [served EXCEPT ![c] = now]
    /\ UNCHANGED <<now, published, cacheVars, began, result>>

\* The answer is parsed, stored under the lock, and returned.
Store(c) ==
    /\ caller[c] = "served"
    /\ cached' = reply[c]
    /\ valid' = TRUE
    /\ cachedAt' = now
    /\ readAt' = served[c]
    /\ Returns(c, Known("fetched", reply[c], served[c]))
    /\ UNCHANGED <<now, published>>

\* Seeded defect: a failed fetch invalidates the cache.
FailInvalidates(c) ==
    /\ caller[c] \in {"fetching", "served"}
    /\ caller' = [caller EXCEPT ![c] = "failed"]
    /\ valid' = FALSE
    /\ UNCHANGED <<now, published, cached, cachedAt, readAt, fetchVars, result>>

\* Seeded defect: a failed fetch is tried again.
FailRetries(c) ==
    /\ caller[c] \in {"fetching", "served"}
    /\ caller' = [caller EXCEPT ![c] = "fetching"]
    /\ UNCHANGED <<now, published, cacheVars, fetchVars, result>>

\* fetch returns an error: no connection, its timeout, a status other than
\* 200, or an answer without a version.
Fail(c) ==
    /\ caller[c] \in {"fetching", "served"}
    /\ caller' = [caller EXCEPT ![c] = "failed"]
    /\ UNCHANGED <<now, published, cacheVars, fetchVars, result>>

\* Get falls back on whatever is cached by now, however old.
FallBack(c) ==
    /\ caller[c] = "failed"
    /\ Returns(c, IF valid THEN Known("stale", cached, readAt) ELSE Unknown)
    /\ UNCHANGED <<now, published, cacheVars>>

-------------------------------------------------------------------------------
(***************************************************************************)
(* The surroundings (external).                                            *)
(***************************************************************************)

Publish ==
    /\ published < MaxVersion
    /\ published' = published + 1
    /\ UNCHANGED <<now, cacheVars, caller, fetchVars, result>>

\* Time passes while every busy caller waits for its fetch, and none of them
\* longer than the client's timeout.
TimePasses ==
    /\ now < MaxTime
    /\ \A c \in Callers :
          /\ caller[c] # "failed"
          /\ caller[c] # "idle" => now < began[c] + FetchTimeout
    /\ now' = now + 1
    /\ UNCHANGED <<published, cacheVars, caller, fetchVars, result>>

Next ==
    \/ \E c \in Callers : Get(c) \/ Serve(c) \/ Store(c) \/ Fail(c) \/ FallBack(c)
    \/ Publish
    \/ TimePasses

Spec == Init /\ [][Next]_vars

\* A caller that is scheduled and a client with a timeout always move on.
FairSpec ==
    Spec /\ \A c \in Callers : WF_vars(Store(c) \/ Fail(c)) /\ WF_vars(FallBack(c))

-------------------------------------------------------------------------------
(***************************************************************************)
(* Properties.                                                             *)
(***************************************************************************)

\* Unless the registry fails, Get returns a version that the registry had no
\* longer than the cache's lifetime and one fetch ago, even where a slow fetch
\* has overwritten a newer entry.
BoundedStaleness ==
    \A c \in Callers :
        /\ result[c].how = "hit" => result[c].age < TTL + FetchTimeout
        /\ result[c].how = "fetched" => result[c].age <= FetchTimeout

\* Once some Get has returned a version, none returns "unknown": the cache is
\* never emptied, whichever fetches fail and in whatever order they end.
NeverForgets ==
    [][\A c, d \in Callers :
          result[c].version # 0 /\ result'[d] # result[d] => result'[d].version # 0]_vars

\* Every Get returns.
GetReturns == \A c \in Callers : caller[c] # "idle" ~> caller[c] = "idle"

-------------------------------------------------------------------------------
(***************************************************************************)
(* The inductive invariant behind them.                                    *)
(***************************************************************************)

\* A fetch in progress is no older than the timeout, and its reply no older
\* than the fetch.
FetchInv ==
    \A c \in Callers :
        /\ caller[c] \in {"fetching", "served"} =>
              began[c] <= now /\ now <= began[c] + FetchTimeout
        /\ caller[c] = "served" =>
              reply[c] \in Versions /\ began[c] <= served[c] /\ served[c] <= now

\* An entry was stored within one fetch of being read out, and as long as
\* there is none nobody has been told a version.
EntryInv ==
    /\ readAt <= cachedAt /\ cachedAt <= now /\ cachedAt - readAt <= FetchTimeout
    /\ ~valid => \A c \in Callers : result[c].version = 0

IInv == TypeOK /\ FetchInv /\ EntryInv /\ BoundedStaleness
===============================================================================
