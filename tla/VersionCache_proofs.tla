--------------------------- MODULE VersionCache_proofs ---------------------------
(***************************************************************************)
(* Proofs about VersionCache, for any number of concurrent callers, any    *)
(* lifetime and any timeout.                                               *)
(***************************************************************************)
EXTENDS VersionCache, TLAPS

(***************************************************************************)
(* The initial state satisfies the invariant, if there is a version.       *)
(***************************************************************************)
LEMMA InitInv == Init => IInv
<1> SUFFICES ASSUME Init PROVE IInv
  OBVIOUS
<1> USE DEF Init
<1>1. TypeOK
  <2>1. 1 \in Versions /\ 0 \in Nat
    BY VersionsExist, BoundsAreNat DEF Versions
  <2>2. NoResult \in Results
    BY DEF NoResult, Results
  <2> QED
    BY <2>1, <2>2 DEF TypeOK
<1>2. FetchInv
  BY DEF FetchInv
<1>3. EntryInv
  BY DurationsAreNat DEF EntryInv, NoResult
<1>4. BoundedStaleness
  BY DEF BoundedStaleness, NoResult
<1> QED
  BY <1>1, <1>2, <1>3, <1>4 DEF IInv

(***************************************************************************)
(* A Get that returns keeps the invariant about all callers, if what it    *)
(* returns is as fresh as promised and no news to an empty cache.          *)
(***************************************************************************)
LEMMA ReturnsSound ==
    ASSUME IInv, NEW c \in Callers, NEW what \in Results, Returns(c, what),
           now' = now, published' = published,
           what.how = "hit" => what.age < TTL + FetchTimeout,
           what.how = "fetched" => what.age <= FetchTimeout,
           cached' \in {0} \cup Versions, valid' \in BOOLEAN, valid' => cached' \in Versions,
           cachedAt' \in Nat, readAt' \in Nat,
           readAt' <= cachedAt', cachedAt' <= now, cachedAt' - readAt' <= FetchTimeout,
           valid => valid', ~valid' => what.version = 0
    PROVE  IInv'
<1>1. TypeOK /\ FetchInv /\ EntryInv /\ BoundedStaleness
  BY DEF IInv
<1>2. \A d \in Callers : /\ d # c => /\ caller'[d] = caller[d] /\ began'[d] = began[d]
                                    /\ reply'[d] = reply[d] /\ served'[d] = served[d]
                                    /\ result'[d] = result[d]
                         /\ d = c => caller'[d] = "idle" /\ result'[d] = what
  BY <1>1 DEF Returns, TypeOK
<1>3. TypeOK'
  BY <1>1 DEF Returns, TypeOK, Versions, Results
<1>4. FetchInv'
  BY <1>1, <1>2 DEF FetchInv, Versions
<1>5. EntryInv'
  BY <1>1, <1>2 DEF EntryInv
<1>6. BoundedStaleness'
  BY <1>1, <1>2 DEF BoundedStaleness
<1> QED
  BY <1>3, <1>4, <1>5, <1>6 DEF IInv

(***************************************************************************)
(* Get keeps the invariant, on a hit and on a miss.                        *)
(***************************************************************************)
LEMMA GetKeeps == ASSUME IInv, NEW c \in Callers, Get(c) PROVE IInv'
<1>1. TypeOK /\ FetchInv /\ EntryInv /\ BoundedStaleness
  BY DEF IInv
<1>2. now \in Nat /\ cachedAt \in Nat /\ readAt \in Nat /\ TTL \in Nat /\ FetchTimeout \in Nat
  BY <1>1, DurationsAreNat DEF TypeOK
<1>3. CASE Fresh
  <2> DEFINE what == Known("hit", cached, readAt)
  <2>1. Returns(c, what) /\ UNCHANGED <<now, published, cached, valid, cachedAt, readAt>>
    BY <1>3 DEF Get, cacheVars
  <2>2. what.how = "hit" /\ what.version = cached /\ what.age = now - readAt
    BY DEF Known
  <2>3. now - readAt \in Nat /\ now - readAt < TTL + FetchTimeout
    BY <1>1, <1>2, <1>3 DEF Fresh, EntryInv
  <2>4. what \in Results
    BY <1>1, <2>3 DEF Known, Results, TypeOK
  <2> HIDE DEF what
  <2> QED
    BY <1>1, <1>2, <1>3, <2>1, <2>2, <2>3, <2>4, ReturnsSound DEF EntryInv, TypeOK, Fresh
<1>4. CASE ~Fresh
  <2>1. /\ caller' = [caller EXCEPT ![c] = "fetching"] /\ began' = [began EXCEPT ![c] = now]
        /\ UNCHANGED <<now, published, cached, valid, cachedAt, readAt, reply, served, result>>
    BY <1>4 DEF Get, cacheVars
  <2>2. TypeOK'
    BY <1>1, <2>1 DEF TypeOK, Versions, Results
  <2>3. FetchInv'
    BY <1>1, <1>2, <2>1 DEF FetchInv, TypeOK, Versions
  <2>4. EntryInv' /\ BoundedStaleness'
    BY <1>1, <2>1 DEF EntryInv, BoundedStaleness
  <2> QED
    BY <2>2, <2>3, <2>4 DEF IInv
<1> QED
  BY <1>3, <1>4

(***************************************************************************)
(* The registry's answer, or its failure, keeps the invariant.             *)
(***************************************************************************)
LEMMA FetchKeeps == ASSUME IInv, NEW c \in Callers, Serve(c) \/ Fail(c) PROVE IInv'
<1>1. TypeOK /\ FetchInv /\ EntryInv /\ BoundedStaleness
  BY DEF IInv
<1>2. UNCHANGED <<now, published, cached, valid, cachedAt, readAt, began, result>>
  BY DEF Serve, Fail, cacheVars, fetchVars
<1>3. EntryInv' /\ BoundedStaleness'
  BY <1>1, <1>2 DEF EntryInv, BoundedStaleness
<1>4. CASE Serve(c)
  <2>1. /\ caller[c] = "fetching" /\ caller' = [caller EXCEPT ![c] = "served"]
        /\ reply' = [reply EXCEPT ![c] = published] /\ served' = [served EXCEPT ![c] = now]
    BY <1>4 DEF Serve
  <2>2. TypeOK'
    BY <1>1, <1>2, <2>1 DEF TypeOK, Versions, Results
  <2>3. FetchInv'
    BY <1>1, <1>2, <2>1 DEF FetchInv, TypeOK, Versions
  <2> QED
    BY <1>3, <2>2, <2>3 DEF IInv
<1>5. CASE Fail(c)
  <2>1. caller' = [caller EXCEPT ![c] = "failed"] /\ UNCHANGED <<reply, served>>
    BY <1>5 DEF Fail, fetchVars
  <2>2. TypeOK'
    BY <1>1, <1>2, <2>1 DEF TypeOK, Versions, Results
  <2>3. FetchInv'
    BY <1>1, <1>2, <2>1 DEF FetchInv, TypeOK, Versions
  <2> QED
    BY <1>3, <2>2, <2>3 DEF IInv
<1> QED
  BY <1>4, <1>5

(***************************************************************************)
(* Storing a fetched version keeps the invariant.                          *)
(***************************************************************************)
LEMMA StoreKeeps == ASSUME IInv, NEW c \in Callers, Store(c) PROVE IInv'
<1>1. TypeOK /\ FetchInv
  BY DEF IInv
<1> DEFINE what == Known("fetched", reply[c], served[c])
<1>2. /\ caller[c] = "served" /\ cached' = reply[c] /\ valid' = TRUE /\ cachedAt' = now
      /\ readAt' = served[c] /\ Returns(c, what) /\ now' = now /\ published' = published
  BY DEF Store
<1>3. /\ reply[c] \in Versions /\ served[c] \in Nat /\ now \in Nat /\ began[c] \in Nat
      /\ served[c] <= now /\ now - served[c] <= FetchTimeout /\ now - served[c] \in Nat
  BY <1>1, <1>2, DurationsAreNat DEF FetchInv, TypeOK
<1>4. what.how = "fetched" /\ what.version = reply[c] /\ what.age = now - served[c]
  BY DEF Known
<1>5. what \in Results
  BY <1>3 DEF Known, Results
<1> HIDE DEF what
<1> QED
  BY <1>2, <1>3, <1>4, <1>5, ReturnsSound

(***************************************************************************)
(* Falling back on what is cached keeps the invariant.                     *)
(***************************************************************************)
LEMMA FallBackKeeps == ASSUME IInv, NEW c \in Callers, FallBack(c) PROVE IInv'
<1>1. TypeOK /\ EntryInv
  BY DEF IInv
<1> DEFINE what == IF valid THEN Known("stale", cached, readAt) ELSE Unknown
<1>2. Returns(c, what) /\ UNCHANGED <<now, published, cached, valid, cachedAt, readAt>>
  BY DEF FallBack, cacheVars
<1>3. now - readAt \in Nat
  BY <1>1 DEF TypeOK, EntryInv
<1>4. what \in Results
  BY <1>1, <1>3 DEF Known, Unknown, Results, TypeOK
<1>5. what.how \in {"stale", "unknown"} /\ (~valid => what.version = 0)
  BY DEF Known, Unknown
<1> HIDE DEF what
<1> QED
  BY <1>1, <1>2, <1>4, <1>5, ReturnsSound DEF TypeOK, EntryInv

(***************************************************************************)
(* Neither a new version nor the clock breaks the invariant.               *)
(***************************************************************************)
LEMMA SurroundingsKeep ==
    ASSUME IInv, Publish \/ TimePasses \/ UNCHANGED vars
    PROVE  IInv'
<1>1. TypeOK /\ FetchInv /\ EntryInv /\ BoundedStaleness
  BY DEF IInv
<1>2. UNCHANGED <<cached, valid, cachedAt, readAt, caller, began, reply, served, result>>
  BY DEF Publish, TimePasses, vars, cacheVars, fetchVars
<1>3. now' \in {now, now + 1} /\ now' \in Nat /\ now' >= now
  BY <1>1 DEF Publish, TimePasses, vars, TypeOK
<1>4. published' \in Versions
  BY <1>1, BoundsAreNat DEF Publish, TimePasses, vars, TypeOK, Versions
<1>5. TypeOK'
  BY <1>1, <1>2, <1>3, <1>4 DEF TypeOK, Versions, Results
<1>6. FetchInv'
  <2>1. CASE TimePasses
    BY <1>1, <1>2, <2>1, DurationsAreNat DEF TimePasses, FetchInv, TypeOK, Versions
  <2>2. CASE Publish \/ UNCHANGED vars
    BY <1>1, <1>2, <2>2 DEF Publish, vars, FetchInv, Versions
  <2> QED
    BY <2>1, <2>2
<1>7. EntryInv' /\ BoundedStaleness'
  BY <1>1, <1>2, <1>3 DEF EntryInv, BoundedStaleness, TypeOK
<1> QED
  BY <1>5, <1>6, <1>7 DEF IInv

(***************************************************************************)
(* The invariant holds throughout.                                         *)
(***************************************************************************)
THEOREM Invariance == Spec => []IInv
<1>1. IInv /\ [Next]_vars => IInv'
  BY GetKeeps, FetchKeeps, StoreKeeps, FallBackKeeps, SurroundingsKeep DEF Next
<1> QED
  BY <1>1, InitInv, PTL DEF Spec

(***************************************************************************)
(* The cache, its callers and their results keep their types.              *)
(***************************************************************************)
THEOREM TypeCorrectness == Spec => []TypeOK
<1>1. IInv => TypeOK
  BY DEF IInv
<1> QED
  BY <1>1, Invariance, PTL

(***************************************************************************)
(* Nobody is served a version older than a lifetime and a fetch, with any  *)
(* number of callers refreshing the cache at once.                         *)
(***************************************************************************)
THEOREM StalenessBounded == Spec => []BoundedStaleness
<1>1. IInv => BoundedStaleness
  BY DEF IInv
<1> QED
  BY <1>1, Invariance, PTL

(***************************************************************************)
(* After one caller has been told a version none is told "unknown".        *)
(***************************************************************************)
THEOREM NothingForgotten == Spec => NeverForgets
<1> DEFINE Kept == \A c, d \in Callers :
        result[c].version # 0 /\ result'[d] # result[d] => result'[d].version # 0
<1>1. IInv /\ [Next]_vars => [Kept]_vars
  <2> SUFFICES ASSUME IInv, Next, NEW c \in Callers, NEW d \in Callers,
                      result[c].version # 0, result'[d] # result[d]
               PROVE  result'[d].version # 0
    OBVIOUS
  <2>1. TypeOK /\ FetchInv /\ EntryInv
    BY DEF IInv
  <2>2. valid
    BY <2>1 DEF EntryInv, TypeOK
  <2>3. cached # 0
    BY <2>1, <2>2 DEF TypeOK, Versions
  <2>4. PICK e \in Callers : Get(e) \/ Store(e) \/ FallBack(e)
    BY DEF Next, Serve, Fail, Publish, TimePasses
  <2>5. \A what : Returns(e, what) => d = e /\ result'[d] = what
    BY <2>1 DEF Returns, TypeOK
  <2>6. CASE Get(e)
    BY <2>3, <2>5, <2>6 DEF Get, Known
  <2>7. CASE Store(e)
    <3>1. reply[e] # 0 /\ Returns(e, Known("fetched", reply[e], served[e]))
      BY <2>1, <2>7 DEF Store, FetchInv, Versions
    <3> QED
      BY <2>5, <3>1 DEF Known
  <2>8. CASE FallBack(e)
    BY <2>2, <2>3, <2>5, <2>8 DEF FallBack, Known
  <2> QED
    BY <2>4, <2>6, <2>7, <2>8
<1> QED
  BY <1>1, Invariance, PTL DEF Spec, NeverForgets
===============================================================================
