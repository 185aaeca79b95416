------------------------- MODULE StatusPage_proofs -------------------------
(***************************************************************************)
(* The forgeData and the number of players of a status page, for any       *)
(* number of concurrent pings, of versions of the upstream and of players. *)
(***************************************************************************)
EXTENDS StatusPage, TLAPS

\* The cache never forgets: what a lookup found known is known when it returns.
CacheKeepsAValue == \A p \in Pings : lookup[p].best # None => value # None

\* The response is built with the first of the counts of its ping; a ping that is
\* not asked for has the count it starts with.
ResponseWasTrue ==
  \A p \in Pings :
    IF show_online_player_count THEN response[p] \in counts[p] ELSE response[p] = 0

PageTypeOK ==
  /\ TypeOK
  /\ online \in Int
  /\ response \in [Pings -> Int]
  /\ counts \in [Pings -> SUBSET Int]

PageInv == PageTypeOK /\ CacheKeepsAValue /\ FallbackChain /\ ResponseWasTrue

LEMMA PageStart == PageInit => PageInv
<1> SUFFICES ASSUME PageInit
             PROVE  PageInv
  OBVIOUS
<1>1. PageTypeOK /\ CacheKeepsAValue /\ FallbackChain
  BY CacheAssumption
  DEF PageInit, Init, RosterInit, PageTypeOK, CacheKeepsAValue, FallbackChain, TypeOK,
      Lookups, NoLookup, None, Versions, Answers
<1>2. ResponseWasTrue
  BY DEF PageInit, ResponseWasTrue
<1>3. QED
  BY <1>1, <1>2 DEF PageInv

\* One step of a lookup, of the TTL or of the upstream.
LEMMA CacheTypes ==
  ASSUME TypeOK, Next
  PROVE  TypeOK'
<1> USE DEF cache_vars
<1>1. /\ snapshot_fallback \in Nat /\ value \in Answers /\ value \in Nat
      /\ lookup \in [Pings -> Lookups]
      /\ \A p \in Pings : lookup[p].fetched \in Answers /\ lookup[p].fetched \in Nat
      /\ Or(value, snapshot_fallback) \in Nat
  BY CacheAssumption DEF TypeOK, Answers, Lookups, Or
<1>2. ASSUME NEW p \in Pings, NEW result \in Nat
      PROVE  [lookup[p] EXCEPT !.at = "Returned", !.result = result] \in Lookups
  BY <1>1 DEF Lookups
<1>3. ASSUME NEW p \in Pings, NEW result \in Nat, Return(p, result)
      PROVE  lookup' \in [Pings -> Lookups]
  <2>1. lookup' = [lookup EXCEPT ![p] = [@ EXCEPT !.at = "Returned", !.result = result]]
    BY <1>3 DEF Return
  <2>2. QED
    BY <1>1, <1>2, <2>1
<1>4. ASSUME NEW p \in Pings, Get(p)
      PROVE  TypeOK'
  <2> DEFINE called == [NoLookup EXCEPT !.at = "Called", !.best = value,
                                        !.count = lookup[p].count + 1]
  <2>1. lookup[p].count + 1 \in 0 .. MaxLookups
    BY <1>1, <1>4, CacheAssumption DEF Get, Lookups
  <2>2. NoLookup \in Lookups
    BY CacheAssumption DEF NoLookup, Lookups, None, Answers
  <2>3. called \in Lookups
    BY <1>1, <2>1, <2>2 DEF Lookups
  <2>4. lookup' = [lookup EXCEPT ![p] = called]
    BY <1>4 DEF Get
  <2> HIDE DEF called
  <2>5. lookup' \in [Pings -> Lookups]
    BY <1>1, <2>3, <2>4
  <2>6. QED
    BY <1>4, <2>5 DEF Get, TypeOK
<1>5. ASSUME NEW p \in Pings, FastPath(p)
      PROVE  TypeOK'
  <2>1. [lookup[p] EXCEPT !.at = "Fetching"] \in Lookups
    BY <1>1 DEF Lookups
  <2>2. CASE CacheIsFresh
    BY <1>1, <1>3, <1>5, <2>2 DEF FastPath, TypeOK
  <2>3. CASE ~CacheIsFresh
    BY <1>1, <1>5, <2>1, <2>3 DEF FastPath, TypeOK
  <2>4. QED
    BY <2>2, <2>3
<1>6. ASSUME NEW p \in Pings, UpstreamAnswers(p) \/ FetchFails(p)
      PROVE  TypeOK'
  <2>1. /\ [lookup[p] EXCEPT !.at = "Answered", !.fetched = upstream] \in Lookups
        /\ [lookup[p] EXCEPT !.at = "Answered", !.failed = TRUE] \in Lookups
    BY <1>1 DEF Lookups, TypeOK
  <2>2. lookup' \in [Pings -> Lookups]
    BY <1>1, <1>6, <2>1 DEF UpstreamAnswers, FetchFails
  <2>3. QED
    BY <1>6, <2>2 DEF UpstreamAnswers, FetchFails, TypeOK
<1>7. ASSUME NEW p \in Pings, StoreValue(p) \/ NoForgeData(p) \/ FallBack(p)
      PROVE  TypeOK'
  <2>1. Return(p, lookup[p].fetched) \/ Return(p, Or(value, snapshot_fallback))
    BY <1>7 DEF StoreValue, NoForgeData, FallBack
  <2>2. lookup' \in [Pings -> Lookups]
    BY <1>1, <1>3, <2>1
  <2>3. QED
    BY <1>1, <1>7, <2>2 DEF StoreValue, NoForgeData, FallBack, TypeOK
<1>8. CASE Expire \/ UpstreamChanges
  BY <1>8 DEF Expire, UpstreamChanges, TypeOK
<1>9. QED
  BY <1>4, <1>5, <1>6, <1>7, <1>8 DEF Next, LookupStep

LEMMA CacheStep ==
  ASSUME TypeOK, CacheKeepsAValue, FallbackChain, Next
  PROVE  CacheKeepsAValue' /\ FallbackChain'
<1> USE CacheAssumption
    DEF TypeOK, Lookups, NoLookup, None, Versions, Answers, cache_vars, Return, Or,
        CacheIsFresh, CacheKeepsAValue, FallbackChain
<1>1. ASSUME NEW p \in Pings, Get(p)
      PROVE  CacheKeepsAValue' /\ FallbackChain'
  BY <1>1 DEF Get
<1>2. ASSUME NEW p \in Pings, FastPath(p)
      PROVE  CacheKeepsAValue' /\ FallbackChain'
  BY <1>2 DEF FastPath
<1>3. ASSUME NEW p \in Pings, UpstreamAnswers(p) \/ FetchFails(p)
      PROVE  CacheKeepsAValue' /\ FallbackChain'
  BY <1>3 DEF UpstreamAnswers, FetchFails
<1>4. ASSUME NEW p \in Pings, StoreValue(p)
      PROVE  CacheKeepsAValue' /\ FallbackChain'
  BY <1>4 DEF StoreValue
<1>5. ASSUME NEW p \in Pings, NoForgeData(p) \/ FallBack(p)
      PROVE  CacheKeepsAValue' /\ FallbackChain'
  BY <1>5 DEF NoForgeData, FallBack
<1>6. CASE Expire \/ UpstreamChanges
  BY <1>6 DEF Expire, UpstreamChanges
<1>7. QED
  BY <1>1, <1>2, <1>3, <1>4, <1>5, <1>6 DEF Next, LookupStep

\* Every step of the page is one of the cache, or leaves it alone.
LEMMA PageMovesCache ==
  ASSUME PageNext
  PROVE  Next \/ UNCHANGED vars
BY DEF PageNext, UpstreamStep, PlayersChange, Request, LookupGoesOn, Next

LEMMA PageCounts ==
  ASSUME PageTypeOK, ResponseWasTrue, PageNext
  PROVE  /\ online' \in Int
         /\ response' \in [Pings -> Int]
         /\ counts' \in [Pings -> SUBSET Int]
         /\ ResponseWasTrue'
<1> USE DEF PageTypeOK, ResponseWasTrue, page_vars, roster_vars
<1>1. ASSUME NEW p \in Pings, Request(p)
      PROVE  /\ online' \in Int
             /\ response' \in [Pings -> Int]
             /\ counts' \in [Pings -> SUBSET Int]
             /\ ResponseWasTrue'
  BY <1>1 DEF Request, OnlinePlayers
<1>2. ASSUME PlayersChange
      PROVE  /\ online' \in Int
             /\ response' \in [Pings -> Int]
             /\ counts' \in [Pings -> SUBSET Int]
             /\ ResponseWasTrue'
  <2>1. online' \in Int
    BY <1>2 DEF PlayersChange, RosterNext, Join, Quit
  <2>2. \A p \in Pings : counts[p] \subseteq counts'[p]
    BY <1>2 DEF PlayersChange
  <2>3. counts' \in [Pings -> SUBSET Int]
    BY <1>2, <2>1 DEF PlayersChange
  <2>4. response' = response /\ show_online_player_count' = show_online_player_count
    BY <1>2 DEF PlayersChange
  <2>5. QED
    BY <2>1, <2>2, <2>3, <2>4
<1>3. CASE UpstreamStep \/ \E p \in Pings : LookupGoesOn(p)
  BY <1>3 DEF UpstreamStep, LookupGoesOn
<1>4. QED
  BY <1>1, <1>2, <1>3 DEF PageNext

LEMMA PageInvariant == PageSpec => []PageInv
<1>1. PageInv /\ [PageNext]_status_vars => PageInv'
  <2>1. ASSUME PageInv, PageNext
        PROVE  PageInv'
    <3>1. CASE Next
      BY <2>1, <3>1, CacheTypes, CacheStep, PageCounts DEF PageInv, PageTypeOK
    <3>2. CASE UNCHANGED vars
      <4>1. TypeOK' /\ CacheKeepsAValue' /\ FallbackChain'
        BY <2>1, <3>2
        DEF PageInv, PageTypeOK, vars, cache_vars, TypeOK, CacheKeepsAValue, FallbackChain
      <4>2. QED
        BY <2>1, <4>1, PageCounts DEF PageInv, PageTypeOK
    <3>3. QED
      BY <2>1, <3>1, <3>2, PageMovesCache
  <2>2. ASSUME PageInv, UNCHANGED status_vars
        PROVE  PageInv'
    BY <2>2
    DEF PageInv, PageTypeOK, CacheKeepsAValue, FallbackChain, ResponseWasTrue, TypeOK,
        status_vars, vars, cache_vars, roster_vars, page_vars
  <2>3. QED
    BY <2>1, <2>2
<1>2. QED
  BY PageStart, <1>1, PTL DEF PageSpec

\* A lookup that began when a value was known returns one of the upstream's, and any
\* other at least the snapshot's, whatever the other pings store meanwhile (get and
\* its chain of fallbacks, status_proxy.rs).
THEOREM PagesFallBack == PageSpec => []FallbackChain
<1>1. PageInv => FallbackChain
  BY DEF PageInv
<1>2. QED
  BY PageInvariant, <1>1, PTL

\* The number on a status page was the number of players at some moment since the
\* page was asked for (status_request.rs).
THEOREM PagesCounted == PageSpec => []CountWasTrue
<1>1. PageInv => CountWasTrue
  BY DEF PageInv, ResponseWasTrue, CountWasTrue
<1>2. QED
  BY PageInvariant, <1>1, PTL
=============================================================================
