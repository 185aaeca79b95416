-------------------------- MODULE ForgeStatusCache --------------------------
(***************************************************************************)
(* ForgeStatusCache: the forgeData of the upstream server, cached for the  *)
(* status page of the limbo.  Pings look it up concurrently; a lookup that *)
(* finds the cache stale asks the upstream and waits for the answer.       *)
(*                                                                         *)
(* A value is the number of the upstream's version it came from, 0 for     *)
(* None.  The Mutex is held between awaits only, so each use is one step.  *)
(* refresh and replace_snapshot_fallback are never called and left out.    *)
(***************************************************************************)
EXTENDS Naturals

CONSTANTS
  Pings,       \* concurrent lookups
  Fallbacks,   \* snapshot fallbacks a server may be started with, 0 for none
  MaxVersion,  \* bound: versions of the upstream's forgeData
  MaxLookups   \* bound: lookups of each ping

ASSUME CacheAssumption ==
  Fallbacks \subseteq Nat /\ MaxVersion \in Nat \ {0} /\ MaxLookups \in Nat

VARIABLES
  snapshot_fallback,  \* CacheState::snapshot_fallback
  value,              \* CacheState::value
  fetched_at,         \* CacheState::fetched_at, against the TTL
  upstream,           \* what the upstream would answer now
  lookup              \* the lookup of each ping

cache_vars == << snapshot_fallback, value, fetched_at >>
vars == << cache_vars, upstream, lookup >>

None == 0
Versions == 1 .. MaxVersion
Answers == 0 .. MaxVersion

\* at: not in get, before the fast path, waiting for the upstream, with its
\* answer, returned.  fetched: the Result of fetch_upstream; best: history, the
\* last value known to the cache when the lookup began.
Lookups == [at : {"Idle", "Called", "Fetching", "Answered", "Returned"},
            fetched : Answers, failed : BOOLEAN, result : Nat, best : Answers,
            count : 0 .. MaxLookups]

NoLookup == [at |-> "Idle", fetched |-> None, failed |-> FALSE, result |-> None,
             best |-> None, count |-> 0]

TypeOK ==
  /\ snapshot_fallback \in Fallbacks
  /\ value \in Answers
  /\ fetched_at \in {"Never", "Fresh", "Stale"}
  /\ upstream \in Answers
  /\ lookup \in [Pings -> Lookups]

Init ==
  /\ snapshot_fallback \in Fallbacks
  /\ value = None
  /\ fetched_at = "Never"
  /\ upstream \in {0, 1}
  /\ lookup = [p \in Pings |-> NoLookup]

-----------------------------------------------------------------------------
Or(first, second) == IF first # None THEN first ELSE second

Return(p, result) ==
  lookup' = [lookup EXCEPT ![p].at = "Returned", ![p].result = result]

\* A ping calls get, for the first time or again.
Get(p) ==
  /\ lookup[p].at \in {"Idle", "Returned"}
  /\ lookup[p].count < MaxLookups
  /\ lookup' = [lookup EXCEPT ![p] = [NoLookup EXCEPT !.at = "Called", !.best = value,
                                                      !.count = lookup[p].count + 1]]
  /\ UNCHANGED << cache_vars, upstream >>

CacheIsFresh == value # None /\ fetched_at = "Fresh"

FastPath(p) ==
  /\ lookup[p].at = "Called"
  /\ IF CacheIsFresh
     THEN Return(p, value)
     ELSE lookup' = [lookup EXCEPT ![p].at = "Fetching"]
  /\ UNCHANGED << cache_vars, upstream >>

\* The upstream answers (external): with its forgeData, or without any.
UpstreamAnswers(p) ==
  /\ lookup[p].at = "Fetching"
  /\ lookup' = [lookup EXCEPT ![p].at = "Answered", ![p].fetched = upstream]
  /\ UNCHANGED << cache_vars, upstream >>

\* The connection fails, the answer is malformed or the timeout passes.
FetchFails(p) ==
  /\ lookup[p].at = "Fetching"
  /\ lookup' = [lookup EXCEPT ![p].at = "Answered", ![p].failed = TRUE]
  /\ UNCHANGED << cache_vars, upstream >>

\* Ok(Some(value)): the cache is replaced, by whichever lookup comes last.
StoreValue(p) ==
  /\ lookup[p].at = "Answered" /\ ~lookup[p].failed /\ lookup[p].fetched # None
  /\ value' = lookup[p].fetched
  /\ fetched_at' = "Fresh"
  /\ Return(p, lookup[p].fetched)
  /\ UNCHANGED << snapshot_fallback, upstream >>

\* Ok(None): only the time is kept. Without a value nothing looks at it, and every
\* ping asks the upstream again.
NoForgeData(p) ==
  /\ lookup[p].at = "Answered" /\ ~lookup[p].failed /\ lookup[p].fetched = None
  /\ fetched_at' = "Fresh"
  /\ Return(p, Or(value, snapshot_fallback))
  /\ UNCHANGED << snapshot_fallback, value, upstream >>

\* Mutant: the snapshot is preferred to the stale value.
FallBackToSnapshot(p) ==
  /\ lookup[p].at = "Answered" /\ lookup[p].failed
  /\ Return(p, Or(snapshot_fallback, value))
  /\ UNCHANGED << cache_vars, upstream >>

\* Mutant: a failed fetch is tried again at once.
FallBackRetries(p) ==
  /\ lookup[p].at = "Answered" /\ lookup[p].failed
  /\ lookup' = [lookup EXCEPT ![p].at = "Fetching", ![p].failed = FALSE]
  /\ UNCHANGED << cache_vars, upstream >>

\* Err(e): the stale value, or the snapshot, or nothing.
FallBack(p) ==
  /\ lookup[p].at = "Answered" /\ lookup[p].failed
  /\ Return(p, Or(value, snapshot_fallback))
  /\ UNCHANGED << cache_vars, upstream >>

-----------------------------------------------------------------------------
(* The environment *)

\* The TTL passes.
Expire ==
  /\ fetched_at = "Fresh"
  /\ fetched_at' = "Stale"
  /\ UNCHANGED << snapshot_fallback, value, upstream, lookup >>

\* The upstream is restarted: with another set of mods, or without Forge.
UpstreamChanges ==
  /\ \E version \in Answers : upstream' = version
  /\ UNCHANGED << cache_vars, lookup >>

-----------------------------------------------------------------------------
LookupStep(p) ==
  \/ FastPath(p) \/ UpstreamAnswers(p) \/ FetchFails(p)
  \/ StoreValue(p) \/ NoForgeData(p) \/ FallBack(p)

Next == Expire \/ UpstreamChanges \/ \E p \in Pings : Get(p) \/ LookupStep(p)

Spec == Init /\ [][Next]_vars

\* A lookup goes on: the fetch is under status_request_timeout.
FairSpec == Spec /\ \A p \in Pings : WF_vars(LookupStep(p))

-----------------------------------------------------------------------------
(* Properties *)

\* The fallback chain (lines 19-26) across concurrent lookups: one that began
\* when some value was known returns a value of the upstream, never the snapshot
\* and never nothing; any other returns at least the snapshot.
FallbackChain ==
  \A p \in Pings :
    lookup[p].at = "Returned" =>
      /\ lookup[p].best # None => lookup[p].result \in Versions
      /\ snapshot_fallback # None => lookup[p].result # None

\* Every lookup returns.
LookupsReturn == \A p \in Pings : lookup[p].at = "Called" ~> lookup[p].at = "Returned"
=============================================================================
