----------------------------- MODULE StatusPage -----------------------------
(***************************************************************************)
(* The status page: a request reads the count of players, waits for the     *)
(* forgeData of the upstream (ForgeStatusCache) and answers with both,      *)
(* while players come and go (PlayerRoster, as the tasks of the connections *)
(* implement it).                                                           *)
(***************************************************************************)
EXTENDS ForgeStatusCache, PlayerRoster

CONSTANT ShowCount   \* values of show_online_player_count

VARIABLES
  show_online_player_count,
  response,   \* the number of players in the response of each ping
  counts      \* history: the counts since the request of each ping

page_vars == << show_online_player_count, response, counts >>
status_vars == << vars, roster_vars, page_vars >>

PageInit ==
  /\ Init
  /\ RosterInit
  /\ show_online_player_count \in ShowCount
  /\ response = [p \in Pings |-> 0]
  /\ counts = [p \in Pings |-> {0}]

OnlinePlayers == IF show_online_player_count THEN online ELSE 0

\* Mutant: the response is built for the first request and sent again.
RequestOnce(p) ==
  /\ Get(p)
  /\ response' = [response EXCEPT ![p] = IF lookup[p].count = 0 THEN OnlinePlayers ELSE @]
  /\ counts' = [counts EXCEPT ![p] = {online}]
  /\ UNCHANGED << roster_vars, show_online_player_count >>

\* The handler builds the response, and waits for the forgeData afterwards.
Request(p) ==
  /\ Get(p)
  /\ response' = [response EXCEPT ![p] = OnlinePlayers]
  /\ counts' = [counts EXCEPT ![p] = {online}]
  /\ UNCHANGED << roster_vars, show_online_player_count >>

LookupGoesOn(p) ==
  /\ LookupStep(p)
  /\ UNCHANGED << roster_vars, page_vars >>

UpstreamStep ==
  /\ Expire \/ UpstreamChanges
  /\ UNCHANGED << roster_vars, page_vars >>

PlayersChange ==
  /\ RosterNext
  /\ counts' = [p \in Pings |-> IF lookup[p].at = "Returned" THEN counts[p]
                                 ELSE counts[p] \cup {online'}]
  /\ UNCHANGED << vars, show_online_player_count, response >>

PageNext ==
  \/ UpstreamStep \/ PlayersChange
  \/ \E p \in Pings : Request(p) \/ LookupGoesOn(p)

PageSpec ==
  /\ PageInit /\ [][PageNext]_status_vars
  /\ \A p \in Pings : WF_status_vars(LookupGoesOn(p))

-----------------------------------------------------------------------------
(* Properties *)

\* However long the upstream takes and whoever joins or leaves meanwhile, the
\* number a status page shows was the number of players at some moment since the
\* page was asked for; and it is none if the count is hidden.
CountWasTrue ==
  \A p \in Pings :
    lookup[p].at = "Returned" =>
      IF show_online_player_count THEN response[p] \in counts[p] ELSE response[p] = 0
=============================================================================
