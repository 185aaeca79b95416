------------------------- MODULE Conversation_proofs -------------------------
(***************************************************************************)
(* The conversation of a connection task with its client, by induction.    *)
(*                                                                         *)
(* A client reads what was sent to it a while ago, and the task what the   *)
(* client answered to something older still.  The invariant therefore says *)
(* where a connection will be when everything under way has been received: *)
(* the packets to the client, then those of the batch, form a Trace of     *)
(* views of that client, in which every packet comes when it is expected   *)
(* and in the format that was agreed, and the client at its end, with all  *)
(* it will have sent by then, is in the Stage that the task expects.  A    *)
(* handler appends to the trace (Answered), a write and a receipt move one *)
(* packet along it, a packet sent by the client appears in every view.     *)
(* The properties of Connection about clients follow.                      *)
(***************************************************************************)
EXTENDS Connection_proofs

-----------------------------------------------------------------------------
(* Clients and what they have sent *)

\* A client that takes part in the conversation.
Live(p) == p.phase \in {"Status", "Login", "Configuration", "Play"}

\* A client that was understood so far: it has a name from the moment it is let
\* in, and stays where it was when it joined.
WellFormed(p) ==
  /\ p.phase \notin {"Gone", "Error"}
  /\ p.phase \in {"Status", "Login"} => p.profile = "Absent" /\ ~p.joined
  /\ p.phase = "Configuration" => p.profile # "Absent" /\ ~p.joined
  /\ p.phase = "Play" => p.profile # "Absent"
  /\ p.joined => p.phase = "Play"

\* A client with the packets it sent that the task has not read.
Views == {v \in [peer : Peers, sent : Seq(ServerBound)] : WellFormed(v.peer)}

\* A view after the client received a packet, and after the task read one.
After(v, packet) ==
  [peer |-> React(v.peer, packet), sent |-> v.sent \o Replies(v.peer, packet)]
Read(v) == [peer |-> v.peer, sent |-> Tail(v.sent)]

\* The packet comes when the client expects it, and when the format may change.
Follows(server, v, packet, w) ==
  /\ Live(v.peer) /\ Expected(v.peer, packet)
  /\ packet.type \notin {"ConfigurationDisconnect", "PlayDisconnect"}
  /\ packet.type = "LoginSuccess" => packet.profile # "Absent"
  /\ packet.type = "SetCompression" => server.compression /\ v.sent = << >>
  /\ w = After(v, packet)

\* One sequence is the beginning of another.
Begins(s, t) == Len(s) <= Len(t) /\ \A i \in 1 .. Len(s) : t[i] = s[i]

\* What a client that receives keeps.
Precedes(v, w) ==
  /\ w.peer.protocol = v.peer.protocol /\ w.peer.forge_kind = v.peer.forge_kind
  /\ w.peer.key_valid <=> v.peer.key_valid
  /\ v.peer.profile # "Absent" =>
       w.peer.profile = v.peer.profile /\ w.peer.steps = v.peer.steps
  /\ v.peer.joined => w = v
  /\ v.sent # << >> => w.peer.compressed = v.peer.compressed
  /\ Begins(v.sent, w.sent)

\* What becomes of a client, field by field.
LEMMA ReactFields ==
  ASSUME NEW p \in Peers, NEW packet \in ClientBound, Live(p), Expected(p, packet),
         packet.type \notin {"ConfigurationDisconnect", "PlayDisconnect"}
  PROVE  LET q == React(p, packet)
         IN  /\ q \in Peers
             /\ q.phase = IF packet.type = "LoginSuccess"
                          THEN IF SupportsConfigurationState(p.protocol)
                               THEN "Configuration" ELSE "Play"
                          ELSE IF packet.type = "FinishConfiguration" THEN "Play"
                          ELSE IF packet.type = "LoginDisconnect" THEN "Kicked"
                          ELSE p.phase
             /\ q.compressed <=> p.compressed \/ packet.type = "SetCompression"
             /\ q.protocol = p.protocol /\ q.forge_kind = p.forge_kind
             /\ q.key_valid <=> p.key_valid
             /\ q.profile = IF packet.type = "LoginSuccess" THEN packet.profile
                            ELSE p.profile
             /\ q.steps = IF packet.type = "CustomQuery" /\ packet.step # 0
                          THEN packet.step ELSE p.steps
             /\ q.joined <=> p.joined \/ packet.type = "Login"
             /\ q.inputs = p.inputs
<1>1. React(p, packet) \in Peers
  BY ReactType
<1>2. CASE packet.type = "CustomQuery"
  BY <1>1, <1>2 DEF React, Peers, ClientBound
<1>3. CASE packet.type = "LoginSuccess"
  BY <1>1, <1>3 DEF React, Peers, ClientBound
<1>4. CASE packet.type \notin {"CustomQuery", "LoginSuccess"}
  BY <1>1, <1>4 DEF React, Peers
<1>5. QED
  BY <1>2, <1>3, <1>4

\* A client that joined is as it was, whatever it receives.
LEMMA JoinedReacts ==
  ASSUME NEW p \in Peers, NEW packet \in ClientBound, WellFormed(p), p.joined,
         Expected(p, packet), packet.type # "PlayDisconnect"
  PROVE  React(p, packet) = p /\ Replies(p, packet) = << >>
<1>1. packet.type \in {"PlayData", "KeepAlive", "ActionBar"}
  BY DEF Expected, WellFormed
<1>2. QED
  BY <1>1 DEF React, Replies

\* Nothing is lost of a sequence that is extended.
LEMMA BeginsLemma ==
  ASSUME NEW A, NEW s \in Seq(A), NEW t \in Seq(A)
  PROVE  Begins(s, s \o t) /\ s \o << >> = s
BY DEF Begins

\* What becomes of a view when a packet comes that may.
Becomes(v, packet, w) ==
  LET p == v.peer
      q == w.peer
  IN  /\ w \in Views
      /\ q.phase = IF packet.type = "LoginSuccess"
                   THEN IF SupportsConfigurationState(p.protocol)
                        THEN "Configuration" ELSE "Play"
                   ELSE IF packet.type = "FinishConfiguration" THEN "Play"
                   ELSE IF packet.type = "LoginDisconnect" THEN "Kicked"
                   ELSE p.phase
      /\ q.compressed <=> p.compressed \/ packet.type = "SetCompression"
      /\ q.protocol = p.protocol /\ q.forge_kind = p.forge_kind
      /\ q.key_valid <=> p.key_valid
      /\ q.profile = IF packet.type = "LoginSuccess" THEN packet.profile ELSE p.profile
      /\ q.steps = IF packet.type = "CustomQuery" /\ packet.step # 0
                   THEN packet.step ELSE p.steps
      /\ q.joined <=> p.joined \/ packet.type = "Login"
      /\ w.sent = v.sent \o Replies(p, packet)
      /\ Replies(p, packet) \in Seq(ServerBound)

\* What a packet makes of a client that expects it.
LEMMA FollowsBecomes ==
  ASSUME NEW server, NEW v \in Views, NEW packet \in ClientBound, NEW w,
         Follows(server, v, packet, w)
  PROVE  Becomes(v, packet, w)
<1> DEFINE p == v.peer
           q == React(p, packet)
           r == Replies(p, packet)
<1>1. /\ p \in Peers /\ v.sent \in Seq(ServerBound) /\ WellFormed(p) /\ Live(p)
      /\ Expected(p, packet)
      /\ packet.type \notin {"ConfigurationDisconnect", "PlayDisconnect"}
      /\ packet.type = "LoginSuccess" => packet.profile # "Absent"
      /\ w = [peer |-> q, sent |-> v.sent \o r]
  BY DEF Views, Follows, After
<1>2. /\ q \in Peers
      /\ q.phase = IF packet.type = "LoginSuccess"
                   THEN IF SupportsConfigurationState(p.protocol)
                        THEN "Configuration" ELSE "Play"
                   ELSE IF packet.type = "FinishConfiguration" THEN "Play"
                   ELSE IF packet.type = "LoginDisconnect" THEN "Kicked"
                   ELSE p.phase
      /\ q.compressed <=> p.compressed \/ packet.type = "SetCompression"
      /\ q.protocol = p.protocol /\ q.forge_kind = p.forge_kind
      /\ q.key_valid <=> p.key_valid
      /\ q.profile = IF packet.type = "LoginSuccess" THEN packet.profile ELSE p.profile
      /\ q.steps = IF packet.type = "CustomQuery" /\ packet.step # 0
                   THEN packet.step ELSE p.steps
      /\ q.joined <=> p.joined \/ packet.type = "Login"
  BY <1>1, ReactFields
<1>3. r \in Seq(ServerBound)
  BY <1>1, RepliesType
<1>4. p = v.peer /\ r = Replies(v.peer, packet)
  OBVIOUS
<1> HIDE DEF p, q, r
<1>5. WellFormed(q)
  BY <1>1, <1>2, Zenon DEF WellFormed, Live, Expected, Peers
<1>6. w \in Views /\ w.peer = q /\ w.sent = v.sent \o r
  BY <1>1, <1>2, <1>3, <1>5 DEF Views
<1>7. QED
  BY <1>2, <1>3, <1>4, <1>6 DEF Becomes

\* A packet that comes when it may makes a view of a view.
LEMMA FollowsView ==
  ASSUME NEW server, NEW v \in Views, NEW packet \in ClientBound, NEW w,
         Follows(server, v, packet, w)
  PROVE  w \in Views /\ Precedes(v, w)
<1> DEFINE r == Replies(v.peer, packet)
<1>1. /\ v.peer \in Peers /\ v.sent \in Seq(ServerBound) /\ WellFormed(v.peer)
      /\ Live(v.peer) /\ Expected(v.peer, packet)
      /\ v = [peer |-> v.peer, sent |-> v.sent]
      /\ packet.type \notin {"ConfigurationDisconnect", "PlayDisconnect"}
      /\ packet.type = "SetCompression" => v.sent = << >>
      /\ w = [peer |-> React(v.peer, packet), sent |-> v.sent \o r]
  BY DEF Views, Follows, After
<1>2. Becomes(v, packet, w)
  BY FollowsBecomes
<1>3. v.peer.joined => w = v
  <2>1. ASSUME v.peer.joined
        PROVE  React(v.peer, packet) = v.peer /\ r = << >> /\ v.sent \o << >> = v.sent
    BY <1>1, <2>1, JoinedReacts, BeginsLemma
  <2> HIDE DEF r
  <2>2. QED
    BY <1>1, <2>1
<1>4. Begins(v.sent, w.sent)
  <2>1. r \in Seq(ServerBound) /\ w.sent = v.sent \o r
    BY <1>2 DEF Becomes
  <2> HIDE DEF r
  <2>2. QED
    BY <1>1, <2>1, BeginsLemma
<1>5. v.peer.profile # "Absent" =>
        w.peer.profile = v.peer.profile /\ w.peer.steps = v.peer.steps
  BY <1>1, <1>2 DEF WellFormed, Live, Expected, Becomes
<1>6. v.sent # << >> => w.peer.compressed = v.peer.compressed
  <2>1. w.peer \in Peers
    BY <1>2 DEF Becomes, Views
  <2>2. QED
    BY <1>1, <1>2, <2>1 DEF Becomes, Peers
<1>7. QED
  BY <1>2, <1>3, <1>4, <1>5, <1>6 DEF Precedes, Becomes

\* A view precedes itself.
LEMMA PrecedesReflexive ==
  ASSUME NEW v \in Views
  PROVE  Precedes(v, v)
BY DEF Precedes, Begins, Views

\* What precedes a view precedes those that come after it.
LEMMA PrecedesTransitive ==
  ASSUME NEW u \in Views, NEW v \in Views, NEW w \in Views, Precedes(u, v), Precedes(v, w)
  PROVE  Precedes(u, w)
<1>1. /\ u.sent \in Seq(ServerBound) /\ v.sent \in Seq(ServerBound)
      /\ w.sent \in Seq(ServerBound)
  BY DEF Views
<1>2. Begins(u.sent, w.sent) /\ (u.sent # << >> => v.sent # << >>)
  <2>1. Begins(u.sent, v.sent) /\ Begins(v.sent, w.sent)
    BY DEF Precedes
  <2>2. QED
    BY <1>1, <2>1 DEF Begins
<1>3. QED
  BY <1>2 DEF Precedes

\* Reading the first packet, and sending one more, whichever comes first.
LEMMA TailConcat ==
  ASSUME NEW A, NEW s \in Seq(A), NEW t \in Seq(A), s # << >>
  PROVE  Tail(s \o t) = Tail(s) \o t
<1>1. /\ Tail(s \o t) \in Seq(A) /\ Tail(s) \o t \in Seq(A)
      /\ Len(Tail(s \o t)) = Len(s) + Len(t) - 1
      /\ Len(Tail(s) \o t) = Len(s) + Len(t) - 1
  OBVIOUS
<1>2. ASSUME NEW i \in 1 .. Len(s) + Len(t) - 1
      PROVE  Tail(s \o t)[i] = (Tail(s) \o t)[i]
  OBVIOUS
<1>3. QED
  BY <1>1, <1>2

\* The task reads what the client had sent first, whatever comes to it meanwhile.
LEMMA ReadFollows ==
  ASSUME NEW server, NEW v \in Views, NEW packet \in ClientBound, NEW w,
         Follows(server, v, packet, w), v.sent # << >>
  PROVE  Follows(server, Read(v), packet, Read(w))
<1> DEFINE r == Replies(v.peer, packet)
<1>1. r \in Seq(ServerBound) /\ v.sent \in Seq(ServerBound)
  BY RepliesType DEF Views
<1>2. Tail(v.sent \o r) = Tail(v.sent) \o r
  BY <1>1, TailConcat
<1>3. QED
  BY <1>2 DEF Follows, After, Read

\* The task reads the same packet in a view and in a later one.
LEMMA ReadPrecedes ==
  ASSUME NEW v \in Views, NEW w \in Views, Precedes(v, w), v.sent # << >>
  PROVE  Read(v) \in Views /\ Precedes(Read(v), Read(w))
<1>1. v.sent \in Seq(ServerBound) /\ w.sent \in Seq(ServerBound) /\ Begins(v.sent, w.sent)
  BY DEF Views, Precedes
<1>2. /\ Len(v.sent) \in Nat /\ Len(w.sent) \in Nat /\ Len(v.sent) > 0
      /\ Len(v.sent) <= Len(w.sent)
      /\ \A i \in 1 .. Len(v.sent) : w.sent[i] = v.sent[i]
  BY <1>1 DEF Begins
<1>3. /\ Len(Tail(v.sent)) = Len(v.sent) - 1 /\ Len(Tail(w.sent)) = Len(w.sent) - 1
      /\ Tail(v.sent) \in Seq(ServerBound) /\ Tail(w.sent) \in Seq(ServerBound)
      /\ \A i \in 1 .. Len(v.sent) - 1 : Tail(v.sent)[i] = v.sent[i + 1]
      /\ \A i \in 1 .. Len(w.sent) - 1 : Tail(w.sent)[i] = w.sent[i + 1]
  BY <1>1, <1>2
<1>4. Begins(Tail(v.sent), Tail(w.sent))
  BY <1>2, <1>3 DEF Begins
<1>5. QED
  BY <1>3, <1>4 DEF Read, Views, Precedes

-----------------------------------------------------------------------------
(* Traces *)

\* Packets that a client receives one after the other, and the views between.
Trace(server, views, packets) ==
  /\ views \in Seq(Views) /\ packets \in Seq(ClientBound)
  /\ Len(views) = Len(packets) + 1
  /\ \A i \in 1 .. Len(packets) : Follows(server, views[i], packets[i], views[i + 1])
  /\ \A i, j \in 1 .. Len(views) : i <= j => Precedes(views[i], views[j])

\* The packets take the client from one view to the other.
Delivers(server, v, packets, w) ==
  \E views \in Seq(Views) :
    Trace(server, views, packets) /\ views[1] = v /\ views[Len(views)] = w

\* The facts of a trace, for the provers.
LEMMA TraceFacts ==
  ASSUME NEW server, NEW views, NEW packets, Trace(server, views, packets)
  PROVE  /\ views \in Seq(Views) /\ packets \in Seq(ClientBound)
         /\ Len(packets) \in Nat /\ Len(views) = Len(packets) + 1
         /\ \A i \in 1 .. Len(packets) + 1 : views[i] \in Views
         /\ \A i \in 1 .. Len(packets) :
              packets[i] \in ClientBound /\ Follows(server, views[i], packets[i], views[i + 1])
         /\ \A i, j \in 1 .. Len(packets) + 1 : i <= j => Precedes(views[i], views[j])
<1>1. /\ views \in Seq(Views) /\ packets \in Seq(ClientBound)
      /\ Len(views) = Len(packets) + 1
  BY DEF Trace
<1>2. /\ Len(packets) \in Nat
      /\ \A i \in 1 .. Len(packets) + 1 : views[i] \in Views
      /\ \A i \in 1 .. Len(packets) : packets[i] \in ClientBound
  BY <1>1
<1>3. QED
  BY <1>1, <1>2 DEF Trace

\* A client that receives nothing.
LEMMA DeliversNothing ==
  ASSUME NEW server, NEW v \in Views
  PROVE  Trace(server, << v >>, << >>) /\ Delivers(server, v, << >>, v)
<1>1. /\ << v >> \in Seq(Views) /\ << >> \in Seq(ClientBound)
      /\ Len(<< v >>) = 1 /\ << v >>[1] = v /\ Len(<< >>) = 0
  OBVIOUS
<1>2. Trace(server, << v >>, << >>)
  BY <1>1, PrecedesReflexive DEF Trace
<1>3. QED
  BY <1>1, <1>2 DEF Delivers

\* One packet more.
LEMMA TraceExtend ==
  ASSUME NEW server, NEW views, NEW packets, Trace(server, views, packets),
         NEW packet \in ClientBound, NEW w, Follows(server, views[Len(views)], packet, w)
  PROVE  /\ Trace(server, Append(views, w), Append(packets, packet))
         /\ Len(Append(views, w)) = Len(views) + 1
         /\ Append(views, w)[1] = views[1]
         /\ \A i \in 1 .. Len(views) : Append(views, w)[i] = views[i]
         /\ Append(views, w)[Len(views) + 1] = w
<1> DEFINE n == Len(packets)
           after == Append(views, w)
           sent == Append(packets, packet)
<1>1. /\ views \in Seq(Views) /\ packets \in Seq(ClientBound) /\ n \in Nat
      /\ Len(views) = n + 1
      /\ \A i \in 1 .. n + 1 : views[i] \in Views
      /\ \A i \in 1 .. n : Follows(server, views[i], packets[i], views[i + 1])
      /\ \A i, j \in 1 .. n + 1 : i <= j => Precedes(views[i], views[j])
  BY TraceFacts
<1>2. views[n + 1] \in Views /\ Follows(server, views[n + 1], packet, w)
  BY <1>1
<1>3. w \in Views /\ Precedes(views[n + 1], w)
  BY <1>2, FollowsView
<1>4. \A i \in 1 .. n + 1 : Precedes(views[i], w)
  BY <1>1, <1>3, PrecedesTransitive
<1>5. /\ after \in Seq(Views) /\ sent \in Seq(ClientBound)
      /\ Len(after) = n + 2 /\ Len(sent) = n + 1
      /\ \A i \in 1 .. n + 1 : after[i] = views[i]
      /\ after[n + 2] = w /\ after[1] = views[1]
      /\ \A i \in 1 .. n : sent[i] = packets[i]
      /\ sent[n + 1] = packet
  BY <1>1, <1>3
<1> HIDE DEF after, sent, n
<1>6. ASSUME NEW i \in 1 .. n + 1
      PROVE  Follows(server, after[i], sent[i], after[i + 1])
  <2>1. CASE i = n + 1
    <3>1. after[i] = views[n + 1] /\ sent[i] = packet /\ after[i + 1] = w
      BY <1>1, <1>5, <2>1
    <3>2. QED
      BY <1>2, <3>1
  <2>2. CASE i # n + 1
    <3>1. i \in 1 .. n /\ i + 1 \in 1 .. n + 1
      BY <1>1, <2>2
    <3>2. QED
      BY <1>1, <1>5, <3>1
  <2>3. QED
    BY <2>1, <2>2
<1>7. ASSUME NEW i \in 1 .. n + 2, NEW j \in 1 .. n + 2, i <= j
      PROVE  Precedes(after[i], after[j])
  <2>1. CASE j = n + 2 /\ i = n + 2
    BY <1>3, <1>5, <2>1, PrecedesReflexive
  <2>2. CASE j = n + 2 /\ i # n + 2
    <3>1. i \in 1 .. n + 1
      BY <1>1, <2>2
    <3>2. QED
      BY <1>4, <1>5, <2>2, <3>1
  <2>3. CASE j # n + 2
    <3>1. i \in 1 .. n + 1 /\ j \in 1 .. n + 1
      BY <1>1, <1>7, <2>3
    <3>2. QED
      BY <1>1, <1>5, <1>7, <3>1
  <2>4. QED
    BY <2>1, <2>2, <2>3
<1>8. Trace(server, after, sent)
  BY <1>1, <1>5, <1>6, <1>7 DEF Trace
<1>9. QED
  BY <1>1, <1>5, <1>8 DEF after, sent, n

\* One packet more.
LEMMA DeliversMore ==
  ASSUME NEW server, NEW v, NEW packets, NEW w, Delivers(server, v, packets, w),
         NEW packet \in ClientBound, NEW x, Follows(server, w, packet, x)
  PROVE  Delivers(server, v, Append(packets, packet), x) /\ x \in Views
<1>1. PICK views \in Seq(Views) :
        Trace(server, views, packets) /\ views[1] = v /\ views[Len(views)] = w
  BY DEF Delivers
<1>2. /\ Trace(server, Append(views, x), Append(packets, packet))
      /\ Len(Append(views, x)) = Len(views) + 1
      /\ Append(views, x)[1] = v /\ Append(views, x)[Len(views) + 1] = x
  <2>1. Follows(server, views[Len(views)], packet, x) /\ Trace(server, views, packets)
    BY <1>1
  <2>2. Trace(server, Append(views, x), Append(packets, packet))
    BY <2>1, TraceExtend
  <2>3. /\ Len(Append(views, x)) = Len(views) + 1
        /\ Append(views, x)[1] = views[1] /\ Append(views, x)[Len(views) + 1] = x
    BY <2>1, TraceExtend
  <2>4. QED
    BY <1>1, <2>2, <2>3
<1>3. Append(views, x) \in Seq(Views)
  BY <1>2 DEF Trace
<1>4. x \in Views
  <2>1. Len(views) \in Nat
    BY <1>1
  <2>2. QED
    BY <1>2, <1>3, <2>1
<1>5. QED
  BY <1>2, <1>3, <1>4 DEF Delivers

\* The first packet is received.
LEMMA TraceTail ==
  ASSUME NEW server, NEW views, NEW packets, Trace(server, views, packets),
         packets # << >>
  PROVE  /\ Trace(server, Tail(views), Tail(packets))
         /\ Follows(server, views[1], packets[1], views[2])
         /\ packets[1] \in ClientBound /\ views[1] \in Views
         /\ Len(Tail(views)) = Len(views) - 1
         /\ \A i \in 1 .. Len(views) - 1 : Tail(views)[i] = views[i + 1]
<1> DEFINE n == Len(packets)
           after == Tail(views)
           rest == Tail(packets)
<1>1. /\ views \in Seq(Views) /\ packets \in Seq(ClientBound) /\ n \in Nat
      /\ Len(views) = n + 1
      /\ \A i \in 1 .. n + 1 : views[i] \in Views
      /\ \A i \in 1 .. n :
           packets[i] \in ClientBound /\ Follows(server, views[i], packets[i], views[i + 1])
      /\ \A i, j \in 1 .. n + 1 : i <= j => Precedes(views[i], views[j])
  BY TraceFacts
<1>2. n > 0
  BY <1>1
<1>3. /\ after \in Seq(Views) /\ rest \in Seq(ClientBound)
      /\ Len(after) = n /\ Len(rest) = n - 1
      /\ \A i \in 1 .. n : after[i] = views[i + 1]
      /\ \A i \in 1 .. n - 1 : rest[i] = packets[i + 1]
  BY <1>1, <1>2
<1> HIDE DEF after, rest, n
<1>4. ASSUME NEW i \in 1 .. n - 1
      PROVE  Follows(server, after[i], rest[i], after[i + 1])
  <2>1. i + 1 \in 1 .. n /\ i \in 1 .. n
    BY <1>1
  <2>2. QED
    BY <1>1, <1>3, <2>1
<1>5. ASSUME NEW i \in 1 .. n, NEW j \in 1 .. n, i <= j
      PROVE  Precedes(after[i], after[j])
  <2>1. i + 1 \in 1 .. n + 1 /\ j + 1 \in 1 .. n + 1 /\ i + 1 <= j + 1
    BY <1>1, <1>5
  <2>2. QED
    BY <1>1, <1>3, <2>1
<1>6. Trace(server, after, rest)
  BY <1>1, <1>3, <1>4, <1>5 DEF Trace
<1>7. 1 \in 1 .. n /\ 1 + 1 = 2
  BY <1>1, <1>2
<1>8. QED
  BY <1>1, <1>3, <1>6, <1>7 DEF after, rest, n

\* The task reads a packet.
LEMMA TraceRead ==
  ASSUME NEW server, NEW views, NEW packets, Trace(server, views, packets),
         views[1].sent # << >>
  PROVE  LET after == [i \in 1 .. Len(views) |-> Read(views[i])]
         IN  /\ Trace(server, after, packets) /\ Len(after) = Len(views)
             /\ \A i \in 1 .. Len(views) :
                  /\ after[i] = Read(views[i])
                  /\ views[i].sent # << >> /\ views[i].sent[1] = views[1].sent[1]
                  /\ views[i].peer.compressed = views[1].peer.compressed
<1> DEFINE n == Len(packets)
           after == [i \in 1 .. Len(views) |-> Read(views[i])]
<1>1. /\ views \in Seq(Views) /\ packets \in Seq(ClientBound) /\ n \in Nat
      /\ Len(views) = n + 1
      /\ \A i \in 1 .. n + 1 : views[i] \in Views
      /\ \A i \in 1 .. n :
           packets[i] \in ClientBound /\ Follows(server, views[i], packets[i], views[i + 1])
      /\ \A i, j \in 1 .. n + 1 : i <= j => Precedes(views[i], views[j])
  BY TraceFacts
<1>2. ASSUME NEW i \in 1 .. n + 1
      PROVE  /\ views[i].sent # << >> /\ views[i].sent[1] = views[1].sent[1]
             /\ views[i].peer.compressed = views[1].peer.compressed
  <2>1. Precedes(views[1], views[i])
    BY <1>1
  <2>2. /\ views[1].sent \in Seq(ServerBound) /\ views[i].sent \in Seq(ServerBound)
        /\ views[1].peer \in Peers /\ views[i].peer \in Peers
    BY <1>1 DEF Views
  <2>3. Begins(views[1].sent, views[i].sent)
    BY <2>1 DEF Precedes
  <2>4. views[i].sent # << >> /\ views[i].sent[1] = views[1].sent[1]
    BY <2>2, <2>3 DEF Begins
  <2>5. QED
    BY <2>1, <2>4 DEF Precedes
<1>3. ASSUME NEW i \in 1 .. n + 1, NEW j \in 1 .. n + 1, i <= j
      PROVE  Read(views[i]) \in Views /\ Precedes(Read(views[i]), Read(views[j]))
  BY <1>1, <1>2, <1>3, ReadPrecedes
<1>4. \A i \in 1 .. n + 1 : Read(views[i]) \in Views
  BY <1>1, <1>3
<1>5. /\ after \in Seq(Views) /\ Len(after) = n + 1
      /\ \A i \in 1 .. n + 1 : after[i] = Read(views[i])
  BY <1>1, <1>4
<1> HIDE DEF after, n
<1>6. ASSUME NEW i \in 1 .. n
      PROVE  Follows(server, after[i], packets[i], after[i + 1])
  <2>1. i \in 1 .. n + 1 /\ i + 1 \in 1 .. n + 1
    BY <1>1
  <2>2. Follows(server, Read(views[i]), packets[i], Read(views[i + 1]))
    BY <1>1, <1>2, <2>1, ReadFollows
  <2>3. QED
    BY <1>5, <2>1, <2>2
<1>7. \A i, j \in 1 .. n + 1 : i <= j => Precedes(after[i], after[j])
  BY <1>3, <1>5
<1>8. Trace(server, after, packets)
  BY <1>1, <1>5, <1>6, <1>7 DEF Trace, n
<1>9. QED
  BY <1>1, <1>2, <1>5, <1>8 DEF after, n

\* A trace that goes on, where one ends, as another does.
Joins(server, first, second, packets, views) ==
  /\ Trace(server, views, packets)
  /\ \A i \in 1 .. Len(first) : views[i] = first[i]
  /\ views[Len(views)] = second[Len(second)]

\* Two traces are joined where one ends and the other begins.
LEMMA TraceJoin ==
  ASSUME NEW server, NEW first, NEW queued, Trace(server, first, queued),
         NEW second, NEW batch, Trace(server, second, batch),
         second[1] = first[Len(first)]
  PROVE  \E views : Joins(server, first, second, queued \o batch, views)
<1> DEFINE n == Len(queued)
           m == Len(batch)
           views == [i \in 1 .. Len(first) + Len(batch) |->
                       IF i <= Len(first) THEN first[i] ELSE second[i - Len(first) + 1]]
           packets == queued \o batch
<1>1. /\ first \in Seq(Views) /\ queued \in Seq(ClientBound) /\ n \in Nat
      /\ Len(first) = n + 1
      /\ \A i \in 1 .. n + 1 : first[i] \in Views
      /\ \A i \in 1 .. n : Follows(server, first[i], queued[i], first[i + 1])
      /\ \A i, j \in 1 .. n + 1 : i <= j => Precedes(first[i], first[j])
  BY TraceFacts
<1>2. /\ second \in Seq(Views) /\ batch \in Seq(ClientBound) /\ m \in Nat
      /\ Len(second) = m + 1
      /\ \A i \in 1 .. m + 1 : second[i] \in Views
      /\ \A i \in 1 .. m : Follows(server, second[i], batch[i], second[i + 1])
      /\ \A i, j \in 1 .. m + 1 : i <= j => Precedes(second[i], second[j])
  BY TraceFacts
<1>3. first[n + 1] = second[1]
  BY <1>1
<1>4. /\ packets \in Seq(ClientBound) /\ Len(packets) = n + m
      /\ \A i \in 1 .. n : packets[i] = queued[i]
      /\ \A i \in n + 1 .. n + m : packets[i] = batch[i - n]
  BY <1>1, <1>2
<1>5. /\ DOMAIN views = 1 .. n + 1 + m
      /\ \A i \in 1 .. n + 1 : views[i] = first[i]
      /\ \A i \in n + 2 .. n + 1 + m : views[i] = second[i - n]
  BY <1>1, <1>2
<1>6. \A i \in n + 1 .. n + 1 + m : views[i] = second[i - n] /\ i - n \in 1 .. m + 1
  <2>1. n + 1 - n = 1
    BY <1>1
  <2> HIDE DEF views, n, m
  <2>2. ASSUME NEW i \in n + 1 .. n + 1 + m
        PROVE  views[i] = second[i - n] /\ i - n \in 1 .. m + 1
    <3>1. CASE i = n + 1
      <4>1. i - n = 1 /\ i \in 1 .. n + 1
        BY <1>1, <3>1
      <4>2. QED
        BY <1>2, <1>3, <1>5, <3>1, <4>1
    <3>2. CASE i # n + 1
      <4>1. i \in n + 2 .. n + 1 + m /\ i - n \in 1 .. m + 1
        BY <1>1, <1>2, <3>2
      <4>2. QED
        BY <1>5, <4>1
    <3>3. QED
      BY <3>1, <3>2
  <2>3. QED
    BY <2>2
<1>7. views \in Seq(Views) /\ Len(views) = n + 1 + m
  <2>1. ASSUME NEW i \in 1 .. n + 1 + m
        PROVE  views[i] \in Views
    <3> HIDE DEF views, n, m
    <3>1. i \in 1 .. n + 1 \/ i \in n + 1 .. n + 1 + m
      BY <1>1, <1>2
    <3>2. QED
      BY <1>1, <1>2, <1>5, <1>6, <3>1
  <2>2. n + 1 + m \in Nat /\ views = [i \in 1 .. n + 1 + m |-> views[i]]
    BY <1>1, <1>2
  <2> HIDE DEF views
  <2>3. QED
    BY <2>1, <2>2
<1> HIDE DEF views, packets, n, m
<1>8. ASSUME NEW i \in 1 .. n + m
      PROVE  Follows(server, views[i], packets[i], views[i + 1])
  <2>1. CASE i <= n
    <3>1. i \in 1 .. n /\ i \in 1 .. n + 1 /\ i + 1 \in 1 .. n + 1
      BY <1>1, <1>2, <2>1
    <3>2. QED
      BY <1>1, <1>4, <1>5, <3>1
  <2>2. CASE i > n
    <3>1. /\ i \in n + 1 .. n + m /\ i \in n + 1 .. n + 1 + m
          /\ i + 1 \in n + 1 .. n + 1 + m
          /\ i - n \in 1 .. m /\ i + 1 - n = (i - n) + 1
      BY <1>1, <1>2, <2>2
    <3>2. /\ packets[i] = batch[i - n] /\ views[i] = second[i - n]
          /\ views[i + 1] = second[(i - n) + 1]
      <4>1. ASSUME NEW k, k = i + 1
            PROVE  views[k] = second[k - n]
        BY <1>6, <3>1, <4>1
      <4>2. QED
        BY <1>1, <1>2, <1>4, <1>6, <3>1, <4>1
    <3>3. QED
      BY <1>2, <3>1, <3>2
  <2>3. QED
    BY <1>1, <1>2, <2>1, <2>2
<1>9. ASSUME NEW i \in 1 .. n + 1 + m, NEW j \in 1 .. n + 1 + m, i <= j
      PROVE  Precedes(views[i], views[j])
  <2>1. CASE j <= n + 1
    <3>1. i \in 1 .. n + 1 /\ j \in 1 .. n + 1
      BY <1>1, <1>2, <1>9, <2>1
    <3>2. QED
      BY <1>1, <1>5, <1>9, <3>1
  <2>2. CASE i > n
    <3>1. i \in n + 1 .. n + 1 + m /\ j \in n + 1 .. n + 1 + m /\ i - n <= j - n
      BY <1>1, <1>2, <1>9, <2>2
    <3>2. QED
      BY <1>2, <1>6, <3>1
  <2>3. CASE i <= n /\ j > n + 1
    <3>1. /\ i \in 1 .. n + 1 /\ n + 1 \in 1 .. n + 1 /\ i <= n + 1
          /\ j \in n + 1 .. n + 1 + m /\ 1 \in 1 .. m + 1 /\ 1 <= j - n
      BY <1>1, <1>2, <2>3
    <3>2. Precedes(views[i], first[n + 1]) /\ views[i] \in Views
      BY <1>1, <1>5, <3>1
    <3>3. Precedes(second[1], views[j]) /\ views[j] \in Views /\ second[1] \in Views
      BY <1>2, <1>6, <3>1
    <3>4. QED
      BY <1>3, <3>2, <3>3, PrecedesTransitive
  <2>4. QED
    BY <1>1, <1>2, <2>1, <2>2, <2>3
<1>10. Trace(server, views, packets)
  BY <1>4, <1>7, <1>8, <1>9, <1>1, <1>2 DEF Trace
<1>11. views[n + 1 + m] = second[m + 1]
  <2>1. n + 1 + m \in n + 1 .. n + 1 + m /\ n + 1 + m - n = m + 1
    BY <1>1, <1>2
  <2>2. ASSUME NEW k, k = n + 1 + m
        PROVE  views[k] = second[k - n]
    BY <1>6, <2>1, <2>2
  <2>3. QED
    BY <1>1, <1>2, <2>1, <2>2
<1>12. Joins(server, first, second, packets, views)
  BY <1>1, <1>2, <1>5, <1>7, <1>10, <1>11 DEF Joins
<1>13. QED
  BY <1>12 DEF packets

-----------------------------------------------------------------------------
(* Where the two sides stand *)

\* Whom the server lets in: a client with Forge that has answered the whole replay,
\* a player that its proxy vouched for.
Admits(server, p) ==
  p.profile # "Absent" =>
    /\ ShouldReplay(p.forge_kind) => p.steps = server.fml2_steps
    /\ server.forwarding = "Modern" /\ ~ShouldReplay(p.forge_kind) =>
         p.key_valid /\ p.profile = "Forwarded"

\* The name a client was let in with is the one its task keeps, except where the
\* handshake already carried one, from a proxy of the older kinds.
Remembers(server, cs, p) ==
  server.forwarding \notin {"Legacy", "BungeeGuard"} /\ p.profile # "Absent" =>
    cs.game_profile = p.profile

\* The version the task works with and the one the client has are on the same
\* side of every version at which the login changes.
Agree(p, cs) ==
  \A floor \in {V1_8, V1_13, V1_20_2} :
    cs.protocol_version >= floor <=> p.protocol >= floor

\* The answer to a query of the login.
Answer(message_id, key_valid) ==
  [type |-> "CustomQueryAnswer", message_id |-> message_id, key_valid |-> key_valid]

\* A client that has opened the connection with a handshake and what goes with it.
Greets(server, w) ==
  LET hello == w.sent[1]
  IN  /\ w.sent = << hello, Opening(hello).packet >> /\ hello.type = "Handshake"
      /\ w.peer.phase = Opening(hello).phase
      /\ w.peer.protocol = hello.protocol /\ w.peer.forge_kind = hello.forge_kind
      /\ Familiar(server, hello.protocol)
      /\ w.peer.profile = "Absent" /\ w.peer.steps = 0
\* A client in Status, waiting or with one of its two questions under way.
Asks(cs, w) ==
  /\ cs.state = "Status" /\ w.peer.phase = "Status"
  /\ w.sent \in {<< >>, << Packet("StatusRequest") >>, << Packet("PingRequest") >>}

\* A client in Login; and there, the packet that the task waits for: LoginStart, the
\* answer of the proxy, or the answer to the last step of the replay.
LogsIn(cs, w) ==
  /\ cs.state = "Login" /\ w.peer.phase = "Login" /\ ~cs.kick_message
  /\ Agree(w.peer, cs) /\ cs.forge_kind = w.peer.forge_kind
Starts(cs, server, w) ==
  /\ w.sent = << Packet("LoginStart") >>
  /\ w.peer.steps = 0 /\ cs.forge_session.pending = {}
  /\ server.forwarding \notin {"Legacy", "BungeeGuard"} => cs.game_profile = "Absent"
Vouches(cs, server, w) ==
  /\ w.sent = << Answer(cs.message_id, w.peer.key_valid) >>
  /\ server.forwarding = "Modern" /\ cs.forge_session.pending = {}
  /\ ShouldReplay(w.peer.forge_kind) => server.fml2_steps = 0
  /\ w.peer.steps = 0 /\ cs.game_profile = "Absent"
Replays(cs, server, w) ==
  /\ w.sent = << Answer(cs.forge_session.next_message_id, w.peer.key_valid) >>
  /\ cs.forge_session.pending = {cs.forge_session.next_message_id}
  /\ ShouldReplay(w.peer.forge_kind)
  /\ cs.forge_session.next_step = w.peer.steps /\ w.peer.steps <= server.fml2_steps
  /\ cs.game_profile # "Absent"

\* A client let in that the task still has in Login.
LetIn(cs, w) ==
  /\ cs.state = "Login" /\ w.peer.phase = "Configuration"
  /\ SupportsConfigurationState(cs.protocol_version)
  /\ w.sent = << Packet("LoginAcknowledged"), Packet("ConfigurationPluginMessage") >>
\* A client sent on to Play that the task still has in Configuration.
Configures(cs, w) ==
  /\ cs.state = "Configuration" /\ w.peer.phase = "Play" /\ ~w.peer.joined
  /\ w.sent \in {<< Packet("ConfigurationPluginMessage"), Packet("AcknowledgeConfiguration") >>,
                 << Packet("AcknowledgeConfiguration") >>}
\* A client in the world.
Plays(cs, w) ==
  /\ cs.state = "Play" /\ w.peer.joined
  /\ \A i \in DOMAIN w.sent : w.sent[i] \in {Packet("Unknown"), Packet("PlayCommand")}
\* A client that will be kicked.
Rejects(cs, w) ==
  /\ cs.kick_message /\ cs.state = "Login"
  /\ w.peer.phase = "Login" /\ w.sent = << >>

\* The stages of the conversation, by what the task expects and what comes.
Stage(cs, server, w) ==
  \/ cs = DefaultClientState /\ Greets(server, w)
  \/ Asks(cs, w) /\ ~cs.kick_message
  \/ LogsIn(cs, w) /\ Starts(cs, server, w)
  \/ LogsIn(cs, w) /\ Vouches(cs, server, w)
  \/ LogsIn(cs, w) /\ Replays(cs, server, w)
  \/ LetIn(cs, w) /\ ~cs.kick_message
  \/ Configures(cs, w) /\ ~cs.kick_message
  \/ Plays(cs, w) /\ ~cs.kick_message
  \/ Rejects(cs, w)

\* A client to be kicked was not let in, and nothing was queued for it.
TurnsAway(cs, batch, p) ==
  cs.kick_message => cs.state = "Login" /\ batch = << >> /\ p.profile = "Absent"

\* A handler queued packets that come when the client expects them, and knows
\* what the client will do then.
Answered(server, v, outcome) ==
  \E w \in Views :
    /\ Delivers(server, v, outcome.batch, w)
    /\ Admits(server, w.peer)
    /\ Remembers(server, outcome.client_state, w.peer)
    /\ TurnsAway(outcome.client_state, outcome.batch, w.peer)
    /\ outcome.error # "Disconnected" => Stage(outcome.client_state, server, w)

\* A handler that queued its packets has answered.
LEMMA AnsweredQueued ==
  ASSUME NEW server, NEW v, NEW w \in Views, NEW cs, NEW batch,
         Delivers(server, v, batch, w), Admits(server, w.peer),
         Remembers(server, cs, w.peer), TurnsAway(cs, batch, w.peer),
         Stage(cs, server, w)
  PROVE  Answered(server, v, Queued(cs, batch))
BY DEF Queued, Answered

\* A handler that fails queues nothing, and the client stays where it was.
LEMMA AnsweredFailed ==
  ASSUME NEW server, NEW v \in Views, NEW cs, NEW error, Admits(server, v.peer),
         Remembers(server, cs, v.peer), TurnsAway(cs, << >>, v.peer),
         error = "Disconnected" \/ Stage(cs, server, v)
  PROVE  Answered(server, v, Failed(cs, error))
BY DeliversNothing DEF Failed, Answered

\* A single packet.
LEMMA DeliversOne ==
  ASSUME NEW server, NEW v \in Views, NEW packet \in ClientBound, NEW w,
         Follows(server, v, packet, w)
  PROVE  Delivers(server, v, << packet >>, w) /\ Becomes(v, packet, w)
<1>1. Append(<< >>, packet) = << packet >> /\ << >> \in Seq(ClientBound)
  OBVIOUS
<1>2. Delivers(server, v, Append(<< >>, packet), w)
  BY DeliversNothing, DeliversMore
<1>3. QED
  BY <1>1, <1>2, FollowsBecomes

-----------------------------------------------------------------------------
(* The handlers, stage by stage *)

\* Packets without contents that a client expects and does not answer.
LEMMA PlainFollows ==
  ASSUME NEW server, NEW v \in Views,
         NEW type \in {"PongResponse", "ConfigurationData", "Login", "PlayData",
                       "KeepAlive", "ActionBar", "LoginDisconnect"},
         \/ type = "PongResponse" /\ v.peer.phase = "Status"
         \/ type = "ConfigurationData" /\ v.peer.phase = "Configuration"
         \/ type = "Login" /\ v.peer.phase = "Play" /\ ~v.peer.joined
         \/ type \in {"PlayData", "KeepAlive", "ActionBar"} /\ v.peer.joined
         \/ type = "LoginDisconnect" /\ v.peer.phase = "Login"
  PROVE  LET w == After(v, Packet(type))
         IN  /\ Follows(server, v, Packet(type), w)
             /\ Becomes(v, Packet(type), w) /\ w.sent = v.sent
<1> DEFINE w == After(v, Packet(type))
<1>1. Packet(type) \in ClientBound /\ Packet(type).type = type
  BY PlainPackets DEF PlainTypes
<1>2. Follows(server, v, Packet(type), w)
  BY <1>1 DEF Follows, Live, Expected, Views, WellFormed
<1>3. Becomes(v, Packet(type), w)
  BY <1>1, <1>2, FollowsBecomes
<1>4. Replies(v.peer, Packet(type)) = << >>
  BY <1>1 DEF Replies
<1>5. v.sent \o << >> = v.sent
  BY DEF Views
<1>6. QED
  BY <1>2, <1>3, <1>4, <1>5 DEF Becomes

\* send_play_packets, once the client was let in.
LEMMA SendPlayPacketsAnswered ==
  ASSUME NEW server \in ServerStates, NEW v \in Views, NEW batch, NEW x \in Views,
         Delivers(server, v, batch, x), batch \in Seq(ClientBound),
         NEW cs \in ClientStates, ~cs.kick_message,
         x.peer.phase = "Play", ~x.peer.joined, x.sent = << >>,
         Admits(server, x.peer), Remembers(server, cs, x.peer),
         Admits(server, v.peer), Remembers(server, cs, v.peer)
  PROVE  Answered(server, v, SendPlayPackets(cs, batch, server))
<1> DEFINE y == After(x, Packet("Login"))
           w == After(y, Packet("PlayData"))
           playing == SetKeepAliveShouldEnable([cs EXCEPT !.state = "Play"])
           world == << Packet("Login"), Packet("PlayData") >>
<1>1. /\ Follows(server, x, Packet("Login"), y) /\ Becomes(x, Packet("Login"), y)
      /\ y.sent = x.sent
  BY PlainFollows
<1>2. Packet("Login") \in ClientBound /\ Packet("Login").type = "Login"
      /\ Packet("PlayData") \in ClientBound /\ Packet("PlayData").type = "PlayData"
  BY PlainPackets DEF PlainTypes
<1> HIDE DEF y
<1>3. y \in Views /\ y.peer.joined
  BY <1>1, <1>2 DEF Becomes
<1>4. /\ Follows(server, y, Packet("PlayData"), w) /\ Becomes(y, Packet("PlayData"), w)
      /\ w.sent = y.sent
  BY <1>3, PlainFollows
<1> HIDE DEF w
<1>5. Delivers(server, v, Append(Append(batch, Packet("Login")), Packet("PlayData")), w)
  BY <1>1, <1>2, <1>4, DeliversMore
<1>6. Append(Append(batch, Packet("Login")), Packet("PlayData")) = batch \o world
  <2>1. \A p, q \in ClientBound : Append(Append(batch, p), q) = batch \o << p, q >>
    OBVIOUS
  <2>2. QED
    BY <1>2, <2>1
<1>7. /\ w \in Views /\ w.peer.joined /\ w.sent = << >> /\ w.peer.profile = x.peer.profile
      /\ w.peer.steps = x.peer.steps /\ w.peer.forge_kind = x.peer.forge_kind
      /\ w.peer.key_valid <=> x.peer.key_valid
  BY <1>1, <1>2, <1>3, <1>4 DEF Becomes
<1>8. /\ playing \in ClientStates /\ playing.state = "Play" /\ ~playing.kick_message
      /\ playing.game_profile = cs.game_profile
  BY DEF SetKeepAliveShouldEnable, ClientStates, States
<1> HIDE DEF playing, world
<1>9. Admits(server, w.peer) /\ Remembers(server, playing, w.peer)
  BY <1>7, <1>8 DEF Admits, Remembers
<1>10. Stage(playing, server, w)
  <2>1. DOMAIN w.sent = {}
    BY <1>7
  <2>2. QED
    BY <1>7, <1>8, <2>1 DEF Stage, Plays
<1>11. Answered(server, v, Queued(playing, batch \o world))
  <2>1. TurnsAway(playing, batch \o world, w.peer)
    BY <1>8 DEF TurnsAway
  <2>2. QED
    BY <1>5, <1>6, <1>7, <1>9, <1>10, <2>1, AnsweredQueued
<1>12. Answered(server, v, Failed(cs, "Disconnected"))
  BY AnsweredFailed DEF TurnsAway
<1>13. QED
  BY <1>11, <1>12 DEF SendPlayPackets, playing, world

\* What LoginSuccess makes of a client, after SetCompression or without it.
LEMMA SuccessFollows ==
  ASSUME NEW server, NEW v \in Views, NEW profile \in Profiles \ {"Absent"},
         v.peer.phase = "Login"
  PROVE  LET success == [type |-> "LoginSuccess", profile |-> profile]
             w == After(v, success)
         IN  /\ success \in ClientBound /\ Follows(server, v, success, w)
             /\ Becomes(v, success, w)
             /\ w.peer.phase = IF SupportsConfigurationState(v.peer.protocol)
                               THEN "Configuration" ELSE "Play"
             /\ w.peer.profile = profile /\ ~w.peer.joined
             /\ v.sent = << >> =>
                  w.sent = IF SupportsConfigurationState(v.peer.protocol)
                           THEN << Packet("LoginAcknowledged"),
                                   Packet("ConfigurationPluginMessage") >>
                           ELSE << >>
<1> DEFINE success == [type |-> "LoginSuccess", profile |-> profile]
           w == After(v, success)
<1>1. success \in ClientBound /\ success.type = "LoginSuccess" /\ success.profile = profile
  BY DEF ClientBound
<1>2. Follows(server, v, success, w)
  <2> HIDE DEF success
  <2>1. QED
    BY <1>1 DEF Follows, Live, Expected
<1> HIDE DEF success, w
<1>3. Becomes(v, success, w)
  BY <1>1, <1>2, FollowsBecomes
<1>4. /\ w.peer.phase = IF SupportsConfigurationState(v.peer.protocol)
                        THEN "Configuration" ELSE "Play"
      /\ w.peer.profile = profile /\ ~w.peer.joined
  BY <1>1, <1>3 DEF Becomes, Views, WellFormed
<1>5. ASSUME v.sent = << >>
      PROVE  w.sent = IF SupportsConfigurationState(v.peer.protocol)
                      THEN << Packet("LoginAcknowledged"),
                              Packet("ConfigurationPluginMessage") >>
                      ELSE << >>
  <2> DEFINE r == Replies(v.peer, success)
  <2>1. r = IF SupportsConfigurationState(v.peer.protocol)
            THEN << Packet("LoginAcknowledged"), Packet("ConfigurationPluginMessage") >>
            ELSE << >>
    BY <1>1 DEF Replies
  <2>2. r \in Seq(ServerBound) /\ w.sent = << >> \o r
    BY <1>3, <1>5 DEF Becomes
  <2> HIDE DEF r
  <2>3. w.sent = r
    BY <2>2
  <2>4. QED
    BY <2>1, <2>3
<1>6. QED
  BY <1>1, <1>2, <1>3, <1>4, <1>5 DEF success, w

\* What SetCompression makes of it.
LEMMA CompressionFollows ==
  ASSUME NEW server, NEW v \in Views, v.peer.phase = "Login", v.sent = << >>,
         v.peer.protocol >= V1_8, server.compression
  PROVE  LET w == After(v, Packet("SetCompression"))
         IN  /\ Packet("SetCompression") \in ClientBound
             /\ Follows(server, v, Packet("SetCompression"), w)
             /\ Becomes(v, Packet("SetCompression"), w)
             /\ w.peer.phase = "Login" /\ w.sent = << >>
<1> DEFINE packet == Packet("SetCompression")
           w == After(v, packet)
<1>1. packet \in ClientBound /\ packet.type = "SetCompression"
  BY PlainPackets DEF PlainTypes
<1> HIDE DEF packet
<1>2. Follows(server, v, packet, w)
  BY <1>1 DEF Follows, Live, Expected
<1> HIDE DEF w
<1>3. Becomes(v, packet, w)
  BY <1>1, <1>2, FollowsBecomes
<1>4. w.peer.phase = "Login" /\ w.sent = << >>
  <2>1. Replies(v.peer, packet) = << >> /\ << >> \o << >> = << >>
    BY <1>1 DEF Replies
  <2>2. QED
    BY <1>1, <1>3, <2>1 DEF Becomes
<1>5. QED
  BY <1>1, <1>2, <1>3, <1>4 DEF packet, w

\* fire_login_success, when the client waits for it with nothing under way.
LEMMA FireLoginSuccessAnswered ==
  ASSUME NEW server \in ServerStates, NEW v \in Views, NEW cs \in ClientStates,
         NEW profile \in Profiles \ {"Absent"},
         LogsIn(cs, v), v.sent = << >>,
         ShouldReplay(v.peer.forge_kind) => v.peer.steps = server.fml2_steps,
         server.forwarding = "Modern" /\ ~ShouldReplay(v.peer.forge_kind)
           => v.peer.key_valid /\ profile = "Forwarded",
         server.forwarding \notin {"Legacy", "BungeeGuard"}
           => cs.game_profile \in {"Absent", profile}
  PROVE  Answered(server, v, FireLoginSuccess(cs, << >>, server, profile))
<1> DEFINE success == [type |-> "LoginSuccess", profile |-> profile]
           compress == IsAfterInclusive(cs.protocol_version, V1_8) /\ server.compression
           x == IF compress THEN After(v, Packet("SetCompression")) ELSE v
           first == IF compress THEN << Packet("SetCompression") >> ELSE << >>
           y == After(x, success)
           named == SetGameProfile(cs, profile)
           configured == SupportsConfigurationState(cs.protocol_version)
<1>1. /\ v.peer.phase = "Login" /\ ~cs.kick_message /\ cs.state = "Login"
      /\ (v.peer.protocol >= V1_8 <=> cs.protocol_version >= V1_8)
      /\ (SupportsConfigurationState(v.peer.protocol) <=> configured)
  BY DEF LogsIn, Agree, SupportsConfigurationState, IsAfterInclusive
<1>2. /\ Delivers(server, v, first, x) /\ first \in Seq(ClientBound)
      /\ x \in Views /\ x.peer.phase = "Login" /\ x.sent = << >>
      /\ x.peer.steps = v.peer.steps /\ x.peer.forge_kind = v.peer.forge_kind
      /\ x.peer.protocol = v.peer.protocol
      /\ x.peer.key_valid <=> v.peer.key_valid
  <2>1. CASE compress
    <3> DEFINE z == After(v, Packet("SetCompression"))
    <3>1. /\ Packet("SetCompression") \in ClientBound
          /\ Follows(server, v, Packet("SetCompression"), z)
          /\ Becomes(v, Packet("SetCompression"), z)
          /\ z.peer.phase = "Login" /\ z.sent = << >>
      BY <1>1, <2>1, CompressionFollows DEF IsAfterInclusive
    <3>2. x = z /\ first = << Packet("SetCompression") >>
      BY <2>1
    <3> HIDE DEF z, x, first
    <3>3. Delivers(server, v, << Packet("SetCompression") >>, z)
      BY <3>1, DeliversOne
    <3>4. Packet("SetCompression").type = "SetCompression"
      BY DEF Packet
    <3>5. QED
      BY <3>1, <3>2, <3>3, <3>4 DEF Becomes
  <2>2. CASE ~compress
    <3>1. x = v /\ first = << >> /\ << >> \in Seq(ClientBound)
      BY <2>2
    <3> HIDE DEF x, first
    <3>2. QED
      BY <1>1, <3>1, DeliversNothing
  <2>3. QED
    BY <2>1, <2>2
<1> HIDE DEF compress, x, first
<1>3. /\ success \in ClientBound /\ Follows(server, x, success, y)
      /\ Becomes(x, success, y)
      /\ y.peer.phase = IF configured THEN "Configuration" ELSE "Play"
      /\ y.peer.profile = profile /\ ~y.peer.joined
      /\ y.sent = IF configured
                  THEN << Packet("LoginAcknowledged"), Packet("ConfigurationPluginMessage") >>
                  ELSE << >>
  <2>1. SupportsConfigurationState(x.peer.protocol) <=> configured
    BY <1>1, <1>2
  <2>2. /\ success \in ClientBound /\ Follows(server, x, success, y)
        /\ Becomes(x, success, y)
        /\ y.peer.phase = IF SupportsConfigurationState(x.peer.protocol)
                          THEN "Configuration" ELSE "Play"
        /\ y.peer.profile = profile /\ ~y.peer.joined
        /\ y.sent = IF SupportsConfigurationState(x.peer.protocol)
                    THEN << Packet("LoginAcknowledged"),
                            Packet("ConfigurationPluginMessage") >>
                    ELSE << >>
    BY <1>2, SuccessFollows
  <2> HIDE DEF success, y, configured
  <2>3. QED
    BY <2>1, <2>2
<1>4. success.type = "LoginSuccess"
  OBVIOUS
<1> HIDE DEF success, y, configured
<1>5. /\ Delivers(server, v, Append(first, success), y) /\ y \in Views
      /\ Append(first, success) \in Seq(ClientBound)
      /\ << >> \o first \o << success >> = Append(first, success)
  BY <1>2, <1>3, DeliversMore
<1>6. /\ named \in ClientStates /\ ~named.kick_message /\ named.state = "Login"
      /\ named.protocol_version = cs.protocol_version
      /\ server.forwarding \notin {"Legacy", "BungeeGuard"} => named.game_profile = profile
  BY <1>1, SetGameProfileType DEF SetGameProfile, ClientStates
<1> HIDE DEF named
<1>7. /\ Admits(server, y.peer) /\ Remembers(server, named, y.peer)
      /\ Admits(server, v.peer) /\ Remembers(server, named, v.peer)
  <2>1. v.peer.profile = "Absent"
    BY <1>1 DEF Views, WellFormed
  <2>2. /\ y.peer.steps = v.peer.steps /\ y.peer.forge_kind = v.peer.forge_kind
        /\ y.peer.key_valid <=> v.peer.key_valid
    BY <1>2, <1>3, <1>4 DEF Becomes
  <2>3. QED
    BY <1>3, <1>6, <2>1, <2>2 DEF Admits, Remembers
<1>8. CASE configured
  <2>1. Stage(named, server, y)
    BY <1>3, <1>6, <1>8 DEF Stage, LetIn, configured
  <2>2. Answered(server, v, Queued(named, Append(first, success)))
    BY <1>5, <1>6, <1>7, <2>1, AnsweredQueued DEF TurnsAway
  <2>3. QED
    BY <1>5, <1>8, <2>2 DEF FireLoginSuccess, configured, compress, first, success, named
<1>9. CASE ~configured
  <2>1. Answered(server, v, SendPlayPackets(named, Append(first, success), server))
    BY <1>3, <1>5, <1>6, <1>7, <1>9, SendPlayPacketsAnswered
  <2>2. QED
    BY <1>5, <1>9, <2>1 DEF FireLoginSuccess, configured, compress, first, success, named
<1>10. QED
  BY <1>8, <1>9

\* A query and the answer to it.
Query(message_id, step) ==
  [type |-> "CustomQuery", message_id |-> message_id, step |-> step]
Queried(server, v, message_id, step, w) ==
  /\ Query(message_id, step) \in ClientBound
  /\ Follows(server, v, Query(message_id, step), w)
  /\ Becomes(v, Query(message_id, step), w) /\ w.peer.phase = "Login"
  /\ w.sent = << Answer(message_id, w.peer.key_valid) >>
  /\ w.peer.profile = "Absent"
  /\ w.peer.steps = IF step = 0 THEN v.peer.steps ELSE step

\* The query is expected and answered.
LEMMA QueryFollows ==
  ASSUME NEW server, NEW v \in Views, v.peer.phase = "Login", v.sent = << >>,
         NEW message_id \in Int, NEW step \in Nat,
         \/ step = 0 /\ v.peer.protocol >= V1_13
         \/ step = v.peer.steps + 1 /\ ShouldReplay(v.peer.forge_kind)
  PROVE  Queried(server, v, message_id, step, After(v, Query(message_id, step)))
<1> DEFINE query == Query(message_id, step)
           w == After(v, query)
<1>1. /\ query \in ClientBound /\ query.type = "CustomQuery" /\ query.step = step
      /\ query.message_id = message_id
  BY DEF ClientBound, Query
<1> HIDE DEF query
<1>2. Follows(server, v, query, w)
  BY <1>1 DEF Follows, Live, Expected
<1> HIDE DEF w
<1>3. Becomes(v, query, w)
  BY <1>1, <1>2, FollowsBecomes
<1>4. /\ w.peer.phase = "Login" /\ w.peer.steps = IF step = 0 THEN v.peer.steps ELSE step
      /\ w.peer.profile = "Absent"
  BY <1>1, <1>3 DEF Becomes, Views, WellFormed
<1>5. w.sent = << Answer(message_id, w.peer.key_valid) >>
  <2> DEFINE r == Replies(v.peer, query)
  <2>1. r = << Answer(message_id, v.peer.key_valid) >>
    BY <1>1 DEF Replies, Answer
  <2>2. r \in Seq(ServerBound) /\ w.sent = << >> \o r
    BY <1>3 DEF Becomes
  <2>3. w.peer.key_valid = v.peer.key_valid
    BY <1>3 DEF Becomes, Views, Peers
  <2> HIDE DEF r
  <2>4. w.sent = r
    BY <2>2
  <2>5. QED
    BY <2>1, <2>3, <2>4
<1>6. QED
  BY <1>1, <1>2, <1>3, <1>4, <1>5 DEF query, w, Queried

\* enqueue_next_forge_step, when all the steps so far are answered.
LEMMA EnqueueNextForgeStepAnswered ==
  ASSUME NEW server \in ServerStates, NEW v \in Views, NEW cs \in ClientStates,
         LogsIn(cs, v), v.sent = << >>, ShouldReplay(v.peer.forge_kind),
         cs.forge_session.pending = {}, cs.forge_session.next_step = v.peer.steps,
         cs.forge_session.next_step < server.fml2_steps, cs.game_profile # "Absent"
  PROVE  Answered(server, v, EnqueueNextForgeStep(cs))
<1> DEFINE session == TakeNextStep(cs.forge_session)
           query == Query(session.next_message_id, session.next_step)
           after == [cs EXCEPT !.forge_session = session]
           w == After(v, query)
<1>1. /\ session \in Sessions /\ session.next_step \in Nat /\ session.next_message_id \in Nat
      /\ session.next_step = v.peer.steps + 1
      /\ session.pending = {session.next_message_id}
  <2>1. cs.forge_session \in Sessions
    BY DEF ClientStates
  <2>2. /\ session.next_step = cs.forge_session.next_step + 1
        /\ session.next_message_id = cs.forge_session.next_message_id + 1
        /\ session.pending = {} \cup {cs.forge_session.next_message_id + 1}
    BY <2>1 DEF TakeNextStep, Sessions
  <2>3. QED
    BY <2>1, <2>2, TakeNextStepType
<1> HIDE DEF session
<1>2. v.peer.phase = "Login" /\ v.peer.steps \in Nat /\ server.fml2_steps \in Nat
  BY DEF LogsIn, Views, Peers, ServerStates
<1>3. /\ query \in ClientBound /\ Follows(server, v, query, w) /\ Becomes(v, query, w)
      /\ w.peer.phase = "Login"
      /\ w.sent = << Answer(session.next_message_id, w.peer.key_valid) >>
      /\ w.peer.profile = "Absent" /\ w.peer.steps = v.peer.steps + 1
  <2>1. session.next_step # 0 /\ session.next_message_id \in Int
    BY <1>1, <1>2
  <2>2. Queried(server, v, session.next_message_id, session.next_step, w)
    BY <1>1, <1>2, <2>1, QueryFollows
  <2>3. QED
    BY <1>1, <2>1, <2>2 DEF Queried
<1> HIDE DEF query, w
<1>4. /\ after.forge_session = session /\ after.state = cs.state
      /\ after.kick_message = cs.kick_message /\ after.game_profile = cs.game_profile
      /\ after.forge_kind = cs.forge_kind /\ after.protocol_version = cs.protocol_version
  BY DEF ClientStates
<1> HIDE DEF after
<1>5. Delivers(server, v, << query >>, w) /\ w \in Views
  BY <1>3, DeliversOne DEF Becomes
<1>6. LogsIn(after, w)
  <2>1. w.peer.protocol = v.peer.protocol /\ w.peer.forge_kind = v.peer.forge_kind
    BY <1>3 DEF Becomes
  <2>2. QED
    BY <1>3, <1>4, <2>1 DEF LogsIn, Agree
<1>7. Replays(after, server, w)
  <2>1. w.peer.forge_kind = v.peer.forge_kind
    BY <1>3 DEF Becomes
  <2>2. v.peer.steps + 1 <= server.fml2_steps
    BY <1>2
  <2>3. QED
    BY <1>1, <1>3, <1>4, <2>1, <2>2 DEF Replays
<1>8. Admits(server, w.peer) /\ Remembers(server, after, w.peer)
  BY <1>3 DEF Admits, Remembers
<1>9. TurnsAway(after, << query >>, w.peer)
  BY <1>4 DEF TurnsAway, LogsIn
<1>10. Answered(server, v, Queued(after, << query >>))
  BY <1>5, <1>6, <1>7, <1>8, <1>9, AnsweredQueued DEF Stage
<1>11. QED
  BY <1>10 DEF EnqueueNextForgeStep, after, session, query, Query

\* A view of which the task reads the only packet.
LEMMA ReadOne ==
  ASSUME NEW w \in Views, NEW packet, w.sent = << packet >>
  PROVE  /\ packet \in ServerBound /\ Read(w) \in Views
         /\ Read(w).peer = w.peer /\ Read(w).sent = << >> /\ w.sent[1] = packet
<1>1. packet = w.sent[1] /\ w.sent \in Seq(ServerBound) /\ Len(w.sent) = 1
  BY DEF Views
<1>2. packet \in ServerBound
  BY <1>1
<1>3. Tail(<< packet >>) = << >> /\ << >> \in Seq(ServerBound)
  OBVIOUS
<1>4. QED
  BY <1>1, <1>2, <1>3 DEF Read, Views

\* The first of two.
LEMMA ReadTwo ==
  ASSUME NEW w \in Views, NEW first, NEW second, w.sent = << first, second >>
  PROVE  /\ first \in ServerBound /\ Read(w) \in Views
         /\ Read(w).peer = w.peer /\ Read(w).sent = << second >> /\ w.sent[1] = first
<1>1. w.sent \in Seq(ServerBound) /\ first = w.sent[1] /\ second = w.sent[2]
  <2>1. w.sent \in Seq(ServerBound)
    BY DEF Views
  <2>2. << first, second >>[1] = first /\ << first, second >>[2] = second
    OBVIOUS
  <2>3. QED
    BY <2>1, <2>2
<1>2. first \in ServerBound /\ second \in ServerBound
  <2>1. Len(<< first, second >>) = 2
    OBVIOUS
  <2>2. 1 \in 1 .. Len(w.sent) /\ 2 \in 1 .. Len(w.sent)
    BY <2>1
  <2>3. QED
    BY <1>1, <2>2
<1>3. Tail(<< first, second >>) = << second >> /\ << second >> \in Seq(ServerBound)
  BY <1>2
<1>4. QED
  BY <1>1, <1>2, <1>3 DEF Read, Views

\* A client that logs in has no name yet.
LEMMA NamelessAdmits ==
  ASSUME NEW server, NEW cs, NEW v, v.peer.profile = "Absent"
  PROVE  Admits(server, v.peer) /\ Remembers(server, cs, v.peer)
BY DEF Admits, Remembers

\* A kick in Login, with nothing under way.
LEMMA KickAnswered ==
  ASSUME NEW server, NEW v \in Views, NEW cs \in ClientStates,
         LogsIn(cs, v), v.sent = << >>
  PROVE  Answered(server, v, Queued(Kick(cs), << >>))
<1>1. v.peer.profile = "Absent" /\ v.peer.phase = "Login" /\ cs.state = "Login"
  BY DEF LogsIn, Views, WellFormed
<1>2. Kick(cs).kick_message /\ Kick(cs).state = "Login"
  BY <1>1 DEF Kick, ClientStates
<1>3. Stage(Kick(cs), server, v)
  BY <1>1, <1>2 DEF Stage, Rejects
<1>4. TurnsAway(Kick(cs), << >>, v.peer)
  BY <1>1, <1>2 DEF TurnsAway
<1>5. QED
  BY <1>1, <1>3, <1>4, NamelessAdmits, DeliversNothing, AnsweredQueued

\* The handler of LoginStart.
LEMMA LoginStartAnswered ==
  ASSUME NEW server \in ServerStates, NEW v \in Views, NEW cs \in ClientStates,
         NEW velocity_id \in Int, LogsIn(cs, v), v.sent = << >>, v.peer.steps = 0,
         cs.forge_session.pending = {},
         server.forwarding \notin {"Legacy", "BungeeGuard"} => cs.game_profile = "Absent"
  PROVE  Answered(server, v, HandleLoginStart(cs, server, velocity_id))
<1>1. /\ v.peer.phase = "Login" /\ cs.forge_kind = v.peer.forge_kind /\ cs.state = "Login"
      /\ v.peer.profile = "Absent" /\ server.fml2_steps \in Nat
  BY DEF LogsIn, Views, WellFormed, ServerStates
<1>2. CASE ShouldReplay(cs.forge_kind) /\ server.fml2_steps > 0
  <2> DEFINE session == [NoSession EXCEPT !.active = TRUE]
             named == SetGameProfile(cs, "LoginStart")
             started == [named EXCEPT !.forge_session = session]
  <2>1. session \in Sessions /\ session.pending = {} /\ session.next_step = 0
    BY DEF NoSession, Sessions
  <2>2. /\ named \in ClientStates /\ named.game_profile # "Absent"
        /\ named.state = cs.state /\ named.kick_message = cs.kick_message
        /\ named.forge_kind = cs.forge_kind
        /\ named.protocol_version = cs.protocol_version
    BY SetGameProfileType DEF SetGameProfile, ClientStates, Profiles
  <2> HIDE DEF session, named
  <2>3. /\ started \in ClientStates /\ started.game_profile # "Absent"
        /\ started.forge_session = session
        /\ started.state = cs.state /\ started.kick_message = cs.kick_message
        /\ started.forge_kind = cs.forge_kind
        /\ started.protocol_version = cs.protocol_version
    BY <2>1, <2>2 DEF ClientStates
  <2> HIDE DEF started
  <2>4. LogsIn(started, v)
    BY <2>3 DEF LogsIn, Agree
  <2>5. ShouldReplay(v.peer.forge_kind) /\ 0 < server.fml2_steps
    BY <1>1, <1>2
  <2>6. Answered(server, v, EnqueueNextForgeStep(started))
    BY <2>1, <2>3, <2>4, <2>5, EnqueueNextForgeStepAnswered
  <2>7. QED
    BY <1>2, <2>6 DEF HandleLoginStart, started, named, session
<1>3. ASSUME ~(ShouldReplay(cs.forge_kind) /\ server.fml2_steps > 0)
      PROVE  ShouldReplay(v.peer.forge_kind) => server.fml2_steps = 0
  BY <1>1, <1>3
<1>4. CASE ~(ShouldReplay(cs.forge_kind) /\ server.fml2_steps > 0)
           /\ server.forwarding # "Modern"
  <2>1. Answered(server, v, FireLoginSuccess(cs, << >>, server, "LoginStart"))
    BY <1>3, <1>4, FireLoginSuccessAnswered DEF Profiles
  <2>2. QED
    BY <1>4, <2>1 DEF HandleLoginStart
<1>5. CASE /\ ~(ShouldReplay(cs.forge_kind) /\ server.fml2_steps > 0)
           /\ server.forwarding = "Modern" /\ IsModern(cs.protocol_version)
  <2> DEFINE query == Query(velocity_id, 0)
             asked == [cs EXCEPT !.message_id = velocity_id]
             w == After(v, query)
  <2>1. v.peer.protocol >= V1_13
    BY <1>5 DEF LogsIn, Agree, IsModern, IsAfterInclusive
  <2>2. Queried(server, v, velocity_id, 0, w)
    BY <1>1, <2>1, QueryFollows
  <2>3. /\ asked.message_id = velocity_id /\ asked.game_profile = cs.game_profile
        /\ asked.forge_session = cs.forge_session
        /\ asked.state = cs.state /\ asked.kick_message = cs.kick_message
        /\ asked.forge_kind = cs.forge_kind /\ asked.protocol_version = cs.protocol_version
    BY DEF ClientStates
  <2> HIDE DEF asked, w
  <2>4. /\ w \in Views /\ w.peer.phase = "Login" /\ w.peer.profile = "Absent"
        /\ w.peer.steps = 0 /\ w.peer.protocol = v.peer.protocol
        /\ w.peer.forge_kind = v.peer.forge_kind
        /\ w.sent = << Answer(velocity_id, w.peer.key_valid) >>
    BY <2>2 DEF Queried, Becomes
  <2>5. Delivers(server, v, << query >>, w)
    BY <2>2, DeliversOne DEF Queried
  <2>6. LogsIn(asked, w)
    BY <2>3, <2>4 DEF LogsIn, Agree
  <2>7. Vouches(asked, server, w)
    BY <1>3, <1>5, <2>3, <2>4 DEF Vouches
  <2>8. TurnsAway(asked, << query >>, w.peer)
    BY <2>6 DEF LogsIn, TurnsAway
  <2>9. Answered(server, v, Queued(asked, << query >>))
    BY <2>4, <2>5, <2>6, <2>7, <2>8, AnsweredQueued, NamelessAdmits DEF Stage
  <2>10. QED
    BY <1>5, <2>9 DEF HandleLoginStart, asked, Query
<1>6. CASE /\ ~(ShouldReplay(cs.forge_kind) /\ server.fml2_steps > 0)
           /\ server.forwarding = "Modern" /\ ~IsModern(cs.protocol_version)
  BY <1>6, KickAnswered DEF HandleLoginStart
<1>7. QED
  BY <1>2, <1>4, <1>5, <1>6

\* The answer to the query of the proxy.
LEMMA VelocityAnswerAnswered ==
  ASSUME NEW server \in ServerStates, NEW w \in Views, NEW cs \in ClientStates,
         LogsIn(cs, w), Vouches(cs, server, w), NEW packet, w.sent[1] = packet
  PROVE  /\ Answered(server, Read(w), HandleCustomQueryAnswer(cs, server, packet))
         /\ packet.type = "CustomQueryAnswer"
<1> DEFINE v == Read(w)
<1>1. packet = Answer(cs.message_id, w.peer.key_valid) /\ w.sent = << packet >>
  BY DEF Vouches
<1>2. v \in Views /\ v.peer = w.peer /\ v.sent = << >>
  BY <1>1, ReadOne
<1> HIDE DEF v
<1>3. /\ LogsIn(cs, v) /\ server.forwarding = "Modern" /\ cs.forge_session.pending = {}
      /\ ShouldReplay(v.peer.forge_kind) => v.peer.steps = server.fml2_steps
      /\ cs.game_profile = "Absent"
  BY <1>2 DEF LogsIn, Vouches
<1>4. /\ packet.message_id = cs.message_id /\ packet.key_valid = v.peer.key_valid
      /\ packet.type = "CustomQueryAnswer"
  BY <1>1, <1>2 DEF Answer
<1>5. ASSUME packet.key_valid
      PROVE  Answered(server, v, FireLoginSuccess(cs, << >>, server, "Forwarded"))
  BY <1>2, <1>3, <1>4, <1>5, FireLoginSuccessAnswered DEF Profiles
<1>6. Answered(server, v, Queued(Kick(cs), << >>))
  BY <1>2, <1>3, KickAnswered
<1>7. Answered(server, v, HandleVelocityAnswer(cs, server, packet))
  BY <1>5, <1>6 DEF HandleVelocityAnswer
<1>8. QED
  BY <1>3, <1>4, <1>7 DEF HandleCustomQueryAnswer, v

\* The answer to a step of the snapshot.
LEMMA ForgeAnswerAnswered ==
  ASSUME NEW server \in ServerStates, NEW w \in Views, NEW cs \in ClientStates,
         LogsIn(cs, w), Replays(cs, server, w), NEW packet, w.sent[1] = packet
  PROVE  /\ Answered(server, Read(w), HandleCustomQueryAnswer(cs, server, packet))
         /\ packet.type = "CustomQueryAnswer"
<1> DEFINE v == Read(w)
           id == packet.message_id
           answered == [cs EXCEPT !.forge_session.pending = @ \ {id}]
           done == [answered EXCEPT !.forge_session = NoSession]
<1>1. /\ packet = Answer(cs.forge_session.next_message_id, w.peer.key_valid)
      /\ w.sent = << packet >>
  BY DEF Replays
<1>2. v \in Views /\ v.peer = w.peer /\ v.sent = << >>
  BY <1>1, ReadOne
<1> HIDE DEF v
<1>3. /\ LogsIn(cs, v) /\ cs.forge_session.pending = {id} /\ id \in cs.forge_session.pending
      /\ ShouldReplay(v.peer.forge_kind) /\ cs.forge_session.next_step = v.peer.steps
      /\ v.peer.steps <= server.fml2_steps /\ cs.game_profile # "Absent"
      /\ packet.type = "CustomQueryAnswer"
  BY <1>1, <1>2 DEF LogsIn, Replays, Answer
<1>4. /\ answered \in ClientStates /\ answered.forge_session.pending = {}
      /\ answered.forge_session.next_step = cs.forge_session.next_step
      /\ answered.game_profile = cs.game_profile
      /\ answered.state = cs.state /\ answered.kick_message = cs.kick_message
      /\ answered.forge_kind = cs.forge_kind
      /\ answered.protocol_version = cs.protocol_version
  <2>1. cs.forge_session \in Sessions /\ {} \in SUBSET Nat
    BY DEF ClientStates
  <2>2. {id} \ {id} = {}
    OBVIOUS
  <2>3. answered = [cs EXCEPT !.forge_session.pending = {}]
    BY <1>3, <2>2
  <2> HIDE DEF answered
  <2>4. QED
    BY <2>1, <2>3 DEF ClientStates, Sessions
<1> HIDE DEF answered
<1>5. /\ done \in ClientStates /\ done.game_profile = cs.game_profile
      /\ done.state = cs.state /\ done.kick_message = cs.kick_message
      /\ done.forge_kind = cs.forge_kind /\ done.protocol_version = cs.protocol_version
  <2>1. NoSession \in Sessions
    BY DEF NoSession, Sessions
  <2>2. QED
    BY <1>4, <2>1 DEF ClientStates
<1> HIDE DEF done
<1>6. LogsIn(answered, v) /\ LogsIn(done, v)
  BY <1>3, <1>4, <1>5 DEF LogsIn, Agree
<1>7. CASE HasNextStep(answered.forge_session, server)
  <2>1. Answered(server, v, EnqueueNextForgeStep(answered))
    BY <1>2, <1>3, <1>4, <1>6, <1>7, EnqueueNextForgeStepAnswered DEF HasNextStep
  <2>2. QED
    BY <1>3, <1>7, <2>1 DEF HandleCustomQueryAnswer, HandleForgeAnswer, v, answered
<1>8. CASE ~HasNextStep(answered.forge_session, server)
  <2>1. v.peer.steps = server.fml2_steps
    <3>1. v.peer.steps \in Nat /\ server.fml2_steps \in Nat
      BY <1>2 DEF Views, Peers, ServerStates
    <3>2. QED
      BY <1>3, <1>4, <1>8, <3>1 DEF HasNextStep
  <2>2. done.game_profile \in Profiles \ {"Absent"}
    BY <1>3, <1>5 DEF ClientStates
  <2>3. Answered(server, v, FireLoginSuccess(done, << >>, server, done.game_profile))
    BY <1>2, <1>3, <1>5, <1>6, <2>1, <2>2, FireLoginSuccessAnswered
  <2>4. QED
    BY <1>3, <1>8, <2>2, <2>3
    DEF HandleCustomQueryAnswer, HandleForgeAnswer, v, answered, done
<1>9. QED
  BY <1>7, <1>8

\* Two in a row.
LEMMA PairOf ==
  ASSUME NEW A, NEW p \in A, NEW q \in A
  PROVE  Append(<< p >>, q) = << p, q >> /\ << p >> \o << q >> = << p, q >>
<1> DEFINE both == << p, q >>
           one == << p >>
           other == << q >>
<1>1. /\ one \in Seq(A) /\ other \in Seq(A) /\ both \in Seq(A)
      /\ Len(one) = 1 /\ Len(other) = 1 /\ Len(both) = 2
      /\ one[1] = p /\ other[1] = q /\ both[1] = p /\ both[2] = q
  OBVIOUS
<1>2. Append(one, q) = one \o other
  BY <1>1, AppendIsConcat
<1> HIDE DEF one, other, both
<1>3. one \o other = both
  <2>1. /\ one \o other \in Seq(A) /\ Len(one \o other) = 2
        /\ (one \o other)[1] = p /\ (one \o other)[2] = q
    BY <1>1, ConcatProperties
  <2>2. QED
    BY <1>1, <2>1
<1>4. QED
  BY <1>2, <1>3 DEF one, other, both

\* The handler of LoginAcknowledged.
LEMMA LoginAcknowledgedAnswered ==
  ASSUME NEW server \in ServerStates, NEW w \in Views, NEW cs \in ClientStates,
         LetIn(cs, w), ~cs.kick_message, Admits(server, w.peer),
         Remembers(server, cs, w.peer)
  PROVE  Answered(server, Read(w), HandleLoginAcknowledged(cs))
<1> DEFINE v == Read(w)
           x == After(v, Packet("ConfigurationData"))
           finish == Packet("FinishConfiguration")
           y == After(x, finish)
           cs2 == [cs EXCEPT !.state = "Configuration"]
<1>1. /\ v \in Views /\ v.peer = w.peer /\ v.peer.phase = "Configuration"
      /\ v.sent = << Packet("ConfigurationPluginMessage") >>
  BY ReadTwo DEF LetIn
<1> HIDE DEF v
<1>2. /\ Packet("ConfigurationData") \in ClientBound /\ finish \in ClientBound
      /\ Packet("ConfigurationData").type = "ConfigurationData"
      /\ finish.type = "FinishConfiguration"
  BY PlainPackets DEF PlainTypes
<1>3. /\ Follows(server, v, Packet("ConfigurationData"), x)
      /\ Becomes(v, Packet("ConfigurationData"), x) /\ x.sent = v.sent
  BY <1>1, PlainFollows
<1> HIDE DEF x, finish
<1>4. x \in Views /\ x.peer.phase = "Configuration"
  BY <1>1, <1>2, <1>3 DEF Becomes
<1>5. Follows(server, x, finish, y)
  BY <1>2, <1>4 DEF Follows, Live, Expected
<1> HIDE DEF y
<1>6. Becomes(x, finish, y)
  BY <1>2, <1>4, <1>5, FollowsBecomes
<1>7. Delivers(server, v, << Packet("ConfigurationData"), finish >>, y)
  <2>1. Delivers(server, v, << Packet("ConfigurationData") >>, x)
    BY <1>1, <1>2, <1>3, DeliversOne
  <2>2. Delivers(server, v, Append(<< Packet("ConfigurationData") >>, finish), y)
    BY <1>2, <1>5, <2>1, DeliversMore
  <2>3. Append(<< Packet("ConfigurationData") >>, finish)
          = << Packet("ConfigurationData"), finish >>
    BY <1>2, PairOf
  <2>4. QED
    BY <2>2, <2>3
<1>8. y.sent = << Packet("ConfigurationPluginMessage"), Packet("AcknowledgeConfiguration") >>
  <2>1. Replies(x.peer, finish) = << Packet("AcknowledgeConfiguration") >>
    BY <1>2 DEF Replies
  <2>2. << Packet("ConfigurationPluginMessage") >> \o << Packet("AcknowledgeConfiguration") >>
          = << Packet("ConfigurationPluginMessage"), Packet("AcknowledgeConfiguration") >>
    BY PlainRequests, PairOf
  <2>3. QED
    BY <1>1, <1>3, <1>6, <2>1, <2>2 DEF Becomes
<1>9. /\ y \in Views /\ y.peer.phase = "Play" /\ ~y.peer.joined
      /\ y.peer.profile = w.peer.profile /\ y.peer.steps = w.peer.steps
      /\ y.peer.forge_kind = w.peer.forge_kind
      /\ y.peer.key_valid <=> w.peer.key_valid
  BY <1>1, <1>2, <1>3, <1>4, <1>6 DEF Becomes, Views, WellFormed
<1>10. /\ cs2.state = "Configuration" /\ cs2.game_profile = cs.game_profile
       /\ ~cs2.kick_message
  BY DEF ClientStates
<1> HIDE DEF cs2
<1>11. Stage(cs2, server, y)
  BY <1>8, <1>9, <1>10 DEF Stage, Configures
<1>12. Admits(server, y.peer) /\ Remembers(server, cs2, y.peer)
  BY <1>9, <1>10 DEF Admits, Remembers
<1>13. TurnsAway(cs2, << Packet("ConfigurationData"), finish >>, y.peer)
  BY <1>10 DEF TurnsAway
<1>14. Answered(server, v, Queued(cs2, << Packet("ConfigurationData"), finish >>))
  BY <1>7, <1>9, <1>11, <1>12, <1>13, AnsweredQueued
<1>15. SupportsConfigurationState(cs.protocol_version)
  BY DEF LetIn
<1>16. QED
  BY <1>14, <1>15 DEF HandleLoginAcknowledged, v, cs2, finish

\* A handler that queues nothing and leaves the client state alone.
LEMMA IdleAnswered ==
  ASSUME NEW server, NEW v \in Views, NEW cs, ~cs.kick_message, Admits(server, v.peer),
         Remembers(server, cs, v.peer), Stage(cs, server, v)
  PROVE  Answered(server, v, Queued(cs, << >>)) /\ Answered(server, v, Failed(cs, "Custom"))
BY DeliversNothing, AnsweredQueued, AnsweredFailed DEF TurnsAway

\* What a task answers in the stages after Login.
LEMMA ConfiguresAnswered ==
  ASSUME NEW server \in ServerStates, NEW w \in Views, NEW cs \in ClientStates,
         NEW velocity_id, Configures(cs, w), ~cs.kick_message, Admits(server, w.peer),
         Remembers(server, cs, w.peer)
  PROVE  Answered(server, Read(w), DecodeAndHandle(cs, server, w.sent[1], velocity_id))
<1> DEFINE v == Read(w)
           message == Packet("ConfigurationPluginMessage")
           ack == Packet("AcknowledgeConfiguration")
<1>1. message.type = "ConfigurationPluginMessage" /\ ack.type = "AcknowledgeConfiguration"
  BY DEF Packet
<1>2. CASE w.sent = << message, ack >>
  <2>1. v \in Views /\ v.peer = w.peer /\ v.sent = << ack >> /\ w.sent[1] = message
    BY <1>2, ReadTwo
  <2> HIDE DEF v, message, ack
  <2>2. Stage(cs, server, v)
    BY <2>1 DEF Stage, Configures, ack
  <2>3. Answered(server, v, Queued(cs, << >>))
    BY <2>1, <2>2, IdleAnswered
  <2>4. DecodeAndHandle(cs, server, message, velocity_id) = Queued(cs, << >>)
    BY <1>1 DEF DecodeAndHandle, Decodable, Handle, Configures
  <2>5. QED
    BY <2>1, <2>3, <2>4 DEF v
<1>3. CASE w.sent = << ack >>
  <2>1. v \in Views /\ v.peer = w.peer /\ v.sent = << >> /\ w.sent[1] = ack
    BY <1>3, ReadOne
  <2> HIDE DEF v, message, ack
  <2>2. v.peer.phase = "Play" /\ ~v.peer.joined
    BY <2>1 DEF Configures
  <2>3. Delivers(server, v, << >>, v)
    BY <2>1, DeliversNothing
  <2>4. Answered(server, v, SendPlayPackets(cs, << >>, server))
    <3>1. << >> \in Seq(ClientBound)
      OBVIOUS
    <3>2. QED
      BY <2>1, <2>2, <2>3, <3>1, SendPlayPacketsAnswered
  <2>5. DecodeAndHandle(cs, server, ack, velocity_id) = SendPlayPackets(cs, << >>, server)
    BY <1>1
    DEF DecodeAndHandle, Decodable, Handle, HandleAcknowledgeConfiguration, Configures
  <2>6. QED
    BY <2>1, <2>4, <2>5 DEF v
<1>4. QED
  BY <1>2, <1>3 DEF Configures

\* What a task answers a player: a packet or nothing.
LEMMA PlaysAnswered ==
  ASSUME NEW server \in ServerStates, NEW w \in Views, NEW cs \in ClientStates,
         NEW velocity_id, Plays(cs, w), ~cs.kick_message, Admits(server, w.peer),
         Remembers(server, cs, w.peer), w.sent # << >>
  PROVE  Answered(server, Read(w), DecodeAndHandle(cs, server, w.sent[1], velocity_id))
<1> DEFINE v == Read(w)
           inputs == {Packet("Unknown"), Packet("PlayCommand")}
           x == After(v, Packet("PlayData"))
<1>1. /\ w.sent \in Seq(ServerBound) /\ w.sent[1] \in inputs
      /\ \A i \in DOMAIN w.sent : w.sent[i] \in inputs
  <2>1. w.sent \in Seq(ServerBound) /\ 1 \in DOMAIN w.sent
    BY DEF Views
  <2>2. QED
    BY <2>1 DEF Plays
<1>2. v \in Views /\ v.peer = w.peer
  BY <1>1 DEF Read, Views
<1>3. \A i \in DOMAIN v.sent : v.sent[i] \in inputs
  <2>1. v.sent = Tail(w.sent)
    BY DEF Read
  <2>2. \A i \in DOMAIN Tail(w.sent) : i + 1 \in DOMAIN w.sent /\ Tail(w.sent)[i] = w.sent[i + 1]
    BY <1>1
  <2> HIDE DEF inputs, v
  <2>3. QED
    BY <1>1, <2>1, <2>2
<1> HIDE DEF v
<1>4. cs.state = "Play" /\ v.peer.joined
  BY <1>2 DEF Plays
<1>5. Stage(cs, server, v)
  BY <1>3, <1>4 DEF Stage, Plays
<1>6. /\ Answered(server, v, Queued(cs, << >>))
      /\ Answered(server, v, Failed(cs, "Custom"))
  BY <1>2, <1>5, IdleAnswered
<1>7. Answered(server, v, Queued(cs, << Packet("PlayData") >>))
  <2>1. Packet("PlayData") \in ClientBound /\ Packet("PlayData").type = "PlayData"
    BY PlainPackets DEF PlainTypes
  <2>2. /\ Follows(server, v, Packet("PlayData"), x) /\ Becomes(v, Packet("PlayData"), x)
        /\ x.sent = v.sent
    BY <1>2, <1>4, PlainFollows
  <2> HIDE DEF x
  <2>3. Delivers(server, v, << Packet("PlayData") >>, x)
    BY <1>2, <2>1, <2>2, DeliversOne
  <2>4. /\ x \in Views /\ x.peer.joined /\ x.peer.profile = w.peer.profile
        /\ x.peer.steps = w.peer.steps /\ x.peer.forge_kind = w.peer.forge_kind
        /\ x.peer.key_valid <=> w.peer.key_valid
    BY <1>2, <1>4, <2>1, <2>2 DEF Becomes
  <2>5. Stage(cs, server, x)
    BY <1>3, <1>4, <2>2, <2>4 DEF Stage, Plays
  <2>6. Admits(server, x.peer) /\ Remembers(server, cs, x.peer)
    BY <2>4 DEF Admits, Remembers
  <2>7. QED
    BY <2>3, <2>4, <2>5, <2>6, AnsweredQueued DEF TurnsAway
<1>8. /\ Packet("Unknown").type = "Unknown" /\ Packet("PlayCommand").type = "PlayCommand"
  BY DEF Packet
<1>9. CASE w.sent[1] = Packet("Unknown")
  BY <1>4, <1>6, <1>8, <1>9 DEF DecodeAndHandle, Decodable, v
<1>10. CASE w.sent[1] = Packet("PlayCommand")
  BY <1>4, <1>7, <1>8, <1>10 DEF DecodeAndHandle, Decodable, Handle, v
<1>11. QED
  BY <1>1, <1>9, <1>10

\* What a task answers a ping.
LEMMA AsksAnswered ==
  ASSUME NEW server \in ServerStates, NEW w \in Views, NEW cs \in ClientStates,
         NEW velocity_id, Asks(cs, w), ~cs.kick_message, w.sent # << >>
  PROVE  Answered(server, Read(w), DecodeAndHandle(cs, server, w.sent[1], velocity_id))
<1> DEFINE v == Read(w)
<1>1. /\ Packet("StatusRequest").type = "StatusRequest"
      /\ Packet("PingRequest").type = "PingRequest"
  BY DEF Packet
<1>2. CASE w.sent = << Packet("StatusRequest") >>
  <2> DEFINE status == Packet("StatusResponse")
             x == After(v, status)
  <2>1. v \in Views /\ v.peer = w.peer /\ v.sent = << >> /\ w.sent[1] = Packet("StatusRequest")
    BY <1>2, ReadOne
  <2> HIDE DEF v
  <2>2. status \in ClientBound /\ status.type = "StatusResponse"
    BY PlainPackets DEF PlainTypes
  <2>3. v.peer.phase = "Status" /\ cs.state = "Status"
    BY <2>1 DEF Asks
  <2> HIDE DEF status
  <2>4. Follows(server, v, status, x)
    BY <2>2, <2>3 DEF Follows, Live, Expected
  <2> HIDE DEF x
  <2>5. Delivers(server, v, << status >>, x) /\ Becomes(v, status, x)
    BY <2>1, <2>2, <2>4, DeliversOne
  <2>6. x.sent = << Packet("PingRequest") >>
    <3>1. Replies(v.peer, status) = << Packet("PingRequest") >>
      BY <2>2 DEF Replies
    <3>2. << >> \o << Packet("PingRequest") >> = << Packet("PingRequest") >>
      OBVIOUS
    <3>3. QED
      BY <2>1, <2>5, <3>1, <3>2 DEF Becomes
  <2>7. x \in Views /\ x.peer.phase = "Status" /\ x.peer.profile = "Absent"
    BY <2>2, <2>3, <2>5 DEF Becomes, Views, WellFormed
  <2>8. Stage(cs, server, x)
    BY <2>3, <2>6, <2>7 DEF Stage, Asks
  <2>9. Answered(server, v, Queued(cs, << status >>))
    BY <2>5, <2>7, <2>8, NamelessAdmits, AnsweredQueued DEF TurnsAway
  <2>10. DecodeAndHandle(cs, server, w.sent[1], velocity_id) = Queued(cs, << status >>)
    BY <1>1, <2>1, <2>3 DEF DecodeAndHandle, Decodable, Handle, status
  <2>11. QED
    BY <2>9, <2>10 DEF v
<1>3. CASE w.sent = << Packet("PingRequest") >>
  <2> DEFINE pong == Packet("PongResponse")
             x == After(v, pong)
  <2>1. v \in Views /\ v.peer = w.peer /\ v.sent = << >> /\ w.sent[1] = Packet("PingRequest")
    BY <1>3, ReadOne
  <2> HIDE DEF v
  <2>2. pong \in ClientBound /\ pong.type = "PongResponse"
    BY PlainPackets DEF PlainTypes
  <2>3. v.peer.phase = "Status" /\ cs.state = "Status"
    BY <2>1 DEF Asks
  <2>4. Follows(server, v, pong, x) /\ x.sent = << >>
    BY <2>1, <2>3, PlainFollows
  <2> HIDE DEF pong, x
  <2>5. Delivers(server, v, << pong >>, x) /\ Becomes(v, pong, x)
    BY <2>1, <2>2, <2>4, DeliversOne
  <2>6. x \in Views /\ x.peer.phase = "Status" /\ x.peer.profile = "Absent"
    BY <2>2, <2>3, <2>5 DEF Becomes, Views, WellFormed
  <2>7. Stage(cs, server, x)
    BY <2>3, <2>4, <2>6 DEF Stage, Asks
  <2>8. Answered(server, v, Queued(cs, << pong >>))
    BY <2>5, <2>6, <2>7, NamelessAdmits, AnsweredQueued DEF TurnsAway
  <2>9. DecodeAndHandle(cs, server, w.sent[1], velocity_id) = Queued(cs, << pong >>)
    BY <1>1, <2>1, <2>3 DEF DecodeAndHandle, Decodable, Handle, pong
  <2>10. QED
    BY <2>8, <2>9 DEF v
<1>4. QED
  BY <1>2, <1>3 DEF Asks

\* A number the enum knows, or one beyond its ends, keeps its side of every version
\* at which the login changes.
LEMMA ProtocolAgrees ==
  ASSUME NEW server, NEW protocol \in Int, Familiar(server, protocol),
         GetProtocol(protocol, server) # Unsupported
  PROVE  \A floor \in {V1_8, V1_13, V1_20_2} :
           GetProtocol(protocol, server) >= floor <=> protocol >= floor
<1>1. CASE protocol \in KnownVersions \/ protocol = -1
  BY <1>1 DEF GetProtocol, From, TryFrom, AnyVersion
<1>2. CASE protocol \notin KnownVersions /\ protocol # -1
  <2>1. /\ server.allow_unsupported_versions
        /\ GetProtocol(protocol, server) = IF protocol < oldest THEN oldest ELSE latest
    BY <1>2 DEF GetProtocol, From, TryFrom
  <2>2. protocol < oldest \/ protocol > latest
    BY <1>2, <2>1 DEF Familiar
  <2>3. QED
    BY <2>1, <2>2 DEF oldest, latest, V1_7_2, V26_1, V1_8, V1_13, V1_20_2
<1>3. QED
  BY <1>1, <1>2

\* begin_login, for a client that goes on with LoginStart.
LEMMA BeginLoginAnswered ==
  ASSUME NEW server \in ServerStates, NEW v \in Views, NEW login \in ClientStates,
         NEW hostname \in Hostnames, v.peer.phase = "Login", login.state = "Login",
         v.sent = << Packet("LoginStart") >>, v.peer.steps = 0, ~login.kick_message,
         login.forge_kind = v.peer.forge_kind, login.forge_session.pending = {},
         login.game_profile = "Absent",
         login.protocol_version # Unsupported => Agree(v.peer, login)
  PROVE  Answered(server, v, BeginLogin(login, server, hostname))
<1> DEFINE forwarding == CheckBungeeCord(server, hostname)
           named == SetGameProfile(login, "Forwarded")
<1>1. v.peer.profile = "Absent"
  BY DEF Views, WellFormed
<1>2. ASSUME NEW cs, ~cs.kick_message
      PROVE  TurnsAway(cs, << >>, v.peer)
  BY <1>2 DEF TurnsAway
<1>3. Answered(server, v, Failed(login, "Disconnected"))
  BY <1>1, <1>2, NamelessAdmits, AnsweredFailed
<1>4. Answered(server, v, Failed(Kick(login), "Disconnected"))
  <2>1. TurnsAway(Kick(login), << >>, v.peer)
    BY <1>1 DEF TurnsAway, Kick, ClientStates
  <2>2. QED
    BY <1>1, <2>1, NamelessAdmits, AnsweredFailed
<1>5. ASSUME NEW cs \in ClientStates, cs.state = "Login", ~cs.kick_message,
             cs.forge_kind = login.forge_kind, cs.forge_session.pending = {},
             cs.protocol_version = login.protocol_version,
             login.protocol_version # Unsupported,
             server.forwarding \notin {"Legacy", "BungeeGuard"} => cs.game_profile = "Absent"
      PROVE  Answered(server, v, Queued(cs, << >>))
  <2>1. LogsIn(cs, v) /\ Starts(cs, server, v)
    BY <1>5 DEF LogsIn, Starts, Agree
  <2>2. QED
    BY <1>1, <1>2, <1>5, <2>1, NamelessAdmits, DeliversNothing, AnsweredQueued DEF Stage
<1>6. ASSUME login.protocol_version # Unsupported, forwarding = "NoForwarding"
      PROVE  Answered(server, v, Queued(login, << >>))
  BY <1>5, <1>6
<1>7. ASSUME login.protocol_version # Unsupported, forwarding = "Anonymous"
      PROVE  Answered(server, v, Queued(named, << >>))
  <2>1. server.forwarding \in {"Legacy", "BungeeGuard"}
    BY <1>7 DEF CheckBungeeCord, ServerStates
  <2>2. /\ named \in ClientStates /\ named.state = "Login" /\ ~named.kick_message
        /\ named.forge_kind = login.forge_kind
        /\ named.forge_session = login.forge_session
        /\ named.protocol_version = login.protocol_version
    BY SetGameProfileType DEF SetGameProfile, ClientStates, Profiles
  <2> HIDE DEF named
  <2>3. QED
    BY <1>5, <1>7, <2>1, <2>2
<1>8. forwarding \in {"NoForwarding", "Anonymous", "Invalid"}
  BY DEF CheckBungeeCord, ServerStates
<1> HIDE DEF forwarding, named
<1>9. QED
  BY <1>3, <1>4, <1>6, <1>7, <1>8 DEF BeginLogin, forwarding, named

\* The handler of Handshake, for a client that opens as it goes on.
LEMMA GreetsAnswered ==
  ASSUME NEW server \in ServerStates, NEW w \in Views, NEW velocity_id, Greets(server, w)
  PROVE  Answered(server, Read(w),
                  DecodeAndHandle(DefaultClientState, server, w.sent[1], velocity_id))
<1> DEFINE v == Read(w)
           cs == DefaultClientState
           hello == w.sent[1]
           version == GetProtocol(hello.protocol, server)
           versioned == [cs EXCEPT !.protocol_version = version]
           login == [versioned EXCEPT !.state = "Login", !.forge_kind = hello.forge_kind]
           status == [versioned EXCEPT !.state = "Status"]
           transfer == [versioned EXCEPT !.state = "Transfer"]
<1>1. /\ w.sent = << hello, Opening(hello).packet >> /\ hello.type = "Handshake"
      /\ w.peer.phase = Opening(hello).phase /\ w.peer.steps = 0
      /\ w.peer.protocol = hello.protocol /\ w.peer.forge_kind = hello.forge_kind
      /\ Familiar(server, hello.protocol) /\ w.peer.profile = "Absent"
  BY DEF Greets
<1>2. /\ hello \in ServerBound /\ v \in Views /\ v.peer = w.peer
      /\ v.sent = << Opening(hello).packet >>
  BY <1>1, ReadTwo
<1> HIDE DEF v, hello
<1>3. /\ hello.protocol \in Int /\ hello.forge_kind \in ForgeKinds
      /\ hello.hostname \in Hostnames /\ hello.next_state \in Int
  BY <1>1, <1>2 DEF ServerBound
<1>4. /\ cs \in ClientStates /\ ~cs.kick_message /\ cs.game_profile = "Absent"
      /\ cs.forge_session.pending = {} /\ cs.state = "Handshake"
  BY NewTaskType
  DEF DefaultClientState, NoSession, ClientStates, Sessions, States, Profiles, ForgeKinds,
      KnownVersions
<1> HIDE DEF cs
<1>5. /\ versioned \in ClientStates /\ ~versioned.kick_message
      /\ versioned.game_profile = "Absent" /\ versioned.forge_session.pending = {}
      /\ versioned.protocol_version = version
  BY <1>3, <1>4, GetProtocolType DEF ClientStates
<1> HIDE DEF versioned, version
<1>6. /\ login \in ClientStates /\ ~login.kick_message /\ login.game_profile = "Absent"
      /\ login.forge_session.pending = {} /\ login.state = "Login"
      /\ login.protocol_version = version /\ login.forge_kind = hello.forge_kind
      /\ ~status.kick_message /\ status.state = "Status" /\ ~transfer.kick_message
  BY <1>3, <1>5 DEF ClientStates, States
<1> HIDE DEF login, status, transfer
<1>7. ASSUME NEW after, ~after.kick_message
      PROVE  Answered(server, v, Failed(after, "Disconnected"))
  BY <1>1, <1>2, <1>7, NamelessAdmits, AnsweredFailed DEF TurnsAway
<1>8. ASSUME hello.next_state = 1
      PROVE  Answered(server, v, Queued(status, << >>))
  <2>1. v.sent = << Packet("StatusRequest") >> /\ v.peer.phase = "Status"
    BY <1>1, <1>2, <1>8 DEF Opening
  <2>2. Stage(status, server, v)
    BY <1>6, <2>1 DEF Stage, Asks
  <2>3. QED
    BY <1>1, <1>2, <1>6, <2>2, NamelessAdmits, DeliversNothing, AnsweredQueued DEF TurnsAway
<1>9. ASSUME hello.next_state # 1
      PROVE  Answered(server, v, BeginLogin(login, server, hello.hostname))
  <2>1. v.sent = << Packet("LoginStart") >> /\ v.peer.phase = "Login"
    BY <1>1, <1>2, <1>9 DEF Opening
  <2>2. version # Unsupported => Agree(v.peer, login)
    BY <1>1, <1>2, <1>3, <1>6, ProtocolAgrees DEF Agree, version
  <2>3. QED
    BY <1>1, <1>2, <1>3, <1>6, <2>1, <2>2, BeginLoginAnswered
<1>10. Answered(server, v, HandleHandshake(cs, server, hello))
  <2>1. hello.next_state \in {1, 2, 3} \/ hello.next_state \notin 1 .. 3
    BY <1>3
  <2>2. /\ Answered(server, v, Failed(status, "Disconnected"))
        /\ Answered(server, v, Failed(transfer, "Disconnected"))
        /\ Answered(server, v, Failed(versioned, "Disconnected"))
    BY <1>5, <1>6, <1>7
  <2>3. CASE hello.next_state = 1
    <3>1. HandleHandshake(cs, server, hello) \in
            {Queued(status, << >>), Failed(status, "Disconnected")}
      BY <2>3 DEF HandleHandshake, versioned, status, version
    <3>2. QED
      BY <1>8, <2>2, <2>3, <3>1
  <2>4. CASE hello.next_state = 2
    BY <1>9, <2>4 DEF HandleHandshake, versioned, login, version
  <2>5. CASE hello.next_state = 3
    <3>1. HandleHandshake(cs, server, hello) \in
            {BeginLogin(login, server, hello.hostname), Failed(transfer, "Disconnected")}
      BY <2>5 DEF HandleHandshake, versioned, login, transfer, version
    <3>2. QED
      BY <1>9, <2>2, <2>5, <3>1
  <2>6. CASE hello.next_state \notin 1 .. 3
    <3>1. HandleHandshake(cs, server, hello) = Failed(versioned, "Disconnected")
      BY <1>3, <2>6 DEF HandleHandshake, versioned, version
    <3>2. QED
      BY <2>2, <3>1
  <2>7. QED
    BY <2>1, <2>3, <2>4, <2>5, <2>6
<1>11. DecodeAndHandle(cs, server, hello, velocity_id) = HandleHandshake(cs, server, hello)
  BY <1>1, <1>4 DEF DecodeAndHandle, Decodable, Handle
<1>12. QED
  BY <1>10, <1>11 DEF v, cs, hello

\* Whatever the stage, a task answers what comes.
LEMMA HandlersAnswer ==
  ASSUME NEW server \in ServerStates, NEW w \in Views, NEW cs \in ClientStates,
         NEW velocity_id \in Int, Stage(cs, server, w), ~cs.kick_message,
         Admits(server, w.peer), Remembers(server, cs, w.peer), w.sent # << >>
  PROVE  Answered(server, Read(w), DecodeAndHandle(cs, server, w.sent[1], velocity_id))
<1> DEFINE outcome == DecodeAndHandle(cs, server, w.sent[1], velocity_id)
<1>1. CASE cs = DefaultClientState /\ Greets(server, w)
  BY <1>1, GreetsAnswered
<1>2. CASE Asks(cs, w)
  BY <1>2, AsksAnswered
<1>3. CASE LogsIn(cs, w) /\ Starts(cs, server, w)
  <2>1. /\ Read(w) \in Views /\ Read(w).peer = w.peer /\ Read(w).sent = << >>
        /\ w.sent[1] = Packet("LoginStart")
    BY <1>3, ReadOne DEF Starts
  <2>2. LogsIn(cs, Read(w))
    BY <1>3, <2>1 DEF LogsIn
  <2>3. Answered(server, Read(w), HandleLoginStart(cs, server, velocity_id))
    BY <1>3, <2>1, <2>2, LoginStartAnswered DEF Starts
  <2>4. cs.state = "Login" /\ Packet("LoginStart").type = "LoginStart"
    BY <1>3 DEF LogsIn, Packet
  <2>5. QED
    BY <2>1, <2>3, <2>4 DEF DecodeAndHandle, Decodable, Handle
<1>4. CASE LogsIn(cs, w) /\ (Vouches(cs, server, w) \/ Replays(cs, server, w))
  <2>1. /\ Answered(server, Read(w), HandleCustomQueryAnswer(cs, server, w.sent[1]))
        /\ w.sent[1].type = "CustomQueryAnswer"
    BY <1>4, VelocityAnswerAnswered, ForgeAnswerAnswered
  <2>2. cs.state = "Login"
    BY <1>4 DEF LogsIn
  <2>3. QED
    BY <2>1, <2>2 DEF DecodeAndHandle, Decodable, Handle
<1>5. CASE LetIn(cs, w)
  <2>1. Answered(server, Read(w), HandleLoginAcknowledged(cs))
    BY <1>5, LoginAcknowledgedAnswered
  <2>2. w.sent[1] = Packet("LoginAcknowledged") /\ cs.state = "Login"
    BY <1>5, ReadTwo DEF LetIn
  <2>3. Packet("LoginAcknowledged").type = "LoginAcknowledged"
    BY DEF Packet
  <2>4. QED
    BY <2>1, <2>2, <2>3 DEF DecodeAndHandle, Decodable, Handle
<1>6. CASE Configures(cs, w)
  BY <1>6, ConfiguresAnswered
<1>7. CASE Plays(cs, w)
  BY <1>7, PlaysAnswered
<1>8. QED
  BY <1>1, <1>2, <1>3, <1>4, <1>5, <1>6, <1>7 DEF Stage, Rejects

-----------------------------------------------------------------------------
(* Frames and their packets *)

\* The packets in a sequence of frames.
Packets(frames) == [i \in 1 .. Len(frames) |-> frames[i].packet]

\* The packets of frames, one by one.
LEMMA PacketsFields ==
  ASSUME NEW A, NEW frames \in Seq(Frames(A))
  PROVE  /\ Packets(frames) \in Seq(A) /\ Len(Packets(frames)) = Len(frames)
         /\ \A i \in 1 .. Len(frames) :
              Packets(frames)[i] = frames[i].packet /\ frames[i].packet \in A
         /\ frames = << >> => Packets(frames) = << >>
<1>1. \A i \in 1 .. Len(frames) : frames[i].packet \in A
  <2>1. \A i \in 1 .. Len(frames) : frames[i] \in Frames(A)
    OBVIOUS
  <2>2. QED
    BY <2>1 DEF Frames
<1>2. Packets(frames) \in Seq(A) /\ Len(Packets(frames)) = Len(frames)
  BY <1>1 DEF Packets
<1>3. QED
  BY <1>1, <1>2 DEF Packets

\* Of all frames but the first.
LEMMA PacketsTail ==
  ASSUME NEW A, NEW frames \in Seq(Frames(A)), frames # << >>
  PROVE  Packets(Tail(frames)) = Tail(Packets(frames)) /\ Packets(frames) # << >>
<1>1. /\ Tail(frames) \in Seq(Frames(A)) /\ Len(Tail(frames)) = Len(frames) - 1
      /\ Len(frames) \in Nat \ {0}
      /\ \A i \in 1 .. Len(frames) - 1 : Tail(frames)[i] = frames[i + 1]
  OBVIOUS
<1>2. /\ Packets(frames) \in Seq(A) /\ Len(Packets(frames)) = Len(frames)
      /\ \A i \in 1 .. Len(frames) : Packets(frames)[i] = frames[i].packet
      /\ Packets(Tail(frames)) \in Seq(A) /\ Len(Packets(Tail(frames))) = Len(frames) - 1
      /\ \A i \in 1 .. Len(frames) - 1 : Packets(Tail(frames))[i] = Tail(frames)[i].packet
  BY <1>1, PacketsFields
<1>3. \A i \in 1 .. Len(frames) - 1 :
        Packets(Tail(frames))[i] = Tail(Packets(frames))[i]
  BY <1>1, <1>2
<1>4. Tail(Packets(frames)) \in Seq(A) /\ Len(Tail(Packets(frames))) = Len(frames) - 1
  BY <1>1, <1>2
<1>5. ASSUME NEW s \in Seq(A), NEW t \in Seq(A), Len(s) = Len(t),
             \A i \in 1 .. Len(t) : s[i] = t[i]
      PROVE  s = t
  BY <1>5
<1>6. Packets(frames) # << >>
  BY <1>1, <1>2
<1>7. QED
  BY <1>2, <1>3, <1>4, <1>5, <1>6

\* With one frame more.
LEMMA PacketsAppend ==
  ASSUME NEW A, NEW frames \in Seq(Frames(A)), NEW frame \in Frames(A)
  PROVE  Packets(Append(frames, frame)) = Append(Packets(frames), frame.packet)
<1> DEFINE longer == Append(frames, frame)
<1>1. /\ longer \in Seq(Frames(A)) /\ Len(longer) = Len(frames) + 1
      /\ \A i \in 1 .. Len(frames) : longer[i] = frames[i]
      /\ longer[Len(frames) + 1] = frame /\ Len(frames) \in Nat /\ frame.packet \in A
  BY DEF Frames
<1> HIDE DEF longer
<1>2. /\ Packets(frames) \in Seq(A) /\ Len(Packets(frames)) = Len(frames)
      /\ \A i \in 1 .. Len(frames) : Packets(frames)[i] = frames[i].packet
      /\ Packets(longer) \in Seq(A) /\ Len(Packets(longer)) = Len(frames) + 1
      /\ \A i \in 1 .. Len(frames) + 1 : Packets(longer)[i] = longer[i].packet
  BY <1>1, PacketsFields
<1>3. /\ Append(Packets(frames), frame.packet) \in Seq(A)
      /\ Len(Append(Packets(frames), frame.packet)) = Len(frames) + 1
      /\ \A i \in 1 .. Len(frames) :
           Append(Packets(frames), frame.packet)[i] = Packets(frames)[i]
      /\ Append(Packets(frames), frame.packet)[Len(frames) + 1] = frame.packet
  BY <1>1, <1>2
<1>4. \A i \in 1 .. Len(frames) + 1 :
        Packets(longer)[i] = Append(Packets(frames), frame.packet)[i]
  BY <1>1, <1>2, <1>3
<1>5. QED
  BY <1>1, <1>2, <1>3, <1>4 DEF longer

\* The first packet of a batch goes over to the wire.
LEMMA HeadAcross ==
  ASSUME NEW A, NEW s \in Seq(A), NEW t \in Seq(A), t # << >>
  PROVE  Append(s, Head(t)) \o Tail(t) = s \o t
<1> DEFINE left == Append(s, Head(t)) \o Tail(t)
           right == s \o t
<1>1. /\ Append(s, Head(t)) \in Seq(A) /\ Tail(t) \in Seq(A)
      /\ Len(Append(s, Head(t))) = Len(s) + 1 /\ Len(Tail(t)) = Len(t) - 1
      /\ Len(s) \in Nat /\ Len(t) \in Nat \ {0}
  OBVIOUS
<1>2. left \in Seq(A) /\ right \in Seq(A) /\ Len(left) = Len(s) + Len(t)
      /\ Len(right) = Len(s) + Len(t)
  BY <1>1
<1>3. \A i \in 1 .. Len(s) + Len(t) : left[i] = right[i]
  BY <1>1
<1> HIDE DEF left, right
<1>4. left = right
  BY <1>2, <1>3
<1>5. QED
  BY <1>4 DEF left, right

\* Packets framed one by one.
LEMMA FrameAllFields ==
  ASSUME NEW s \in Seq(ServerBound), NEW compressed \in BOOLEAN
  PROVE  /\ FrameAll(s, compressed) \in Seq(Frames(ServerBound))
         /\ Len(FrameAll(s, compressed)) = Len(s)
         /\ \A i \in 1 .. Len(s) : FrameAll(s, compressed)[i] = Frame(s[i], compressed)
<1>1. FrameAll(s, compressed) \in Seq(Frames(ServerBound))
  BY FrameAllType
<1>2. DOMAIN s = 1 .. Len(s) /\ Len(s) \in Nat
  OBVIOUS
<1>3. QED
  BY <1>1, <1>2 DEF FrameAll

\* All but the first.
LEMMA FrameAllTail ==
  ASSUME NEW s \in Seq(ServerBound), NEW compressed \in BOOLEAN,
         FrameAll(s, compressed) # << >>
  PROVE  /\ s # << >> /\ Head(FrameAll(s, compressed)) = Frame(s[1], compressed)
         /\ Tail(FrameAll(s, compressed)) = FrameAll(Tail(s), compressed)
<1> DEFINE frames == FrameAll(s, compressed)
           rest == FrameAll(Tail(s), compressed)
<1>1. /\ frames \in Seq(Frames(ServerBound)) /\ Len(frames) = Len(s)
      /\ \A i \in 1 .. Len(s) : frames[i] = Frame(s[i], compressed)
  BY FrameAllFields
<1>2. Len(s) \in Nat /\ (s = << >> => Len(s) = 0)
  OBVIOUS
<1>3. s # << >> /\ Len(s) > 0
  <2> HIDE DEF frames
  <2>1. Len(frames) # 0
    BY <1>1 DEF frames
  <2>2. QED
    BY <1>1, <1>2, <2>1
<1>4. /\ Tail(s) \in Seq(ServerBound) /\ Len(Tail(s)) = Len(s) - 1
      /\ \A i \in 1 .. Len(s) - 1 : Tail(s)[i] = s[i + 1]
  BY <1>3
<1>5. /\ rest \in Seq(Frames(ServerBound)) /\ Len(rest) = Len(s) - 1
      /\ \A i \in 1 .. Len(s) - 1 : rest[i] = Frame(Tail(s)[i], compressed)
  BY <1>4, FrameAllFields
<1> HIDE DEF frames, rest
<1>6. /\ Tail(frames) \in Seq(Frames(ServerBound)) /\ Len(Tail(frames)) = Len(s) - 1
      /\ \A i \in 1 .. Len(s) - 1 : Tail(frames)[i] = frames[i + 1]
      /\ Head(frames) = frames[1]
  BY <1>1, <1>2, <1>3
<1>7. \A i \in 1 .. Len(s) - 1 : Tail(frames)[i] = rest[i]
  BY <1>1, <1>2, <1>4, <1>5, <1>6
<1>8. Tail(frames) = rest
  BY <1>5, <1>6, <1>7
<1>9. QED
  BY <1>1, <1>2, <1>3, <1>6, <1>8 DEF frames, rest

\* One after the other.
LEMMA FrameAllConcat ==
  ASSUME NEW s \in Seq(ServerBound), NEW t \in Seq(ServerBound), NEW compressed \in BOOLEAN
  PROVE  FrameAll(s, compressed) \o FrameAll(t, compressed) = FrameAll(s \o t, compressed)
<1> DEFINE first == FrameAll(s, compressed)
           second == FrameAll(t, compressed)
           both == FrameAll(s \o t, compressed)
           packets == s \o t
<1>1. /\ packets \in Seq(ServerBound) /\ Len(packets) = Len(s) + Len(t)
      /\ \A i \in 1 .. Len(s) : packets[i] = s[i]
      /\ \A i \in Len(s) + 1 .. Len(s) + Len(t) : packets[i] = t[i - Len(s)]
      /\ Len(s) \in Nat /\ Len(t) \in Nat
  OBVIOUS
<1>2. /\ first \in Seq(Frames(ServerBound)) /\ Len(first) = Len(s)
      /\ \A i \in 1 .. Len(s) : first[i] = Frame(s[i], compressed)
      /\ second \in Seq(Frames(ServerBound)) /\ Len(second) = Len(t)
      /\ \A i \in 1 .. Len(t) : second[i] = Frame(t[i], compressed)
  BY FrameAllFields
<1>3. /\ both \in Seq(Frames(ServerBound)) /\ Len(both) = Len(s) + Len(t)
      /\ \A i \in 1 .. Len(s) + Len(t) : both[i] = Frame(packets[i], compressed)
  BY <1>1, FrameAllFields
<1> HIDE DEF first, second, both, packets
<1>4. ASSUME NEW A, NEW f \in Seq(A), NEW g \in Seq(A), NEW h \in Seq(A),
             Len(h) = Len(f) + Len(g), \A i \in 1 .. Len(f) : h[i] = f[i],
             \A i \in Len(f) + 1 .. Len(f) + Len(g) : h[i] = g[i - Len(f)]
      PROVE  f \o g = h
  <2> DEFINE joined == f \o g
  <2>1. /\ joined \in Seq(A) /\ Len(joined) = Len(f) + Len(g)
        /\ Len(f) \in Nat /\ Len(g) \in Nat
        /\ \A i \in 1 .. Len(f) + Len(g) :
             joined[i] = IF i <= Len(f) THEN f[i] ELSE g[i - Len(f)]
    BY ConcatProperties
  <2> HIDE DEF joined
  <2>2. ASSUME NEW i \in 1 .. Len(f) + Len(g)
        PROVE  joined[i] = h[i]
    <3>1. CASE i <= Len(f)
      <4>1. i \in 1 .. Len(f) /\ joined[i] = f[i]
        BY <2>1, <3>1
      <4>2. QED
        BY <1>4, <4>1
    <3>2. CASE ~(i <= Len(f))
      <4>1. i \in Len(f) + 1 .. Len(f) + Len(g) /\ joined[i] = g[i - Len(f)]
        BY <2>1, <3>2
      <4>2. QED
        BY <1>4, <4>1
    <3>3. QED
      BY <3>1, <3>2
  <2>3. joined = h
    BY <1>4, <2>1, <2>2
  <2>4. QED
    BY <2>3 DEF joined
<1>5. \A i \in Len(s) + 1 .. Len(s) + Len(t) : both[i] = second[i - Len(s)]
  <2>1. ASSUME NEW i \in Len(s) + 1 .. Len(s) + Len(t)
        PROVE  both[i] = second[i - Len(s)]
    <3>1. i \in 1 .. Len(s) + Len(t) /\ i - Len(s) \in 1 .. Len(t)
      BY <1>1
    <3>2. QED
      BY <1>1, <1>2, <1>3, <3>1
  <2>2. QED
    BY <2>1
<1>6. \A i \in 1 .. Len(s) : both[i] = first[i]
  <2>1. \A i \in 1 .. Len(s) : i \in 1 .. Len(s) + Len(t)
    BY <1>1
  <2>2. QED
    BY <1>1, <1>2, <1>3, <2>1
<1>7. first \o second = both
  <2>1. /\ Len(both) = Len(first) + Len(second)
        /\ \A i \in 1 .. Len(first) : both[i] = first[i]
        /\ \A i \in Len(first) + 1 .. Len(first) + Len(second) :
             both[i] = second[i - Len(first)]
    BY <1>2, <1>3, <1>5, <1>6
  <2>2. QED
    BY <1>2, <1>3, <1>4, <2>1
<1>8. QED
  BY <1>7 DEF first, second, both, packets

\* No packet, no frame, in whatever format.
LEMMA FrameAllNothing ==
  ASSUME NEW compressed
  PROVE  FrameAll(<< >>, compressed) = << >>
BY DEF FrameAll

\* One packet more is one frame more.
LEMMA FrameAllAppend ==
  ASSUME NEW s \in Seq(ServerBound), NEW packet \in ServerBound, NEW compressed \in BOOLEAN
  PROVE  FrameAll(Append(s, packet), compressed)
           = Append(FrameAll(s, compressed), Frame(packet, compressed))
<1> DEFINE frames == FrameAll(s, compressed)
           longer == Append(s, packet)
           more == FrameAll(longer, compressed)
           frame == Frame(packet, compressed)
<1>1. /\ longer \in Seq(ServerBound) /\ Len(longer) = Len(s) + 1 /\ Len(s) \in Nat
      /\ \A i \in 1 .. Len(s) : longer[i] = s[i]
      /\ longer[Len(s) + 1] = packet
  OBVIOUS
<1>2. /\ frames \in Seq(Frames(ServerBound)) /\ Len(frames) = Len(s)
      /\ \A i \in 1 .. Len(s) : frames[i] = Frame(s[i], compressed)
      /\ frame \in Frames(ServerBound)
  BY FrameAllFields DEF Frame, Frames
<1> HIDE DEF longer
<1>3. /\ more \in Seq(Frames(ServerBound)) /\ Len(more) = Len(s) + 1
      /\ \A i \in 1 .. Len(s) + 1 : more[i] = Frame(longer[i], compressed)
  BY <1>1, FrameAllFields
<1>4. more[Len(s) + 1] = frame
  BY <1>1, <1>3
<1> HIDE DEF frames, more, frame
<1>5. /\ Append(frames, frame) \in Seq(Frames(ServerBound))
      /\ Len(Append(frames, frame)) = Len(s) + 1
      /\ \A i \in 1 .. Len(s) : Append(frames, frame)[i] = frames[i]
      /\ Append(frames, frame)[Len(s) + 1] = frame
  BY <1>1, <1>2
<1>6. \A i \in 1 .. Len(s) + 1 : Append(frames, frame)[i] = more[i]
  BY <1>1, <1>2, <1>3, <1>4, <1>5
<1>7. Append(frames, frame) = more
  BY <1>3, <1>5, <1>6
<1>8. QED
  BY <1>7 DEF frames, more, frame, longer

-----------------------------------------------------------------------------
(* The conversation of a task and its client *)

\* A task that can still handle a packet.
Serving == {"Pending", "Reading", "Counting", "Writing", "Kicking"}

\* The format of the frames under way, and the one the task will write next.
Formats(t, received, views) ==
  /\ \A i \in 1 .. Len(received) : received[i].compressed <=> views[i].peer.compressed
  /\ t.pc # "Closed" => (t.compression <=> views[Len(received) + 1].peer.compressed)

\* What the task makes of the client that will have received everything.
Minds(server, t, w) ==
  /\ Admits(server, w.peer)
  /\ t.pc # "Closed" =>
       /\ Remembers(server, t.client_state, w.peer)
       /\ t.client_state.kick_message => w.peer.profile = "Absent"
  /\ t.pc \in Serving => Stage(t.client_state, server, w)

\* The packets under way, then those of the batch, come when the client expects
\* them; what the client will have sent then is what the task expects.
Converses(server, t, p, sent, received, views) ==
  /\ Trace(server, views, Packets(received) \o t.batch)
  /\ views[1].peer = p
  /\ sent = FrameAll(views[1].sent, p.compressed)
  /\ Formats(t, received, views)
  /\ Minds(server, t, views[Len(views)])

\* A task and its client are in some such conversation.
InConversation(server, t, p, sent, received) ==
  \E views \in Seq(Views) : Converses(server, t, p, sent, received, views)

\* The facts of a conversation, for the provers.
Sized(t, received, views) ==
  /\ Len(received) \in Nat /\ Len(t.batch) \in Nat
  /\ t.batch \in Seq(ClientBound) /\ t.compression \in BOOLEAN
  /\ Packets(received) \in Seq(ClientBound)
  /\ Len(Packets(received)) = Len(received)
  /\ Len(Packets(received) \o t.batch) = Len(received) + Len(t.batch)
  /\ Len(views) = Len(received) + Len(t.batch) + 1
  /\ views \in Seq(Views)
  /\ \A i \in 1 .. Len(received) + Len(t.batch) + 1 :
       /\ views[i] \in Views /\ views[i].peer \in Peers
       /\ views[i].sent \in Seq(ServerBound)
       /\ views[i].peer.compressed \in BOOLEAN

\* Their types and lengths.
LEMMA ConversesFacts ==
  ASSUME NEW server, NEW t \in Tasks, NEW p, NEW sent,
         NEW received \in Seq(Frames(ClientBound)), NEW views,
         Converses(server, t, p, sent, received, views)
  PROVE  Sized(t, received, views)
<1>1. Packets(received) \in Seq(ClientBound) /\ Len(Packets(received)) = Len(received)
  BY PacketsFields
<1>2. t.batch \in Seq(ClientBound) /\ t.compression \in BOOLEAN
  BY DEF Tasks
<1>3. /\ Len(Packets(received) \o t.batch) = Len(received) + Len(t.batch)
      /\ Len(received) \in Nat /\ Len(t.batch) \in Nat
  BY <1>1, <1>2
<1>4. /\ Len(views) = Len(received) + Len(t.batch) + 1 /\ views \in Seq(Views)
      /\ \A i \in 1 .. Len(received) + Len(t.batch) + 1 : views[i] \in Views
  <2> DEFINE packets == Packets(received) \o t.batch
  <2>1. Trace(server, views, packets)
    BY DEF Converses
  <2>2. Len(packets) = Len(received) + Len(t.batch)
    BY <1>3
  <2> HIDE DEF packets
  <2>3. /\ Len(views) = Len(packets) + 1 /\ views \in Seq(Views)
        /\ \A i \in 1 .. Len(packets) + 1 : views[i] \in Views
    BY <2>1, TraceFacts
  <2>4. QED
    BY <2>2, <2>3
<1>5. \A v \in Views : /\ v.peer \in Peers /\ v.sent \in Seq(ServerBound)
                       /\ v.peer.compressed \in BOOLEAN
  BY DEF Views, Peers
<1>6. QED
  BY <1>1, <1>2, <1>3, <1>4, <1>5 DEF Sized

\* A step of the task that neither writes nor reads.
LEMMA ConversesOn ==
  ASSUME NEW server, NEW t, NEW p, NEW sent, NEW received,
         InConversation(server, t, p, sent, received),
         NEW u, u.batch = t.batch,
         u.pc # "Closed" =>
           /\ t.pc # "Closed" /\ (u.compression <=> t.compression)
           /\ u.client_state.game_profile = t.client_state.game_profile
           /\ u.client_state.kick_message <=> t.client_state.kick_message,
         u.pc \in Serving =>
           /\ t.pc \in Serving
           /\ \A w : Stage(t.client_state, server, w) => Stage(u.client_state, server, w)
  PROVE  InConversation(server, u, p, sent, received)
<1>1. PICK views \in Seq(Views) : Converses(server, t, p, sent, received, views)
  BY DEF InConversation
<1>2. Formats(u, received, views)
  BY <1>1 DEF Converses, Formats
<1>3. Minds(server, u, views[Len(views)])
  BY <1>1 DEF Converses, Minds, Remembers
<1>4. QED
  BY <1>1, <1>2, <1>3 DEF Converses, InConversation

\* The frame the task reads next is in the format it reads.
First(t, p, sent, views) ==
  /\ views[1].sent # << >> /\ Head(sent).packet = views[1].sent[1]
  /\ Head(sent).compressed = t.compression
  /\ Tail(sent) = FrameAll(Tail(views[1].sent), p.compressed)
  /\ \A i \in 1 .. Len(views) : views[i].peer.compressed = t.compression

\* What the task reads is the first packet the client has sent.
LEMMA FirstFrame ==
  ASSUME NEW server, NEW t \in Tasks, NEW p \in Peers, NEW sent,
         NEW received \in Seq(Frames(ClientBound)), NEW views,
         Converses(server, t, p, sent, received, views), sent # << >>, t.pc # "Closed"
  PROVE  First(t, p, sent, views)
<1>1. /\ Len(received) \in Nat /\ Len(t.batch) \in Nat
      /\ Len(views) = Len(received) + Len(t.batch) + 1 /\ t.compression \in BOOLEAN
      /\ \A i \in 1 .. Len(views) :
           views[i].sent \in Seq(ServerBound) /\ views[i].peer.compressed \in BOOLEAN
      /\ p.compressed \in BOOLEAN
  <2>1. /\ Len(received) \in Nat /\ Len(t.batch) \in Nat
        /\ Len(views) = Len(received) + Len(t.batch) + 1 /\ t.compression \in BOOLEAN
        /\ \A i \in 1 .. Len(received) + Len(t.batch) + 1 :
             views[i].sent \in Seq(ServerBound) /\ views[i].peer.compressed \in BOOLEAN
    <3>1. Sized(t, received, views)
      BY ConversesFacts
    <3>2. QED
      BY <3>1 DEF Sized
  <2>2. p.compressed \in BOOLEAN
    BY DEF Peers
  <2>3. QED
    BY <2>1, <2>2
<1>2. 1 \in 1 .. Len(views) /\ Len(received) + 1 \in 1 .. Len(views)
  BY <1>1
<1>3. /\ views[1].sent # << >>
      /\ Head(sent) = Frame(views[1].sent[1], p.compressed)
      /\ Tail(sent) = FrameAll(Tail(views[1].sent), p.compressed)
  BY <1>1, <1>2, FrameAllTail DEF Converses
<1>4. \A i \in 1 .. Len(views) : views[i].peer.compressed = views[1].peer.compressed
  BY <1>3, TraceRead DEF Converses
<1>5. views[1].peer = p /\ (t.compression <=> views[Len(received) + 1].peer.compressed)
  BY DEF Converses, Formats
<1>6. t.compression = p.compressed
  BY <1>1, <1>2, <1>4, <1>5
<1>7. QED
  BY <1>3, <1>4, <1>5, <1>6 DEF Frame, First

\* The task handles a packet.
LEMMA ConversesHandling ==
  ASSUME NEW server \in ServerStates, NEW t \in Tasks, NEW p \in Peers, NEW sent,
         NEW received \in Seq(Frames(ClientBound)),
         InConversation(server, t, p, sent, received),
         sent # << >>, t.pc = "Reading", t.batch = << >>, ~t.client_state.kick_message,
         NEW velocity_id \in Int, NEW u \in Tasks, NEW outcome,
         outcome = DecodeAndHandle(t.client_state, server, Head(sent).packet, velocity_id),
         u.client_state = outcome.client_state, u.batch = outcome.batch,
         u.compression = t.compression, u.pc # "Closed",
         u.pc \in Serving => outcome.error # "Disconnected"
  PROVE  InConversation(server, u, p, Tail(sent), received)
<1>1. PICK views \in Seq(Views) : Converses(server, t, p, sent, received, views)
  BY DEF InConversation
<1> DEFINE n == Len(received)
           w == views[Len(views)]
           first == [i \in 1 .. Len(views) |-> Read(views[i])]
<1>2. /\ n \in Nat /\ Len(views) = n + 1 /\ t.compression \in BOOLEAN
      /\ \A i \in 1 .. n + 1 :
           /\ views[i] \in Views
           /\ views[i].peer \in Peers /\ views[i].peer.compressed \in BOOLEAN
      /\ Packets(received) \in Seq(ClientBound) /\ w \in Views
      /\ t.client_state \in ClientStates
  <2>1. /\ n \in Nat
        /\ Len(views) = Len(received) + Len(t.batch) + 1
        /\ \A i \in 1 .. Len(received) + Len(t.batch) + 1 :
             /\ views[i] \in Views
             /\ views[i].peer \in Peers /\ views[i].peer.compressed \in BOOLEAN
        /\ Packets(received) \in Seq(ClientBound) /\ t.compression \in BOOLEAN
    <3>1. Sized(t, received, views)
      BY <1>1, ConversesFacts
    <3>2. QED
      BY <3>1 DEF Sized
  <2>2. /\ Len(views) = n + 1
        /\ \A i \in 1 .. n + 1 :
             /\ views[i] \in Views
             /\ views[i].peer \in Peers /\ views[i].peer.compressed \in BOOLEAN
    <3>1. Len(received) + Len(t.batch) + 1 = n + 1
      BY <2>1
    <3>2. QED
      BY <2>1, <3>1
  <2>3. n + 1 \in 1 .. n + 1
    BY <2>1
  <2>4. QED
    BY <2>1, <2>2, <2>3 DEF Tasks
<1>3. /\ views[1].sent # << >> /\ Head(sent).packet = views[1].sent[1]
      /\ Tail(sent) = FrameAll(Tail(views[1].sent), p.compressed)
  <2>1. t.pc # "Closed"
    OBVIOUS
  <2>2. First(t, p, sent, views)
    BY <1>1, <2>1, FirstFrame
  <2>3. QED
    BY <2>2 DEF First
<1>4. Trace(server, views, Packets(received)) /\ Trace(server, views, Packets(received) \o << >>)
  BY <1>1, <1>2 DEF Converses
<1>5. /\ Trace(server, first, Packets(received)) /\ Len(first) = n + 1
      /\ \A i \in 1 .. n + 1 :
           /\ first[i] = Read(views[i])
           /\ views[i].sent # << >> /\ views[i].sent[1] = views[1].sent[1]
  BY <1>2, <1>3, <1>4, TraceRead
<1>6. w = views[n + 1] /\ n + 1 \in 1 .. n + 1 /\ 1 \in 1 .. n + 1
  BY <1>2
<1> HIDE DEF first, n, w
<1>7. Answered(server, Read(w), outcome)
  <2>1. w.sent # << >> /\ w.sent[1] = Head(sent).packet
    BY <1>3, <1>5, <1>6
  <2>2. /\ Stage(t.client_state, server, w) /\ Admits(server, w.peer)
        /\ Remembers(server, t.client_state, w.peer)
    BY <1>1, <1>4 DEF Converses, Minds, Serving, w
  <2>3. QED
    BY <1>2, <2>1, <2>2, HandlersAnswer
<1>8. PICK x \in Views :
        /\ Delivers(server, Read(w), u.batch, x)
        /\ Admits(server, x.peer)
        /\ Remembers(server, u.client_state, x.peer)
        /\ TurnsAway(u.client_state, u.batch, x.peer)
        /\ outcome.error # "Disconnected" => Stage(u.client_state, server, x)
  BY <1>7 DEF Answered
<1>9. PICK second \in Seq(Views) :
        /\ Trace(server, second, u.batch) /\ second[1] = Read(w)
        /\ second[Len(second)] = x
  BY <1>8 DEF Delivers
<1>10. PICK after :
        /\ Trace(server, after, Packets(received) \o u.batch)
        /\ \A i \in 1 .. n + 1 : after[i] = first[i]
        /\ after[Len(after)] = x
  <2>1. second[1] = first[Len(first)]
    BY <1>5, <1>6, <1>9
  <2>2. PICK after : Joins(server, first, second, Packets(received) \o u.batch, after)
    BY <1>5, <1>9, <2>1, TraceJoin
  <2>3. QED
    BY <1>5, <1>9, <2>2 DEF Joins
<1>11. Formats(u, received, after)
  <2>1. \A i \in 1 .. n + 1 : after[i].peer = views[i].peer
    BY <1>5, <1>10 DEF Read
  <2>2. \A i \in 1 .. n : i \in 1 .. n + 1
    BY <1>2
  <2>3. Formats(t, received, views)
    BY <1>1 DEF Converses
  <2>4. QED
    BY <1>2, <1>6, <2>1, <2>2, <2>3 DEF Formats, n
<1>12. Minds(server, u, after[Len(after)])
  BY <1>8, <1>10 DEF Minds, TurnsAway
<1>13. after[1].peer = p /\ after[1].sent = Tail(views[1].sent)
  <2>1. after[1] = Read(views[1])
    BY <1>5, <1>6, <1>10
  <2>2. views[1].peer = p
    BY <1>1 DEF Converses
  <2>3. QED
    BY <2>1, <2>2 DEF Read
<1>14. after \in Seq(Views)
  BY <1>10 DEF Trace
<1>15. QED
  BY <1>3, <1>10, <1>11, <1>12, <1>13, <1>14 DEF Converses, InConversation

\* The task writes the first packet of its batch.
LEMMA ConversesWriting ==
  ASSUME NEW server, NEW t \in Tasks, NEW p, NEW sent,
         NEW received \in Seq(Frames(ClientBound)),
         InConversation(server, t, p, sent, received),
         t.pc # "Closed", t.batch # << >>,
         NEW u \in Tasks, u.client_state = t.client_state, u.batch = Tail(t.batch),
         u.pc # "Closed", u.pc \in Serving => t.pc \in Serving,
         u.compression <=> \/ t.compression
                           \/ Head(t.batch).type = "SetCompression" /\ server.compression
  PROVE  InConversation(server, u, p, sent,
                        Append(received, Frame(Head(t.batch), t.compression)))
<1>1. PICK views \in Seq(Views) : Converses(server, t, p, sent, received, views)
  BY DEF InConversation
<1> DEFINE n == Len(received)
           m == Len(t.batch)
           packet == Head(t.batch)
           packets == Packets(received) \o t.batch
           frame == Frame(packet, t.compression)
           after == Append(received, frame)
<1>2. Sized(t, received, views)
  BY <1>1, ConversesFacts
<1>3. /\ n \in Nat /\ m \in Nat \ {0} /\ packet \in ClientBound /\ packet = t.batch[1]
      /\ t.batch \in Seq(ClientBound) /\ t.compression \in BOOLEAN
      /\ Packets(received) \in Seq(ClientBound) /\ Len(Packets(received)) = n
      /\ Len(packets) = n + m /\ Len(views) = n + m + 1
      /\ \A i \in 1 .. n + m + 1 : views[i] \in Views
  BY <1>2 DEF Sized
<1>4. /\ frame \in Frames(ClientBound) /\ frame.packet = packet
      /\ frame.compressed = t.compression
  BY <1>3 DEF Frame, Frames
<1>5. /\ after \in Seq(Frames(ClientBound)) /\ Len(after) = n + 1
      /\ \A i \in 1 .. n : after[i] = received[i]
      /\ after[n + 1] = frame
  <2> HIDE DEF frame
  <2>1. QED
    BY <1>4
<1>6. Packets(after) = Append(Packets(received), packet)
  <2> HIDE DEF frame
  <2>1. QED
    BY <1>4, PacketsAppend
<1>7. Packets(after) \o u.batch = packets
  BY <1>3, <1>6, HeadAcross
<1>8. packets[n + 1] = packet
  BY <1>3
<1>9. Trace(server, views, packets)
  BY <1>1 DEF Converses
<1> HIDE DEF packets, packet, frame, after, n, m
<1>10. Follows(server, views[n + 1], packet, views[n + 2])
  <2>1. /\ n + 1 \in 1 .. Len(packets) /\ n + 1 + 1 = n + 2
    BY <1>3
  <2>2. \A i \in 1 .. Len(packets) : Follows(server, views[i], packets[i], views[i + 1])
    BY <1>9, TraceFacts
  <2>3. QED
    BY <1>8, <2>1, <2>2
<1>11. n + 1 \in 1 .. n + m + 1 /\ views[n + 1] \in Views
  BY <1>3
<1>12. /\ views[n + 2].peer.compressed <=>
            views[n + 1].peer.compressed \/ packet.type = "SetCompression"
       /\ packet.type = "SetCompression" => server.compression
  <2>1. Becomes(views[n + 1], packet, views[n + 2])
    BY <1>3, <1>10, <1>11, FollowsBecomes
  <2>2. QED
    BY <1>10, <2>1 DEF Becomes, Follows
<1>13. Formats(t, received, views)
  BY <1>1 DEF Converses
<1>14. Formats(u, after, views)
  <2>1. t.compression <=> views[n + 1].peer.compressed
    BY <1>13 DEF Formats, n
  <2>2. u.compression <=> views[n + 2].peer.compressed
    BY <1>12, <2>1 DEF packet
  <2>3. ASSUME NEW i \in 1 .. n + 1
        PROVE  after[i].compressed <=> views[i].peer.compressed
    <3>1. CASE i = n + 1
      BY <1>4, <1>5, <2>1, <3>1
    <3>2. CASE i # n + 1
      <4>1. i \in 1 .. n
        BY <1>3, <3>2
      <4>2. received[i].compressed <=> views[i].peer.compressed
        BY <1>13, <4>1 DEF Formats, n
      <4>3. QED
        BY <1>5, <4>1, <4>2
    <3>3. QED
      BY <3>1, <3>2
  <2>4. Len(after) + 1 = n + 2
    BY <1>3, <1>5
  <2>5. QED
    BY <1>5, <2>2, <2>3, <2>4 DEF Formats
<1>15. Minds(server, u, views[Len(views)])
  BY <1>1 DEF Converses, Minds
<1>16. InConversation(server, u, p, sent, after)
  <2>1. views[1].peer = p /\ sent = FrameAll(views[1].sent, p.compressed)
    BY <1>1 DEF Converses
  <2>2. QED
    BY <1>7, <1>9, <1>14, <1>15, <2>1 DEF Converses, InConversation
<1>17. QED
  BY <1>16 DEF after, frame, packet

\* The packets that are not sent any more are as if they had never been queued.
LEMMA TracePrefix ==
  ASSUME NEW server, NEW views, NEW some \in Seq(ClientBound), NEW more \in Seq(ClientBound),
         Trace(server, views, some \o more)
  PROVE  LET before == [i \in 1 .. Len(some) + 1 |-> views[i]]
         IN  /\ Trace(server, before, some) /\ Len(before) = Len(some) + 1
             /\ \A i \in 1 .. Len(some) + 1 : before[i] = views[i]
<1> DEFINE n == Len(some)
           m == Len(more)
           packets == some \o more
           before == [i \in 1 .. n + 1 |-> views[i]]
<1>1. /\ n \in Nat /\ m \in Nat /\ Len(packets) = n + m
      /\ \A i \in 1 .. n : packets[i] = some[i]
  OBVIOUS
<1> HIDE DEF packets
<1>2. /\ views \in Seq(Views) /\ Len(views) = Len(packets) + 1
      /\ \A i \in 1 .. Len(packets) : Follows(server, views[i], packets[i], views[i + 1])
      /\ \A i, j \in 1 .. Len(packets) + 1 : i <= j => Precedes(views[i], views[j])
  <2>1. Trace(server, views, packets)
    BY DEF packets
  <2>2. QED
    BY <2>1, TraceFacts
<1> HIDE DEF n, m
<1>3. /\ before \in Seq(Views) /\ Len(before) = n + 1
      /\ \A i \in 1 .. n + 1 : before[i] = views[i]
  <2>1. \A i \in 1 .. n + 1 : views[i] \in Views
    <3>1. \A i \in 1 .. n + 1 : i \in 1 .. Len(views)
      BY <1>1, <1>2
    <3>2. QED
      BY <1>2, <3>1
  <2>2. n + 1 \in Nat
    BY <1>1
  <2>3. QED
    BY <2>1, <2>2
<1> HIDE DEF before
<1>4. ASSUME NEW i \in 1 .. n
      PROVE  Follows(server, before[i], some[i], before[i + 1])
  <2>1. i \in 1 .. n + m /\ i \in 1 .. n + 1 /\ i + 1 \in 1 .. n + 1
    BY <1>1
  <2>2. QED
    BY <1>1, <1>2, <1>3, <2>1
<1>5. ASSUME NEW i \in 1 .. n + 1, NEW j \in 1 .. n + 1, i <= j
      PROVE  Precedes(before[i], before[j])
  <2>1. i \in 1 .. n + m + 1 /\ j \in 1 .. n + m + 1
    BY <1>1
  <2>2. QED
    BY <1>1, <1>2, <1>3, <1>5, <2>1
<1>6. Trace(server, before, some)
  BY <1>3, <1>4, <1>5 DEF Trace, n
<1>7. QED
  BY <1>3, <1>6 DEF before, n

\* The task cannot encode the world and drops what is left of its batch.  The
\* client has joined by then, and is as it would be with the world.
LEMMA ConversesCutting ==
  ASSUME NEW server, NEW t \in Tasks, NEW p, NEW sent,
         NEW received \in Seq(Frames(ClientBound)),
         InConversation(server, t, p, sent, received),
         t.pc # "Closed", t.batch # << >>, Head(t.batch).type = "PlayData",
         NEW u \in Tasks, u.client_state = t.client_state, u.batch = << >>,
         u.compression = t.compression,
         u.pc # "Closed", u.pc \in Serving => t.pc \in Serving
  PROVE  InConversation(server, u, p, sent, received)
<1>1. PICK views \in Seq(Views) : Converses(server, t, p, sent, received, views)
  BY DEF InConversation
<1> DEFINE n == Len(received)
           m == Len(t.batch)
           packets == Packets(received) \o t.batch
           before == [i \in 1 .. n + 1 |-> views[i]]
<1>2. Sized(t, received, views)
  BY <1>1, ConversesFacts
<1>3. /\ n \in Nat /\ m \in Nat \ {0} /\ Head(t.batch) = t.batch[1]
      /\ t.batch \in Seq(ClientBound)
      /\ Packets(received) \in Seq(ClientBound) /\ Len(Packets(received)) = n
      /\ Len(packets) = n + m /\ packets[n + 1] = t.batch[1]
  BY <1>2 DEF Sized
<1>4. Trace(server, views, packets)
  BY <1>1 DEF Converses
<1>5. /\ Trace(server, before, Packets(received)) /\ Len(before) = n + 1
      /\ \A i \in 1 .. n + 1 : before[i] = views[i]
  <2> HIDE DEF before
  <2>1. Trace(server, views, Packets(received) \o t.batch)
    BY <1>4
  <2>2. before = [i \in 1 .. Len(Packets(received)) + 1 |-> views[i]]
    BY <1>3 DEF before
  <2>3. QED
    BY <1>3, <2>1, <2>2, TracePrefix
<1> HIDE DEF packets, before, n, m
<1>6. /\ Len(views) = n + m + 1
      /\ Follows(server, views[n + 1], packets[n + 1], views[n + 1 + 1])
      /\ Precedes(views[n + 1], views[n + m + 1]) /\ views[n + 1] \in Views
  <2>1. /\ n + 1 \in 1 .. n + m /\ n + 1 \in 1 .. n + m + 1 /\ n + m + 1 \in 1 .. n + m + 1
        /\ n + 1 <= n + m + 1
    BY <1>3
  <2>2. /\ Len(views) = Len(packets) + 1
        /\ \A i \in 1 .. Len(packets) : Follows(server, views[i], packets[i], views[i + 1])
        /\ \A i, j \in 1 .. Len(packets) + 1 : i <= j => Precedes(views[i], views[j])
        /\ \A i \in 1 .. Len(packets) + 1 : views[i] \in Views
    BY <1>4, TraceFacts
  <2>3. QED
    BY <1>3, <2>1, <2>2
<1>7. views[Len(views)] = views[n + 1]
  <2>1. Live(views[n + 1].peer) /\ Expected(views[n + 1].peer, packets[n + 1])
    BY <1>6 DEF Follows
  <2>2. packets[n + 1].type = "PlayData"
    BY <1>3
  <2>3. views[n + 1].peer.joined
    BY <2>1, <2>2 DEF Live, Expected
  <2>4. QED
    BY <1>6, <2>3 DEF Precedes
<1>8. before[Len(before)] = views[Len(views)] /\ before[1] = views[1]
  <2>1. n + 1 \in 1 .. n + 1 /\ 1 \in 1 .. n + 1
    BY <1>3
  <2>2. QED
    BY <1>5, <1>7, <2>1
<1>9. Formats(u, received, before)
  <2>1. \A i \in 1 .. n : i \in 1 .. n + 1
    BY <1>3
  <2>2. n + 1 \in 1 .. n + 1
    BY <1>3
  <2>3. Formats(t, received, views)
    BY <1>1 DEF Converses
  <2>4. QED
    BY <1>5, <2>1, <2>2, <2>3 DEF Formats, n
<1>10. Minds(server, u, before[Len(before)])
  BY <1>1, <1>8 DEF Converses, Minds
<1>11. Packets(received) \o u.batch = Packets(received)
  BY <1>3
<1>12. before \in Seq(Views)
  BY <1>5 DEF Trace
<1>13. QED
  BY <1>1, <1>5, <1>8, <1>9, <1>10, <1>11, <1>12 DEF Converses, InConversation

\* The task writes a packet beside its batch: the last one of a kick, or that of
\* a timer.
LEMMA ConversesBeside ==
  ASSUME NEW server, NEW t \in Tasks, NEW p, NEW sent,
         NEW received \in Seq(Frames(ClientBound)),
         InConversation(server, t, p, sent, received),
         t.pc # "Closed", t.batch = << >>,
         NEW u \in Tasks, u.client_state = t.client_state, u.batch = << >>,
         u.pc # "Closed", u.compression = t.compression,
         NEW packet \in ClientBound,
         packet.type \notin {"SetCompression", "LoginSuccess", "CustomQuery"},
         \A w \in Views :
           Minds(server, t, w) =>
             \E x : /\ Follows(server, w, packet, x)
                    /\ u.pc \in Serving => Stage(u.client_state, server, x)
  PROVE  InConversation(server, u, p, sent,
                        Append(received, Frame(packet, t.compression)))
<1>1. PICK views \in Seq(Views) : Converses(server, t, p, sent, received, views)
  BY DEF InConversation
<1> DEFINE n == Len(received)
           w == views[n + 1]
           frame == Frame(packet, t.compression)
           after == Append(received, frame)
<1>2. Sized(t, received, views)
  BY <1>1, ConversesFacts
<1>3. /\ n \in Nat /\ t.compression \in BOOLEAN
      /\ Packets(received) \in Seq(ClientBound) /\ Len(Packets(received)) = n
      /\ Len(views) = n + 1 /\ \A i \in 1 .. n + 1 : views[i] \in Views
  <2>1. Len(t.batch) = 0
    OBVIOUS
  <2>2. n + Len(t.batch) + 1 = n + 1
    BY <1>2, <2>1 DEF Sized
  <2>3. QED
    BY <1>2, <2>2 DEF Sized
<1>4. w \in Views /\ w = views[Len(views)]
  BY <1>3
<1>5. Minds(server, t, w)
  BY <1>1, <1>4 DEF Converses
<1>6. PICK x : /\ Follows(server, w, packet, x)
               /\ u.pc \in Serving => Stage(u.client_state, server, x)
  BY <1>4, <1>5
<1>7. Becomes(w, packet, x)
  BY <1>4, <1>6, FollowsBecomes
<1>8. /\ x.peer.compressed <=> w.peer.compressed
      /\ x.peer.forge_kind = w.peer.forge_kind /\ (x.peer.key_valid <=> w.peer.key_valid)
      /\ x.peer.profile = w.peer.profile /\ x.peer.steps = w.peer.steps
  BY <1>7 DEF Becomes
<1>9. /\ frame \in Frames(ClientBound) /\ frame.packet = packet
      /\ frame.compressed = t.compression
  BY <1>3 DEF Frame, Frames
<1> HIDE DEF frame
<1>10. /\ after \in Seq(Frames(ClientBound)) /\ Len(after) = n + 1
       /\ \A i \in 1 .. n : after[i] = received[i]
       /\ after[n + 1] = frame
  BY <1>9
<1>11. Packets(after) \o u.batch = Append(Packets(received), packet)
  <2>1. Packets(after) = Append(Packets(received), packet)
    BY <1>9, PacketsAppend
  <2>2. Packets(after) \in Seq(ClientBound)
    BY <1>10, PacketsFields
  <2>3. QED
    BY <2>1, <2>2
<1>12. Trace(server, views, Packets(received))
  <2>1. Packets(received) \o << >> = Packets(received)
    BY <1>3
  <2>2. QED
    BY <1>1, <2>1 DEF Converses
<1> DEFINE longer == Append(views, x)
<1>13. /\ Trace(server, longer, Append(Packets(received), packet))
       /\ \A i \in 1 .. n + 1 : longer[i] = views[i]
       /\ longer[n + 2] = x /\ Len(longer) = n + 2 /\ longer[1] = views[1]
  <2>1. Follows(server, views[Len(views)], packet, x)
    BY <1>4, <1>6
  <2>2. Trace(server, longer, Append(Packets(received), packet))
    BY <1>12, <2>1, TraceExtend
  <2>3. /\ longer[1] = views[1]
        /\ \A i \in 1 .. Len(views) : longer[i] = views[i]
        /\ longer[Len(views) + 1] = x /\ Len(longer) = Len(views) + 1
    <3>1. x \in Views /\ views \in Seq(Views)
      BY <1>7 DEF Becomes
    <3>2. Len(views) \in Nat \ {0}
      BY <1>3
    <3>3. QED
      BY <3>1, <3>2
  <2> HIDE DEF longer
  <2>4. Len(views) + 1 = n + 2
    BY <1>3
  <2>5. QED
    BY <1>3, <2>2, <2>3, <2>4
<1> HIDE DEF longer, after, w, n
<1>14. Formats(u, after, longer)
  <2>1. Formats(t, received, views)
    BY <1>1 DEF Converses
  <2>2. t.compression <=> w.peer.compressed
    BY <2>1 DEF Formats, w, n
  <2>3. ASSUME NEW i \in 1 .. n + 1
        PROVE  after[i].compressed <=> longer[i].peer.compressed
    <3>1. CASE i = n + 1
      BY <1>9, <1>10, <1>13, <2>2, <3>1 DEF w
    <3>2. CASE i # n + 1
      <4>1. i \in 1 .. n
        BY <1>3, <3>2
      <4>2. received[i].compressed <=> views[i].peer.compressed
        BY <2>1, <4>1 DEF Formats, n
      <4>3. QED
        BY <1>10, <1>13, <4>1, <4>2
    <3>3. QED
      BY <3>1, <3>2
  <2>4. Len(after) + 1 = n + 2
    BY <1>3, <1>10
  <2>5. QED
    BY <1>8, <1>10, <1>13, <2>2, <2>3, <2>4 DEF Formats
<1>15. Minds(server, u, longer[Len(longer)])
  BY <1>5, <1>6, <1>8, <1>13 DEF Minds, Admits, Remembers
<1>16. longer \in Seq(Views)
  BY <1>13 DEF Trace
<1>17. InConversation(server, u, p, sent, after)
  <2>1. longer[1].peer = p /\ sent = FrameAll(longer[1].sent, p.compressed)
    BY <1>1, <1>13 DEF Converses
  <2>2. QED
    BY <1>11, <1>13, <1>14, <1>15, <1>16, <2>1 DEF Converses, InConversation
<1>18. QED
  BY <1>17 DEF after, frame

\* The client receives the first packet.
LEMMA ConversesReceiving ==
  ASSUME NEW server, NEW t \in Tasks, NEW p \in Peers, NEW sent,
         NEW received \in Seq(Frames(ClientBound)),
         InConversation(server, t, p, sent, received), received # << >>
  PROVE  /\ Expected(p, Head(received).packet)
         /\ Head(received).compressed = p.compressed
         /\ InConversation(server, t, React(p, Head(received).packet),
                           sent \o FrameAll(Replies(p, Head(received).packet), p.compressed),
                           Tail(received))
<1>1. PICK views \in Seq(Views) : Converses(server, t, p, sent, received, views)
  BY DEF InConversation
<1> DEFINE n == Len(received)
           packet == Head(received).packet
           packets == Packets(received) \o t.batch
           v == views[1]
           w == views[2]
           rest == Tail(views)
           r == Replies(p, packet)
<1>2. Sized(t, received, views)
  BY <1>1, ConversesFacts
<1>3. /\ n \in Nat \ {0} /\ Len(t.batch) \in Nat /\ t.batch \in Seq(ClientBound)
      /\ Packets(received) \in Seq(ClientBound) /\ Len(Packets(received)) = n
      /\ Len(views) = n + Len(t.batch) + 1 /\ views \in Seq(Views)
      /\ \A i \in 1 .. n + Len(t.batch) + 1 : views[i] \in Views
      /\ Len(packets) = n + Len(t.batch)
  BY <1>2 DEF Sized
<1>4. /\ Head(received) = received[1] /\ received[1].packet = packet
      /\ received[1] \in Frames(ClientBound) /\ packet \in ClientBound
      /\ received[1].compressed \in BOOLEAN /\ p.compressed \in BOOLEAN
  <2>1. Head(received) = received[1] /\ received[1] \in Frames(ClientBound)
    OBVIOUS
  <2>2. QED
    BY <2>1 DEF Frames, Peers
<1>5. packets # << >> /\ packets[1] = packet
  <2>1. Packets(received)[1] = packet
    BY <1>3, <1>4, PacketsFields
  <2>2. QED
    BY <1>3, <2>1
<1>6. Tail(packets) = Packets(Tail(received)) \o t.batch
  <2>1. Packets(Tail(received)) = Tail(Packets(received)) /\ Packets(received) # << >>
    BY PacketsTail
  <2>2. QED
    BY <1>3, <2>1, TailConcat
<1>7. Trace(server, views, packets)
  BY <1>1 DEF Converses
<1> HIDE DEF packet, packets, n
<1>8. Trace(server, rest, Tail(packets)) /\ Follows(server, v, packet, w) /\ v \in Views
  BY <1>5, <1>7, TraceTail
<1>9. /\ Len(rest) = Len(views) - 1 /\ rest \in Seq(Views)
      /\ \A i \in 1 .. Len(views) - 1 : rest[i] = views[i + 1]
  BY <1>3
<1> HIDE DEF rest
<1>10. /\ v.peer = p /\ sent = FrameAll(v.sent, p.compressed)
       /\ v.sent \in Seq(ServerBound) /\ WellFormed(p)
  BY <1>1, <1>8 DEF Converses, Views
<1>11. /\ Expected(p, packet) /\ w.peer = React(p, packet) /\ w.sent = v.sent \o r
       /\ packet.type = "SetCompression" => v.sent = << >>
       /\ r \in Seq(ServerBound)
  BY <1>4, <1>8, <1>10, RepliesType DEF Follows, After
<1>12. w.peer.compressed <=> p.compressed \/ packet.type = "SetCompression"
  <2>1. Becomes(v, packet, w)
    BY <1>4, <1>8, FollowsBecomes
  <2>2. QED
    BY <1>10, <2>1 DEF Becomes
<1>13. w \in Views /\ w.peer.compressed \in BOOLEAN
  <2>1. w \in Views
    BY <1>4, <1>8, FollowsView
  <2> HIDE DEF w
  <2>2. QED
    BY <2>1 DEF Views, Peers
<1>14. Formats(t, received, views)
  BY <1>1 DEF Converses
<1>15. received[1].compressed = p.compressed
  BY <1>3, <1>4, <1>10, <1>14 DEF Formats, n
<1>16. sent \o FrameAll(r, p.compressed) = FrameAll(w.sent, w.peer.compressed)
  <2>1. CASE packet.type = "SetCompression"
    <3>1. v.sent = << >> /\ r = << >> /\ w.sent = << >>
      BY <1>11, <2>1 DEF Replies
    <3> HIDE DEF r, v, w
    <3>2. sent = << >> /\ FrameAll(r, p.compressed) = << >>
          /\ FrameAll(w.sent, w.peer.compressed) = << >>
      BY <1>10, <3>1, FrameAllNothing
    <3>3. << >> \o << >> = << >>
      OBVIOUS
    <3>4. QED
      BY <3>2, <3>3
  <2>2. CASE packet.type # "SetCompression"
    <3>1. w.peer.compressed = p.compressed
      BY <1>4, <1>12, <1>13, <2>2
    <3> HIDE DEF r, v, w
    <3>2. FrameAll(v.sent, p.compressed) \o FrameAll(r, p.compressed)
            = FrameAll(v.sent \o r, p.compressed)
      BY <1>4, <1>10, <1>11, FrameAllConcat
    <3>3. QED
      BY <1>10, <1>11, <3>1, <3>2
  <2>3. QED
    BY <2>1, <2>2
<1>17. /\ Tail(received) \in Seq(Frames(ClientBound)) /\ Len(Tail(received)) = n - 1
       /\ \A i \in 1 .. n - 1 : Tail(received)[i] = received[i + 1]
  BY DEF n
<1>18. Formats(t, Tail(received), rest)
  <2>1. ASSUME NEW i \in 1 .. n - 1
        PROVE  Tail(received)[i].compressed <=> rest[i].peer.compressed
    <3>1. i + 1 \in 1 .. n /\ i \in 1 .. Len(views) - 1
      BY <1>3
    <3>2. received[i + 1].compressed <=> views[i + 1].peer.compressed
      BY <1>14, <3>1 DEF Formats, n
    <3>3. QED
      BY <1>9, <1>17, <3>1, <3>2
  <2>2. rest[n] = views[n + 1] /\ Len(Tail(received)) + 1 = n
    <3>1. n \in 1 .. Len(views) - 1
      BY <1>3
    <3>2. QED
      BY <1>3, <1>9, <1>17, <3>1
  <2>3. QED
    BY <1>14, <1>17, <2>1, <2>2 DEF Formats, n
<1>19. rest[Len(rest)] = views[Len(views)] /\ rest[1] = w
  <2>1. /\ Len(views) - 1 \in 1 .. Len(views) - 1 /\ 1 \in 1 .. Len(views) - 1
        /\ Len(views) - 1 + 1 = Len(views) /\ 1 + 1 = 2
    BY <1>3
  <2>2. ASSUME NEW k, k = Len(views) - 1
        PROVE  rest[k] = views[k + 1]
    BY <1>9, <2>1, <2>2
  <2>3. QED
    BY <1>9, <2>1, <2>2
<1>20. Minds(server, t, rest[Len(rest)])
  BY <1>1, <1>19 DEF Converses
<1>21. InConversation(server, t, React(p, packet), sent \o FrameAll(r, p.compressed),
                      Tail(received))
  <2> HIDE DEF r, w
  <2>1. rest[1].peer = React(p, packet)
        /\ sent \o FrameAll(r, p.compressed)
             = FrameAll(rest[1].sent, React(p, packet).compressed)
    BY <1>11, <1>16, <1>19
  <2>2. QED
    BY <1>6, <1>8, <1>9, <1>18, <1>20, <2>1 DEF Converses, InConversation
<1>22. QED
  BY <1>4, <1>11, <1>15, <1>21 DEF packet

\* A player moves or types a command: that changes nothing of what it expects.
LEMMA ConversesInput ==
  ASSUME NEW server, NEW t \in Tasks, NEW p \in Peers, NEW sent,
         NEW received \in Seq(Frames(ClientBound)),
         InConversation(server, t, p, sent, received), p.joined,
         NEW packet \in {Packet("Unknown"), Packet("PlayCommand")}
  PROVE  InConversation(server, t, [p EXCEPT !.inputs = @ + 1],
                        Append(sent, Frame(packet, p.compressed)), received)
<1>1. PICK views \in Seq(Views) : Converses(server, t, p, sent, received, views)
  BY DEF InConversation
<1> DEFINE n == Len(received) + Len(t.batch)
           packets == Packets(received) \o t.batch
           v == views[1]
           q == [p EXCEPT !.inputs = @ + 1]
           x == [peer |-> q, sent |-> Append(v.sent, packet)]
           after == [i \in 1 .. n + 1 |-> x]
<1>2. Sized(t, received, views)
  BY <1>1, ConversesFacts
<1>3. /\ n \in Nat /\ Len(received) \in Nat /\ Len(t.batch) \in Nat
      /\ Len(views) = n + 1 /\ Len(packets) = n
      /\ \A i \in 1 .. n + 1 : views[i] \in Views
      /\ Packets(received) \in Seq(ClientBound) /\ t.batch \in Seq(ClientBound)
  BY <1>2 DEF Sized
<1>4. packets \in Seq(ClientBound)
  BY <1>3
<1>5. Trace(server, views, packets)
  BY <1>1 DEF Converses
<1> HIDE DEF packets
<1>6. 1 \in 1 .. n + 1 /\ n + 1 \in 1 .. n + 1 /\ Len(received) + 1 \in 1 .. n + 1
      /\ 1 .. Len(received) \subseteq 1 .. n + 1
  BY <1>3
<1>7. v \in Views /\ v.peer = p /\ sent = FrameAll(v.sent, p.compressed)
  BY <1>1, <1>3, <1>6 DEF Converses
<1> HIDE DEF n
<1>8. \A i \in 1 .. n + 1 : views[i] = v
  <2>1. ASSUME NEW i \in 1 .. n + 1
        PROVE  views[i] = v
    <3>1. Precedes(views[1], views[i])
      <4>1. \A j, k \in 1 .. n + 1 : j <= k => Precedes(views[j], views[k])
        BY <1>3, <1>5 DEF Trace
      <4>2. 1 <= i
        BY <1>3
      <4>3. QED
        BY <1>6, <4>1, <4>2
    <3>2. QED
      BY <1>7, <3>1 DEF Precedes
  <2>2. QED
    BY <2>1
<1> HIDE DEF v
<1>9. /\ q \in Peers /\ q.phase = p.phase /\ q.joined /\ q.profile = p.profile
      /\ q.protocol = p.protocol /\ q.steps = p.steps /\ q.forge_kind = p.forge_kind
      /\ q.key_valid = p.key_valid /\ q.compressed = p.compressed
  BY DEF Peers
<1> HIDE DEF q
<1>10. WellFormed(p) /\ v.sent \in Seq(ServerBound) /\ p.phase = "Play"
       /\ p.profile # "Absent"
  BY <1>7 DEF Views, WellFormed
<1>11. packet \in ServerBound
  BY PlainRequests
<1>12. Append(v.sent, packet) \in Seq(ServerBound)
  BY <1>10, <1>11
<1>13. WellFormed(q)
  BY <1>9, <1>10 DEF WellFormed
<1>14. x \in Views
  BY <1>9, <1>12, <1>13 DEF Views
<1>15. ASSUME NEW i \in 1 .. n
       PROVE  Follows(server, x, packets[i], x)
  <2>1. i \in 1 .. n + 1 /\ i + 1 \in 1 .. n + 1 /\ packets[i] \in ClientBound
    BY <1>3, <1>4
  <2>2. Follows(server, v, packets[i], v)
    BY <1>3, <1>5, <1>8, <2>1 DEF Trace
  <2>3. /\ Live(p) /\ Expected(p, packets[i]) /\ packets[i].type # "PlayDisconnect"
    BY <1>7, <2>2 DEF Follows
  <2>4. Live(q) /\ Expected(q, packets[i])
    BY <1>9, <1>10, <2>3 DEF Live, Expected
  <2>5. packets[i].type \in {"PlayData", "KeepAlive", "ActionBar"}
    BY <1>10, <2>3 DEF Expected
  <2>6. React(q, packets[i]) = q /\ Replies(q, packets[i]) = << >>
    BY <1>9, <1>13, <2>1, <2>3, <2>4, JoinedReacts
  <2>7. Append(v.sent, packet) \o << >> = Append(v.sent, packet)
    BY <1>12
  <2>8. QED
    BY <2>4, <2>5, <2>6, <2>7 DEF Follows, After
<1>16. /\ after \in Seq(Views) /\ Len(after) = n + 1
       /\ \A i \in 1 .. n + 1 : after[i] = x
  <2> HIDE DEF x
  <2>1. QED
    BY <1>3, <1>14
<1> HIDE DEF after
<1>17. Trace(server, after, packets)
  <2>1. Precedes(x, x)
    BY <1>14, PrecedesReflexive
  <2> HIDE DEF x
  <2>2. \A i \in 1 .. n : i \in 1 .. n + 1 /\ i + 1 \in 1 .. n + 1
    BY <1>3
  <2>3. QED
    BY <1>3, <1>4, <1>15, <1>16, <2>1, <2>2 DEF Trace
<1>18. Formats(t, received, after)
  <2>1. Formats(t, received, views)
    BY <1>1 DEF Converses
  <2>2. \A i \in 1 .. n + 1 : after[i].peer.compressed = views[i].peer.compressed
    BY <1>7, <1>8, <1>9, <1>16
  <2>3. QED
    BY <1>6, <2>1, <2>2 DEF Formats
<1>19. Minds(server, t, v)
  BY <1>1, <1>3, <1>6, <1>8 DEF Converses
<1>20. Minds(server, t, x)
  <2>1. Admits(server, q) /\ (t.pc # "Closed" => Remembers(server, t.client_state, q))
        /\ (t.pc # "Closed" /\ t.client_state.kick_message => q.profile = "Absent")
    BY <1>7, <1>9, <1>19 DEF Minds, Admits, Remembers
  <2>2. ASSUME Stage(t.client_state, server, v)
        PROVE  Stage(t.client_state, server, x)
    <3>1. Plays(t.client_state, v) /\ ~t.client_state.kick_message
      BY <1>7, <1>10, <2>2
      DEF Stage, Greets, Asks, LogsIn, LetIn, Configures, Rejects
    <3>2. \A i \in DOMAIN Append(v.sent, packet) :
            Append(v.sent, packet)[i] \in {Packet("Unknown"), Packet("PlayCommand")}
      BY <1>10, <1>11, <3>1 DEF Plays
    <3>3. Plays(t.client_state, x)
      BY <1>9, <3>1, <3>2 DEF Plays
    <3>4. QED
      BY <3>1, <3>3 DEF Stage
  <2>3. QED
    BY <1>19, <2>1, <2>2 DEF Minds
<1>21. FrameAll(Append(v.sent, packet), p.compressed)
         = Append(sent, Frame(packet, p.compressed))
  BY <1>7, <1>10, <1>11, FrameAllAppend DEF Peers
<1>22. InConversation(server, t, q, Append(sent, Frame(packet, p.compressed)), received)
  <2>1. /\ after[1].peer = q /\ after[Len(after)] = x
        /\ Append(sent, Frame(packet, p.compressed)) = FrameAll(after[1].sent, q.compressed)
    <3>1. after[1] = x /\ after[n + 1] = x /\ Len(after) = n + 1
      BY <1>6, <1>16
    <3>2. x.peer = q /\ x.sent = Append(v.sent, packet)
      OBVIOUS
    <3> HIDE DEF x
    <3>3. QED
      BY <1>9, <1>21, <3>1, <3>2
  <2>2. QED
    BY <1>16, <1>17, <1>18, <1>20, <2>1 DEF Converses, InConversation, packets
<1>23. QED
  BY <1>22 DEF q

\* A client opens the conversation.
LEMMA ConversesOpening ==
  ASSUME NEW server, NEW t, t = NewTask("Pending"),
         NEW hello \in ServerBound, hello.type = "Handshake",
         Familiar(server, hello.protocol),
         NEW p \in Peers, p.phase = Opening(hello).phase, ~p.compressed,
         p.protocol = hello.protocol, p.forge_kind = hello.forge_kind,
         p.profile = "Absent", p.steps = 0, ~p.joined
  PROVE  InConversation(server, t, p, FrameAll(<< hello, Opening(hello).packet >>, FALSE),
                        << >>)
<1> DEFINE sent == << hello, Opening(hello).packet >>
           w == [peer |-> p, sent |-> sent]
           views == << w >>
<1>1. /\ t.pc = "Pending" /\ t.client_state = DefaultClientState /\ t.batch = << >>
      /\ ~t.compression
  BY DEF NewTask
<1>2. /\ Opening(hello).packet \in ServerBound
      /\ Opening(hello).phase \in {"Status", "Login"}
  BY PlainRequests DEF Opening
<1>3. sent \in Seq(ServerBound) /\ sent[1] = hello
  BY <1>2
<1> HIDE DEF sent
<1>4. w \in Views /\ w.peer = p /\ w.sent = sent
  BY <1>2, <1>3 DEF Views, WellFormed
<1>5. Greets(server, w)
  BY <1>3, <1>4 DEF Greets, sent
<1> HIDE DEF w
<1>6. Stage(DefaultClientState, server, w)
  BY <1>5 DEF Stage
<1>7. /\ Minds(server, t, w)
  BY <1>1, <1>4, <1>6 DEF Minds, Admits, Remembers, DefaultClientState
<1>8. /\ views \in Seq(Views) /\ Len(views) = 1 /\ views[1] = w /\ Len(<< >>) = 0
      /\ 0 + 1 = 1
  BY <1>4
<1>9. Trace(server, views, << >>)
  BY <1>4, DeliversNothing
<1>10. Packets(<< >>) \o t.batch = << >>
  <2>1. << >> \in Seq(Frames(ClientBound)) /\ << >> \o << >> = << >>
    OBVIOUS
  <2>2. Packets(<< >>) = << >>
    BY <2>1, PacketsFields
  <2>3. QED
    BY <1>1, <2>1, <2>2
<1> HIDE DEF views
<1>11. Formats(t, << >>, views)
  BY <1>1, <1>4, <1>8 DEF Formats
<1>12. sent = w.sent /\ p.compressed = FALSE
  BY <1>4 DEF Peers
<1>13. QED
  BY <1>4, <1>7, <1>8, <1>9, <1>10, <1>11, <1>12 DEF Converses, InConversation, sent

-----------------------------------------------------------------------------
(* What a client left behind *)

\* Packets that are decodable one after the other, from a state on.
Legible(state, s) ==
  s # << >> =>
    \/ /\ state = "Handshake" /\ s[1].type = "Handshake" /\ Len(s) <= 2
       /\ Len(s) = 2 => s[2] = Opening(s[1]).packet
    \/ /\ state = "Status"
       /\ \A i \in 1 .. Len(s) : s[i].type \in {"StatusRequest", "PingRequest"}
    \/ /\ state = "Login"
       /\ s[1].type \in {"LoginStart", "CustomQueryAnswer", "LoginAcknowledged"}
       /\ Len(s) > 1 => /\ Len(s) = 2 /\ s[1].type = "LoginAcknowledged"
                        /\ s[2].type = "ConfigurationPluginMessage"
    \/ /\ state = "Configuration"
       /\ \A i \in 1 .. Len(s) :
            /\ s[i].type \in {"ConfigurationPluginMessage", "AcknowledgeConfiguration"}
            /\ i < Len(s) => s[i].type = "ConfigurationPluginMessage"
    \/ /\ state = "Play" /\ \A i \in 1 .. Len(s) : s[i].type \in {"PlayCommand", "Unknown"}

\* What is left to a task whose client has gone.
Leftover(t, sent) ==
  t.pc \in Serving /\ sent # << >> =>
    /\ \E s \in Seq(ServerBound) :
         sent = FrameAll(s, t.compression) /\ Legible(t.client_state.state, s)
    /\ \A i \in 1 .. Len(t.batch) : t.batch[i].type # "SetCompression"

\* Sequences that begin one another, and short ones.
LEMMA BeginsShort ==
  ASSUME NEW A, NEW s \in Seq(A), NEW t \in Seq(A), Begins(s, t), s # << >>
  PROVE  /\ Len(s) \in Nat \ {0} /\ Len(t) \in Nat \ {0} /\ Len(s) <= Len(t) /\ s[1] = t[1]
         /\ Len(s) > 1 => s[2] = t[2]
         /\ \A i \in 1 .. Len(s) : s[i] = t[i] /\ i \in 1 .. Len(t)
BY DEF Begins

\* At every stage the packets under way can be decoded, and so can the first of them.
LEMMA StageLegible ==
  ASSUME NEW server, NEW w \in Views, NEW cs, Stage(cs, server, w),
         NEW s \in Seq(ServerBound), Begins(s, w.sent)
  PROVE  Legible(cs.state, s)
<1> SUFFICES ASSUME s # << >>
             PROVE  Legible(cs.state, s)
  BY DEF Legible
<1> DEFINE sent == w.sent
<1>1. sent \in Seq(ServerBound)
  BY DEF Views
<1>2. /\ Len(s) \in Nat \ {0} /\ Len(sent) \in Nat \ {0} /\ Len(s) <= Len(sent)
      /\ s[1] = sent[1] /\ (Len(s) > 1 => s[2] = sent[2])
      /\ \A i \in 1 .. Len(s) : s[i] = sent[i] /\ i \in 1 .. Len(sent)
  BY <1>1, BeginsShort
<1>3. /\ \A type : Packet(type).type = type
      /\ \A a, b : /\ Len(<< a >>) = 1 /\ << a >>[1] = a
                  /\ Len(<< a, b >>) = 2 /\ << a, b >>[1] = a /\ << a, b >>[2] = b
  BY DEF Packet
<1>4. CASE cs = DefaultClientState /\ Greets(server, w)
  <2>1. cs.state = "Handshake"
    BY <1>4 DEF DefaultClientState
  <2>2. /\ sent[1].type = "Handshake" /\ Len(sent) = 2
        /\ sent[2] = Opening(sent[1]).packet
    <3>1. sent[1].type = "Handshake" /\ sent = << sent[1], Opening(sent[1]).packet >>
      BY <1>4 DEF Greets
    <3>2. PICK a, b : sent = << a, b >> /\ b = Opening(sent[1]).packet
      BY <3>1
    <3> HIDE DEF sent
    <3>3. QED
      BY <1>3, <3>1, <3>2
  <2> HIDE DEF sent
  <2>3. QED
    BY <1>2, <2>1, <2>2 DEF Legible
<1>5. CASE Asks(cs, w)
  <2>1. /\ cs.state = "Status" /\ Len(sent) = 1
        /\ sent[1].type \in {"StatusRequest", "PingRequest"}
    BY <1>2, <1>3, <1>5 DEF Asks
  <2> HIDE DEF sent
  <2>2. \A i \in 1 .. Len(s) : i = 1
    BY <1>2, <2>1
  <2>3. QED
    BY <1>2, <2>1, <2>2 DEF Legible
<1>6. CASE LogsIn(cs, w) /\ (Starts(cs, server, w) \/ Vouches(cs, server, w)
                            \/ Replays(cs, server, w))
  <2>1. /\ cs.state = "Login" /\ Len(sent) = 1
        /\ sent[1].type \in {"LoginStart", "CustomQueryAnswer"}
    <3>1. cs.state = "Login"
      BY <1>6 DEF LogsIn
    <3>2. PICK a : sent = << a >> /\ a.type \in {"LoginStart", "CustomQueryAnswer"}
      BY <1>3, <1>6 DEF Starts, Vouches, Replays, Answer
    <3> HIDE DEF sent
    <3>3. QED
      BY <1>3, <3>1, <3>2
  <2> HIDE DEF sent
  <2>2. QED
    BY <1>2, <2>1 DEF Legible
<1>7. CASE LetIn(cs, w)
  <2>1. /\ cs.state = "Login" /\ Len(sent) = 2
        /\ sent[1].type = "LoginAcknowledged" /\ sent[2].type = "ConfigurationPluginMessage"
    BY <1>3, <1>7 DEF LetIn
  <2> HIDE DEF sent
  <2>2. ASSUME Len(s) > 1
        PROVE  Len(s) = 2 /\ s[2] = sent[2]
    <3>1. Len(s) \in Nat /\ Len(s) <= 2 /\ s[2] = sent[2]
      BY <1>2, <2>1, <2>2
    <3>2. \A k \in Nat : k > 1 /\ k <= 2 => k = 2
      OBVIOUS
    <3>3. QED
      BY <2>2, <3>1, <3>2
  <2>3. /\ cs.state = "Login"
        /\ s[1].type \in {"LoginStart", "CustomQueryAnswer", "LoginAcknowledged"}
        /\ Len(s) > 1 => /\ Len(s) = 2 /\ s[1].type = "LoginAcknowledged"
                         /\ s[2].type = "ConfigurationPluginMessage"
    BY <1>2, <2>1, <2>2
  <2>4. QED
    BY <2>3 DEF Legible
<1>8. CASE Configures(cs, w)
  <2>1. cs.state = "Configuration"
    BY <1>8 DEF Configures
  <2>2. \A i \in 1 .. Len(sent) :
          /\ sent[i].type \in {"ConfigurationPluginMessage", "AcknowledgeConfiguration"}
          /\ i < Len(sent) => sent[i].type = "ConfigurationPluginMessage"
    <3> DEFINE a == Packet("ConfigurationPluginMessage")
               b == Packet("AcknowledgeConfiguration")
    <3>1. /\ sent = << a, b >> \/ sent = << b >>
          /\ a.type = "ConfigurationPluginMessage"
          /\ b.type = "AcknowledgeConfiguration"
      BY <1>3, <1>8 DEF Configures
    <3> HIDE DEF sent, a, b
    <3>2. CASE sent = << a, b >>
      <4>1. \A i \in 1 .. 2 : i = 1 \/ i = 2
        OBVIOUS
      <4>2. QED
        BY <1>3, <3>1, <3>2, <4>1
    <3>3. CASE sent = << b >>
      <4>1. \A i \in 1 .. 1 : i = 1
        OBVIOUS
      <4>2. QED
        BY <1>3, <3>1, <3>3, <4>1
    <3>4. QED
      BY <3>1, <3>2, <3>3
  <2> HIDE DEF sent
  <2>3. QED
    BY <1>2, <2>1, <2>2 DEF Legible
<1>9. CASE Plays(cs, w)
  <2>1. cs.state = "Play" /\ \A i \in 1 .. Len(sent) : sent[i].type \in {"PlayCommand", "Unknown"}
    BY <1>1, <1>3, <1>9 DEF Plays
  <2> HIDE DEF sent
  <2>2. QED
    BY <1>2, <2>1 DEF Legible
<1>10. CASE Rejects(cs, w)
  BY <1>2, <1>10 DEF Rejects
<1>11. QED
  BY <1>4, <1>5, <1>6, <1>7, <1>8, <1>9, <1>10 DEF Stage

\* A client may leave at any moment: what it had sent can still be read.
LEMMA ConversesLeftover ==
  ASSUME NEW server, NEW t \in Tasks, NEW p \in Peers, NEW sent,
         NEW received \in Seq(Frames(ClientBound)),
         InConversation(server, t, p, sent, received)
  PROVE  Leftover(t, sent)
<1> SUFFICES ASSUME t.pc \in Serving, sent # << >>
             PROVE  /\ \E s \in Seq(ServerBound) :
                         /\ sent = FrameAll(s, t.compression)
                         /\ Legible(t.client_state.state, s)
                    /\ \A i \in 1 .. Len(t.batch) : t.batch[i].type # "SetCompression"
  BY DEF Leftover
<1>1. PICK views \in Seq(Views) : Converses(server, t, p, sent, received, views)
  BY DEF InConversation
<1> DEFINE n == Len(received)
           m == Len(t.batch)
           packets == Packets(received) \o t.batch
           v == views[1]
           w == views[Len(views)]
<1>2. t.pc # "Closed"
  BY DEF Serving
<1>3. First(t, p, sent, views) /\ Sized(t, received, views)
  BY <1>1, <1>2, FirstFrame, ConversesFacts
<1>4. /\ n \in Nat /\ m \in Nat /\ Len(views) = n + m + 1 /\ Len(packets) = n + m
      /\ t.batch \in Seq(ClientBound) /\ Packets(received) \in Seq(ClientBound)
      /\ Len(Packets(received)) = n
      /\ \A i \in 1 .. n + m + 1 : views[i] \in Views
      /\ v.sent # << >> /\ \A i \in 1 .. Len(views) : views[i].peer.compressed = t.compression
  BY <1>3 DEF Sized, First
<1>5. \A i \in 1 .. m : packets[n + i] = t.batch[i] /\ n + i \in 1 .. n + m
  BY <1>4
<1>6. Trace(server, views, packets)
  BY <1>1 DEF Converses
<1> HIDE DEF packets, n, m
<1>7. 1 \in 1 .. n + m + 1 /\ n + m + 1 \in 1 .. n + m + 1
  BY <1>4
<1>8. v \in Views /\ w \in Views /\ v.sent \in Seq(ServerBound)
  BY <1>4, <1>7 DEF Views
<1>9. \A i \in 1 .. n + m + 1 : Precedes(v, views[i])
  <2>1. \A j, k \in 1 .. n + m + 1 : j <= k => Precedes(views[j], views[k])
    BY <1>4, <1>6 DEF Trace
  <2>2. \A i \in 1 .. n + m + 1 : 1 <= i
    BY <1>4
  <2>3. QED
    BY <1>7, <2>1, <2>2
<1>10. sent = FrameAll(v.sent, t.compression)
  BY <1>1, <1>4, <1>7 DEF Converses
<1>11. Legible(t.client_state.state, v.sent)
  <2>1. Stage(t.client_state, server, w)
    BY <1>1 DEF Converses, Minds
  <2>2. Begins(v.sent, w.sent)
    BY <1>4, <1>7, <1>9 DEF Precedes
  <2>3. QED
    BY <1>8, <2>1, <2>2, StageLegible
<1>12. ASSUME NEW i \in 1 .. m
       PROVE  t.batch[i].type # "SetCompression"
  <2>1. n + i \in 1 .. n + m /\ n + i \in 1 .. n + m + 1
    BY <1>4, <1>5
  <2>2. Follows(server, views[n + i], packets[n + i], views[n + i + 1])
    BY <1>4, <1>6, <2>1 DEF Trace
  <2>3. views[n + i].sent # << >>
    <3>1. Precedes(v, views[n + i])
      BY <1>9, <2>1
    <3>2. Begins(v.sent, views[n + i].sent) /\ views[n + i].sent \in Seq(ServerBound)
      BY <1>4, <2>1, <3>1 DEF Precedes, Views
    <3>3. Len(v.sent) > 0 /\ Len(v.sent) <= Len(views[n + i].sent)
      BY <1>4, <1>8, <3>2 DEF Begins
    <3>4. QED
      BY <3>3
  <2>4. QED
    BY <1>5, <2>2, <2>3 DEF Follows
<1>13. QED
  BY <1>8, <1>10, <1>11, <1>12 DEF m

-----------------------------------------------------------------------------
(* What no handler does *)

\* A batch that ends with the world.
Carries(batch) == batch # << >> /\ batch[Len(batch)].type = "PlayData"

\* A handler kicks in Login only, queuing nothing for a client it kicks, and the
\* keep-alive is asked for with the entry into Play, which ends with the world.
Careful(cs, outcome) ==
  LET after == outcome.client_state
  IN  /\ after.kick_message =>
           after.state = "Login" /\ outcome.batch = << >> /\ outcome.error # "Custom"
      /\ outcome.error # "None" => outcome.batch = << >>
      /\ after.state # "Play" => after.keep_alive_enabled = cs.keep_alive_enabled
      /\ cs.state = "Play" => after = cs
      /\ cs.state # "Play" /\ after.state = "Play" =>
           /\ outcome.error = "None" /\ Carries(outcome.batch)
           /\ cs.keep_alive_enabled = "Disabled" => after.keep_alive_enabled = "ShouldEnable"

\* A client state that only Login and Configuration know, with another's keep-alive.
Beside(cs, after) ==
  /\ cs \in ClientStates /\ after \in ClientStates
  /\ cs.state # "Play" /\ after.state # "Play"
  /\ after.keep_alive_enabled = cs.keep_alive_enabled

\* A handler that kicks nobody and does not enter Play.
LEMMA CarefulBeside ==
  ASSUME NEW cs, NEW after, Beside(cs, after), ~after.kick_message
  PROVE  /\ \A batch : Careful(cs, Queued(after, batch))
         /\ \A error : Careful(cs, Failed(after, error))
BY DEF Beside, Careful, Queued, Failed

\* A handler that kicks.
LEMMA CarefulKick ==
  ASSUME NEW cs, NEW after, Beside(cs, after), after.state = "Login"
  PROVE  /\ Careful(cs, Queued(Kick(after), << >>))
         /\ Careful(cs, Failed(Kick(after), "Disconnected"))
<1>1. /\ Kick(after).state = "Login"
      /\ Kick(after).keep_alive_enabled = cs.keep_alive_enabled
  BY DEF Beside, Kick, ClientStates
<1>2. cs.state # "Play"
  BY DEF Beside
<1> HIDE DEF Kick
<1>3. QED
  BY <1>1, <1>2 DEF Careful, Queued, Failed

\* send_play_packets.
LEMMA CarefulPlay ==
  ASSUME NEW cs, NEW after, Beside(cs, after), ~after.kick_message,
         NEW batch \in Seq(ClientBound), NEW server
  PROVE  Careful(cs, SendPlayPackets(after, batch, server))
<1> DEFINE playing == SetKeepAliveShouldEnable([after EXCEPT !.state = "Play"])
           full == batch \o << Packet("Login"), Packet("PlayData") >>
<1>1. /\ playing.state = "Play" /\ ~playing.kick_message
      /\ after.keep_alive_enabled = "Disabled" => playing.keep_alive_enabled = "ShouldEnable"
  BY DEF SetKeepAliveShouldEnable, Beside, ClientStates
<1>2. cs.state # "Play" /\ after.keep_alive_enabled = cs.keep_alive_enabled
  BY DEF Beside
<1> HIDE DEF playing
<1>3. Careful(cs, Queued(playing, full))
  <2>1. Carries(full)
    <3>1. /\ Len(full) = Len(batch) + 2 /\ Len(batch) \in Nat
          /\ full[Len(batch) + 2] = Packet("PlayData")
      OBVIOUS
    <3>2. full # << >>
      BY <3>1
    <3>3. QED
      BY <3>1, <3>2 DEF Carries, Packet
  <2> HIDE DEF full
  <2>2. QED
    BY <1>1, <1>2, <2>1 DEF Careful, Queued
<1>4. Careful(cs, Failed(after, "Disconnected"))
  BY CarefulBeside
<1>5. QED
  BY <1>3, <1>4 DEF SendPlayPackets, playing

\* fire_login_success.
LEMMA CarefulSuccess ==
  ASSUME NEW cs, NEW after, Beside(cs, after), ~after.kick_message, NEW server,
         NEW profile \in Profiles
  PROVE  Careful(cs, FireLoginSuccess(after, << >>, server, profile))
<1> DEFINE named == SetGameProfile(after, profile)
<1>1. Beside(cs, named) /\ ~named.kick_message
  BY SetGameProfileType DEF Beside, SetGameProfile, ClientStates
<1> DEFINE compress == /\ IsAfterInclusive(after.protocol_version, V1_8)
                       /\ server.compression
           first == IF compress THEN << Packet("SetCompression") >> ELSE << >>
           success == [type |-> "LoginSuccess", profile |-> profile]
           queued == << >> \o first \o << success >>
<1> HIDE DEF named
<1>2. queued \in Seq(ClientBound)
  <2>1. Packet("SetCompression") \in ClientBound /\ success \in ClientBound
    BY DEF Packet, ClientBound
  <2> HIDE DEF compress, success
  <2>2. QED
    BY <2>1
<1>3. Careful(cs, SendPlayPackets(named, queued, server)) /\ Careful(cs, Queued(named, queued))
  BY <1>1, <1>2, CarefulPlay, CarefulBeside
<1>4. QED
  BY <1>3 DEF FireLoginSuccess, named

\* enqueue_next_forge_step.
LEMMA CarefulStep ==
  ASSUME NEW cs, NEW after, Beside(cs, after), ~after.kick_message
  PROVE  Careful(cs, EnqueueNextForgeStep(after))
<1> DEFINE next == TakeNextStep(after.forge_session)
<1>1. next \in Sessions
  BY TakeNextStepType DEF Beside, ClientStates
<1> HIDE DEF next
<1>2. /\ Beside(cs, [after EXCEPT !.forge_session = next])
      /\ ~[after EXCEPT !.forge_session = next].kick_message
  BY <1>1 DEF Beside, ClientStates
<1>3. \A batch : Careful(cs, Queued([after EXCEPT !.forge_session = next], batch))
  BY <1>2, CarefulBeside
<1>4. QED
  BY <1>3 DEF EnqueueNextForgeStep, next

\* handle_login_start.
LEMMA CarefulLoginStart ==
  ASSUME NEW cs \in ClientStates, cs.state = "Login", ~cs.kick_message,
         NEW server, NEW velocity_id \in Int
  PROVE  Careful(cs, HandleLoginStart(cs, server, velocity_id))
<1> DEFINE named == SetGameProfile(cs, "LoginStart")
           session == [NoSession EXCEPT !.active = TRUE]
           started == [named EXCEPT !.forge_session = session]
           asking == [cs EXCEPT !.message_id = velocity_id]
<1>1. named \in ClientStates /\ named.state = "Login" /\ ~named.kick_message
      /\ named.keep_alive_enabled = cs.keep_alive_enabled
  BY SetGameProfileType DEF SetGameProfile, ClientStates, Profiles
<1>2. session \in Sessions
  BY DEF NoSession, Sessions
<1> HIDE DEF named, session
<1>3. Beside(cs, started) /\ ~started.kick_message
  BY <1>1, <1>2 DEF Beside, ClientStates
<1>4. Beside(cs, asking) /\ ~asking.kick_message /\ Beside(cs, cs)
  BY DEF Beside, ClientStates
<1> HIDE DEF started, asking
<1>5. Careful(cs, EnqueueNextForgeStep(started))
  BY <1>3, CarefulStep
<1>6. Careful(cs, FireLoginSuccess(cs, << >>, server, "LoginStart"))
  BY <1>4, CarefulSuccess DEF Profiles
<1>7. \A batch : Careful(cs, Queued(asking, batch))
  BY <1>4, CarefulBeside
<1>8. Careful(cs, Queued(Kick(cs), << >>))
  BY <1>4, CarefulKick
<1>9. QED
  BY <1>5, <1>6, <1>7, <1>8 DEF HandleLoginStart, named, session, started, asking

\* handle_custom_query_answer.
LEMMA CarefulAnswer ==
  ASSUME NEW cs \in ClientStates, cs.state = "Login", ~cs.kick_message,
         NEW server, NEW packet
  PROVE  Careful(cs, HandleCustomQueryAnswer(cs, server, packet))
<1>1. Beside(cs, cs)
  BY DEF Beside
<1>2. Careful(cs, HandleForgeAnswer(cs, server, packet.message_id))
  <2> DEFINE rest == cs.forge_session.pending \ {packet.message_id}
             answered == [cs EXCEPT !.forge_session.pending = @ \ {packet.message_id}]
             done == [answered EXCEPT !.forge_session = NoSession]
  <2>1. Beside(cs, answered) /\ ~answered.kick_message
    <3>1. rest \in SUBSET Nat /\ answered = [cs EXCEPT !.forge_session.pending = rest]
      BY DEF ClientStates, Sessions
    <3>2. ASSUME NEW pending \in SUBSET Nat
          PROVE  LET after == [cs EXCEPT !.forge_session.pending = pending]
                 IN  Beside(cs, after) /\ ~after.kick_message
      BY DEF Beside, ClientStates, Sessions
    <3> HIDE DEF rest, answered
    <3>3. QED
      BY <3>1, <3>2
  <2> HIDE DEF answered
  <2>2. Beside(cs, done) /\ ~done.kick_message /\ done.game_profile \in Profiles
    <3>1. NoSession \in Sessions
      BY DEF NoSession, Sessions
    <3>2. QED
      BY <2>1, <3>1 DEF Beside, ClientStates
  <2> HIDE DEF done
  <2>3. Careful(cs, EnqueueNextForgeStep(answered))
    BY <2>1, CarefulStep
  <2>4. Careful(cs, FireLoginSuccess(done, << >>, server, done.game_profile))
    BY <2>2, CarefulSuccess
  <2>5. Careful(cs, Failed(done, "Custom"))
    BY <2>2, CarefulBeside
  <2>6. QED
    BY <2>3, <2>4, <2>5 DEF HandleForgeAnswer, answered, done
<1>3. Careful(cs, HandleVelocityAnswer(cs, server, packet))
  <2>1. Careful(cs, FireLoginSuccess(cs, << >>, server, "Forwarded"))
    BY <1>1, CarefulSuccess DEF Profiles
  <2>2. Careful(cs, Queued(Kick(cs), << >>))
    BY <1>1, CarefulKick
  <2>3. QED
    BY <2>1, <2>2 DEF HandleVelocityAnswer
<1>4. Careful(cs, Queued(cs, << >>))
  BY <1>1, CarefulBeside
<1>5. QED
  BY <1>2, <1>3, <1>4 DEF HandleCustomQueryAnswer

\* handle_handshake.
LEMMA CarefulHandshake ==
  ASSUME NEW cs \in ClientStates, cs.state = "Handshake", ~cs.kick_message,
         NEW server \in ServerStates, NEW packet \in ServerBound, packet.type = "Handshake"
  PROVE  Careful(cs, HandleHandshake(cs, server, packet))
<1> DEFINE versioned == [cs EXCEPT !.protocol_version = GetProtocol(packet.protocol, server)]
           login == [versioned EXCEPT !.state = "Login", !.forge_kind = packet.forge_kind]
           status == [versioned EXCEPT !.state = "Status"]
           transfer == [versioned EXCEPT !.state = "Transfer"]
<1>1. /\ packet.protocol \in Int /\ packet.forge_kind \in ForgeKinds
      /\ packet.hostname \in Hostnames /\ packet.next_state \in Int
  BY DEF ServerBound
<1>2. Beside(cs, versioned) /\ ~versioned.kick_message
  BY <1>1, GetProtocolType DEF Beside, ClientStates
<1> HIDE DEF versioned
<1>3. /\ Beside(cs, login) /\ ~login.kick_message /\ login.state = "Login"
      /\ Beside(cs, status) /\ ~status.kick_message
      /\ Beside(cs, transfer) /\ ~transfer.kick_message
  BY <1>1, <1>2 DEF Beside, ClientStates, States
<1> HIDE DEF login, status, transfer
<1>4. /\ \A batch : Careful(cs, Queued(status, batch))
      /\ \A error : /\ Careful(cs, Failed(versioned, error)) /\ Careful(cs, Failed(status, error))
                    /\ Careful(cs, Failed(transfer, error))
  BY <1>2, <1>3, CarefulBeside
<1>5. Careful(cs, BeginLogin(login, server, packet.hostname))
  <2> DEFINE named == SetGameProfile(login, "Forwarded")
  <2>1. Beside(cs, named) /\ ~named.kick_message
    BY <1>3, SetGameProfileType DEF SetGameProfile, Beside, ClientStates, Profiles
  <2> HIDE DEF named
  <2>2. /\ \A batch : Careful(cs, Queued(named, batch)) /\ Careful(cs, Queued(login, batch))
        /\ \A error : Careful(cs, Failed(login, error))
        /\ Careful(cs, Failed(Kick(login), "Disconnected"))
    BY <1>3, <2>1, CarefulBeside, CarefulKick
  <2>3. CheckBungeeCord(server, packet.hostname) \in {"NoForwarding", "Anonymous", "Invalid"}
    BY <1>1 DEF CheckBungeeCord, ServerStates
  <2>4. QED
    BY <2>2, <2>3 DEF BeginLogin, named
<1>6. packet.next_state \in {1, 2, 3} \/ packet.next_state \notin 1 .. 3
  BY <1>1
<1>7. QED
  BY <1>4, <1>5, <1>6 DEF HandleHandshake, versioned, login, status, transfer

\* Whatever a task reads.
LEMMA HandlersCareful ==
  ASSUME NEW cs \in ClientStates, ~cs.kick_message, NEW server \in ServerStates,
         NEW packet \in ServerBound, NEW velocity_id \in Int
  PROVE  Careful(cs, DecodeAndHandle(cs, server, packet, velocity_id))
<1>1. \A batch, error : /\ Careful(cs, Queued(cs, batch)) /\ Careful(cs, Failed(cs, error))
  BY DEF Careful, Queued, Failed
<1>2. SUFFICES ASSUME packet.type \in Decodable(cs.state)
               PROVE  Careful(cs, Handle(cs, server, packet, velocity_id))
  BY <1>1 DEF DecodeAndHandle
<1>3. cs.state \in States
  BY DEF ClientStates
<1>4. CASE cs.state = "Handshake"
  <2>1. packet.type = "Handshake"
    BY <1>2, <1>4 DEF Decodable
  <2>2. QED
    BY <1>4, <2>1, CarefulHandshake DEF Handle
<1>5. CASE cs.state = "Status"
  <2>1. packet.type \in {"StatusRequest", "PingRequest"}
    BY <1>2, <1>5 DEF Decodable
  <2>2. QED
    BY <1>1, <2>1 DEF Handle
<1>6. CASE cs.state = "Login"
  <2>1. packet.type \in {"LoginStart", "CustomQueryAnswer", "LoginAcknowledged"}
    BY <1>2, <1>6 DEF Decodable
  <2>2. Careful(cs, HandleLoginAcknowledged(cs))
    <3>1. /\ Beside(cs, [cs EXCEPT !.state = "Configuration"])
          /\ ~[cs EXCEPT !.state = "Configuration"].kick_message
      BY <1>6 DEF Beside, ClientStates, States
    <3>2. \A batch : Careful(cs, Queued([cs EXCEPT !.state = "Configuration"], batch))
      BY <3>1, CarefulBeside
    <3>3. QED
      BY <1>1, <3>2 DEF HandleLoginAcknowledged
  <2>3. /\ Careful(cs, HandleLoginStart(cs, server, velocity_id))
        /\ Careful(cs, HandleCustomQueryAnswer(cs, server, packet))
    BY <1>6, CarefulLoginStart, CarefulAnswer
  <2>4. QED
    BY <2>1, <2>2, <2>3 DEF Handle
<1>7. CASE cs.state = "Configuration"
  <2>1. packet.type \in {"AcknowledgeConfiguration", "ConfigurationPluginMessage"}
    BY <1>2, <1>7 DEF Decodable
  <2>2. Careful(cs, HandleAcknowledgeConfiguration(cs, server))
    <3>1. Beside(cs, cs)
      BY <1>7 DEF Beside
    <3>2. << >> \in Seq(ClientBound)
      OBVIOUS
    <3>3. QED
      BY <3>1, <3>2, CarefulPlay DEF HandleAcknowledgeConfiguration
  <2>3. QED
    BY <1>1, <2>1, <2>2 DEF Handle
<1>8. CASE cs.state = "Play"
  <2>1. packet.type = "PlayCommand"
    BY <1>2, <1>8 DEF Decodable
  <2>2. QED
    BY <1>1, <2>1 DEF Handle
<1>9. cs.state # "Transfer"
  BY <1>2 DEF Decodable
<1>10. QED
  BY <1>3, <1>4, <1>5, <1>6, <1>7, <1>8, <1>9 DEF States

\* The tail of a sequence of at least two.
LEMMA TailOfMore ==
  ASSUME NEW A, NEW s \in Seq(A), Tail(s) # << >>, s # << >>
  PROVE  /\ Len(s) \in Nat /\ Len(s) > 1 /\ Len(Tail(s)) = Len(s) - 1 /\ Tail(s)[1] = s[2]
         /\ \A i \in 1 .. Len(s) - 1 : Tail(s)[i] = s[i + 1] /\ i + 1 \in 1 .. Len(s)
<1>1. Len(s) \in Nat \ {0} /\ Len(Tail(s)) = Len(s) - 1
  OBVIOUS
<1>2. Len(s) # 1
  <2>1. Len(s) = 1 => Len(Tail(s)) = 0
    BY <1>1
  <2>2. Tail(s) \in Seq(A) /\ \A q \in Seq(A) : Len(q) = 0 => q = << >>
    OBVIOUS
  <2>3. QED
    BY <2>1, <2>2
<1>3. \A i \in 1 .. Len(s) - 1 : Tail(s)[i] = s[i + 1] /\ i + 1 \in 1 .. Len(s)
  BY <1>1
<1>4. 1 \in 1 .. Len(s) - 1 /\ 1 + 1 = 2 /\ Len(s) > 1
  BY <1>1, <1>2
<1>5. Tail(s)[1] = s[2]
  BY <1>3, <1>4
<1>6. QED
  BY <1>1, <1>3, <1>4, <1>5

\* What a client had sent can be decoded to the end, in one format.
LEMMA HandlersLegible ==
  ASSUME NEW cs \in ClientStates, NEW server \in ServerStates, NEW velocity_id \in Int,
         NEW s \in Seq(ServerBound), s # << >>, Tail(s) # << >>, Legible(cs.state, s),
         NEW outcome, outcome = DecodeAndHandle(cs, server, s[1], velocity_id),
         outcome.error # "Disconnected"
  PROVE  /\ Legible(outcome.client_state.state, Tail(s))
         /\ \A i \in 1 .. Len(outcome.batch) : outcome.batch[i].type # "SetCompression"
<1> DEFINE packet == s[1]
           rest == Tail(s)
<1>1. /\ Len(s) \in Nat /\ Len(s) > 1 /\ Len(rest) = Len(s) - 1 /\ rest[1] = s[2]
      /\ \A i \in 1 .. Len(s) - 1 : rest[i] = s[i + 1] /\ i + 1 \in 1 .. Len(s)
      /\ rest # << >>
  BY TailOfMore
<1>2. packet \in ServerBound /\ 1 \in 1 .. Len(s)
  BY <1>1
<1>3. \A type : Packet(type).type = type
  BY DEF Packet
<1>4. \A p : Len(<< p >>) = 1 /\ << p >>[1] = p /\ \A i \in 1 .. 1 : i = 1
  OBVIOUS
<1>5. \A i \in 1 .. Len(<< >>) : FALSE
  OBVIOUS
<1> HIDE DEF rest, packet
<1>6. CASE /\ cs.state = "Handshake" /\ packet.type = "Handshake" /\ Len(s) <= 2
           /\ Len(s) = 2 => s[2] = Opening(packet).packet
  <2>1. Len(s) = 2 /\ Len(rest) = 1 /\ rest[1] = Opening(packet).packet
    <3>1. Len(s) = 2
      BY <1>1, <1>6
    <3>2. QED
      BY <1>1, <1>6, <3>1
  <2>2. outcome = HandleHandshake(cs, server, packet)
    BY <1>6 DEF DecodeAndHandle, Decodable, Handle, packet
  <2> DEFINE versioned == [cs EXCEPT !.protocol_version = GetProtocol(packet.protocol, server)]
             login == [versioned EXCEPT !.state = "Login", !.forge_kind = packet.forge_kind]
             status == [versioned EXCEPT !.state = "Status"]
             transfer == [versioned EXCEPT !.state = "Transfer"]
  <2>3. /\ packet.protocol \in Int /\ packet.forge_kind \in ForgeKinds
        /\ packet.hostname \in Hostnames /\ packet.next_state \in Int
    BY <1>2, <1>6 DEF ServerBound
  <2>4. versioned \in ClientStates
    BY <2>3, GetProtocolType DEF ClientStates
  <2> HIDE DEF versioned
  <2>5. login \in ClientStates /\ login.state = "Login" /\ status.state = "Status"
    BY <2>3, <2>4 DEF ClientStates, States
  <2> HIDE DEF login, status, transfer
  <2>6. CASE packet.next_state = 1
    <3>1. outcome.client_state = status /\ outcome.batch = << >>
      BY <2>2, <2>6 DEF HandleHandshake, Queued, Failed, versioned, status
    <3>2. rest[1].type = "StatusRequest"
      BY <1>3, <2>1, <2>6 DEF Opening
    <3>3. \A i \in 1 .. Len(rest) : rest[i].type \in {"StatusRequest", "PingRequest"}
      BY <1>4, <2>1, <3>2
    <3>4. Legible("Status", rest)
      BY <3>3 DEF Legible
    <3>5. QED
      BY <1>5, <2>5, <3>1, <3>4 DEF rest
  <2>7. CASE packet.next_state # 1
    <3>1. /\ outcome.client_state.state = "Login" /\ outcome.batch = << >>
      <4>1. outcome = BeginLogin(login, server, packet.hostname)
        <5>1. packet.next_state \in {1, 2, 3} \/ packet.next_state \notin 1 .. 3
          BY <2>3
        <5>2. QED
          BY <2>2, <2>7, <5>1
          DEF HandleHandshake, Queued, Failed, versioned, login, transfer
      <4>2. CheckBungeeCord(server, packet.hostname) \in {"NoForwarding", "Anonymous", "Invalid"}
        BY <2>3 DEF CheckBungeeCord, ServerStates
      <4>3. SetGameProfile(login, "Forwarded").state = "Login"
        BY <2>5 DEF SetGameProfile, ClientStates
      <4>4. QED
        BY <2>5, <4>1, <4>2, <4>3 DEF BeginLogin, Queued, Failed
    <3>2. rest[1].type = "LoginStart"
      BY <1>3, <2>1, <2>7 DEF Opening
    <3>3. Legible("Login", rest)
      BY <2>1, <3>2 DEF Legible
    <3>4. QED
      BY <1>5, <3>1, <3>3 DEF rest
  <2>8. QED
    BY <2>6, <2>7
<1>7. CASE /\ cs.state = "Status"
           /\ \A i \in 1 .. Len(s) : s[i].type \in {"StatusRequest", "PingRequest"}
  <2>1. packet.type \in {"StatusRequest", "PingRequest"}
    BY <1>2, <1>7 DEF packet
  <2>2. /\ outcome.client_state = cs
        /\ outcome.batch = << Packet("StatusResponse") >>
             \/ outcome.batch = << Packet("PongResponse") >>
    BY <1>7, <2>1 DEF DecodeAndHandle, Decodable, Handle, Queued, packet
  <2>3. \A i \in 1 .. Len(rest) : rest[i].type \in {"StatusRequest", "PingRequest"}
    BY <1>1, <1>7
  <2>4. Legible("Status", rest)
    BY <2>3 DEF Legible
  <2>5. \A i \in 1 .. Len(outcome.batch) : outcome.batch[i].type # "SetCompression"
    BY <1>3, <1>4, <2>2
  <2>6. QED
    BY <1>7, <2>2, <2>4, <2>5 DEF rest
<1>8. CASE /\ cs.state = "Login"
           /\ Len(s) = 2 /\ packet.type = "LoginAcknowledged"
           /\ s[2].type = "ConfigurationPluginMessage"
  <2>1. outcome = HandleLoginAcknowledged(cs)
    BY <1>8 DEF DecodeAndHandle, Decodable, Handle, packet
  <2>2. /\ outcome.client_state = [cs EXCEPT !.state = "Configuration"]
        /\ outcome.batch = << Packet("ConfigurationData"), Packet("FinishConfiguration") >>
    BY <2>1 DEF HandleLoginAcknowledged, Queued, Failed
  <2>3. outcome.client_state.state = "Configuration"
    BY <2>2 DEF ClientStates
  <2>4. Len(rest) = 1 /\ rest[1].type = "ConfigurationPluginMessage"
    BY <1>1, <1>8
  <2>5. \A i \in 1 .. Len(rest) :
          /\ rest[i].type \in {"ConfigurationPluginMessage", "AcknowledgeConfiguration"}
          /\ i < Len(rest) => rest[i].type = "ConfigurationPluginMessage"
    BY <1>4, <2>4
  <2>6. Legible("Configuration", rest)
    BY <2>5 DEF Legible
  <2>7. \A i \in 1 .. Len(outcome.batch) : outcome.batch[i].type # "SetCompression"
    <3>1. \A p, q : /\ Len(<< p, q >>) = 2 /\ << p, q >>[1] = p /\ << p, q >>[2] = q
                    /\ \A i \in 1 .. 2 : i = 1 \/ i = 2
      OBVIOUS
    <3>2. QED
      BY <1>3, <2>2, <3>1
  <2>8. QED
    BY <2>3, <2>6, <2>7 DEF rest
<1>9. CASE /\ cs.state = "Configuration"
           /\ \A i \in 1 .. Len(s) :
                /\ s[i].type \in {"ConfigurationPluginMessage", "AcknowledgeConfiguration"}
                /\ i < Len(s) => s[i].type = "ConfigurationPluginMessage"
  <2>1. packet.type = "ConfigurationPluginMessage"
    BY <1>1, <1>2, <1>9 DEF packet
  <2>2. outcome.client_state = cs /\ outcome.batch = << >>
    BY <1>9, <2>1 DEF DecodeAndHandle, Decodable, Handle, Queued, packet
  <2>3. \A i \in 1 .. Len(rest) :
          /\ rest[i].type \in {"ConfigurationPluginMessage", "AcknowledgeConfiguration"}
          /\ i < Len(rest) => rest[i].type = "ConfigurationPluginMessage"
    <3>1. \A i \in 1 .. Len(rest) : i \in 1 .. Len(s) - 1 /\ (i < Len(rest) => i + 1 < Len(s))
      BY <1>1
    <3>2. QED
      BY <1>1, <1>9, <3>1
  <2>4. Legible("Configuration", rest)
    BY <2>3 DEF Legible
  <2>5. QED
    BY <1>5, <1>9, <2>2, <2>4 DEF rest
<1>10. CASE cs.state = "Play" /\ \A i \in 1 .. Len(s) : s[i].type \in {"PlayCommand", "Unknown"}
  <2>1. packet.type \in {"PlayCommand", "Unknown"}
    BY <1>2, <1>10 DEF packet
  <2>2. /\ outcome.client_state = cs
        /\ outcome.batch = << Packet("PlayData") >> \/ outcome.batch = << >>
    BY <1>10, <2>1 DEF DecodeAndHandle, Decodable, Handle, Queued, Failed, packet
  <2>3. \A i \in 1 .. Len(rest) : rest[i].type \in {"PlayCommand", "Unknown"}
    BY <1>1, <1>10
  <2>4. Legible("Play", rest)
    BY <2>3 DEF Legible
  <2>5. \A i \in 1 .. Len(outcome.batch) : outcome.batch[i].type # "SetCompression"
    BY <1>3, <1>4, <1>5, <2>2
  <2>6. QED
    BY <1>10, <2>2, <2>4, <2>5 DEF rest
<1>11. QED
  BY <1>1, <1>6, <1>7, <1>8, <1>9, <1>10 DEF Legible, packet

\* A task that is about to read what its client left behind can decode it.
LEMMA LegibleDecodable ==
  ASSUME NEW state, NEW s, s # << >>, Legible(state, s), 1 \in 1 .. Len(s)
  PROVE  s[1].type \in Decodable(state) \cup {"Unknown"}
<1>1. \/ state = "Handshake" /\ s[1].type = "Handshake"
      \/ state = "Status" /\ s[1].type \in {"StatusRequest", "PingRequest"}
      \/ /\ state = "Login"
         /\ s[1].type \in {"LoginStart", "CustomQueryAnswer", "LoginAcknowledged"}
      \/ /\ state = "Configuration"
         /\ s[1].type \in {"ConfigurationPluginMessage", "AcknowledgeConfiguration"}
      \/ state = "Play" /\ s[1].type \in {"PlayCommand", "Unknown"}
  BY DEF Legible
<1>2. QED
  BY <1>1 DEF Decodable

-----------------------------------------------------------------------------
(* The tasks, one by one *)

\* What can be said of a task and its client without the other's state: a batch
\* is left only while it is written, a client to be kicked is in Login with
\* nothing queued for it, a task counts once it is in Play, and a task that has
\* not begun is a new one.
Simple(c) ==
  LET t == task[c]
      cs == task[c].client_state
  IN  /\ t.pc \notin {"Counting", "Writing"} => t.batch = << >>
      /\ cs.kick_message => /\ cs.state = "Login" /\ t.batch = << >>
                            /\ t.pc \in {"Writing", "Kicking", "Closing"}
      /\ t.pc = "Kicking" => cs.kick_message
      /\ t.was_in_play => cs.state = "Play"
      /\ t.pc \in {"Closed", "Pending"} => t = NewTask(t.pc)
      /\ Gone(c) => to_client[c] = << >>

\* A step belongs to one connection.
LEMMA OthersStay ==
  ASSUME TypeOK, NEW c \in Clients, ServerStep(c) \/ ClientStep(c), NEW d \in Clients \ {c}
  PROVE  /\ task'[d] = task[d] /\ peer'[d] = peer[d]
         /\ to_server'[d] = to_server[d] /\ to_client'[d] = to_client[d]
<1>1. /\ task \in [Clients -> Tasks] /\ peer \in [Clients -> Peers]
      /\ to_server \in [Clients -> Seq(Frames(ServerBound))]
      /\ to_client \in [Clients -> Seq(Frames(ClientBound))]
  BY DEF TypeOK
<1>2. CASE ProcessPacket(c)
  <2>1. \A e \in Clients \ {c} : task'[e] = task[e]
    BY <1>2, ProcessPacketEffect
  <2>2. QED
    BY <1>1, <1>2, <2>1 DEF ProcessPacket
<1>3. CASE FinishPacket(c)
  <2>1. \A e \in Clients \ {c} : task'[e] = task[e]
    BY <1>3, FinishPacketEffect
  <2>2. QED
    BY <1>1, <1>3, <2>1 DEF FinishPacket, channels
<1>4. CASE Accept(c) \/ Increment(c) \/ WritePacket(c) \/ WriteFails(c) \/ FindKick(c)
           \/ KickClient(c) \/ ReadEnd(c) \/ Shutdown(c) \/ Decrement(c)
  BY <1>1, <1>4
  DEF Accept, Increment, WritePacket, WriteFails, FindKick, KickClient, ReadEnd,
      Shutdown, Decrement, Send, channels
<1>5. CASE KeepAliveTick(c) \/ ActionBarTick(c)
  BY <1>1, <1>5 DEF KeepAliveTick, ActionBarTick, Tick, Send
<1>6. CASE ClientStep(c)
  BY <1>1, <1>6 DEF ClientStep, Connect, Receive, SendInput, Leave
<1>7. QED
  BY <1>2, <1>3, <1>4, <1>5, <1>6 DEF ServerStep

\* The server is configured once.
LEMMA ConfigStays ==
  ASSUME NEW c, ServerStep(c) \/ ClientStep(c)
  PROVE  config' = config
BY DEF ServerStep, Accept, ProcessPacket, Increment, WritePacket, WriteFails, FinishPacket,
       FindKick, KickClient, KeepAliveTick, ActionBarTick, Tick, ReadEnd, Shutdown,
       Decrement, ClientStep, Connect, Receive, SendInput, Leave

\* Handling what was read, be it in the other format.
LEMMA ReadCareful ==
  ASSUME TypeOK, NEW c \in Clients, NEW frame \in Frames(ServerBound),
         NEW velocity_id \in VelocityIds, ~task[c].client_state.kick_message
  PROVE  Careful(task[c].client_state, ReadAndHandle(c, frame, velocity_id))
<1>1. /\ config \in ServerStates /\ velocity_id \in Int
      /\ task[c].client_state \in ClientStates /\ frame.packet \in ServerBound
  BY ConfigsAssumption, VelocityIdsAssumption DEF TypeOK, Tasks, Frames
<1>2. Careful(task[c].client_state, Failed(task[c].client_state, "Custom"))
  BY DEF Careful, Failed
<1>3. QED
  BY <1>1, <1>2, HandlersCareful DEF ReadAndHandle

\* A task that is replaced by a new one.
LEMMA NewTaskFields ==
  ASSUME NEW at
  PROVE  /\ NewTask(at).pc = at /\ NewTask(at).batch = << >>
         /\ ~NewTask(at).client_state.kick_message /\ ~NewTask(at).was_in_play
         /\ NewTask(at).client_state = DefaultClientState
         /\ NewTask(at).compression = FALSE
BY DEF NewTask, DefaultClientState

\* The other steps of a task, field by field.
Stays(c) ==
  /\ task'[c].client_state = task[c].client_state
  /\ task'[c].was_in_play = task[c].was_in_play

\* A step of the task keeps what can be said of it alone.
LEMMA ServerStepSimple ==
  ASSUME TypeOK, NEW c \in Clients, Simple(c), ServerStep(c)
  PROVE  Simple(c)'
<1> DEFINE t == task[c]
<1>1. /\ task \in [Clients -> Tasks] /\ t \in Tasks /\ t.client_state \in ClientStates
      /\ to_client \in [Clients -> Seq(Frames(ClientBound))]
  BY DEF TypeOK, Tasks
<1>2. Gone(c)' => to_client'[c] = << >>
  <2>1. peer' = peer
    BY DEF ServerStep, Accept, ProcessPacket, Increment, WritePacket, WriteFails,
           FinishPacket, FindKick, KickClient, KeepAliveTick, ActionBarTick, Tick,
           ReadEnd, Shutdown, Decrement, channels
  <2>2. Gone(c) => to_client'[c] = to_client[c]
    BY <1>1
    DEF ServerStep, Accept, ProcessPacket, Increment, WritePacket, WriteFails,
        FinishPacket, FindKick, KickClient, KeepAliveTick, ActionBarTick, Tick,
        ReadEnd, Shutdown, Decrement, Send, channels
  <2>3. QED
    BY <2>1, <2>2 DEF Simple, Gone
<1>3. ASSUME NEW at \in {"Closed", "Reading"}, task'[c] = NewTask(at)
      PROVE  Simple(c)'
  <2> DEFINE u == task'[c]
  <2>1. /\ u.pc = at /\ u.batch = << >> /\ ~u.client_state.kick_message /\ ~u.was_in_play
    BY <1>3, NewTaskFields
  <2>2. u = NewTask(u.pc)
    BY <1>3, <2>1
  <2>3. at # "Kicking"
    OBVIOUS
  <2>4. QED
    BY <1>2, <2>1, <2>2, <2>3 DEF Simple
<1>4. CASE Accept(c)
  BY <1>1, <1>3, <1>4 DEF Accept
<1>5. CASE ProcessPacket(c)
  <2>1. PICK velocity_id \in VelocityIds :
          LET outcome == ReadAndHandle(c, Head(to_server[c]), velocity_id)
          IN  Sound(outcome) /\ Processed(c, outcome)
    BY <1>5, ProcessPacketEffect
  <2> DEFINE outcome == ReadAndHandle(c, Head(to_server[c]), velocity_id)
  <2>2. t.pc = "Reading" /\ ~t.client_state.kick_message
    BY <1>5 DEF ProcessPacket, Simple
  <2>3. Careful(t.client_state, outcome)
    <3>1. Head(to_server[c]) \in Frames(ServerBound)
      BY <1>5, ProcessPacketEffect
    <3>2. QED
      BY <2>2, <3>1, ReadCareful
  <2> HIDE DEF outcome
  <2>4. Processed(c, outcome) /\ outcome.error \in {"None", "Custom", "Disconnected"}
        /\ outcome \in Outcomes
    BY <2>1 DEF outcome, Sound, Outcomes, Errors
  <2>5. task'[c].pc \in {"Counting", "Writing", "Reading", "Closing"}
        /\ (task'[c].pc = "Counting" => outcome.client_state.state = "Play")
        /\ (task'[c].pc = "Reading" <=> outcome.error = "Custom")
        /\ (task'[c].pc = "Closing" <=> outcome.error = "Disconnected")
    BY <2>4 DEF Processed, AfterError
  <2>6. /\ task'[c].client_state = outcome.client_state /\ task'[c].batch = outcome.batch
        /\ task'[c].was_in_play => t.was_in_play \/ outcome.client_state.state = "Play"
    BY <2>4 DEF Processed
  <2>7. t.was_in_play => outcome.client_state.state = "Play"
    BY <2>3 DEF Careful, Simple
  <2>8. QED
    BY <1>2, <2>3, <2>4, <2>5, <2>6, <2>7 DEF Simple, Careful
<1>6. CASE Increment(c)
  <2>1. Stays(c) /\ task'[c].pc = "Writing" /\ task'[c].batch = t.batch /\ t.pc = "Counting"
    BY <1>1, <1>6 DEF Increment, Tasks, Stays
  <2>2. QED
    BY <1>2, <2>1 DEF Simple, Stays
<1>7. CASE WritePacket(c)
  <2>1. Stays(c) /\ task'[c].pc = "Writing" /\ t.pc = "Writing" /\ t.batch # << >>
    BY <1>1, <1>7 DEF WritePacket, Tasks, Stays
  <2>2. QED
    BY <1>2, <2>1 DEF Simple, Stays
<1>8. CASE WriteFails(c)
  <2>1. /\ Stays(c) /\ task'[c].pc \in {"Reading", "Closing"} /\ t.pc = "Writing"
        /\ t.batch # << >> /\ task'[c].batch = << >>
    BY <1>1, <1>8 DEF WriteFails, Tasks, AfterError, Stays
  <2>2. QED
    BY <1>2, <2>1 DEF Simple, Stays
<1>9. CASE FinishPacket(c)
  <2>1. Finished(c) /\ t.pc = "Writing" /\ t.batch = << >> /\ ~t.client_state.kick_message
    BY <1>9, FinishPacketEffect DEF FinishPacket
  <2>2. /\ task'[c].client_state.kick_message = t.client_state.kick_message
        /\ task'[c].client_state.state = t.client_state.state
        /\ task'[c].pc = "Reading" /\ task'[c].batch = t.batch
        /\ task'[c].was_in_play = t.was_in_play
    BY <1>1, <2>1 DEF Finished, ClientStates
  <2>3. QED
    BY <1>2, <2>1, <2>2 DEF Simple
<1>10. CASE FindKick(c)
  <2>1. /\ Stays(c) /\ task'[c].pc = "Kicking" /\ t.pc = "Writing"
        /\ t.batch = << >> /\ task'[c].batch = << >> /\ t.client_state.kick_message
    BY <1>1, <1>10 DEF FindKick, Tasks, Stays
  <2>2. QED
    BY <1>2, <2>1 DEF Simple, Stays
<1>11. CASE KickClient(c)
  <2>1. /\ Stays(c) /\ task'[c].pc = "Closing" /\ t.pc = "Kicking" /\ task'[c].batch = t.batch
    BY <1>1, <1>11 DEF KickClient, Tasks, Stays
  <2>2. QED
    BY <1>2, <2>1 DEF Simple, Stays
<1>12. ASSUME NEW type, Tick(c, type)
       PROVE  Simple(c)'
  <2>1. /\ Stays(c) /\ task'[c].pc \in {"Reading", "Closing"} /\ t.pc = "Reading"
        /\ task'[c].batch = t.batch
    BY <1>1, <1>12 DEF Tick, Tasks, AfterError, Stays
  <2>2. QED
    BY <1>2, <2>1 DEF Simple, Stays
<1>13. CASE ReadEnd(c)
  <2>1. /\ Stays(c) /\ task'[c].pc = "Closing" /\ t.pc = "Reading" /\ task'[c].batch = t.batch
    BY <1>1, <1>13 DEF ReadEnd, Tasks, Stays
  <2>2. QED
    BY <1>2, <2>1 DEF Simple, Stays
<1>14. CASE Shutdown(c)
  <2>1. CASE t.was_in_play
    <3> DEFINE left == [t EXCEPT !.pc = "Leaving"]
               cleared == [t EXCEPT !.pc = "Leaving", !.timers = NoTimers]
    <3>1. /\ left.client_state = t.client_state /\ left.was_in_play = t.was_in_play
          /\ left.pc = "Leaving" /\ left.batch = t.batch
          /\ cleared.client_state = t.client_state /\ cleared.was_in_play = t.was_in_play
          /\ cleared.pc = "Leaving" /\ cleared.batch = t.batch
      BY <1>1 DEF Tasks
    <3>2. t.pc = "Closing" /\ (task'[c] = left \/ task'[c] = cleared)
      BY <1>1, <1>14, <2>1 DEF Shutdown
    <3> HIDE DEF left, cleared
    <3>3. /\ Stays(c) /\ task'[c].pc = "Leaving" /\ t.pc = "Closing" /\ task'[c].batch = t.batch
      BY <3>1, <3>2 DEF Stays
    <3>4. QED
      BY <1>2, <2>1, <3>3 DEF Simple, Stays
  <2>2. CASE ~t.was_in_play
    BY <1>1, <1>3, <1>14, <2>2 DEF Shutdown
  <2>3. QED
    BY <2>1, <2>2
<1>15. CASE Decrement(c)
  BY <1>1, <1>3, <1>15 DEF Decrement
<1>16. QED
  BY <1>4, <1>5, <1>6, <1>7, <1>8, <1>9, <1>10, <1>11, <1>12, <1>13, <1>14, <1>15
  DEF ServerStep, KeepAliveTick, ActionBarTick

\* What a client does to a task: it connects to one that is closed.
LEMMA Connecting ==
  ASSUME NEW t \in Tasks, t = NewTask("Closed")
  PROVE  [t EXCEPT !.pc = "Pending"] = NewTask("Pending")
<1> DEFINE u == [t EXCEPT !.pc = "Pending"]
           v == NewTask("Pending")
<1>1. /\ t.client_state = v.client_state /\ t.compression = v.compression
      /\ t.batch = v.batch /\ t.was_in_play = v.was_in_play
      /\ t.just_entered = v.just_entered /\ t.timers = v.timers /\ t.ticks = v.ticks
  BY DEF NewTask
<1>2. u \in Tasks /\ v \in Tasks /\ v.pc = "Pending"
  BY NewTaskType DEF Tasks, Pcs, NewTask
<1>3. /\ u.client_state = t.client_state /\ u.compression = t.compression
      /\ u.batch = t.batch /\ u.was_in_play = t.was_in_play
      /\ u.just_entered = t.just_entered /\ u.timers = t.timers /\ u.ticks = t.ticks
      /\ u.pc = "Pending"
  BY DEF Tasks
<1> HIDE DEF u, v
<1>4. u = v
  BY <1>1, <1>2, <1>3 DEF Tasks
<1>5. QED
  BY <1>4 DEF u, v

\* A step of the client keeps it as well.
LEMMA ClientStepSimple ==
  ASSUME TypeOK, NEW c \in Clients, Simple(c), ClientStep(c)
  PROVE  Simple(c)'
<1>1. /\ task \in [Clients -> Tasks] /\ task[c] \in Tasks
      /\ peer \in [Clients -> Peers] /\ peer[c] \in Peers
      /\ to_client \in [Clients -> Seq(Frames(ClientBound))]
  BY DEF TypeOK
<1>2. CASE Connect(c)
  <2>1. task[c] = NewTask("Closed") /\ to_client'[c] = << >>
    BY <1>2 DEF Connect, Simple
  <2>2. task'[c] = NewTask("Pending")
    BY <1>1, <1>2, <2>1, Connecting DEF Connect
  <2> DEFINE u == task'[c]
  <2>3. /\ u.pc = "Pending" /\ u.batch = << >> /\ ~u.client_state.kick_message
        /\ ~u.was_in_play
    BY <2>2, NewTaskFields
  <2>4. u = NewTask(u.pc)
    BY <2>2, <2>3
  <2>5. QED
    BY <2>1, <2>3, <2>4 DEF Simple
<1>3. CASE Leave(c)
  BY <1>1, <1>3 DEF Leave, Simple
<1>4. CASE Receive(c) \/ SendInput(c)
  <2>1. ~Gone(c)' /\ task' = task
    <3>1. CASE Receive(c)
      <4> DEFINE p == peer[c]
                 frame == Head(to_client[c])
      <4>1. /\ p.phase \in {"Status", "Login", "Configuration", "Play"} /\ task' = task
            /\ \/ peer'[c] = [p EXCEPT !.phase = "Error"]
               \/ peer'[c] = React(p, frame.packet)
        BY <1>1, <3>1 DEF Receive
      <4>2. frame.packet \in ClientBound
        <5>1. to_client[c] \in Seq(Frames(ClientBound)) /\ to_client[c] # << >>
          BY <1>1, <3>1 DEF Receive
        <5>2. frame \in Frames(ClientBound)
          BY <5>1
        <5>3. QED
          BY <5>2 DEF Frames
      <4>3. React(p, frame.packet).phase # "Gone"
        BY <1>1, <4>1, <4>2, ReactJoins
      <4>4. [p EXCEPT !.phase = "Error"].phase = "Error"
        BY <1>1 DEF Peers
      <4>5. QED
        BY <4>1, <4>3, <4>4 DEF Gone
    <3>2. CASE SendInput(c)
      BY <1>1, <3>2 DEF SendInput, Gone, Peers
    <3>3. QED
      BY <1>4, <3>1, <3>2
  <2>2. QED
    BY <2>1 DEF Simple
<1>5. QED
  BY <1>2, <1>3, <1>4 DEF ClientStep

-----------------------------------------------------------------------------
(* The conversation, step by step *)

\* A connection whose client is there, or was.
Coherent(c) ==
  /\ Simple(c)
  /\ ~Gone(c) => InConversation(config, task[c], peer[c], to_server[c], to_client[c])
  /\ Gone(c) => Leftover(task[c], to_server[c])

\* The timers change nothing of the stage.
LEMMA StageEnabled ==
  ASSUME NEW cs \in ClientStates, NEW server, NEW w, Stage(cs, server, w),
         NEW enabled \in {"Enabled", cs.keep_alive_enabled},
         enabled # cs.keep_alive_enabled => cs.keep_alive_enabled = "ShouldEnable"
  PROVE  Stage([cs EXCEPT !.keep_alive_enabled = enabled], server, w)
<1> DEFINE after == [cs EXCEPT !.keep_alive_enabled = enabled]
<1>1. /\ after.state = cs.state /\ after.protocol_version = cs.protocol_version
      /\ after.kick_message = cs.kick_message /\ after.message_id = cs.message_id
      /\ after.game_profile = cs.game_profile /\ after.forge_kind = cs.forge_kind
      /\ after.forge_session = cs.forge_session
  BY DEF ClientStates
<1>2. cs = DefaultClientState => after = cs
  <2>1. cs = DefaultClientState => enabled = cs.keep_alive_enabled
    BY DEF DefaultClientState
  <2>2. [cs EXCEPT !.keep_alive_enabled = cs.keep_alive_enabled] = cs
    BY DEF ClientStates
  <2>3. QED
    BY <2>1, <2>2
<1> HIDE DEF after
<1>3. Agree(w.peer, cs) => Agree(w.peer, after)
  BY <1>1 DEF Agree
<1>4. Stage(after, server, w)
  BY <1>1, <1>2, <1>3
  DEF Stage, Asks, LogsIn, Starts, Vouches, Replays, LetIn, Configures, Plays, Rejects
<1>5. QED
  BY <1>4 DEF after

\* A client to be kicked waits for the packet that tells it so.
LEMMA StageOfKicked ==
  ASSUME NEW cs, cs.kick_message, NEW server, NEW w, Stage(cs, server, w)
  PROVE  w.peer.phase = "Login"
BY DEF Stage, LogsIn, Rejects, DefaultClientState

\* A player has joined.
LEMMA StageOfPlayer ==
  ASSUME NEW cs, cs.state = "Play", NEW server, NEW w, Stage(cs, server, w)
  PROVE  w.peer.joined
BY DEF Stage, Asks, LogsIn, LetIn, Configures, Plays, Rejects, DefaultClientState

\* A timer fires in the Play state.
LEMMA ConversesTick ==
  ASSUME NEW server, NEW t \in Tasks, NEW p, NEW sent,
         NEW received \in Seq(Frames(ClientBound)),
         InConversation(server, t, p, sent, received),
         t.pc = "Reading", t.client_state.state = "Play", t.batch = << >>,
         NEW u \in Tasks, u.client_state = t.client_state, u.batch = << >>,
         u.pc = "Reading", u.compression = t.compression,
         NEW type \in {"KeepAlive", "ActionBar"}
  PROVE  InConversation(server, u, p, sent,
                        Append(received, Frame(Packet(type), t.compression)))
<1>1. Packet(type) \in ClientBound /\ Packet(type).type = type
  BY PlainPackets DEF PlainTypes
<1>2. ASSUME NEW w \in Views, Minds(server, t, w)
      PROVE  \E x : /\ Follows(server, w, Packet(type), x)
                    /\ u.pc \in Serving => Stage(u.client_state, server, x)
  <2>1. Stage(t.client_state, server, w)
    BY <1>2 DEF Minds, Serving
  <2>2. w.peer.joined
    BY <2>1, StageOfPlayer
  <2>3. Follows(server, w, Packet(type), After(w, Packet(type)))
    BY <2>2, PlainFollows
  <2>4. After(w, Packet(type)) = w
    <3>1. React(w.peer, Packet(type)) = w.peer /\ Replies(w.peer, Packet(type)) = << >>
      BY <1>1, <2>2, <2>3, JoinedReacts DEF Follows, Views
    <3>2. w.sent \o << >> = w.sent /\ w = [peer |-> w.peer, sent |-> w.sent]
      BY DEF Views
    <3>3. QED
      BY <3>1, <3>2 DEF After
  <2>5. QED
    BY <2>1, <2>3, <2>4
<1>3. t.pc # "Closed" /\ u.pc # "Closed"
  OBVIOUS
<1>4. Packet(type).type \notin {"SetCompression", "LoginSuccess", "CustomQuery"}
  BY <1>1
<1>5. QED
  BY <1>1, <1>2, <1>3, <1>4, ConversesBeside

\* kick_client tells the client.
LEMMA ConversesKick ==
  ASSUME NEW server, NEW t \in Tasks, NEW p, NEW sent,
         NEW received \in Seq(Frames(ClientBound)),
         InConversation(server, t, p, sent, received),
         t.pc = "Kicking", t.client_state.kick_message, t.batch = << >>,
         NEW u \in Tasks, u.client_state = t.client_state, u.batch = << >>,
         u.pc = "Closing", u.compression = t.compression
  PROVE  InConversation(server, u, p, sent,
                        Append(received, Frame(Packet("LoginDisconnect"), t.compression)))
<1> DEFINE packet == Packet("LoginDisconnect")
<1>1. packet \in ClientBound /\ packet.type = "LoginDisconnect"
  BY PlainPackets DEF PlainTypes
<1>2. ASSUME NEW w \in Views, Minds(server, t, w)
      PROVE  \E x : /\ Follows(server, w, packet, x)
                    /\ u.pc \in Serving => Stage(u.client_state, server, x)
  <2>1. Stage(t.client_state, server, w)
    BY <1>2 DEF Minds, Serving
  <2>2. w.peer.phase = "Login"
    BY <2>1, StageOfKicked
  <2>3. Follows(server, w, packet, After(w, packet))
    BY <2>2, PlainFollows
  <2>4. QED
    BY <2>3 DEF Serving
<1>3. t.pc # "Closed" /\ u.pc # "Closed"
  OBVIOUS
<1>4. packet.type \notin {"SetCompression", "LoginSuccess", "CustomQuery"}
  BY <1>1
<1> HIDE DEF packet
<1>5. InConversation(server, u, p, sent, Append(received, Frame(packet, t.compression)))
  BY <1>1, <1>2, <1>3, <1>4, ConversesBeside
<1>6. QED
  BY <1>5 DEF packet

\* What is sent to a client that is there.
LEMMA Sent ==
  ASSUME TypeOK, NEW c \in Clients, ~Gone(c), NEW packet, Send(c, packet)
  PROVE  to_client'[c] = Append(to_client[c], Frame(packet, task[c].compression))
BY DEF Send, TypeOK

\* The packet a task handles is in its format.
LEMMA ProcessConverses ==
  ASSUME TypeOK, NEW c \in Clients, Coherent(c), ~Gone(c), ProcessPacket(c)
  PROVE  InConversation(config, task'[c], peer[c], Tail(to_server[c]), to_client[c])
<1> DEFINE t == task[c]
           u == task'[c]
           frame == Head(to_server[c])
<1>1. /\ t \in Tasks /\ peer[c] \in Peers /\ to_client[c] \in Seq(Frames(ClientBound))
      /\ config \in ServerStates /\ t.compression \in BOOLEAN
  BY ConfigsAssumption DEF TypeOK, Tasks
<1>2. /\ t.pc = "Reading" /\ to_server[c] # << >> /\ t.batch = << >>
      /\ ~t.client_state.kick_message
      /\ InConversation(config, t, peer[c], to_server[c], to_client[c])
  BY DEF Coherent, Simple, ProcessPacket
<1>3. PICK velocity_id \in VelocityIds :
        LET outcome == ReadAndHandle(c, frame, velocity_id)
        IN  Sound(outcome) /\ Processed(c, outcome)
  BY ProcessPacketEffect
<1> DEFINE outcome == DecodeAndHandle(t.client_state, config, frame.packet, velocity_id)
<1>4. frame.compressed = t.compression
  <2>1. PICK views \in Seq(Views) :
          Converses(config, t, peer[c], to_server[c], to_client[c], views)
    BY <1>2 DEF InConversation
  <2>2. t.pc # "Closed"
    BY <1>2
  <2>3. First(t, peer[c], to_server[c], views)
    BY <1>1, <1>2, <2>1, <2>2, FirstFrame
  <2>4. QED
    BY <2>3 DEF First
<1>5. ReadAndHandle(c, frame, velocity_id) = outcome
  BY <1>4 DEF ReadAndHandle
<1> HIDE DEF outcome
<1>6. /\ u.client_state = outcome.client_state /\ u.batch = outcome.batch
      /\ u.compression = t.compression /\ u.pc # "Closed"
      /\ u.pc \in Serving => outcome.error # "Disconnected"
  BY <1>3, <1>5 DEF Processed, AfterError, Serving
<1>7. u \in Tasks /\ velocity_id \in Int
  BY ProcessPacketEffect, VelocityIdsAssumption
<1>8. QED
  BY <1>1, <1>2, <1>6, <1>7, ConversesHandling DEF outcome

\* A step of a task goes on with the conversation.
LEMMA ServerStepConverses ==
  ASSUME TypeOK, NEW c \in Clients, Coherent(c), ~Gone(c), ServerStep(c)
  PROVE  InConversation(config, task'[c], peer[c], to_server'[c], to_client'[c])
<1> DEFINE t == task[c]
           u == task'[c]
<1>1. /\ t \in Tasks /\ peer[c] \in Peers /\ to_client[c] \in Seq(Frames(ClientBound))
      /\ config \in ServerStates /\ task \in [Clients -> Tasks]
      /\ t.client_state \in ClientStates /\ t.compression \in BOOLEAN
      /\ t.batch \in Seq(ClientBound)
  BY ConfigsAssumption DEF TypeOK, Tasks
<1>2. u \in Tasks
  BY ServerStepType DEF TypeOK
<1>3. Simple(c) /\ InConversation(config, t, peer[c], to_server[c], to_client[c])
  BY DEF Coherent
<1>4. ASSUME to_server' = to_server, to_client' = to_client, u.batch = t.batch,
             u.pc # "Closed" =>
               /\ t.pc # "Closed" /\ (u.compression <=> t.compression)
               /\ u.client_state = t.client_state,
             u.pc \in Serving => t.pc \in Serving
      PROVE  InConversation(config, u, peer[c], to_server'[c], to_client'[c])
  <2>1. u.pc \in Serving => u.pc # "Closed"
    BY DEF Serving
  <2>2. InConversation(config, u, peer[c], to_server[c], to_client[c])
    BY <1>3, <1>4, <2>1, ConversesOn
  <2>3. QED
    BY <1>4, <2>2
<1>5. CASE Accept(c)
  <2>1. /\ t = NewTask("Pending") /\ u = NewTask("Reading")
        /\ to_server' = to_server /\ to_client' = to_client
    BY <1>1, <1>3, <1>5 DEF Accept, Simple, channels
  <2>2. /\ u.batch = t.batch /\ u.client_state = t.client_state
        /\ u.compression = t.compression /\ t.pc = "Pending" /\ u.pc = "Reading"
    BY <2>1 DEF NewTask
  <2>3. QED
    BY <1>4, <2>1, <2>2 DEF Serving
<1>6. CASE ProcessPacket(c)
  <2>1. to_client' = to_client /\ to_server'[c] = Tail(to_server[c])
    BY <1>6 DEF ProcessPacket, TypeOK
  <2>2. QED
    BY <1>6, <2>1, ProcessConverses
<1>7. CASE Increment(c)
  <2>1. /\ u.batch = t.batch /\ u.client_state = t.client_state
        /\ u.compression = t.compression /\ t.pc = "Counting" /\ u.pc = "Writing"
        /\ to_server' = to_server /\ to_client' = to_client
    BY <1>1, <1>7 DEF Increment, Tasks, channels
  <2>2. QED
    BY <1>4, <2>1 DEF Serving
<1>8. CASE WritePacket(c)
  <2>1. /\ t.pc = "Writing" /\ t.batch # << >> /\ to_server' = to_server
        /\ Send(c, Head(t.batch))
    BY <1>8 DEF WritePacket
  <2>2. /\ u.client_state = t.client_state /\ u.batch = Tail(t.batch) /\ u.pc = "Writing"
        /\ u.compression <=> \/ t.compression
                             \/ Head(t.batch).type = "SetCompression" /\ config.compression
    BY <1>1, <1>8, <2>1 DEF WritePacket, Tasks
  <2>3. to_client'[c] = Append(to_client[c], Frame(Head(t.batch), t.compression))
    BY <2>1, Sent
  <2>4. t.pc # "Closed" /\ u.pc # "Closed" /\ t.pc \in Serving
    BY <2>1, <2>2 DEF Serving
  <2>5. InConversation(config, u, peer[c], to_server[c],
                       Append(to_client[c], Frame(Head(t.batch), t.compression)))
    BY <1>1, <1>2, <1>3, <2>1, <2>2, <2>4, ConversesWriting
  <2>6. QED
    BY <2>1, <2>3, <2>5
<1>9. CASE FinishPacket(c)
  <2> DEFINE cs == t.client_state
             enabled == IF cs.keep_alive_enabled = "ShouldEnable" THEN "Enabled"
                        ELSE cs.keep_alive_enabled
             after == [cs EXCEPT !.keep_alive_enabled = enabled]
  <2>1. /\ Finished(c) /\ t.pc = "Writing" /\ to_server' = to_server
        /\ to_client' = to_client
    BY <1>9, FinishPacketEffect DEF FinishPacket, channels
  <2>2. /\ u.client_state = after /\ u.pc = "Reading" /\ u.batch = t.batch
        /\ u.compression = t.compression
    BY <2>1 DEF Finished
  <2>3. after.game_profile = cs.game_profile /\ after.kick_message = cs.kick_message
    BY <1>1 DEF ClientStates
  <2>4. \A w : Stage(cs, config, w) => Stage(after, config, w)
    BY <1>1, StageEnabled
  <2> HIDE DEF after
  <2>5. u.pc # "Closed" =>
          /\ t.pc # "Closed" /\ (u.compression <=> t.compression)
          /\ u.client_state.game_profile = t.client_state.game_profile
          /\ u.client_state.kick_message <=> t.client_state.kick_message
    BY <2>1, <2>2, <2>3
  <2>6. u.pc \in Serving =>
          /\ t.pc \in Serving
          /\ \A w : Stage(t.client_state, config, w) => Stage(u.client_state, config, w)
    BY <2>1, <2>2, <2>4 DEF Serving
  <2>7. InConversation(config, u, peer[c], to_server[c], to_client[c])
    BY <1>3, <2>2, <2>5, <2>6, ConversesOn
  <2>8. QED
    BY <2>1, <2>7
<1>10. CASE FindKick(c)
  <2>1. /\ u.batch = t.batch /\ u.client_state = t.client_state
        /\ u.compression = t.compression /\ t.pc = "Writing" /\ u.pc = "Kicking"
        /\ to_server' = to_server /\ to_client' = to_client
    BY <1>1, <1>10 DEF FindKick, Tasks, channels
  <2>2. QED
    BY <1>4, <2>1 DEF Serving
<1>11. CASE KickClient(c)
  <2>1. /\ t.pc = "Kicking" /\ t.client_state.kick_message /\ t.client_state.state = "Login"
        /\ t.batch = << >> /\ to_server' = to_server
    BY <1>3, <1>11 DEF KickClient, Simple
  <2>2. /\ u.batch = << >> /\ u.client_state = t.client_state
        /\ u.compression = t.compression /\ u.pc = "Closing"
    BY <1>1, <1>11, <2>1 DEF KickClient, Tasks
  <2>3. Send(c, Packet("LoginDisconnect"))
    BY <1>11, <2>1 DEF KickClient, DisconnectPacket
  <2>4. to_client'[c] = Append(to_client[c], Frame(Packet("LoginDisconnect"), t.compression))
    BY <2>3, Sent
  <2>5. InConversation(config, u, peer[c], to_server[c],
                       Append(to_client[c], Frame(Packet("LoginDisconnect"), t.compression)))
    BY <1>1, <1>2, <1>3, <2>1, <2>2, ConversesKick
  <2>6. QED
    BY <2>1, <2>4, <2>5
<1>12. ASSUME NEW type \in {"KeepAlive", "ActionBar"}, Tick(c, type)
       PROVE  InConversation(config, u, peer[c], to_server'[c], to_client'[c])
  <2>1. /\ t.pc = "Reading" /\ t.batch = << >> /\ to_server' = to_server
        /\ ~t.client_state.kick_message
    BY <1>3, <1>12 DEF Tick, Simple
  <2>2. /\ u.batch = t.batch /\ u.client_state = t.client_state
        /\ u.compression = t.compression /\ u.pc = "Reading"
    BY <1>1, <1>12, <2>1 DEF Tick, AfterError, Tasks
  <2>3. CASE t.client_state.state = "Play"
    <3>1. Send(c, Packet(type))
      BY <1>12, <2>3 DEF Tick
    <3>2. to_client'[c] = Append(to_client[c], Frame(Packet(type), t.compression))
      BY <3>1, Sent
    <3>3. InConversation(config, u, peer[c], to_server[c],
                         Append(to_client[c], Frame(Packet(type), t.compression)))
      BY <1>1, <1>2, <1>3, <2>1, <2>2, <2>3, ConversesTick
    <3>4. QED
      BY <2>1, <3>2, <3>3
  <2>4. CASE t.client_state.state # "Play"
    <3>1. to_client' = to_client
      BY <1>12, <2>4 DEF Tick
    <3>2. QED
      BY <1>4, <2>1, <2>2, <3>1 DEF Serving
  <2>5. QED
    BY <2>3, <2>4
<1>13. CASE Shutdown(c)
  <2>1. t.pc = "Closing" /\ t.batch = << >> /\ to_server' = to_server /\ to_client' = to_client
    BY <1>3, <1>13 DEF Shutdown, Simple, channels
  <2> DEFINE left == [t EXCEPT !.pc = "Leaving"]
             cleared == [t EXCEPT !.pc = "Leaving", !.timers = NoTimers]
  <2>2. /\ left.client_state = t.client_state /\ left.compression = t.compression
        /\ left.pc = "Leaving" /\ left.batch = t.batch
        /\ cleared.client_state = t.client_state /\ cleared.compression = t.compression
        /\ cleared.pc = "Leaving" /\ cleared.batch = t.batch
    BY <1>1 DEF Tasks
  <2>3. u = left \/ u = cleared \/ u = NewTask("Closed")
    BY <1>1, <1>13 DEF Shutdown
  <2> HIDE DEF left, cleared
  <2>4. /\ u.batch = t.batch /\ u.pc \in {"Leaving", "Closed"}
        /\ u.pc # "Closed" => u.client_state = t.client_state /\ u.compression = t.compression
    <3>1. NewTask("Closed").batch = << >> /\ NewTask("Closed").pc = "Closed"
      BY DEF NewTask
    <3>2. QED
      BY <2>1, <2>2, <2>3, <3>1
  <2>5. QED
    BY <1>4, <2>1, <2>4 DEF Serving
<1>14. CASE Decrement(c)
  <2>1. t.pc = "Leaving" /\ t.batch = << >> /\ to_server' = to_server /\ to_client' = to_client
    BY <1>3, <1>14 DEF Decrement, Simple, channels
  <2>2. u = NewTask("Closed")
    BY <1>1, <1>14 DEF Decrement
  <2>3. u.batch = t.batch /\ u.pc = "Closed"
    BY <2>1, <2>2, NewTaskFields
  <2>4. QED
    BY <1>4, <2>1, <2>3 DEF Serving
<1>15. CASE WriteFails(c)
  <2>1. /\ t.pc = "Writing" /\ t.batch # << >> /\ CannotEncode(c)
        /\ to_server' = to_server /\ to_client' = to_client
        /\ task' = [task EXCEPT ![c].batch = << >>, ![c].pc = "Reading"]
    BY <1>15 DEF WriteFails, WriteErrors, AfterError, channels
  <2>2. /\ u.client_state = t.client_state /\ u.batch = << >>
        /\ u.compression = t.compression /\ u.pc = "Reading"
    BY <1>1, <2>1 DEF Tasks
  <2>3. Head(t.batch).type = "PlayData"
    BY <2>1 DEF CannotEncode
  <2>4. t.pc # "Closed" /\ u.pc # "Closed" /\ t.pc \in Serving
    BY <2>1, <2>2 DEF Serving
  <2>5. InConversation(config, u, peer[c], to_server[c], to_client[c])
    BY <1>1, <1>2, <1>3, <2>1, <2>2, <2>3, <2>4, ConversesCutting
  <2>6. QED
    BY <2>1, <2>5
<1>16. ~ReadEnd(c)
  BY DEF ReadEnd
<1>17. QED
  BY <1>5, <1>6, <1>7, <1>8, <1>9, <1>10, <1>11, <1>12, <1>13, <1>14, <1>15, <1>16
  DEF ServerStep, KeepAliveTick, ActionBarTick

\* A step of the task that reads nothing and changes neither state nor format.
LEMMA LeftoverOn ==
  ASSUME NEW t, t.batch \in Seq(ClientBound), NEW u, NEW sent, Leftover(t, sent),
         u.pc \in Serving => /\ t.pc \in Serving
                             /\ u.compression = t.compression
                             /\ u.client_state.state = t.client_state.state,
         u.batch = t.batch \/ u.batch = << >> \/ (t.batch # << >> /\ u.batch = Tail(t.batch))
  PROVE  Leftover(u, sent)
<1>1. ASSUME \A i \in 1 .. Len(t.batch) : t.batch[i].type # "SetCompression"
      PROVE  \A i \in 1 .. Len(u.batch) : u.batch[i].type # "SetCompression"
  <2>1. CASE u.batch = << >>
    BY <2>1
  <2>2. CASE t.batch # << >> /\ u.batch = Tail(t.batch)
    <3>1. \A i \in 1 .. Len(u.batch) : u.batch[i] = t.batch[i + 1] /\ i + 1 \in 1 .. Len(t.batch)
      BY <2>2
    <3>2. QED
      BY <1>1, <3>1
  <2>3. QED
    BY <1>1, <2>1, <2>2
<1>2. QED
  BY <1>1 DEF Leftover

\* The task reads on, though the client has gone.
LEMMA ProcessLeftover ==
  ASSUME TypeOK, NEW c \in Clients, Coherent(c), Gone(c), ProcessPacket(c)
  PROVE  Leftover(task'[c], Tail(to_server[c]))
<1> DEFINE t == task[c]
           u == task'[c]
           sent == to_server[c]
           frame == Head(sent)
<1>1. /\ t \in Tasks /\ config \in ServerStates /\ t.compression \in BOOLEAN
      /\ t.client_state \in ClientStates
  BY ConfigsAssumption DEF TypeOK, Tasks
<1>2. /\ t.pc = "Reading" /\ sent # << >> /\ t.pc \in Serving /\ Leftover(t, sent)
  BY DEF Coherent, ProcessPacket, Serving
<1>3. PICK s \in Seq(ServerBound) :
        sent = FrameAll(s, t.compression) /\ Legible(t.client_state.state, s)
  BY <1>2 DEF Leftover
<1>4. PICK velocity_id \in VelocityIds :
        LET outcome == ReadAndHandle(c, frame, velocity_id)
        IN  Sound(outcome) /\ Processed(c, outcome)
  BY ProcessPacketEffect
<1>5. /\ s # << >> /\ frame = Frame(s[1], t.compression)
      /\ Tail(sent) = FrameAll(Tail(s), t.compression)
  <2>1. FrameAll(s, t.compression) # << >>
    BY <1>2, <1>3
  <2>2. /\ s # << >> /\ Head(FrameAll(s, t.compression)) = Frame(s[1], t.compression)
        /\ Tail(FrameAll(s, t.compression)) = FrameAll(Tail(s), t.compression)
    BY <1>1, <2>1, FrameAllTail
  <2>3. QED
    BY <1>3, <2>2
<1> HIDE DEF sent, frame
<1> DEFINE outcome == DecodeAndHandle(t.client_state, config, s[1], velocity_id)
<1>6. frame.packet = s[1] /\ frame.compressed = t.compression
  BY <1>5 DEF Frame
<1>7. ReadAndHandle(c, frame, velocity_id) = outcome
  BY <1>6 DEF ReadAndHandle
<1> HIDE DEF outcome
<1>8. Processed(c, outcome)
  BY <1>4, <1>7 DEF frame
<1>9. /\ u.client_state = outcome.client_state /\ u.batch = outcome.batch
      /\ u.compression = t.compression
      /\ u.pc \in Serving => outcome.error # "Disconnected"
  BY <1>8 DEF Processed, AfterError, Serving
<1>10. ASSUME u.pc \in Serving, Tail(sent) # << >>
       PROVE  /\ \E rest \in Seq(ServerBound) :
                   /\ Tail(sent) = FrameAll(rest, u.compression)
                   /\ Legible(u.client_state.state, rest)
              /\ \A i \in 1 .. Len(u.batch) : u.batch[i].type # "SetCompression"
  <2>1. Tail(s) \in Seq(ServerBound) /\ Tail(s) # << >>
    <3>1. Tail(s) = << >> => FrameAll(Tail(s), t.compression) = << >>
      BY FrameAllNothing
    <3>2. Tail(s) \in Seq(ServerBound)
      BY <1>5
    <3>3. QED
      BY <1>5, <1>10, <3>1, <3>2
  <2>2. /\ Legible(outcome.client_state.state, Tail(s))
        /\ \A i \in 1 .. Len(outcome.batch) : outcome.batch[i].type # "SetCompression"
    <3>1. outcome.error # "Disconnected" /\ velocity_id \in Int
      BY <1>9, <1>10, VelocityIdsAssumption
    <3>2. QED
      BY <1>1, <1>3, <1>5, <2>1, <3>1, HandlersLegible DEF outcome
  <2>3. QED
    BY <1>5, <1>9, <2>1, <2>2
<1>11. QED
  BY <1>10 DEF Leftover, sent

\* A task whose client has gone reads what it had sent and knows it to the end.
LEMMA ServerStepLeftover ==
  ASSUME TypeOK, NEW c \in Clients, Coherent(c), Gone(c), ServerStep(c)
  PROVE  Leftover(task'[c], to_server'[c])
<1> DEFINE t == task[c]
           u == task'[c]
<1>1. /\ t \in Tasks /\ task \in [Clients -> Tasks] /\ t.batch \in Seq(ClientBound)
      /\ t.client_state \in ClientStates /\ t.compression \in BOOLEAN
  BY DEF TypeOK, Tasks
<1>2. Simple(c) /\ Leftover(t, to_server[c])
  BY DEF Coherent
<1>3. ASSUME to_server' = to_server,
             u.pc \in Serving => /\ t.pc \in Serving
                                 /\ u.compression = t.compression
                                 /\ u.client_state.state = t.client_state.state,
             u.batch = t.batch \/ u.batch = << >>
               \/ (t.batch # << >> /\ u.batch = Tail(t.batch))
      PROVE  Leftover(u, to_server'[c])
  <2>1. Leftover(u, to_server[c])
    BY <1>1, <1>2, <1>3, LeftoverOn
  <2>2. QED
    BY <1>3, <2>1
<1>4. CASE Accept(c)
  <2>1. /\ t = NewTask("Pending") /\ u = NewTask("Reading") /\ to_server' = to_server
    BY <1>1, <1>2, <1>4 DEF Accept, Simple, channels
  <2>2. /\ u.batch = t.batch /\ u.client_state = t.client_state
        /\ u.compression = t.compression /\ t.pc = "Pending"
    BY <2>1 DEF NewTask
  <2>3. QED
    BY <1>3, <2>1, <2>2 DEF Serving
<1>5. CASE ProcessPacket(c)
  <2>1. to_server'[c] = Tail(to_server[c])
    BY <1>5 DEF ProcessPacket, TypeOK
  <2>2. QED
    BY <1>5, <2>1, ProcessLeftover
<1>6. CASE Increment(c)
  <2>1. /\ u.batch = t.batch /\ u.client_state = t.client_state
        /\ u.compression = t.compression /\ t.pc = "Counting" /\ to_server' = to_server
    BY <1>1, <1>6 DEF Increment, Tasks, channels
  <2>2. QED
    BY <1>3, <2>1 DEF Serving
<1>7. CASE WritePacket(c)
  <2>1. /\ t.pc = "Writing" /\ t.batch # << >> /\ to_server' = to_server
    BY <1>7 DEF WritePacket
  <2>2. /\ u.client_state = t.client_state /\ u.batch = Tail(t.batch)
        /\ u.compression <=> \/ t.compression
                             \/ Head(t.batch).type = "SetCompression" /\ config.compression
    BY <1>1, <1>7, <2>1 DEF WritePacket, Tasks
  <2>3. CASE to_server[c] = << >>
    BY <2>1, <2>3 DEF Leftover
  <2>4. CASE to_server[c] # << >>
    <3>1. 1 \in 1 .. Len(t.batch) /\ Head(t.batch) = t.batch[1]
      BY <1>1, <2>1
    <3>2. t.pc \in Serving
      BY <2>1 DEF Serving
    <3>3. Head(t.batch).type # "SetCompression"
      BY <1>2, <2>4, <3>1, <3>2 DEF Leftover
    <3>4. u.compression = t.compression
      <4>1. u \in Tasks
        BY ServerStepType DEF TypeOK
      <4>2. u.compression \in BOOLEAN
        BY <4>1 DEF Tasks
      <4>3. QED
        BY <1>1, <2>2, <3>3, <4>2
    <3>5. QED
      BY <1>3, <2>1, <2>2, <3>2, <3>4
  <2>5. QED
    BY <2>3, <2>4
<1>8. CASE WriteFails(c)
  <2>1. /\ u.batch = << >> /\ u.client_state = t.client_state
        /\ u.compression = t.compression /\ t.pc = "Writing" /\ to_server' = to_server
    BY <1>1, <1>8 DEF WriteFails, Tasks, channels
  <2>2. QED
    BY <1>3, <2>1 DEF Serving
<1>9. CASE FinishPacket(c)
  <2>1. Finished(c) /\ t.pc = "Writing" /\ to_server' = to_server
    BY <1>9, FinishPacketEffect DEF FinishPacket, channels
  <2>2. /\ u.client_state.state = t.client_state.state /\ u.batch = t.batch
        /\ u.compression = t.compression
    BY <1>1, <2>1 DEF Finished, ClientStates
  <2>3. QED
    BY <1>3, <2>1, <2>2 DEF Serving
<1>10. CASE FindKick(c)
  <2>1. /\ u.batch = t.batch /\ u.client_state = t.client_state
        /\ u.compression = t.compression /\ t.pc = "Writing" /\ to_server' = to_server
    BY <1>1, <1>10 DEF FindKick, Tasks, channels
  <2>2. QED
    BY <1>3, <2>1 DEF Serving
<1>11. CASE KickClient(c) \/ ReadEnd(c)
  <2>1. u.pc = "Closing" /\ u.batch = t.batch /\ to_server' = to_server
    BY <1>1, <1>11 DEF KickClient, ReadEnd, Tasks, channels
  <2>2. QED
    BY <1>3, <2>1 DEF Serving
<1>12. ASSUME NEW type \in {"KeepAlive", "ActionBar"}, Tick(c, type)
       PROVE  Leftover(u, to_server'[c])
  <2>1. /\ u.batch = t.batch /\ u.client_state = t.client_state
        /\ u.compression = t.compression /\ t.pc = "Reading" /\ to_server' = to_server
    BY <1>1, <1>12 DEF Tick, Tasks
  <2>2. QED
    BY <1>3, <2>1 DEF Serving
<1>13. CASE Shutdown(c) \/ Decrement(c)
  <2>1. u.pc \in {"Leaving", "Closed"}
    <3>1. CASE Decrement(c)
      BY <1>1, <3>1 DEF Decrement, NewTask
    <3>2. CASE Shutdown(c)
      BY <1>1, <3>2 DEF Shutdown, NewTask, Tasks
    <3>3. QED
      BY <1>13, <3>1, <3>2
  <2>2. QED
    BY <2>1 DEF Leftover, Serving
<1>14. QED
  BY <1>4, <1>5, <1>6, <1>7, <1>8, <1>9, <1>10, <1>11, <1>12, <1>13
  DEF ServerStep, KeepAliveTick, ActionBarTick

\* A client before its first packet.
LEMMA NoPeerFields ==
  /\ NoPeer \in Peers /\ NoPeer.compressed = FALSE /\ NoPeer.profile = "Absent"
  /\ NoPeer.steps = 0 /\ NoPeer.joined = FALSE
BY DEF NoPeer, Peers, Phases, ForgeKinds, Profiles, AnyVersion

\* A client connects: the conversation opens.
LEMMA ConnectConverses ==
  ASSUME TypeOK, NEW c \in Clients, Coherent(c), Connect(c)
  PROVE  InConversation(config, task'[c], peer'[c], to_server'[c], to_client'[c]) /\ ~Gone(c)'
<1>1. /\ task \in [Clients -> Tasks] /\ peer \in [Clients -> Peers]
      /\ to_server \in [Clients -> Seq(Frames(ServerBound))] /\ config \in Configs
  BY DEF TypeOK
<1>2. task'[c] = NewTask("Pending") /\ to_client'[c] = << >>
  <2>1. task[c] = NewTask("Closed") /\ to_client'[c] = << >>
    BY DEF Connect, Coherent, Simple
  <2>2. QED
    BY <1>1, <2>1, Connecting DEF Connect
<1>3. PICK greeting \in Greetings :
        /\ peer' = [peer EXCEPT ![c] =
                      [NoPeer EXCEPT !.phase = Opening(greeting.handshake).phase,
                                     !.protocol = greeting.handshake.protocol,
                                     !.forge_kind = greeting.handshake.forge_kind,
                                     !.key_valid = greeting.key_valid]]
        /\ to_server' = [to_server EXCEPT ![c] =
                           FrameAll(<< greeting.handshake,
                                       Opening(greeting.handshake).packet >>, FALSE)]
  BY DEF Connect
<1> DEFINE hello == greeting.handshake
<1>4. /\ hello \in ServerBound /\ hello.type = "Handshake" /\ greeting.key_valid \in BOOLEAN
  BY GreetingsAssumption
<1>5. hello.protocol \in Int /\ hello.forge_kind \in ForgeKinds
  BY <1>4 DEF ServerBound
<1>6. Familiar(config, hello.protocol)
  BY <1>1, GameVersionsAssumption
<1>7. Opening(hello).phase \in {"Status", "Login"} /\ Opening(hello).phase \in Phases
  BY DEF Opening, Phases
<1> DEFINE p == peer'[c]
           sent == to_server'[c]
<1>8. /\ p = [NoPeer EXCEPT !.phase = Opening(hello).phase, !.protocol = hello.protocol,
                            !.forge_kind = hello.forge_kind, !.key_valid = greeting.key_valid]
      /\ sent = FrameAll(<< hello, Opening(hello).packet >>, FALSE)
  BY <1>1, <1>3
<1> HIDE DEF p, hello
<1>9. /\ p \in Peers /\ p.phase = Opening(hello).phase /\ p.protocol = hello.protocol
      /\ p.forge_kind = hello.forge_kind /\ ~p.compressed /\ p.profile = "Absent"
      /\ p.steps = 0 /\ ~p.joined
  <2> DEFINE phase == Opening(hello).phase
             protocol == hello.protocol
             forge_kind == hello.forge_kind
             key_valid == greeting.key_valid
  <2>1. p = [NoPeer EXCEPT !.phase = phase, !.protocol = protocol,
                           !.forge_kind = forge_kind, !.key_valid = key_valid]
    BY <1>8
  <2>2. /\ phase \in Phases /\ protocol \in Int /\ forge_kind \in ForgeKinds
        /\ key_valid \in BOOLEAN
    BY <1>4, <1>5, <1>7
  <2> HIDE DEF phase, protocol, forge_kind, key_valid
  <2>3. /\ p \in Peers /\ p.phase = phase /\ p.protocol = protocol
        /\ p.forge_kind = forge_kind /\ ~p.compressed /\ p.profile = "Absent"
        /\ p.steps = 0 /\ ~p.joined
    BY <2>1, <2>2, NoPeerFields DEF Peers
  <2>4. QED
    BY <2>3 DEF phase, protocol, forge_kind
<1>10. InConversation(config, task'[c], p, FrameAll(<< hello, Opening(hello).packet >>, FALSE),
                      << >>)
  BY <1>2, <1>4, <1>6, <1>9, ConversesOpening
<1>11. ~Gone(c)'
  BY <1>7, <1>9 DEF Gone, p
<1>12. QED
  BY <1>2, <1>8, <1>10, <1>11 DEF p

\* A client receives: it makes sense of the packet, and the conversation goes on.
LEMMA ReceiveConverses ==
  ASSUME TypeOK, NEW c \in Clients, Coherent(c), Receive(c)
  PROVE  InConversation(config, task'[c], peer'[c], to_server'[c], to_client'[c]) /\ ~Gone(c)'
<1> DEFINE p == peer[c]
           frame == Head(to_client[c])
<1>1. /\ peer \in [Clients -> Peers] /\ to_server \in [Clients -> Seq(Frames(ServerBound))]
      /\ to_client \in [Clients -> Seq(Frames(ClientBound))]
      /\ task[c] \in Tasks /\ p \in Peers /\ to_client[c] \in Seq(Frames(ClientBound))
  BY DEF TypeOK
<1>2. to_client[c] # << >> /\ p.phase # "Gone" /\ task' = task
  BY DEF Receive
<1>3. InConversation(config, task[c], p, to_server[c], to_client[c])
  BY <1>2 DEF Coherent, Gone
<1>4. /\ Expected(p, frame.packet) /\ frame.compressed = p.compressed
      /\ InConversation(config, task[c], React(p, frame.packet),
                        to_server[c] \o FrameAll(Replies(p, frame.packet), p.compressed),
                        Tail(to_client[c]))
  BY <1>1, <1>2, <1>3, ConversesReceiving
<1>5. /\ peer'[c] = React(p, frame.packet)
      /\ to_server'[c] = to_server[c] \o FrameAll(Replies(p, frame.packet), p.compressed)
      /\ to_client'[c] = Tail(to_client[c])
  BY <1>1, <1>4 DEF Receive
<1>6. React(p, frame.packet).phase # "Gone"
  <2>1. frame \in Frames(ClientBound)
    BY <1>1, <1>2
  <2>2. frame.packet \in ClientBound
    BY <2>1 DEF Frames
  <2>3. QED
    BY <1>1, <1>2, <2>2, ReactJoins
<1>7. QED
  BY <1>2, <1>4, <1>5, <1>6 DEF Gone

\* The player moves or types.
LEMMA SendInputConverses ==
  ASSUME TypeOK, NEW c \in Clients, Coherent(c), SendInput(c)
  PROVE  InConversation(config, task'[c], peer'[c], to_server'[c], to_client'[c]) /\ ~Gone(c)'
<1> DEFINE p == peer[c]
<1>1. /\ peer \in [Clients -> Peers] /\ to_server \in [Clients -> Seq(Frames(ServerBound))]
      /\ task[c] \in Tasks /\ p \in Peers /\ to_client[c] \in Seq(Frames(ClientBound))
  BY DEF TypeOK
<1>2. p.joined /\ p.phase = "Play" /\ task' = task /\ to_client' = to_client
  BY DEF SendInput
<1>3. PICK type \in {"Unknown", "PlayCommand"} :
        to_server'[c] = Append(to_server[c], Frame(Packet(type), p.compressed))
  BY <1>1 DEF SendInput
<1>4. peer'[c] = [p EXCEPT !.inputs = @ + 1]
  BY <1>1 DEF SendInput
<1>5. InConversation(config, task[c], p, to_server[c], to_client[c])
  BY <1>2 DEF Coherent, Gone
<1>6. InConversation(config, task[c], [p EXCEPT !.inputs = @ + 1],
                     Append(to_server[c], Frame(Packet(type), p.compressed)), to_client[c])
  BY <1>1, <1>2, <1>5, ConversesInput
<1>7. [p EXCEPT !.inputs = @ + 1].phase = "Play"
  BY <1>1, <1>2 DEF Peers
<1>8. QED
  BY <1>2, <1>3, <1>4, <1>6, <1>7 DEF Gone

\* The client leaves, with or without what it had sent.
LEMMA LeaveLeftover ==
  ASSUME TypeOK, NEW c \in Clients, Coherent(c), Leave(c)
  PROVE  Leftover(task'[c], to_server'[c]) /\ Gone(c)'
<1>1. /\ peer \in [Clients -> Peers] /\ to_server \in [Clients -> Seq(Frames(ServerBound))]
      /\ task[c] \in Tasks /\ peer[c] \in Peers
      /\ to_client[c] \in Seq(Frames(ClientBound))
  BY DEF TypeOK
<1>2. ~Gone(c) /\ task' = task /\ to_server'[c] \in {<< >>, to_server[c]}
  BY <1>1 DEF Leave
<1>3. Leftover(task[c], to_server[c])
  BY <1>1, <1>2, ConversesLeftover DEF Coherent
<1>4. peer'[c].phase = "Gone"
  BY <1>1 DEF Leave, NoPeer
<1>5. QED
  BY <1>2, <1>3, <1>4 DEF Gone, Leftover

-----------------------------------------------------------------------------
(* The invariant *)

\* The inductive invariant.
ConversationInv == TypeOK /\ \A c \in Clients : Coherent(c)

\* The connection that takes a step stays coherent, and so do the others.
LEMMA StepCoherent ==
  ASSUME ConversationInv, NEW c \in Clients, ServerStep(c) \/ ClientStep(c), NEW d \in Clients
  PROVE  Coherent(d)'
<1>1. TypeOK /\ Coherent(c) /\ Coherent(d) /\ Simple(c) /\ config' = config
  BY ConfigStays DEF ConversationInv, Coherent
<1>2. CASE d # c
  <2>1. /\ task'[d] = task[d] /\ peer'[d] = peer[d]
        /\ to_server'[d] = to_server[d] /\ to_client'[d] = to_client[d]
    BY <1>1, <1>2, OthersStay
  <2>2. Simple(d)' /\ (Gone(d)' <=> Gone(d))
    BY <1>1, <2>1 DEF Coherent, Simple, Gone
  <2>3. QED
    BY <1>1, <2>1, <2>2 DEF Coherent
<1>3. CASE d = c /\ ServerStep(c)
  <2>1. Simple(c)'
    BY <1>1, <1>3, ServerStepSimple
  <2>2. peer' = peer
    BY <1>3
    DEF ServerStep, Accept, ProcessPacket, Increment, WritePacket, WriteFails,
        FinishPacket, FindKick, KickClient, KeepAliveTick, ActionBarTick, Tick,
        ReadEnd, Shutdown, Decrement, channels
  <2>3. Gone(c)' <=> Gone(c)
    BY <2>2 DEF Gone
  <2>4. ~Gone(c) =>
          InConversation(config, task'[c], peer[c], to_server'[c], to_client'[c])
    BY <1>1, <1>3, ServerStepConverses
  <2>5. Gone(c) => Leftover(task'[c], to_server'[c])
    BY <1>1, <1>3, ServerStepLeftover
  <2>6. QED
    BY <1>1, <1>3, <2>1, <2>2, <2>3, <2>4, <2>5 DEF Coherent
<1>4. CASE d = c /\ ClientStep(c)
  <2>1. Simple(c)'
    BY <1>1, <1>4, ClientStepSimple
  <2>2. CASE Leave(c)
    <3>1. Leftover(task'[c], to_server'[c]) /\ Gone(c)'
      BY <1>1, <2>2, LeaveLeftover
    <3>2. QED
      BY <1>4, <2>1, <3>1 DEF Coherent
  <2>3. CASE Connect(c) \/ Receive(c) \/ SendInput(c)
    <3>1. /\ InConversation(config, task'[c], peer'[c], to_server'[c], to_client'[c])
          /\ ~Gone(c)'
      BY <1>1, <2>3, ConnectConverses, ReceiveConverses, SendInputConverses
    <3>2. QED
      BY <1>1, <1>4, <2>1, <3>1 DEF Coherent
  <2>4. QED
    BY <1>4, <2>2, <2>3 DEF ClientStep
<1>5. QED
  BY <1>2, <1>3, <1>4

\* Every connection is coherent, however the tasks and the clients interleave.
THEOREM Conversation == Spec => []ConversationInv
<1>1. Init => ConversationInv
  <2>1. ASSUME Init, NEW c \in Clients
        PROVE  Coherent(c)
    <3>1. /\ task[c] = NewTask("Closed") /\ peer[c] = NoPeer
          /\ to_server[c] = << >> /\ to_client[c] = << >>
      BY <2>1 DEF Init
    <3>2. Gone(c) /\ task[c].pc = "Closed" /\ task[c] = NewTask(task[c].pc)
      <4>1. NewTask("Closed").pc = "Closed" /\ NoPeer.phase = "Gone"
        BY DEF NewTask, NoPeer
      <4>2. QED
        BY <3>1, <4>1 DEF Gone
    <3>3. Simple(c)
      BY <3>1, <3>2, NewTaskFields DEF Simple
    <3>4. Leftover(task[c], to_server[c])
      BY <3>1 DEF Leftover
    <3>5. QED
      BY <3>2, <3>3, <3>4 DEF Coherent
  <2>2. QED
    BY <2>1, InitType DEF ConversationInv
<1>2. ConversationInv /\ [Next]_vars => ConversationInv'
  <2>1. ASSUME ConversationInv, Next
        PROVE  ConversationInv'
    <3>1. PICK c \in Clients : ServerStep(c) \/ ClientStep(c)
      BY <2>1 DEF Next
    <3>2. \A d \in Clients : Coherent(d)'
      BY <2>1, <3>1, StepCoherent
    <3>3. TypeOK'
      BY <2>1, StepType DEF ConversationInv
    <3>4. QED
      BY <3>2, <3>3, Zenon DEF ConversationInv
  <2>2. ASSUME ConversationInv, UNCHANGED vars
        PROVE  ConversationInv'
    BY <2>2 DEF ConversationInv, vars, channels, TypeOK, Coherent, Simple, Gone
  <2>3. QED
    BY <2>1, <2>2
<1>3. QED
  BY <1>1, <1>2, PTL DEF Spec

-----------------------------------------------------------------------------
(* What follows *)

\* A client as it is, and as it will be when it has received everything.
Foreseen(p, w) ==
  /\ p.phase \in {"Configuration", "Play"} => p.profile # "Absent"
  /\ p.profile # "Absent" => w.peer.profile = p.profile /\ w.peer.steps = p.steps
  /\ w.peer.forge_kind = p.forge_kind
  /\ w.peer.key_valid <=> p.key_valid

\* A client with a coherent task has understood everything so far, and its task knows
\* what becomes of it.
LEMMA CoherentForesees ==
  ASSUME TypeOK, NEW c \in Clients, Coherent(c), ~Gone(c)
  PROVE  /\ peer[c].phase # "Error"
         /\ \E w : Foreseen(peer[c], w) /\ Minds(config, task[c], w)
<1> DEFINE t == task[c]
           p == peer[c]
           received == to_client[c]
<1>1. t \in Tasks /\ received \in Seq(Frames(ClientBound)) /\ p \in Peers
  BY DEF TypeOK
<1>2. PICK views \in Seq(Views) :
        Converses(config, t, p, to_server[c], received, views)
  BY DEF Coherent, InConversation
<1> DEFINE n == Len(received) + Len(t.batch)
           packets == Packets(received) \o t.batch
<1>3. /\ n \in Nat /\ Len(views) = n + 1 /\ Len(packets) = n
      /\ \A i \in 1 .. n + 1 : views[i] \in Views
  <2>1. Sized(t, received, views)
    BY <1>1, <1>2, ConversesFacts
  <2> HIDE DEF t, received
  <2>2. Len(received) \in Nat /\ Len(t.batch) \in Nat
    BY <2>1 DEF Sized
  <2>3. n \in Nat /\ Len(received) + Len(t.batch) + 1 = n + 1
    BY <2>2
  <2>4. QED
    BY <2>1, <2>3 DEF Sized
<1>4. Trace(config, views, packets) /\ views[1].peer = p
  BY <1>2 DEF Converses
<1> HIDE DEF n, packets
<1>5. 1 \in 1 .. n + 1 /\ n + 1 \in 1 .. n + 1 /\ 1 <= n + 1
  BY <1>3
<1>6. Precedes(views[1], views[n + 1])
  BY <1>3, <1>4, <1>5 DEF Trace
<1>7. WellFormed(p)
  BY <1>3, <1>4, <1>5 DEF Views
<1>8. Foreseen(p, views[n + 1])
  BY <1>4, <1>6, <1>7 DEF Foreseen, Precedes, WellFormed
<1>9. Minds(config, t, views[n + 1])
  BY <1>2, <1>3 DEF Converses
<1>10. QED
  BY <1>7, <1>8, <1>9 DEF WellFormed

\* What a coherent connection is, in the words of the properties.
LEMMA CoherentSafe ==
  ASSUME TypeOK, NEW c \in Clients, Coherent(c)
  PROVE  LET p == peer[c]
             t == task[c]
         IN  /\ p.phase # "Error"
             /\ InWorld(c) /\ ShouldReplay(p.forge_kind) => p.steps = config.fml2_steps
             /\ t.client_state.kick_message => ~InWorld(c) /\ ~Counted(c)
             /\ InWorld(c) /\ config.forwarding = "Modern" /\ ~ShouldReplay(p.forge_kind) =>
                  p.key_valid /\ p.profile = "Forwarded"
             /\ /\ InWorld(c) /\ t.pc # "Closed"
                /\ config.forwarding \notin {"Legacy", "BungeeGuard"}
                => p.profile = t.client_state.game_profile
<1> DEFINE p == peer[c]
           t == task[c]
<1>1. Simple(c) /\ t.client_state.kick_message => ~Counted(c) /\ t.pc # "Closed"
  BY DEF Simple, Counted
<1>2. Simple(c)
  BY DEF Coherent
<1>3. CASE Gone(c)
  BY <1>1, <1>2, <1>3 DEF Gone, InWorld
<1>4. CASE ~Gone(c)
  <2>1. p.phase # "Error" /\ \E w : Foreseen(p, w) /\ Minds(config, t, w)
    BY <1>4, CoherentForesees
  <2>2. PICK w : Foreseen(p, w) /\ Minds(config, t, w)
    BY <2>1
  <2>3. /\ Admits(config, w.peer)
        /\ t.pc # "Closed" =>
             /\ Remembers(config, t.client_state, w.peer)
             /\ t.client_state.kick_message => w.peer.profile = "Absent"
    BY <2>2 DEF Minds
  <2>4. InWorld(c) =>
          /\ p.profile # "Absent" /\ w.peer.profile = p.profile /\ w.peer.steps = p.steps
          /\ w.peer.forge_kind = p.forge_kind /\ (w.peer.key_valid <=> p.key_valid)
    BY <2>2 DEF Foreseen, InWorld
  <2>5. InWorld(c) =>
          /\ ShouldReplay(p.forge_kind) => p.steps = config.fml2_steps
          /\ config.forwarding = "Modern" /\ ~ShouldReplay(p.forge_kind) =>
               p.key_valid /\ p.profile = "Forwarded"
    BY <2>3, <2>4 DEF Admits
  <2>6. /\ InWorld(c) /\ t.pc # "Closed"
        /\ config.forwarding \notin {"Legacy", "BungeeGuard"}
        => p.profile = t.client_state.game_profile
    BY <2>3, <2>4 DEF Remembers
  <2>7. t.client_state.kick_message => ~InWorld(c)
    BY <1>1, <1>2, <2>3, <2>4
  <2>8. QED
    BY <1>1, <1>2, <2>1, <2>5, <2>6, <2>7
<1>5. QED
  BY <1>3, <1>4

\* A client that follows the protocol never receives a frame in the other format,
\* nor a packet that its phase does not know.
THEOREM ClientUnderstands == Spec => []ClientNeverConfused
<1>1. ConversationInv => ClientNeverConfused
  BY CoherentSafe DEF ConversationInv, ClientNeverConfused
<1>2. QED
  BY <1>1, Conversation, PTL

\* The other way round: whatever the task is about to read is in its format and
\* decodable in the state the handlers left, also of a client that has gone.
THEOREM ServerUnderstands == Spec => []ServerNeverConfused
<1>1. ASSUME ConversationInv, NEW c \in Clients, task[c].pc = "Reading", to_server[c] # << >>
      PROVE  /\ Head(to_server[c]).compressed = task[c].compression
             /\ Head(to_server[c]).packet.type
                  \in Decodable(task[c].client_state.state) \cup {"Unknown"}
  <2> DEFINE t == task[c]
             sent == to_server[c]
  <2>1. /\ t \in Tasks /\ peer[c] \in Peers /\ to_client[c] \in Seq(Frames(ClientBound))
        /\ t.compression \in BOOLEAN /\ Coherent(c)
    BY <1>1 DEF ConversationInv, TypeOK, Tasks
  <2>2. Leftover(t, sent)
    BY <2>1, ConversesLeftover DEF Coherent
  <2>3. PICK s \in Seq(ServerBound) :
          sent = FrameAll(s, t.compression) /\ Legible(t.client_state.state, s)
    BY <1>1, <2>2 DEF Leftover, Serving
  <2>4. FrameAll(s, t.compression) # << >>
    BY <1>1, <2>3
  <2>5. s # << >> /\ Head(FrameAll(s, t.compression)) = Frame(s[1], t.compression)
    BY <2>1, <2>4, FrameAllTail
  <2>6. Head(sent).packet = s[1] /\ Head(sent).compressed = t.compression
    BY <2>3, <2>5 DEF Frame
  <2>7. s[1].type \in Decodable(t.client_state.state) \cup {"Unknown"}
    <3>1. 1 \in 1 .. Len(s)
      BY <2>5
    <3>2. QED
      BY <2>3, <2>5, <3>1, LegibleDecodable
  <2>8. QED
    BY <2>6, <2>7
<1>2. ConversationInv => ServerNeverConfused
  BY <1>1 DEF ServerNeverConfused
<1>3. QED
  BY <1>2, Conversation, PTL

\* A Forge client the snapshot serves is let in only after every recorded step,
\* in order (login_start.rs, 26-32).
THEOREM ReplayedInFull == Spec => []ReplayBeforeSuccess
<1>1. ConversationInv => ReplayBeforeSuccess
  BY CoherentSafe DEF ConversationInv, ReplayBeforeSuccess
<1>2. QED
  BY <1>1, Conversation, PTL

\* A client that is to be kicked is never let in nor counted, whatever was
\* queued for it before (custom_query_answer.rs, login_start.rs, handshake.rs).
THEOREM KickedStaysOut == Spec => []KickedNeverAdmitted
<1>1. ConversationInv => KickedNeverAdmitted
  BY CoherentSafe DEF ConversationInv, KickedNeverAdmitted
<1>2. QED
  BY <1>1, Conversation, PTL

\* With modern forwarding a client without Forge is let in as the player the
\* proxy vouched for, and only when the proxy's signature was good.
THEOREM ForwardedIsVouchedFor == Spec => []ModernIdentity
<1>1. ConversationInv => ModernIdentity
  BY CoherentSafe DEF ConversationInv, ModernIdentity
<1>2. QED
  BY <1>1, Conversation, PTL

\* The identity a client was told is the one the server keeps for it.
THEOREM IdentityIsShared == Spec => []IdentityAgreed
<1>1. ConversationInv => IdentityAgreed
  BY CoherentSafe DEF ConversationInv, IdentityAgreed
<1>2. QED
  BY <1>1, Conversation, PTL

-----------------------------------------------------------------------------
(* An identity is for good *)

\* A client state that has the profile of another, if that one has any.
KeepsProfile(before, after) ==
  before.game_profile # "Absent" => after.game_profile = before.game_profile

\* fire_login_success names a client that has no name yet.
LEMMA FireLoginSuccessKeeps ==
  ASSUME NEW cs \in ClientStates, NEW server, NEW profile \in Profiles
  PROVE  KeepsProfile(cs, FireLoginSuccess(cs, << >>, server, profile).client_state)
<1> DEFINE named == SetGameProfile(cs, profile)
<1>1. named \in ClientStates /\ KeepsProfile(cs, named)
  BY SetGameProfileType DEF SetGameProfile, KeepsProfile, ClientStates
<1> HIDE DEF named
<1>2. ASSUME NEW batch
      PROVE  KeepsProfile(cs, SendPlayPackets(named, batch, server).client_state)
  <2>1. SetKeepAliveShouldEnable([named EXCEPT !.state = "Play"]).game_profile
          = named.game_profile
    BY <1>1 DEF SetKeepAliveShouldEnable, ClientStates
  <2>2. SendPlayPackets(named, batch, server).client_state.game_profile = named.game_profile
    BY <2>1 DEF SendPlayPackets, Queued, Failed
  <2>3. QED
    BY <1>1, <2>2 DEF KeepsProfile
<1>3. ASSUME NEW batch
      PROVE  KeepsProfile(cs, Queued(named, batch).client_state)
  BY <1>1 DEF Queued
<1>4. QED
  BY <1>2, <1>3 DEF FireLoginSuccess, named

\* The handlers of Login.
LEMMA LoginKeeps ==
  ASSUME NEW cs \in ClientStates, NEW server \in ServerStates, NEW packet,
         NEW velocity_id \in Int
  PROVE  /\ KeepsProfile(cs, HandleLoginStart(cs, server, velocity_id).client_state)
         /\ KeepsProfile(cs, HandleCustomQueryAnswer(cs, server, packet).client_state)
<1>1. ASSUME NEW profile \in Profiles
      PROVE  KeepsProfile(cs, FireLoginSuccess(cs, << >>, server, profile).client_state)
  BY FireLoginSuccessKeeps
<1>2. KeepsProfile(cs, Kick(cs))
  BY DEF Kick, KeepsProfile, ClientStates
<1>3. KeepsProfile(cs, HandleLoginStart(cs, server, velocity_id).client_state)
  <2> DEFINE named == SetGameProfile(cs, "LoginStart")
             session == [NoSession EXCEPT !.active = TRUE]
             started == [named EXCEPT !.forge_session = session]
  <2>1. named \in ClientStates /\ KeepsProfile(cs, named)
    BY SetGameProfileType DEF SetGameProfile, KeepsProfile, ClientStates, Profiles
  <2> HIDE DEF named, session
  <2>2. KeepsProfile(cs, [started EXCEPT !.forge_session = TakeNextStep(started.forge_session)])
    <3> DEFINE next == TakeNextStep(started.forge_session)
    <3> HIDE DEF next
    <3>1. [started EXCEPT !.forge_session = next].game_profile = named.game_profile
      BY <2>1 DEF ClientStates
    <3>2. QED
      BY <2>1, <3>1 DEF KeepsProfile, next
  <2> HIDE DEF started
  <2>3. KeepsProfile(cs, EnqueueNextForgeStep(started).client_state)
    BY <2>2 DEF EnqueueNextForgeStep, Queued
  <2>4. KeepsProfile(cs, [cs EXCEPT !.message_id = velocity_id])
    BY DEF KeepsProfile, ClientStates
  <2>5. KeepsProfile(cs, FireLoginSuccess(cs, << >>, server, "LoginStart").client_state)
    BY <1>1 DEF Profiles
  <2>6. QED
    BY <1>2, <2>3, <2>4, <2>5 DEF HandleLoginStart, Queued, named, session, started
<1>4. KeepsProfile(cs, HandleForgeAnswer(cs, server, packet.message_id).client_state)
  <2> DEFINE rest == cs.forge_session.pending \ {packet.message_id}
             answered == [cs EXCEPT !.forge_session.pending = @ \ {packet.message_id}]
             done == [answered EXCEPT !.forge_session = NoSession]
  <2>1. answered \in ClientStates /\ answered.game_profile = cs.game_profile
    <3>1. rest \in SUBSET Nat /\ answered = [cs EXCEPT !.forge_session.pending = rest]
      BY DEF ClientStates, Sessions
    <3>2. ASSUME NEW pending \in SUBSET Nat
          PROVE  LET after == [cs EXCEPT !.forge_session.pending = pending]
                 IN  after \in ClientStates /\ after.game_profile = cs.game_profile
      BY DEF ClientStates, Sessions
    <3> HIDE DEF rest, answered
    <3>3. QED
      BY <3>1, <3>2
  <2> HIDE DEF answered
  <2>2. done \in ClientStates /\ done.game_profile = cs.game_profile
    <3>1. NoSession \in Sessions
      BY DEF NoSession, Sessions
    <3>2. QED
      BY <2>1, <3>1 DEF ClientStates
  <2> HIDE DEF done
  <2>3. KeepsProfile(cs, EnqueueNextForgeStep(answered).client_state)
    <3> DEFINE next == TakeNextStep(answered.forge_session)
    <3> HIDE DEF next
    <3>1. [answered EXCEPT !.forge_session = next].game_profile = cs.game_profile
      BY <2>1 DEF ClientStates
    <3>2. QED
      BY <3>1 DEF KeepsProfile, EnqueueNextForgeStep, Queued, next
  <2>4. KeepsProfile(cs, FireLoginSuccess(done, << >>, server, done.game_profile).client_state)
    <3>1. done.game_profile \in Profiles
      BY <2>2 DEF ClientStates
    <3>2. KeepsProfile(done, FireLoginSuccess(done, << >>, server, done.game_profile).client_state)
      BY <2>2, <3>1, FireLoginSuccessKeeps
    <3>3. QED
      BY <2>2, <3>2 DEF KeepsProfile
  <2>5. KeepsProfile(cs, Failed(done, "Custom").client_state)
    BY <2>2 DEF Failed, KeepsProfile
  <2>6. QED
    BY <2>3, <2>4, <2>5 DEF HandleForgeAnswer, answered, done
<1>5. KeepsProfile(cs, HandleVelocityAnswer(cs, server, packet).client_state)
  BY <1>1, <1>2 DEF HandleVelocityAnswer, Queued, Profiles
<1>6. KeepsProfile(cs, Queued(cs, << >>).client_state)
  BY DEF Queued, KeepsProfile
<1>7. QED
  BY <1>3, <1>4, <1>5, <1>6 DEF HandleCustomQueryAnswer

\* Whatever a task reads, a client that has an identity keeps it.
LEMMA HandlersKeep ==
  ASSUME NEW cs \in ClientStates, NEW server \in ServerStates, NEW packet \in ServerBound,
         NEW velocity_id \in Int
  PROVE  KeepsProfile(cs, DecodeAndHandle(cs, server, packet, velocity_id).client_state)
<1>1. packet.type \in {"Handshake", "CustomQueryAnswer", "StatusRequest", "PingRequest",
                       "LoginStart", "LoginAcknowledged", "AcknowledgeConfiguration",
                       "ConfigurationPluginMessage", "PlayCommand", "Unknown"}
  BY DEF ServerBound
<1>2. KeepsProfile(cs, cs)
  BY DEF KeepsProfile
<1>3. ASSUME packet.type = "Handshake"
      PROVE  KeepsProfile(cs, HandleHandshake(cs, server, packet).client_state)
  <2> DEFINE versioned == [cs EXCEPT !.protocol_version = GetProtocol(packet.protocol, server)]
             login == [versioned EXCEPT !.state = "Login", !.forge_kind = packet.forge_kind]
             status == [versioned EXCEPT !.state = "Status"]
             transfer == [versioned EXCEPT !.state = "Transfer"]
  <2>1. /\ packet.protocol \in Int /\ packet.forge_kind \in ForgeKinds
        /\ packet.hostname \in Hostnames /\ packet.next_state \in Int
    BY <1>3 DEF ServerBound
  <2>2. versioned \in ClientStates /\ versioned.game_profile = cs.game_profile
    BY <2>1, GetProtocolType DEF ClientStates
  <2> HIDE DEF versioned
  <2>3. /\ login \in ClientStates /\ login.game_profile = cs.game_profile
        /\ status.game_profile = cs.game_profile /\ transfer.game_profile = cs.game_profile
    BY <2>1, <2>2 DEF ClientStates, States
  <2> HIDE DEF login, status, transfer
  <2>4. KeepsProfile(cs, BeginLogin(login, server, packet.hostname).client_state)
    <3>1. /\ Kick(login).game_profile = cs.game_profile
          /\ KeepsProfile(cs, SetGameProfile(login, "Forwarded"))
      BY <2>3 DEF Kick, SetGameProfile, KeepsProfile, ClientStates
    <3>2. CheckBungeeCord(server, packet.hostname) \in {"NoForwarding", "Anonymous", "Invalid"}
      BY <2>1 DEF CheckBungeeCord, ServerStates
    <3>3. QED
      BY <2>3, <3>1, <3>2 DEF BeginLogin, KeepsProfile, Queued, Failed
  <2>5. packet.next_state \in {1, 2, 3} \/ packet.next_state \notin 1 .. 3
    BY <2>1
  <2>6. QED
    BY <2>2, <2>3, <2>4, <2>5
    DEF HandleHandshake, KeepsProfile, Queued, Failed, versioned, login, status, transfer
<1>4. /\ KeepsProfile(cs, HandleLoginStart(cs, server, velocity_id).client_state)
      /\ KeepsProfile(cs, HandleCustomQueryAnswer(cs, server, packet).client_state)
  BY LoginKeeps
<1>5. KeepsProfile(cs, HandleLoginAcknowledged(cs).client_state)
  <2>1. KeepsProfile(cs, [cs EXCEPT !.state = "Configuration"])
    BY DEF KeepsProfile, ClientStates
  <2>2. QED
    BY <1>2, <2>1 DEF HandleLoginAcknowledged, Queued, Failed
<1>6. KeepsProfile(cs, HandleAcknowledgeConfiguration(cs, server).client_state)
  <2>1. KeepsProfile(cs, SetKeepAliveShouldEnable([cs EXCEPT !.state = "Play"]))
    BY DEF KeepsProfile, ClientStates, SetKeepAliveShouldEnable
  <2>2. QED
    BY <1>2, <2>1 DEF HandleAcknowledgeConfiguration, SendPlayPackets, Queued, Failed
<1>7. ASSUME NEW batch, NEW error
      PROVE  /\ KeepsProfile(cs, Queued(cs, batch).client_state)
             /\ KeepsProfile(cs, Failed(cs, error).client_state)
  BY <1>2 DEF Queued, Failed
<1>8. KeepsProfile(cs, Handle(cs, server, packet, velocity_id).client_state)
  BY <1>1, <1>3, <1>4, <1>5, <1>6, <1>7 DEF Handle
<1>9. QED
  BY <1>7, <1>8 DEF DecodeAndHandle

\* No step of a task gives its client another identity.
LEMMA ServerStepKeeps ==
  ASSUME TypeOK, NEW c \in Clients, Simple(c), ServerStep(c), task'[c].pc # "Closed"
  PROVE  KeepsProfile(task[c].client_state, task'[c].client_state)
<1>1. /\ task \in [Clients -> Tasks] /\ task[c] \in Tasks
      /\ task[c].client_state \in ClientStates /\ config \in ServerStates
  BY ConfigsAssumption DEF TypeOK, Tasks
<1>2. CASE Accept(c)
  <2>1. task[c].client_state = DefaultClientState
    <3>1. task[c] = NewTask("Pending")
      BY <1>2 DEF Simple, Accept
    <3>2. QED
      BY <3>1 DEF NewTask
  <2>2. QED
    BY <2>1 DEF DefaultClientState, KeepsProfile
<1>3. CASE ProcessPacket(c)
  <2>1. PICK velocity_id \in VelocityIds :
          task'[c].client_state
            = ReadAndHandle(c, Head(to_server[c]), velocity_id).client_state
    BY <1>3, ProcessPacketEffect DEF Processed
  <2>2. Head(to_server[c]).packet \in ServerBound /\ velocity_id \in Int
    <3>1. Head(to_server[c]) \in Frames(ServerBound)
      BY <1>3, ProcessPacketEffect
    <3>2. QED
      BY <3>1, VelocityIdsAssumption DEF Frames
  <2>3. KeepsProfile(task[c].client_state,
          DecodeAndHandle(task[c].client_state, config, Head(to_server[c]).packet,
                          velocity_id).client_state)
    BY <1>1, <2>2, HandlersKeep
  <2>4. KeepsProfile(task[c].client_state, Failed(task[c].client_state, "Custom").client_state)
    BY DEF KeepsProfile, Failed
  <2>5. QED
    BY <2>1, <2>3, <2>4 DEF ReadAndHandle
<1>4. CASE FinishPacket(c)
  BY <1>1, <1>4 DEF FinishPacket, Tasks, ClientStates, KeepsProfile
<1>5. ASSUME task'[c].client_state = task[c].client_state
      PROVE  KeepsProfile(task[c].client_state, task'[c].client_state)
  BY <1>5 DEF KeepsProfile
<1>6. CASE Increment(c) \/ WritePacket(c) \/ WriteFails(c) \/ FindKick(c) \/ KickClient(c)
  BY <1>1, <1>5, <1>6 DEF Increment, WritePacket, WriteFails, FindKick, KickClient, Tasks
<1>7. ASSUME NEW type, Tick(c, type)
      PROVE  KeepsProfile(task[c].client_state, task'[c].client_state)
  BY <1>1, <1>5, <1>7 DEF Tick, Tasks
<1>8. CASE ReadEnd(c) \/ Shutdown(c) \/ Decrement(c)
  BY <1>1, <1>5, <1>8 DEF ReadEnd, Shutdown, Decrement, Tasks, NewTask
<1>9. QED
  BY <1>2, <1>3, <1>4, <1>6, <1>7, <1>8 DEF ServerStep, KeepAliveTick, ActionBarTick

\* Once a connection has an identity no packet, timer or step of another
\* connection gives it another (ClientState::set_game_profile).
THEOREM IdentityIsKept == Spec => IdentityNeverChanges
<1>1. ASSUME ConversationInv, Next, NEW d \in Clients, task'[d].pc # "Closed"
      PROVE  KeepsProfile(task[d].client_state, task'[d].client_state)
  <2>1. PICK c \in Clients : ServerStep(c) \/ ClientStep(c)
    BY <1>1 DEF Next
  <2>2. TypeOK /\ Simple(c) /\ task \in [Clients -> Tasks]
    BY <1>1 DEF ConversationInv, Coherent, TypeOK
  <2>3. CASE c = d /\ ServerStep(c)
    BY <1>1, <2>2, <2>3, ServerStepKeeps
  <2>4. CASE c = d /\ ClientStep(c)
    <3>1. task' = task \/ task' = [task EXCEPT ![c].pc = "Pending"]
      BY <2>4 DEF ClientStep, Connect, Receive, SendInput, Leave
    <3>2. \A t \in Tasks : [t EXCEPT !.pc = "Pending"].client_state = t.client_state
      BY DEF Tasks
    <3>3. task'[d] = task[d] \/ task'[d] = [task[d] EXCEPT !.pc = "Pending"]
      BY <2>2, <3>1
    <3>4. task'[d].client_state = task[d].client_state
      BY <2>2, <3>2, <3>3
    <3>5. QED
      BY <3>4 DEF KeepsProfile
  <2>5. CASE c # d
    <3>1. task'[d] = task[d]
      BY <2>1, <2>2, <2>5, OthersStay
    <3>2. QED
      BY <3>1 DEF KeepsProfile
  <2>6. QED
    BY <2>1, <2>3, <2>4, <2>5
<1>2. ConversationInv /\ [Next]_vars =>
        [\A c \in Clients :
           task[c].client_state.game_profile # "Absent" /\ task'[c].pc # "Closed" =>
             task'[c].client_state.game_profile = task[c].client_state.game_profile]_vars
  BY <1>1 DEF KeepsProfile
<1>3. QED
  BY <1>2, Conversation, PTL DEF Spec, IdentityNeverChanges

-----------------------------------------------------------------------------
(* The timers of a player *)

\* The timers a player is served with, those of a connection not in Play, and those
\* of a player whose world cannot be encoded: only the keep-alive, once a packet
\* was handled to its end.
On(c) ==
  LET t == task[c]
  IN  /\ t.timers.keep_alive
      /\ t.timers.action_bar <=> EnableActionBarIfNeeded(t.client_state)
      /\ t.client_state.keep_alive_enabled = "Enabled"
Off(c) == ~task[c].timers.keep_alive /\ ~task[c].timers.action_bar
Late(c) ==
  LET t == task[c]
      enabled == task[c].client_state.keep_alive_enabled
  IN  /\ enabled \in {"ShouldEnable", "Enabled"}
      /\ t.timers.keep_alive <=> enabled = "Enabled"
      /\ ~t.timers.action_bar
Cut(c) == task[c].client_state.protocol_version \in config.unwritable

\* No timer runs before Play.  The packet that enters Play asks for the
\* keep-alive, and no other packet is handled before the timers run, unless the
\* world at the end of its batch cannot be encoded.
Alive(c) ==
  LET t == task[c]
      cs == task[c].client_state
  IN  /\ cs.state # "Play" =>
           /\ Off(c) /\ cs.keep_alive_enabled = "Disabled"
           /\ ~t.was_in_play /\ ~t.just_entered
      /\ cs.state = "Play" /\ ~Gone(c) /\ t.pc = "Reading" =>
           t.was_in_play /\ IF Cut(c) THEN Late(c) ELSE On(c)
      /\ cs.state = "Play" /\ ~Gone(c) /\ t.pc \in {"Counting", "Writing"} =>
           /\ t.was_in_play
           /\ t.just_entered => /\ Off(c) /\ cs.keep_alive_enabled = "ShouldEnable"
                                /\ Cut(c) => Carries(t.batch)
           /\ ~t.just_entered => IF Cut(c) THEN Late(c) ELSE On(c)

\* A step that leaves the timers and what they depend on alone.
LEMMA AliveOn ==
  ASSUME NEW c, Alive(c), config' = config,
         task'[c].client_state = task[c].client_state,
         task'[c].timers = task[c].timers,
         task'[c].was_in_play = task[c].was_in_play,
         task'[c].just_entered = task[c].just_entered,
         ~Gone(c)' =>
           /\ ~Gone(c)
           /\ task'[c].pc = "Reading" => task[c].pc = "Reading"
           /\ task'[c].pc \in {"Counting", "Writing"} =>
                /\ task[c].pc \in {"Counting", "Writing"}
                /\ task[c].just_entered /\ Cut(c) /\ Carries(task[c].batch) =>
                     Carries(task'[c].batch)
  PROVE  Alive(c)'
<1>1. /\ On(c)' <=> On(c)
      /\ Off(c)' <=> Off(c)
      /\ Late(c)' <=> Late(c)
      /\ Cut(c)' <=> Cut(c)
  BY DEF On, Off, Late, Cut, EnableActionBarIfNeeded
<1> HIDE DEF On, Off, Late, Cut, Carries
<1>2. QED
  BY <1>1 DEF Alive

\* A new task has no timers.
LEMMA AliveNew ==
  ASSUME NEW c, NEW at, task'[c] = NewTask(at)
  PROVE  Alive(c)'
<1> DEFINE u == task'[c]
<1>1. /\ u.client_state.state = "Handshake" /\ u.client_state.keep_alive_enabled = "Disabled"
      /\ ~u.timers.keep_alive /\ ~u.timers.action_bar /\ ~u.was_in_play /\ ~u.just_entered
  BY DEF NewTask, DefaultClientState, NoTimers
<1>2. QED
  BY <1>1 DEF Alive, Off

\* A packet is handled: only the one that enters Play asks for the keep-alive.
LEMMA ProcessAlive ==
  ASSUME TypeOK, NEW c \in Clients, Simple(c), Alive(c), ProcessPacket(c)
  PROVE  Alive(c)'
<1> DEFINE t == task[c]
           u == task'[c]
           cs == task[c].client_state
<1>1. /\ t.pc = "Reading" /\ ~cs.kick_message /\ config' = config /\ (Gone(c)' <=> Gone(c))
  BY DEF ProcessPacket, Simple, Gone
<1>2. PICK velocity_id \in VelocityIds :
        LET outcome == ReadAndHandle(c, Head(to_server[c]), velocity_id)
        IN  Sound(outcome) /\ Processed(c, outcome)
  BY ProcessPacketEffect
<1> DEFINE outcome == ReadAndHandle(c, Head(to_server[c]), velocity_id)
           after == outcome.client_state
<1>3. Careful(cs, outcome)
  <2>1. Head(to_server[c]) \in Frames(ServerBound)
    BY ProcessPacketEffect
  <2>2. QED
    BY <1>1, <2>1, ReadCareful
<1> HIDE DEF outcome
<1>4. Processed(c, outcome)
  BY <1>2 DEF outcome
<1>5. /\ u.client_state = after /\ u.timers = t.timers /\ u.batch = outcome.batch
      /\ u.was_in_play <=>
           \/ t.was_in_play
           \/ outcome.error = "None" /\ ~t.was_in_play /\ after.state = "Play"
      /\ u.just_entered <=>
           outcome.error = "None" /\ ~t.was_in_play /\ after.state = "Play"
      /\ u.pc = "Reading" => outcome.error # "None"
  BY <1>4 DEF Processed
<1>6. CASE cs.state = "Play"
  <2>1. after = cs
    BY <1>3, <1>6 DEF Careful
  <2>2. (On(c)' <=> On(c)) /\ (Late(c)' <=> Late(c)) /\ (Cut(c)' <=> Cut(c))
    BY <1>1, <1>5, <2>1 DEF On, Late, Cut, EnableActionBarIfNeeded
  <2>3. ~Gone(c) => t.was_in_play /\ IF Cut(c) THEN Late(c) ELSE On(c)
    BY <1>1, <1>6 DEF Alive
  <2>4. QED
    BY <1>1, <1>5, <1>6, <2>1, <2>2, <2>3 DEF Alive
<1>7. CASE cs.state # "Play"
  <2>1. Off(c)' /\ cs.keep_alive_enabled = "Disabled" /\ ~t.was_in_play
    BY <1>5, <1>7 DEF Alive, Off
  <2>2. /\ after.state # "Play" => after.keep_alive_enabled = "Disabled"
        /\ after.state = "Play" =>
             /\ outcome.error = "None" /\ Carries(outcome.batch)
             /\ after.keep_alive_enabled = "ShouldEnable"
    BY <1>3, <1>7, <2>1 DEF Careful
  <2>3. QED
    BY <1>5, <2>1, <2>2 DEF Alive
<1>8. QED
  BY <1>6, <1>7

\* The batch is written: the timers of a player that has just entered start.
LEMMA FinishAlive ==
  ASSUME TypeOK, NEW c \in Clients, Alive(c), FinishPacket(c)
  PROVE  Alive(c)'
<1> DEFINE t == task[c]
           u == task'[c]
           cs == task[c].client_state
           starts == cs.keep_alive_enabled = "ShouldEnable"
<1>1. /\ t.pc = "Writing" /\ t.batch = << >> /\ config' = config /\ (Gone(c)' <=> Gone(c))
      /\ cs \in ClientStates /\ Finished(c)
  BY FinishPacketEffect DEF FinishPacket, Gone, TypeOK, Tasks
<1> HIDE DEF EnableActionBarIfNeeded
<1>2. /\ u.pc = "Reading" /\ u.was_in_play = t.was_in_play
      /\ u.just_entered = t.just_entered
      /\ u.timers.keep_alive <=> t.timers.keep_alive \/ starts
      /\ u.timers.action_bar
           <=> \/ t.timers.action_bar
               \/ t.just_entered /\ EnableActionBarIfNeeded(cs)
  BY <1>1, Zenon DEF Finished
<1>3. /\ u.client_state.state = cs.state
      /\ u.client_state.protocol_version = cs.protocol_version
      /\ u.client_state.keep_alive_enabled = IF starts THEN "Enabled" ELSE cs.keep_alive_enabled
  BY <1>1 DEF Finished, ClientStates
<1>4. EnableActionBarIfNeeded(t.client_state)' <=> EnableActionBarIfNeeded(cs)
  BY <1>1, <1>3 DEF EnableActionBarIfNeeded
<1>5. CASE cs.state # "Play"
  <2>1. /\ Off(c) /\ cs.keep_alive_enabled = "Disabled" /\ ~t.was_in_play /\ ~t.just_entered
    BY <1>5 DEF Alive
  <2>2. QED
    BY <1>2, <1>3, <1>5, <2>1 DEF Alive, Off
<1>6. CASE cs.state = "Play" /\ Gone(c)
  BY <1>1, <1>3, <1>6 DEF Alive
<1>7. CASE cs.state = "Play" /\ ~Gone(c)
  <2>1. /\ t.was_in_play
        /\ t.just_entered => /\ Off(c) /\ cs.keep_alive_enabled = "ShouldEnable"
                             /\ Cut(c) => Carries(t.batch)
        /\ ~t.just_entered => IF Cut(c) THEN Late(c) ELSE On(c)
    BY <1>1, <1>7 DEF Alive
  <2>2. IF Cut(c)' THEN Late(c)' ELSE On(c)'
    <3>1. Cut(c)' <=> Cut(c)
      BY <1>1, <1>3 DEF Cut
    <3>2. CASE t.just_entered
      <4>1. ~Cut(c)
        BY <1>1, <2>1, <3>2 DEF Carries
      <4>2. On(c)'
        BY <1>2, <1>3, <1>4, <2>1, <3>2 DEF On, Off
      <4>3. QED
        BY <3>1, <4>1, <4>2
    <3>3. CASE ~t.just_entered /\ ~Cut(c)
      <4>1. On(c)'
        BY <1>2, <1>3, <1>4, <2>1, <3>3 DEF On
      <4>2. QED
        BY <3>1, <3>3, <4>1
    <3>4. CASE ~t.just_entered /\ Cut(c)
      <4>1. Late(c)'
        BY <1>2, <1>3, <2>1, <3>4 DEF Late
      <4>2. QED
        BY <3>1, <3>4, <4>1
    <3>5. QED
      BY <3>2, <3>3, <3>4
  <2>3. QED
    BY <1>2, <1>3, <1>7, <2>1, <2>2 DEF Alive
<1>8. QED
  BY <1>5, <1>6, <1>7

\* A packet is written: the world stays behind, at the end of the batch.
LEMMA WriteAlive ==
  ASSUME TypeOK, NEW c \in Clients, Alive(c), WritePacket(c)
  PROVE  Alive(c)'
<1> DEFINE t == task[c]
           u == task'[c]
<1>1. /\ t.pc = "Writing" /\ t.batch # << >> /\ ~CannotEncode(c)
      /\ config' = config /\ peer' = peer
  BY DEF WritePacket
<1>2. t.batch \in Seq(ClientBound)
  BY DEF TypeOK, Tasks
<1>3. /\ u.client_state = t.client_state /\ u.timers = t.timers /\ u.pc = "Writing"
      /\ u.was_in_play = t.was_in_play /\ u.just_entered = t.just_entered
      /\ u.batch = Tail(t.batch)
  BY <1>1 DEF WritePacket, TypeOK, Tasks
<1>4. t.just_entered /\ Cut(c) /\ Carries(t.batch) => Carries(u.batch)
  <2>1. SUFFICES ASSUME t.just_entered, Cut(c), Carries(t.batch)
                 PROVE  Carries(u.batch)
    OBVIOUS
  <2>2. Head(t.batch).type # "PlayData" /\ Head(t.batch) = t.batch[1]
    BY <1>1, <1>2, <2>1 DEF CannotEncode, Cut
  <2>3. Len(t.batch) \in Nat /\ Len(t.batch) > 1
    BY <1>1, <1>2, <2>1, <2>2 DEF Carries
  <2>4. /\ Len(Tail(t.batch)) = Len(t.batch) - 1
        /\ Tail(t.batch)[Len(t.batch) - 1] = t.batch[Len(t.batch)]
    BY <1>1, <1>2, <2>3
  <2>5. u.batch # << >>
    <3>1. u.batch \in Seq(ClientBound) /\ Len(u.batch) # 0
      BY <1>1, <1>2, <1>3, <2>3, <2>4
    <3>2. QED
      BY <3>1
  <2>6. QED
    BY <1>3, <2>1, <2>4, <2>5 DEF Carries
<1>5. QED
  BY <1>1, <1>3, <1>4, AliveOn DEF Gone

\* The batch is dropped: a player that is there keeps waiting for its keep-alive.
LEMMA CutAlive ==
  ASSUME TypeOK, NEW c \in Clients, Alive(c), WriteFails(c)
  PROVE  Alive(c)'
<1> DEFINE t == task[c]
           u == task'[c]
           cs == task[c].client_state
<1>1. /\ t.pc = "Writing" /\ config' = config /\ peer' = peer
      /\ ~Gone(c) => CannotEncode(c)
  BY DEF WriteFails, WriteErrors
<1>2. /\ u.client_state = t.client_state /\ u.timers = t.timers
      /\ u.was_in_play = t.was_in_play /\ u.just_entered = t.just_entered
      /\ u.pc \in {"Reading", "Closing"}
  BY DEF WriteFails, AfterError, TypeOK, Tasks
<1>3. CASE Gone(c)
  BY <1>1, <1>2, <1>3, AliveOn DEF Gone
<1>4. CASE ~Gone(c)
  <2>1. t.just_entered /\ Cut(c)
    BY <1>1, <1>4 DEF CannotEncode, Cut
  <2>2. cs.state = "Play"
    BY <2>1 DEF Alive
  <2>3. t.was_in_play /\ Off(c) /\ cs.keep_alive_enabled = "ShouldEnable"
    BY <1>1, <1>4, <2>1, <2>2 DEF Alive
  <2>4. Late(c)' /\ Cut(c)'
    BY <1>1, <1>2, <2>1, <2>3 DEF Late, Off, Cut
  <2>5. QED
    BY <1>2, <2>2, <2>3, <2>4 DEF Alive
<1>5. QED
  BY <1>3, <1>4

\* Every step keeps the timers of its connection in order.
LEMMA StepAlive ==
  ASSUME TypeOK, NEW c \in Clients, Simple(c), Alive(c), ServerStep(c) \/ ClientStep(c)
  PROVE  Alive(c)'
<1> DEFINE t == task[c]
           u == task'[c]
<1>1. /\ task \in [Clients -> Tasks] /\ t \in Tasks /\ peer \in [Clients -> Peers]
      /\ config' = config
  BY ConfigStays DEF TypeOK
<1>2. CASE Accept(c) \/ Decrement(c)
  <2>1. u = NewTask("Reading") \/ u = NewTask("Closed")
    BY <1>1, <1>2 DEF Accept, Decrement
  <2>2. QED
    BY <2>1, AliveNew
<1>3. CASE ProcessPacket(c)
  BY <1>3, ProcessAlive
<1>4. CASE FinishPacket(c)
  BY <1>4, FinishAlive
<1>5. ASSUME u.client_state = t.client_state, u.timers = t.timers,
             u.was_in_play = t.was_in_play, u.just_entered = t.just_entered,
             ~Gone(c)' =>
               /\ ~Gone(c)
               /\ u.pc = "Reading" => t.pc = "Reading"
               /\ u.pc \in {"Counting", "Writing"} =>
                    /\ t.pc \in {"Counting", "Writing"}
                    /\ t.just_entered /\ Cut(c) /\ Carries(t.batch) => Carries(u.batch)
      PROVE  Alive(c)'
  BY <1>1, <1>5, AliveOn
<1>6. CASE Increment(c) \/ FindKick(c) \/ KickClient(c) \/ ReadEnd(c)
  <2>1. peer' = peer
    BY <1>6 DEF Increment, FindKick, KickClient, ReadEnd
  <2>2. /\ u.client_state = t.client_state /\ u.timers = t.timers
        /\ u.was_in_play = t.was_in_play /\ u.just_entered = t.just_entered
        /\ u.batch = t.batch
        /\ u.pc \in {"Kicking", "Closing"}
             \/ (u.pc = "Writing" /\ t.pc \in {"Counting", "Writing"})
    BY <1>1, <1>6 DEF Increment, FindKick, KickClient, ReadEnd, Tasks
  <2>3. QED
    BY <1>5, <2>1, <2>2 DEF Gone
<1>7. CASE WritePacket(c)
  BY <1>7, WriteAlive
<1>8. CASE WriteFails(c)
  BY <1>8, CutAlive
<1>9. ASSUME NEW type, Tick(c, type)
      PROVE  Alive(c)'
  <2>1. peer' = peer /\ t.pc = "Reading"
    BY <1>9 DEF Tick
  <2>2. /\ u.client_state = t.client_state /\ u.timers = t.timers
        /\ u.was_in_play = t.was_in_play /\ u.just_entered = t.just_entered
        /\ u.batch = t.batch /\ u.pc \in {"Reading", "Closing"}
    BY <1>1, <1>9 DEF Tick, Tasks, AfterError
  <2>3. QED
    BY <1>5, <2>1, <2>2 DEF Gone
<1>10. CASE Shutdown(c)
  <2>1. CASE ~t.was_in_play
    <3>1. u = NewTask("Closed")
      BY <1>1, <1>10, <2>1 DEF Shutdown
    <3>2. QED
      BY <3>1, AliveNew
  <2>2. CASE t.was_in_play
    <3>1. u.client_state = t.client_state /\ u.pc = "Leaving"
      BY <1>1, <1>10, <2>2 DEF Shutdown, Tasks
    <3>2. t.client_state.state = "Play"
      BY <2>2 DEF Simple
    <3>3. QED
      BY <3>1, <3>2 DEF Alive
  <2>3. QED
    BY <2>1, <2>2
<1>11. CASE Connect(c)
  <2>1. t = NewTask("Closed")
    BY <1>11 DEF Connect, Simple
  <2>2. u = NewTask("Pending")
    BY <1>1, <1>11, <2>1, Connecting DEF Connect
  <2>3. QED
    BY <2>2, AliveNew
<1>12. CASE Receive(c) \/ SendInput(c) \/ Leave(c)
  <2>1. task' = task /\ (~Gone(c)' => ~Gone(c))
    BY <1>1, <1>12 DEF Receive, SendInput, Leave, Gone
  <2>2. QED
    BY <1>5, <2>1
<1>13. QED
  BY <1>2, <1>3, <1>4, <1>6, <1>7, <1>8, <1>9, <1>10, <1>11, <1>12
  DEF ServerStep, KeepAliveTick, ActionBarTick, ClientStep

\* While a player is served its keep-alive timer runs, and the action bar timer
\* exactly when it was configured for a version that shows it: the timers start
\* with the end of the packet that entered Play, and no step after it stops them.
\* Where the world cannot be encoded that end is not reached: the action bar timer
\* never starts, the keep-alive with the next packet that is handled to its end
\* (network.rs, process_packet and handle_client).
THEOREM PlayersStayAlive == Spec => []PlayersKeptAlive
<1> DEFINE Inv == ConversationInv /\ \A c \in Clients : Alive(c)
<1>1. Init => \A c \in Clients : Alive(c)
  <2>1. ASSUME Init, NEW c \in Clients
        PROVE  Alive(c)
    <3>1. task[c] = NewTask("Closed")
      BY <2>1 DEF Init
    <3>2. /\ task[c].client_state.state = "Handshake"
          /\ task[c].client_state.keep_alive_enabled = "Disabled"
          /\ ~task[c].timers.keep_alive /\ ~task[c].timers.action_bar
          /\ ~task[c].was_in_play /\ ~task[c].just_entered
      BY <3>1 DEF NewTask, DefaultClientState, NoTimers
    <3>3. QED
      BY <3>2 DEF Alive, Off
  <2>2. QED
    BY <2>1
<1>2. ConversationInv /\ (\A c \in Clients : Alive(c)) /\ [Next]_vars
        => (\A c \in Clients : Alive(c))'
  <2>1. ASSUME ConversationInv, \A c \in Clients : Alive(c), Next, NEW d \in Clients
        PROVE  Alive(d)'
    <3>1. PICK c \in Clients : ServerStep(c) \/ ClientStep(c)
      BY <2>1 DEF Next
    <3>2. TypeOK /\ Simple(c) /\ Alive(c) /\ Alive(d)
      BY <2>1 DEF ConversationInv, Coherent
    <3>3. CASE d = c
      BY <3>1, <3>2, <3>3, StepAlive
    <3>4. CASE d # c
      <4>1. task'[d] = task[d] /\ peer'[d] = peer[d] /\ config' = config
        BY <3>1, <3>2, <3>4, OthersStay, ConfigStays
      <4>2. QED
        BY <3>2, <4>1, AliveOn DEF Gone
    <3>5. QED
      BY <3>3, <3>4
  <2>2. ASSUME \A c \in Clients : Alive(c), UNCHANGED vars, NEW d \in Clients
        PROVE  Alive(d)'
    BY <2>2, AliveOn DEF vars, Gone
  <2>3. QED
    BY <2>1, <2>2
<1>3. ASSUME ConversationInv, \A c \in Clients : Alive(c)
      PROVE  PlayersKeptAlive
  <2>1. ASSUME NEW c \in Clients, task[c].pc = "Reading",
               task[c].client_state.state = "Play", ~Gone(c)
        PROVE  /\ \/ task[c].timers.keep_alive
                  \/ Cut(c) /\ task[c].client_state.keep_alive_enabled = "ShouldEnable"
               /\ task[c].timers.action_bar =
                    (EnableActionBarIfNeeded(task[c].client_state) /\ ~Cut(c))
    <3>1. IF Cut(c) THEN Late(c) ELSE On(c)
      BY <1>3, <2>1 DEF Alive
    <3>2. /\ task[c].timers.action_bar \in BOOLEAN
          /\ EnableActionBarIfNeeded(task[c].client_state) \in BOOLEAN
      BY <1>3 DEF ConversationInv, TypeOK, Tasks, Timers, EnableActionBarIfNeeded
    <3>3. CASE Cut(c)
      BY <3>1, <3>2, <3>3 DEF Late
    <3>4. CASE ~Cut(c)
      BY <3>1, <3>2, <3>4 DEF On
    <3>5. QED
      BY <3>3, <3>4
  <2>2. QED
    BY <2>1 DEF PlayersKeptAlive, Cut
<1>4. QED
  BY <1>1, <1>2, <1>3, Conversation, PTL DEF Spec
===============================================================================
