---------------------------- MODULE Negotiation ----------------------------
(***************************************************************************)
(* Offers and answers for the subscribe connection of one user in one call *)
(* (participant.go), with the client's side of it (WebRTCManager.ts).      *)
(*                                                                         *)
(* A session description is abstracted to the version of the set of tracks *)
(* it describes, and to the participant object that made it: a user who    *)
(* leaves and joins again gets a new one, and what the old one sent may be *)
(* still on its way. The user has one WebSocket, first in first out in     *)
(* both directions; the server drops a message when its buffer is full.    *)
(*                                                                         *)
(* The connection itself is pion's (external): it asks for a negotiation   *)
(* at most once until it is stable again, refuses an offer of its own      *)
(* while one is out, refuses an answer when none is, and cannot tell whose *)
(* answer it is given.                                                     *)
(***************************************************************************)
EXTENDS Integers, Sequences

CONSTANTS Joins,      \* bound: how often the user joins
          MaxTracks,  \* bound: changes of the tracks on one connection
          MaxLost     \* bound: messages lost

ASSUME JoinsAssumption == Joins \in Nat \ {0}
ASSUME BoundAssumption == MaxTracks \in Nat /\ MaxLost \in Nat

Gen     == 1 .. Joins
Version == 0 .. MaxTracks

\* An offer or an answer: the participant object it comes from, and the version.
Sdp   == [gen : Gen, ver : Version]
NoSdp == [gen |-> 0, ver |-> 0]

\* Goroutines of a participant: pion's, and the one that reads the WebSocket.
Goroutine == {"pion", "reader"}
Stage     == {"idle", "request", "create", "set", "send", "clear"}

VARIABLES
  stay,      \* generation -> "none", "in" the room, "closed"
  want,      \* generation -> version of the tracks added to its connection
  agreed,    \* generation -> version in its last completed negotiation
  offered,   \* generation -> version in its last local offer
  sig,       \* generation -> signaling state, "stable" or "offer"
  asked,     \* generation -> pion asked for a negotiation (negotiation needed flag)
  inFlight,  \* generation -> negoInFlight
  pending,   \* generation -> negoPending
  at,        \* generation -> goroutine -> its next step
  draft,     \* generation -> goroutine -> the version of the offer it made
  joining,   \* the generation whose join is not answered yet, or 0
  toClient,  \* messages to the client, in order
  toServer,  \* messages to the server, in order
  calls,     \* how often the client joined
  inCall,    \* the client's channelId is set
  pc,        \* the client's subscribePC, by number, or 0
  pcs,       \* how many it made
  buffered,  \* pendingSubscribeOffer
  applied,   \* the offer last applied to subscribePC
  replies,   \* offers applied and not answered yet, each with its subscribePC
  lost,      \* messages lost so far
  mixed      \* a call was given a message of an earlier one (history)

conn   == <<want, agreed, offered, sig, asked>>
nego   == <<inFlight, pending, at, draft>>
server == <<stay, conn, nego, joining>>
client == <<calls, inCall, pc, pcs, buffered, applied, replies>>
negotiationVars == <<server, client, toClient, toServer, lost, mixed>>

Offer(g, v)  == [type |-> "offer", gen |-> g, ver |-> v]
Answer(s)    == [type |-> "answer", gen |-> s.gen, ver |-> s.ver]
Joined(g)    == [type |-> "joined", gen |-> g, ver |-> 0]
Leaving      == [type |-> "leave", gen |-> 0, ver |-> 0]
Joining      == [type |-> "join", gen |-> 0, ver |-> 0]
SdpOf(m)     == [gen |-> m.gen, ver |-> m.ver]

ToClient == [type : {"offer"}, gen : Gen, ver : Version] \cup [type : {"joined"}, gen : Gen, ver : {0}]
ToServer == [type : {"answer"}, gen : Gen, ver : Version] \cup {Leaving, Joining}

ServerTypeOK ==
  /\ stay \in [Gen -> {"none", "in", "closed"}]
  /\ want \in [Gen -> Version] /\ agreed \in [Gen -> Version] /\ offered \in [Gen -> Version]
  /\ sig \in [Gen -> {"stable", "offer"}]
  /\ asked \in [Gen -> BOOLEAN] /\ inFlight \in [Gen -> BOOLEAN] /\ pending \in [Gen -> BOOLEAN]
  /\ at \in [Gen -> [Goroutine -> Stage]]
  /\ draft \in [Gen -> [Goroutine -> Version]]
  /\ joining \in Gen \cup {0}

ClientTypeOK ==
  /\ calls \in 0 .. Joins /\ inCall \in BOOLEAN
  /\ pcs \in Nat /\ pc \in 0 .. pcs
  /\ buffered \in Sdp \cup {NoSdp} /\ applied \in Sdp \cup {NoSdp}
  /\ pc # 0 => buffered = NoSdp
  /\ replies \subseteq (1 .. pcs) \X Sdp

NegotiationTypeOK ==
  /\ ServerTypeOK /\ ClientTypeOK
  /\ toClient \in Seq(ToClient) /\ toServer \in Seq(ToServer)
  /\ lost \in 0 .. MaxLost /\ mixed \in BOOLEAN

NegotiationInit ==
  /\ stay = [g \in Gen |-> "none"]
  /\ want = [g \in Gen |-> 0] /\ agreed = want /\ offered = want
  /\ sig = [g \in Gen |-> "stable"]
  /\ asked = [g \in Gen |-> FALSE] /\ inFlight = asked /\ pending = asked
  /\ at = [g \in Gen |-> [t \in Goroutine |-> "idle"]]
  /\ draft = [g \in Gen |-> [t \in Goroutine |-> 0]]
  /\ joining = 0
  /\ toClient = <<>> /\ toServer = <<>>
  /\ calls = 0 /\ inCall = FALSE
  /\ pc = 0 /\ pcs = 0
  /\ buffered = NoSdp /\ applied = NoSdp /\ replies = {}
  /\ lost = 0 /\ mixed = FALSE

-----------------------------------------------------------------------------
(* The server's connection: tracks come and go, pion asks for a negotiation *)

\* AddTrack or RemoveTrack on the subscribe connection.
Change(g) ==
  /\ stay[g] = "in"
  /\ want[g] < MaxTracks
  /\ want' = [want EXCEPT ![g] = @ + 1]
  /\ UNCHANGED <<stay, agreed, offered, sig, asked, nego, joining, client, toClient, toServer, lost, mixed>>

NegotiationNeeded(g) ==
  /\ stay[g] = "in"
  /\ sig[g] = "stable" /\ agreed[g] # want[g]
  /\ ~asked[g]
  /\ at[g]["pion"] = "idle"
  /\ asked' = [asked EXCEPT ![g] = TRUE]
  /\ at' = [at EXCEPT ![g]["pion"] = "request"]
  /\ UNCHANGED <<stay, want, agreed, offered, sig, inFlight, pending, draft, joining,
                 client, toClient, toServer, lost, mixed>>

-----------------------------------------------------------------------------
(* requestSubscribeRenegotiation and sendSubscribeOffer, in goroutine t *)

\* Mutant: a request that finds a negotiation under way is forgotten.
NotCoalesced(g) == pending

Coalesced(g) == [pending EXCEPT ![g] = TRUE]

Request(g, t) ==
  /\ at[g][t] = "request"
  /\ IF inFlight[g]
     THEN /\ pending' = Coalesced(g)
          /\ at' = [at EXCEPT ![g][t] = "idle"]
          /\ UNCHANGED inFlight
     ELSE /\ inFlight' = [inFlight EXCEPT ![g] = TRUE]
          /\ at' = [at EXCEPT ![g][t] = "create"]
          /\ UNCHANGED pending
  /\ UNCHANGED <<stay, conn, draft, joining, client, toClient, toServer, lost, mixed>>

CreateOffer(g, t) ==
  /\ at[g][t] = "create"
  /\ IF stay[g] = "closed"
     THEN at' = [at EXCEPT ![g][t] = "clear"] /\ UNCHANGED draft
     ELSE /\ draft' = [draft EXCEPT ![g][t] = want[g]]
          /\ at' = [at EXCEPT ![g][t] = "set"]
  /\ UNCHANGED <<stay, conn, inFlight, pending, joining, client, toClient, toServer, lost, mixed>>

SetLocalDescription(g, t) ==
  /\ at[g][t] = "set"
  /\ IF stay[g] = "closed" \/ sig[g] # "stable"
     THEN at' = [at EXCEPT ![g][t] = "clear"] /\ UNCHANGED <<sig, offered>>
     ELSE /\ sig' = [sig EXCEPT ![g] = "offer"]
          /\ offered' = [offered EXCEPT ![g] = draft[g][t]]
          /\ at' = [at EXCEPT ![g][t] = "send"]
  /\ UNCHANGED <<stay, want, agreed, asked, inFlight, pending, draft, joining,
                 client, toClient, toServer, lost, mixed>>

\* SendToUser: into the buffer, or dropped when the buffer is full.
SendToUser(m) ==
  \/ toClient' = Append(toClient, m) /\ UNCHANGED lost
  \/ lost < MaxLost /\ lost' = lost + 1 /\ UNCHANGED toClient

SendSubscribeOffer(g, t) ==
  /\ at[g][t] = "send"
  /\ at' = [at EXCEPT ![g][t] = "idle"]
  /\ SendToUser(Offer(g, offered[g]))
  /\ UNCHANGED <<stay, conn, inFlight, pending, draft, joining, client, toServer, mixed>>

\* Mutant: the round that is over is not marked as over.
StillInFlight(g) == inFlight

Cleared(g) == [inFlight EXCEPT ![g] = FALSE]

\* clearNegoInFlight, and the same lines of onSubscribeAnswer.
ClearNegoInFlight(g, t) ==
  /\ at[g][t] = "clear"
  /\ inFlight' = Cleared(g)
  /\ pending' = [pending EXCEPT ![g] = FALSE]
  /\ at' = [at EXCEPT ![g][t] = IF pending[g] THEN "request" ELSE "idle"]
  /\ UNCHANGED <<stay, conn, draft, joining, client, toClient, toServer, lost, mixed>>

-----------------------------------------------------------------------------
(* The server reads the next message of the client *)

Participants == {g \in Gen : stay[g] = "in"}

\* The goroutine that reads the WebSocket is done with the message before.
Reads(type) ==
  /\ toServer # <<>> /\ Head(toServer).type = type
  /\ joining = 0
  /\ \A g \in Gen : at[g]["reader"] = "idle"
  /\ toServer' = Tail(toServer)

\* A new participant; its tracks are added before the join is answered.
HandleJoin ==
  /\ Reads("join")
  /\ \E g \in Gen :
       /\ stay[g] = "none" /\ \A o \in 1 .. g - 1 : stay[o] # "none"
       /\ stay' = [stay EXCEPT ![g] = "in"]
       /\ joining' = g
  /\ UNCHANGED <<conn, nego, client, toClient, lost, mixed>>

AnswerJoin ==
  /\ joining # 0
  /\ joining' = 0
  /\ SendToUser(Joined(joining))
  /\ UNCHANGED <<stay, conn, nego, client, toServer, mixed>>

HandleLeave ==
  /\ Reads("leave")
  /\ stay' = [g \in Gen |-> IF stay[g] = "in" THEN "closed" ELSE stay[g]]
  /\ UNCHANGED <<conn, nego, joining, client, toClient, lost, mixed>>

\* The answer of another offer is taken or refused, as its media lines happen to
\* fit; without an offer outstanding every answer is refused.
Fits(g, s) ==
  IF sig[g] # "offer" THEN {FALSE}
  ELSE IF s = [gen |-> g, ver |-> offered[g]] THEN {TRUE} ELSE BOOLEAN

OnSubscribeAnswer ==
  /\ Reads("answer")
  /\ IF Participants = {}
     THEN UNCHANGED <<sig, agreed, asked, at>>
     ELSE \E g \in Participants : \E ok \in Fits(g, SdpOf(Head(toServer))) :
            /\ at' = [at EXCEPT ![g]["reader"] = "clear"]
            /\ IF ok
               THEN /\ sig' = [sig EXCEPT ![g] = "stable"]
                    /\ agreed' = [agreed EXCEPT ![g] = offered[g]]
                    /\ asked' = [asked EXCEPT ![g] = FALSE]
               ELSE UNCHANGED <<sig, agreed, asked>>
  /\ UNCHANGED <<stay, want, offered, inFlight, pending, draft, joining, client, toClient, lost, mixed>>

-----------------------------------------------------------------------------
(* The client *)

ClientJoin ==
  /\ ~inCall /\ calls < Joins
  /\ calls' = calls + 1
  /\ inCall' = TRUE
  /\ buffered' = NoSdp
  /\ toServer' = Append(toServer, Joining)
  /\ UNCHANGED <<server, pc, pcs, applied, replies, toClient, lost, mixed>>

ClientLeave ==
  /\ inCall
  /\ inCall' = FALSE
  /\ buffered' = NoSdp
  /\ pc' = 0 /\ applied' = NoSdp
  /\ toServer' = Append(toServer, Leaving)
  /\ UNCHANGED <<server, calls, pcs, replies, toClient, lost, mixed>>

Receives(type) ==
  /\ toClient # <<>> /\ Head(toClient).type = type
  /\ toClient' = Tail(toClient)

\* Without listeners, or in another call, a message is passed over.
Ignore ==
  /\ ~inCall
  /\ toClient # <<>> /\ toClient' = Tail(toClient)
  /\ UNCHANGED <<server, client, toServer, lost, mixed>>

\* The channel is all a message says of its call.
Mixed == mixed' = (mixed \/ Head(toClient).gen # calls)

\* handleSubscribeOffer up to its awaits, on subscribePC number n. The browser takes every
\* offer: what it refuses for reasons of its own ends in the handler's catch, and is left out.
Apply(n, s) ==
  /\ applied' = s
  /\ replies' = replies \cup {<<n, s>>}

\* handleCallJoined: a new subscribePC, and the offer that came too early.
HandleCallJoined ==
  /\ inCall
  /\ Receives("joined")
  /\ pcs' = pcs + 1 /\ pc' = pcs + 1
  /\ buffered' = NoSdp
  /\ IF buffered # NoSdp THEN Apply(pcs + 1, buffered) ELSE applied' = NoSdp /\ UNCHANGED replies
  /\ Mixed
  /\ UNCHANGED <<server, calls, inCall, toServer, lost>>

HandleSubscribeOffer ==
  /\ inCall
  /\ Receives("offer")
  /\ LET s == SdpOf(Head(toClient)) IN
       IF pc = 0
       THEN buffered' = s /\ UNCHANGED <<applied, replies>>
       ELSE Apply(pc, s) /\ UNCHANGED buffered
  /\ Mixed
  /\ UNCHANGED <<server, calls, inCall, pc, pcs, toServer, lost>>

\* After its awaits the handler answers in the call the client is in then, if any.
Reply(r) ==
  /\ replies' = replies \ {r}
  /\ toServer' = IF inCall THEN Append(toServer, Answer(r[2])) ELSE toServer
  /\ UNCHANGED <<server, calls, inCall, pc, pcs, buffered, applied, toClient, lost, mixed>>

\* It gives up when the connection was closed, or another offer came in between.
GiveUp(r) ==
  /\ r[1] # pc \/ \E o \in replies : o # r /\ o[1] = r[1]
  /\ replies' = replies \ {r}
  /\ UNCHANGED <<server, calls, inCall, pc, pcs, buffered, applied, toClient, toServer, lost, mixed>>

-----------------------------------------------------------------------------
Offering(g, t) ==
  \/ Request(g, t)
  \/ CreateOffer(g, t)
  \/ SetLocalDescription(g, t)
  \/ SendSubscribeOffer(g, t)
  \/ ClearNegoInFlight(g, t)

Reading == HandleJoin \/ AnswerJoin \/ HandleLeave \/ OnSubscribeAnswer

Receiving == Ignore \/ HandleCallJoined \/ HandleSubscribeOffer

Replying == \E r \in replies : Reply(r) \/ GiveUp(r)

NegotiationNext ==
  \/ \E g \in Gen : Change(g) \/ NegotiationNeeded(g) \/ \E t \in Goroutine : Offering(g, t)
  \/ Reading
  \/ ClientJoin \/ ClientLeave
  \/ Receiving
  \/ Replying

NegotiationSpec == NegotiationInit /\ [][NegotiationNext]_negotiationVars

\* Goroutines run, the WebSocket delivers, the client's event loop goes on.
\* Nobody has to join, leave or publish.
NegotiationFairness ==
  /\ \A g \in Gen : WF_negotiationVars(NegotiationNeeded(g)) /\ \A t \in Goroutine : WF_negotiationVars(Offering(g, t))
  /\ WF_negotiationVars(Reading) /\ WF_negotiationVars(Receiving) /\ WF_negotiationVars(Replying)

FairNegotiation == NegotiationSpec /\ NegotiationFairness

-----------------------------------------------------------------------------
(* Safety. *)

\* Where an offer of g, or its answer, is on its way or with the client.
Places(g) ==
  {<<"offer", i>> : i \in {j \in DOMAIN toClient : toClient[j].type = "offer" /\ toClient[j].gen = g}}
    \cup {<<"answer", i>> : i \in {j \in DOMAIN toServer : toServer[j].type = "answer" /\ toServer[j].gen = g}}
    \cup {<<"buffered", n>> : n \in {m \in {0} : buffered.gen = g}}
    \cup {<<"reply", r>> : r \in {q \in replies : q[2].gen = g}}

\* A negotiation under way is visible somewhere: there, or a goroutine works on it.
UnderWay(g) == Places(g) # {} \/ \E t \in Goroutine : at[g][t] \in {"create", "set", "send", "clear"}

\* A participant waits for an answer, negoInFlight set and every later round put
\* off, only as long as the answer can still come. Otherwise its tracks would
\* never change again. A message the full buffer dropped does exactly that.
NoStall ==
  \A g \in Gen :
    stay[g] = "in" /\ inFlight[g] /\ calls = g /\ inCall /\ lost = 0 /\ ~mixed => UnderWay(g)

\* participant.go:282-286: only one offer of a participant is outstanding, in
\* the first stay. In a later one the answer to an offer of the stay before may be
\* taken, which ends the round of an offer still on its way.
OneOffer ==
  calls <= 1 => \A g \in Gen : \A p, q \in Places(g) : p = q

\* The rounds of a participant take turns: the next waits for the answer to the
\* last, and the answer comes.
RoundsTakeTurns == OneOffer /\ NoStall

-----------------------------------------------------------------------------
(* Liveness. *)

\* The client is in the call its last join began and has the tracks it should.
UpToDate == calls # 0 /\ stay[calls] = "in" => applied = [gen |-> calls, ver |-> want[calls]]

\* When the tracks stop changing the client ends up with all of them, whatever
\* leaves and joins came before and whichever offers were still on their way;
\* unless a message was dropped.
CatchesUp == <>[](inCall /\ lost = 0 /\ ~mixed => want[calls] = 0 \/ UpToDate)

-----------------------------------------------------------------------------
(* This is what TrackMirror promises of each stay in the call. To it a     *)
(* stay ends when the user leaves, and when a message is lost or one of an *)
(* earlier stay is taken: from then on nothing is promised.                *)

Undisturbed == inCall /\ lost = 0 /\ ~mixed

Mirror == INSTANCE TrackMirror WITH
  want <- IF Undisturbed THEN want[calls] ELSE 0,
  view <- IF Undisturbed THEN applied.ver ELSE 0,
  on   <- Undisturbed

MirrorsTracks == Mirror!FairSpec
=============================================================================
