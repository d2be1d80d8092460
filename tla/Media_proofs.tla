---------------------------- MODULE Media_proofs ----------------------------
(***************************************************************************)
(* Proofs about voice and video: the UDP voice router (VoiceRouter), and   *)
(* of the SFU the negotiation of a user's subscribe connection             *)
(* (Negotiation) and the wiring of tracks (TrackForwarding).               *)
(*                                                                         *)
(* Negotiation, for any number of joins, changes and lost messages. The    *)
(* rounds take turns because a round of the first stay is in one place and *)
(* a message under way is passed on, never let go (Rounds); the client     *)
(* follows the server because pion's request is in one pair of hands and   *)
(* versions go up on the whole way to the client (Following).              *)
(*                                                                         *)
(* TrackForwarding, for any users, participants and tracks. NobodyMisses   *)
(* holds because every sender that is taken off belongs to a track that is *)
(* gone, and every track a joiner or a publisher had to wire is in a list  *)
(* until it is wired: WireInv says so.                                     *)
(*                                                                         *)
(* VoiceRouter, for any users, addresses and channels. Everything rests on *)
(* addrMap and userMap being inverse to each other (MapsInverse).          *)
(***************************************************************************)
EXTENDS VoiceRouter, TrackForwarding, Negotiation, TLAPS

-----------------------------------------------------------------------------
(* Negotiation *)

USE JoinsAssumption, BoundAssumption

\* A participant object that has done nothing.
Blank(g) ==
  /\ want[g] = 0 /\ offered[g] = 0 /\ ~inFlight[g] /\ ~pending[g] /\ ~asked[g] /\ sig[g] = "stable"
  /\ \A t \in Goroutine : at[g][t] = "idle"

\* The participant objects of the user come one after the other, none is made before the
\* client asks for it, and one that is not made yet has done nothing.
StaysOK ==
  /\ \A g, h \in Gen : g < h /\ stay[h] # "none" => stay[g] = "closed"
  /\ \A g \in Gen : stay[g] # "none" => g <= calls
  /\ \A g \in Gen : stay[g] = "none" => Blank(g)
  /\ joining # 0 => stay[joining] # "none"

\* Only those that were made have anything on its way.
MadeOK ==
  /\ \A i \in DOMAIN toClient : stay[toClient[i].gen] # "none"
  /\ \A i \in DOMAIN toServer : toServer[i].type = "answer" => stay[toServer[i].gen] # "none"
  /\ buffered # NoSdp => stay[buffered.gen] # "none"
  /\ \A r \in replies : stay[r[2].gen] # "none"

\* A join reaches the server only after the leave of the stay before.
TurnsOK ==
  /\ \A i, j \in DOMAIN toServer :
       i < j /\ toServer[i] = Joining /\ toServer[j] = Joining =>
         \E k \in DOMAIN toServer : i < k /\ k < j /\ toServer[k] = Leaving
  /\ \A j \in DOMAIN toServer :
       toServer[j] = Joining /\ Participants # {} => \E k \in DOMAIN toServer : k < j /\ toServer[k] = Leaving
  /\ ~inCall => \A i \in DOMAIN toServer :
       toServer[i] = Joining => \E k \in DOMAIN toServer : i < k /\ toServer[k] = Leaving
  /\ ~inCall /\ Participants # {} => \E k \in DOMAIN toServer : toServer[k] = Leaving

\* Each join on its way has a number of its own, above those that were made.
Numbers(f) ==
  /\ \A i \in DOMAIN toServer : toServer[i] = Joining =>
       /\ f[i] \in 1 .. calls
       /\ \A g \in Gen : stay[g] # "none" => g < f[i]
       /\ \A j \in DOMAIN toServer : i < j /\ toServer[j] = Joining => f[i] < f[j]

NumbersOK == \E f \in [DOMAIN toServer -> 0 .. calls] : Numbers(f)

\* A join is answered once.
JoinedAt(i, g) == toClient[i].type = "joined" /\ toClient[i].gen = g

JoinedOK ==
  /\ \A g \in Gen : \A i, j \in DOMAIN toClient : JoinedAt(i, g) /\ JoinedAt(j, g) => i = j
  /\ joining # 0 => \A i \in DOMAIN toClient : ~JoinedAt(i, joining)

\* What the client holds in a call is of this call, unless an earlier one was mixed in.
CallOK ==
  /\ inCall => calls # 0
  /\ pc = 0 => applied = NoSdp
  /\ ~inCall => pc = 0 /\ buffered = NoSdp
  /\ inCall /\ ~mixed =>
       /\ \A r \in replies : r[2].gen = calls <=> r[1] = pc
       /\ pc # 0 => /\ joining # calls /\ stay[calls] # "none"
                    /\ \A i \in DOMAIN toClient : ~JoinedAt(i, calls)
       /\ buffered # NoSdp => buffered.gen = calls
       /\ applied # NoSdp => applied.gen = calls

NegotiationInv == /\ NegotiationTypeOK /\ StaysOK /\ MadeOK /\ TurnsOK /\ NumbersOK /\ JoinedOK /\ CallOK

\* A round of the first stay is at one place, and negoInFlight is set while it is: a
\* goroutine works on it, or its offer or answer is on its way or with the client.
Works(g, t)    == at[g][t] \in {"create", "set", "send", "clear"}
OfferAt(i, g)  == toClient[i].type = "offer" /\ toClient[i].gen = g
AnswerAt(i, g) == toServer[i].type = "answer" /\ toServer[i].gen = g

Busy(g)    == \E t \in Goroutine : Works(g, t)
GoesOut(g) == \E i \in DOMAIN toClient : OfferAt(i, g)
Waits(g)   == buffered.gen = g
InHand(g)  == \E r \in replies : r[2].gen = g
ComesIn(g) == \E i \in DOMAIN toServer : AnswerAt(i, g)

Alike(g) ==
  /\ \A t, u \in Goroutine : Works(g, t) /\ Works(g, u) => t = u
  /\ \A i, j \in DOMAIN toClient : OfferAt(i, g) /\ OfferAt(j, g) => i = j
  /\ \A q, r \in replies : q[2].gen = g /\ r[2].gen = g => q = r
  /\ \A i, j \in DOMAIN toServer : AnswerAt(i, g) /\ AnswerAt(j, g) => i = j

Somewhere(g) == Busy(g) \/ GoesOut(g) \/ Waits(g) \/ InHand(g) \/ ComesIn(g)

RoundOK(g) ==
  /\ Alike(g)
  /\ Busy(g) => ~GoesOut(g) /\ ~Waits(g) /\ ~InHand(g) /\ ~ComesIn(g)
  /\ GoesOut(g) => ~Waits(g) /\ ~InHand(g) /\ ~ComesIn(g)
  /\ Waits(g) => ~InHand(g) /\ ~ComesIn(g)
  /\ InHand(g) => ~ComesIn(g)
  /\ Somewhere(g) => inFlight[g]

RoundsOK == calls <= 1 => \A g \in Gen : RoundOK(g)

\* pion's request is in one pair of hands until its offer is answered, so that no offer is
\* set after a newer one.
Holds(g, t) == at[g][t] \in {"request", "create", "set"}

BatonAt(g) ==
  /\ \A t \in Goroutine : Holds(g, t) => asked[g] /\ ~pending[g] /\ sig[g] = "stable"
  /\ \A t, u \in Goroutine : Holds(g, t) /\ Holds(g, u) => t = u
  /\ pending[g] => asked[g] /\ sig[g] = "stable"
  /\ sig[g] = "offer" => asked[g]

BatonOK == \A g \in Gen : BatonAt(g)

\* Versions go up on the whole way from the connection to the client.
MadeInOrder(g) ==
  /\ offered[g] <= want[g]
  /\ \A t \in Goroutine : at[g][t] = "set" => offered[g] <= draft[g][t] /\ draft[g][t] <= want[g]

SentInOrder(g) ==
  /\ \A i \in DOMAIN toClient : OfferAt(i, g) => toClient[i].ver <= offered[g]
  /\ \A i, j \in DOMAIN toClient : i < j /\ OfferAt(i, g) /\ OfferAt(j, g) => toClient[i].ver <= toClient[j].ver

Passed(s, g) ==
  s.gen = g => /\ s.ver <= offered[g]
               /\ \A i \in DOMAIN toClient : OfferAt(i, g) => s.ver <= toClient[i].ver

OrderOK == \A g \in Gen : MadeInOrder(g) /\ SentInOrder(g) /\ Passed(buffered, g) /\ Passed(applied, g)

-----------------------------------------------------------------------------
(* Helpers *)

\* An answer that g is given, and takes or refuses.
Answered(g, ok) ==
  /\ at' = [at EXCEPT ![g]["reader"] = "clear"]
  /\ IF ok
     THEN /\ sig' = [sig EXCEPT ![g] = "stable"]
          /\ agreed' = [agreed EXCEPT ![g] = offered[g]]
          /\ asked' = [asked EXCEPT ![g] = FALSE]
     ELSE UNCHANGED <<sig, agreed, asked>>

\* The two queues.
LEMMA Appends ==
  ASSUME NEW S, NEW s \in Seq(S), NEW m \in S
  PROVE  /\ Append(s, m) \in Seq(S) /\ DOMAIN Append(s, m) = 1 .. Len(s) + 1
         /\ DOMAIN s = 1 .. Len(s) /\ Len(s) \in Nat
         /\ Append(s, m)[Len(s) + 1] = m /\ \A i \in DOMAIN s : Append(s, m)[i] = s[i]
  OBVIOUS

LEMMA Tails ==
  ASSUME NEW S, NEW s \in Seq(S), s # <<>>
  PROVE  /\ Tail(s) \in Seq(S) /\ DOMAIN Tail(s) = 1 .. Len(s) - 1
         /\ DOMAIN s = 1 .. Len(s) /\ Len(s) \in Nat /\ Len(s) >= 1
         /\ Head(s) = s[1] /\ s[1] \in S /\ \A i \in 1 .. Len(s) - 1 : Tail(s)[i] = s[i + 1]
  OBVIOUS

\* A function of functions, changed at one place.
LEMMA Puts ==
  ASSUME NEW G, NEW T, NEW S, NEW f \in [G -> [T -> S]], NEW g \in G, NEW t \in T, NEW v \in S
  PROVE  /\ [f EXCEPT ![g][t] = v] \in [G -> [T -> S]]
         /\ [f EXCEPT ![g][t] = v][g][t] = v
         /\ \A x \in G, y \in T : x # g \/ y # t => [f EXCEPT ![g][t] = v][x][y] = f[x][y]
  OBVIOUS

LEMMA SendType ==
  ASSUME NegotiationTypeOK, NEW m \in ToClient, SendToUser(m)
  PROVE  toClient' \in Seq(ToClient) /\ lost' \in 0 .. MaxLost
<1>1. toClient \in Seq(ToClient) /\ lost \in 0 .. MaxLost
  BY DEF NegotiationTypeOK
<1>2. QED
  BY <1>1 DEF SendToUser

-----------------------------------------------------------------------------
(* The types of Negotiation *)

LEMMA NegotiationInitType == NegotiationInit => NegotiationTypeOK
<1> SUFFICES ASSUME NegotiationInit PROVE NegotiationTypeOK
  OBVIOUS
<1>1. toClient \in Seq(ToClient) /\ toServer \in Seq(ToServer)
  BY DEF NegotiationInit
<1>2. /\ stay \in [Gen -> {"none", "in", "closed"}] /\ sig \in [Gen -> {"stable", "offer"}]
      /\ want \in [Gen -> Version] /\ agreed \in [Gen -> Version] /\ offered \in [Gen -> Version]
      /\ asked \in [Gen -> BOOLEAN] /\ inFlight \in [Gen -> BOOLEAN] /\ pending \in [Gen -> BOOLEAN]
  BY DEF NegotiationInit, Version
<1>3. /\ at \in [Gen -> [Goroutine -> Stage]] /\ draft \in [Gen -> [Goroutine -> Version]]
  BY DEF NegotiationInit, Version, Stage
<1>4. ServerTypeOK
  <2>1. joining \in Gen \cup {0}
    BY DEF NegotiationInit
  <2>2. QED
    BY <1>2, <1>3, <2>1 DEF ServerTypeOK
<1>5. ClientTypeOK
  <2>1. replies \subseteq (1 .. pcs) \X Sdp /\ pcs \in Nat /\ pc \in 0 .. pcs
    BY DEF NegotiationInit
  <2>2. calls \in 0 .. Joins /\ buffered = NoSdp /\ applied = NoSdp
    BY DEF NegotiationInit
  <2>3. inCall \in BOOLEAN
    BY DEF NegotiationInit
  <2>4. QED
    BY <2>1, <2>2, <2>3 DEF ClientTypeOK
<1>6. mixed \in BOOLEAN
  BY DEF NegotiationInit
<1>7. lost \in 0 .. MaxLost
  BY DEF NegotiationInit
<1>8. QED
  BY <1>1, <1>4, <1>5, <1>6, <1>7 DEF NegotiationTypeOK

LEMMA ServerStays == ServerTypeOK /\ UNCHANGED server => ServerTypeOK'
  BY DEF ServerTypeOK, server, conn, nego

LEMMA ClientStays == ClientTypeOK /\ UNCHANGED client => ClientTypeOK'
  BY DEF ClientTypeOK, client

\* A goroutine goes on to its next stage.
LEMMA StageType ==
  ASSUME NegotiationTypeOK, NEW g \in Gen, NEW t \in Goroutine, NEW v \in Stage
  PROVE  [at EXCEPT ![g][t] = v] \in [Gen -> [Goroutine -> Stage]]
<1>1. at \in [Gen -> [Goroutine -> Stage]]
  BY DEF NegotiationTypeOK, ServerTypeOK
<1>2. QED
  BY <1>1, Puts

LEMMA OfferingType ==
  ASSUME NegotiationTypeOK, NEW g \in Gen, NEW t \in Goroutine, Offering(g, t)
  PROVE  NegotiationTypeOK'
<1>1. Stage = {"idle", "request", "create", "set", "send", "clear"}
  BY DEF Stage
<1>2. \A v \in Stage : [at EXCEPT ![g][t] = v] \in [Gen -> [Goroutine -> Stage]]
  BY StageType
<1>3. at' \in [Gen -> [Goroutine -> Stage]]
  BY <1>1, <1>2 DEF Offering, Request, CreateOffer, SetLocalDescription, SendSubscribeOffer, ClearNegoInFlight
<1>4. inFlight' \in [Gen -> BOOLEAN] /\ pending' \in [Gen -> BOOLEAN]
  <2>1. inFlight \in [Gen -> BOOLEAN] /\ pending \in [Gen -> BOOLEAN]
    BY DEF NegotiationTypeOK, ServerTypeOK
  <2>2. QED
    BY <2>1 DEF Offering, Request, CreateOffer, SetLocalDescription, SendSubscribeOffer, ClearNegoInFlight, Coalesced, Cleared
<1>5. draft' \in [Gen -> [Goroutine -> Version]]
  <2>1. draft \in [Gen -> [Goroutine -> Version]] /\ want[g] \in Version
    BY DEF NegotiationTypeOK, ServerTypeOK
  <2>2. [draft EXCEPT ![g][t] = want[g]] \in [Gen -> [Goroutine -> Version]]
    BY <2>1, Puts
  <2>3. QED
    BY <2>1, <2>2 DEF Offering, Request, CreateOffer, SetLocalDescription, SendSubscribeOffer, ClearNegoInFlight
<1>6. sig' \in [Gen -> {"stable", "offer"}] /\ offered' \in [Gen -> Version]
  <2>1. sig \in [Gen -> {"stable", "offer"}] /\ offered \in [Gen -> Version] /\ draft[g][t] \in Version
    BY DEF NegotiationTypeOK, ServerTypeOK
  <2>2. QED
    BY <2>1 DEF Offering, Request, CreateOffer, SetLocalDescription, SendSubscribeOffer, ClearNegoInFlight, conn
<1>7. toClient' \in Seq(ToClient) /\ lost' \in 0 .. MaxLost
  <2>1. Offer(g, offered[g]) \in ToClient
    BY DEF Offer, ToClient, NegotiationTypeOK, ServerTypeOK
  <2>2. toClient \in Seq(ToClient) /\ lost \in 0 .. MaxLost
    BY DEF NegotiationTypeOK, ServerTypeOK
  <2>3. QED
    BY <2>1, <2>2, SendType DEF Offering, Request, CreateOffer, SetLocalDescription, SendSubscribeOffer, ClearNegoInFlight
<1>8. UNCHANGED <<stay, want, agreed, asked, joining, client, toServer, mixed>>
  BY DEF Offering, Request, CreateOffer, SetLocalDescription, SendSubscribeOffer, ClearNegoInFlight, conn
<1>9. QED
  <2>1. ServerTypeOK'
    BY <1>3, <1>4, <1>5, <1>6, <1>8 DEF NegotiationTypeOK, ServerTypeOK
  <2>2. QED
    BY <1>7, <1>8, <2>1, ClientStays DEF NegotiationTypeOK

LEMMA NegotiationTypeStep == NegotiationTypeOK /\ NegotiationNext => NegotiationTypeOK'
<1> SUFFICES ASSUME NegotiationTypeOK, NegotiationNext PROVE NegotiationTypeOK'
  OBVIOUS
<1> USE ServerStays, ClientStays DEF NegotiationTypeOK
<1>1. ASSUME NEW g \in Gen, Change(g) PROVE NegotiationTypeOK'
  <2>1. ServerTypeOK'
    BY <1>1 DEF Change, ServerTypeOK, Version, nego
  <2>2. QED
    BY <1>1, <2>1 DEF Change
<1>2. ASSUME NEW g \in Gen, NegotiationNeeded(g) PROVE NegotiationTypeOK'
  <2>1. at' \in [Gen -> [Goroutine -> Stage]]
    <3>1. "pion" \in Goroutine /\ "request" \in Stage
      BY DEF Goroutine, Stage
    <3>2. QED
      BY <1>2, <3>1, StageType DEF NegotiationNeeded
  <2>2. ServerTypeOK'
    BY <1>2, <2>1 DEF NegotiationNeeded, ServerTypeOK
  <2>3. QED
    BY <1>2, <2>2 DEF NegotiationNeeded
<1>3. ASSUME NEW g \in Gen, NEW t \in Goroutine, Offering(g, t) PROVE NegotiationTypeOK'
  BY <1>3, OfferingType
<1>4. CASE HandleJoin
  <2>1. toServer' \in Seq(ToServer)
    BY <1>4 DEF HandleJoin, Reads
  <2>2. PICK g \in Gen : stay' = [stay EXCEPT ![g] = "in"] /\ joining' = g /\ UNCHANGED <<conn, nego>>
    BY <1>4 DEF HandleJoin
  <2>3. ServerTypeOK'
    BY <2>2 DEF ServerTypeOK, nego, conn
  <2>4. QED
    BY <1>4, <2>1, <2>3 DEF HandleJoin
<1>5. CASE AnswerJoin
  <2>1. Joined(joining) \in ToClient
    BY <1>5 DEF Joined, ToClient, AnswerJoin, ServerTypeOK
  <2>2. ServerTypeOK'
    BY <1>5 DEF AnswerJoin, ServerTypeOK, nego, conn
  <2>3. QED
    BY <1>5, <2>1, <2>2, SendType DEF AnswerJoin
<1>6. CASE HandleLeave
  <2>1. ServerTypeOK' /\ toServer' \in Seq(ToServer)
    BY <1>6 DEF HandleLeave, Reads, ServerTypeOK, nego, conn
  <2>2. QED
    BY <1>6, <2>1 DEF HandleLeave
<1>7. CASE OnSubscribeAnswer
  <2>1. toServer' \in Seq(ToServer)
    BY <1>7 DEF OnSubscribeAnswer, Reads
  <2>2. /\ at' \in [Gen -> [Goroutine -> Stage]] /\ sig' \in [Gen -> {"stable", "offer"}]
        /\ agreed' \in [Gen -> Version] /\ asked' \in [Gen -> BOOLEAN]
    <3>1. CASE Participants = {}
      BY <1>7, <3>1 DEF OnSubscribeAnswer, ServerTypeOK
    <3>2. CASE Participants # {}
      <4>1. PICK g \in Participants, ok \in BOOLEAN : Answered(g, ok)
        BY <1>7, <3>2 DEF OnSubscribeAnswer, Fits, Answered
      <4>2. g \in Gen /\ "reader" \in Goroutine /\ "clear" \in Stage
        BY DEF Participants, Goroutine, Stage
      <4>3. at' \in [Gen -> [Goroutine -> Stage]]
        BY <4>1, <4>2, StageType DEF Answered
      <4>4. sig' \in [Gen -> {"stable", "offer"}] /\ agreed' \in [Gen -> Version] /\ asked' \in [Gen -> BOOLEAN]
        BY <4>1, <4>2 DEF Answered, ServerTypeOK
      <4>5. QED
        BY <4>3, <4>4
    <3>3. QED
      BY <3>1, <3>2
  <2>3. ServerTypeOK'
    BY <1>7, <2>2 DEF OnSubscribeAnswer, ServerTypeOK
  <2>4. QED
    BY <1>7, <2>1, <2>3 DEF OnSubscribeAnswer
<1>8. CASE ClientJoin
  <2>1. ClientTypeOK'
    BY <1>8 DEF ClientJoin, ClientTypeOK
  <2>2. QED
    BY <1>8, <2>1 DEF ClientJoin, Joining, ToServer
<1>9. CASE ClientLeave
  <2>1. pcs' \in Nat /\ pc' \in 0 .. pcs' /\ buffered' = NoSdp /\ applied' = NoSdp
        /\ replies' \subseteq (1 .. pcs') \X Sdp
    BY <1>9 DEF ClientLeave, ClientTypeOK
  <2>0. ClientTypeOK'
    BY <1>9, <2>1 DEF ClientLeave, ClientTypeOK
  <2>2. QED
    BY <1>9, <2>0 DEF ClientLeave, Leaving, ToServer
<1>10. CASE Ignore
  BY <1>10 DEF Ignore
<1>11. CASE HandleCallJoined
  <2>1. ClientTypeOK'
    BY <1>11 DEF HandleCallJoined, Receives, Apply, ClientTypeOK
  <2>2. QED
    BY <1>11, <2>1 DEF HandleCallJoined, Receives, Mixed
<1>12. CASE HandleSubscribeOffer
  <2>1. SdpOf(Head(toClient)) \in Sdp /\ toClient' \in Seq(ToClient)
    BY <1>12 DEF HandleSubscribeOffer, Receives, SdpOf, Sdp, ToClient
  <2>2. ClientTypeOK'
    BY <1>12, <2>1 DEF HandleSubscribeOffer, Apply, ClientTypeOK
  <2>3. QED
    BY <1>12, <2>1, <2>2 DEF HandleSubscribeOffer, Receives, Mixed
<1>13. ASSUME NEW r \in replies, Reply(r) \/ GiveUp(r) PROVE NegotiationTypeOK'
  <2>1. Answer(r[2]) \in ToServer
    BY DEF Answer, ToServer, Sdp, ClientTypeOK
  <2>2. ClientTypeOK'
    <3>1. replies' \subseteq replies /\ UNCHANGED <<calls, inCall, pc, pcs, buffered, applied>>
      BY <1>13 DEF Reply, GiveUp
    <3>2. QED
      BY <3>1 DEF ClientTypeOK
  <2>3. toServer' \in Seq(ToServer)
    BY <1>13, <2>1 DEF Reply, GiveUp
  <2>4. QED
    BY <1>13, <2>2, <2>3 DEF Reply, GiveUp
<1>14. QED
  BY <1>1, <1>2, <1>3, <1>4, <1>5, <1>6, <1>7, <1>8, <1>9, <1>10, <1>11, <1>12, <1>13
     DEF NegotiationNext, Reading, Receiving, Replying
-----------------------------------------------------------------------------
(* The stays of the user, and the turns they take *)

\* A step of one participant leaves the others alone.
Same(h) ==
  /\ want'[h] = want[h] /\ agreed'[h] = agreed[h] /\ offered'[h] = offered[h] /\ sig'[h] = sig[h]
  /\ asked'[h] = asked[h] /\ inFlight'[h] = inFlight[h] /\ pending'[h] = pending[h]
  /\ at'[h] = at[h] /\ draft'[h] = draft[h]

Acting(g) == Change(g) \/ NegotiationNeeded(g) \/ \E t \in Goroutine : Offering(g, t)

LEMMA BlankKept == ASSUME NEW h \in Gen, Blank(h), Same(h) PROVE Blank(h)'
  BY DEF Blank, Same

LEMMA Alone ==
  ASSUME NegotiationTypeOK, NEW g \in Gen, Acting(g)
  PROVE  /\ \A h \in Gen \ {g} : Same(h)
         /\ UNCHANGED <<stay, joining, client, toServer, mixed>>
<1>1. CASE Change(g)
  BY <1>1 DEF Change, NegotiationTypeOK, ServerTypeOK, Same, nego
<1>2. CASE NegotiationNeeded(g)
  BY <1>2 DEF NegotiationNeeded, NegotiationTypeOK, ServerTypeOK, Same
<1>3. ASSUME NEW t \in Goroutine, Request(g, t) PROVE \A h \in Gen \ {g} : Same(h)
  BY <1>3 DEF Request, Coalesced, NegotiationTypeOK, ServerTypeOK, Same, conn
<1>4. ASSUME NEW t \in Goroutine, CreateOffer(g, t) PROVE \A h \in Gen \ {g} : Same(h)
  BY <1>4 DEF CreateOffer, NegotiationTypeOK, ServerTypeOK, Same, conn
<1>5. ASSUME NEW t \in Goroutine, SetLocalDescription(g, t) PROVE \A h \in Gen \ {g} : Same(h)
  BY <1>5 DEF SetLocalDescription, NegotiationTypeOK, ServerTypeOK, Same
<1>6. ASSUME NEW t \in Goroutine, SendSubscribeOffer(g, t) PROVE \A h \in Gen \ {g} : Same(h)
  BY <1>6 DEF SendSubscribeOffer, NegotiationTypeOK, ServerTypeOK, Same, conn
<1>7. ASSUME NEW t \in Goroutine, ClearNegoInFlight(g, t) PROVE \A h \in Gen \ {g} : Same(h)
  BY <1>7 DEF ClearNegoInFlight, Cleared, NegotiationTypeOK, ServerTypeOK, Same, conn
<1>8. ASSUME NEW t \in Goroutine, Offering(g, t) PROVE UNCHANGED <<stay, joining, client, toServer, mixed>>
  BY <1>8 DEF Offering, Request, CreateOffer, SetLocalDescription, SendSubscribeOffer, ClearNegoInFlight
<1>9. QED
  BY <1>1, <1>2, <1>3, <1>4, <1>5, <1>6, <1>7, <1>8 DEF Acting, Offering, Change, NegotiationNeeded

LEMMA AnswerAlone ==
  ASSUME NegotiationTypeOK, OnSubscribeAnswer
  PROVE  /\ UNCHANGED <<stay, want, offered, inFlight, pending, draft, joining, client, toClient, lost, mixed>>
         /\ \/ Participants = {} /\ UNCHANGED <<sig, agreed, asked, at>>
            \/ \E g \in Participants, ok \in BOOLEAN :
                 /\ Answered(g, ok) /\ g \in Gen /\ stay[g] = "in" /\ \A h \in Gen \ {g} : Same(h)
                 /\ ok => sig[g] = "offer"
<1>1. UNCHANGED <<stay, want, offered, inFlight, pending, draft, joining, client, toClient, lost, mixed>>
  BY DEF OnSubscribeAnswer
<1>2. CASE Participants = {}
  BY <1>1, <1>2 DEF OnSubscribeAnswer
<1>3. CASE Participants # {}
  <2>1. PICK g \in Participants : \E ok \in Fits(g, SdpOf(Head(toServer))) : Answered(g, ok)
    BY <1>3 DEF OnSubscribeAnswer, Answered
  <2>2. PICK ok \in BOOLEAN : Answered(g, ok) /\ (ok => sig[g] = "offer")
    BY <2>1 DEF Fits
  <2>3. g \in Gen /\ stay[g] = "in"
    BY DEF Participants
  <2>4. \A h \in Gen \ {g} : Same(h)
    BY <1>1, <2>2, <2>3 DEF Answered, Same, NegotiationTypeOK, ServerTypeOK
  <2>5. QED
    BY <1>1, <2>2, <2>3, <2>4
<1>4. QED
  BY <1>2, <1>3

LEMMA ActingLives ==
  ASSUME NegotiationTypeOK, StaysOK, NEW g \in Gen, Acting(g)
  PROVE  stay[g] # "none"
<1>1. CASE Change(g) \/ NegotiationNeeded(g)
  BY <1>1 DEF Change, NegotiationNeeded
<1>2. ASSUME NEW t \in Goroutine, Offering(g, t) PROVE at[g][t] # "idle"
  BY <1>2 DEF Offering, Request, CreateOffer, SetLocalDescription, SendSubscribeOffer, ClearNegoInFlight
<1>3. QED
  BY <1>1, <1>2 DEF Acting, StaysOK, Blank
\* What the reader takes from the queue is its head.
LEMMA ReadsHead ==
  ASSUME NegotiationTypeOK, NEW type, Reads(type)
  PROVE  /\ toServer[1].type = type /\ toServer[1] \in ToServer /\ toServer' = Tail(toServer)
         /\ DOMAIN toServer = 1 .. Len(toServer) /\ Len(toServer) \in Nat /\ 1 \in DOMAIN toServer
         /\ DOMAIN toServer' = 1 .. Len(toServer) - 1
         /\ \A i \in DOMAIN toServer' : toServer'[i] = toServer[i + 1] /\ i + 1 \in DOMAIN toServer
<1>1. toServer \in Seq(ToServer) /\ toServer # <<>>
  BY DEF NegotiationTypeOK, Reads
<1>2. QED
  BY <1>1, Tails DEF Reads

LEMMA JoinHead ==
  ASSUME NegotiationTypeOK, Reads("join")
  PROVE  toServer[1] = Joining
  BY ReadsHead DEF ToServer, Joining, Leaving

LEMMA LeaveHead ==
  ASSUME NegotiationTypeOK, Reads("leave")
  PROVE  toServer[1] = Leaving
  BY ReadsHead DEF ToServer, Joining, Leaving

\* The participant that a join makes has a number that is due.
NewAt(f, g) ==
  /\ stay[g] = "none" /\ (\A o \in 1 .. g - 1 : stay[o] # "none")
  /\ stay' = [stay EXCEPT ![g] = "in"] /\ joining' = g
  /\ g <= f[1] /\ f[1] \in 1 .. calls /\ \A h \in Gen : stay[h] # "none" => h < f[1]

LEMMA NewParticipant ==
  ASSUME NegotiationTypeOK, HandleJoin, NEW f \in [DOMAIN toServer -> 0 .. calls], Numbers(f)
  PROVE  \E g \in Gen : NewAt(f, g)
<1>0. calls \in 0 .. Joins /\ Joins \in Nat
  BY DEF NegotiationTypeOK, ClientTypeOK
<1>1. PICK g \in Gen : /\ stay[g] = "none" /\ (\A o \in 1 .. g - 1 : stay[o] # "none")
                       /\ stay' = [stay EXCEPT ![g] = "in"] /\ joining' = g
  BY DEF HandleJoin
<1>2. toServer[1] = Joining /\ 1 \in DOMAIN toServer
  BY JoinHead, ReadsHead DEF HandleJoin
<1>3. f[1] \in 1 .. calls /\ \A h \in Gen : stay[h] # "none" => h < f[1]
  BY <1>2 DEF Numbers
<1>4. g <= f[1]
  <2>1. PICK n \in 1 .. calls : n = f[1]
    BY <1>3
  <2>2. SUFFICES ASSUME n < g PROVE FALSE
    BY <1>0, <2>1 DEF Gen
  <2>3. n \in Gen /\ n \in 1 .. g - 1
    BY <1>0, <2>1, <2>2 DEF Gen
  <2>4. n < n
    <3>1. stay[n] # "none"
      BY <1>1, <2>3
    <3>2. \A h \in Gen : stay[h] # "none" => h < n
      BY <1>3, <2>1
    <3>3. QED
      BY <2>3, <3>1, <3>2
  <2>5. QED
    BY <1>0, <2>1, <2>4
<1>5. QED
  BY <1>1, <1>3, <1>4 DEF NewAt

LEMMA StaysStep ==
  ASSUME NegotiationTypeOK, StaysOK, TurnsOK, NumbersOK, NegotiationNext
  PROVE  StaysOK'
<1>0. /\ calls \in 0 .. Joins /\ Joins \in Nat /\ stay \in [Gen -> {"none", "in", "closed"}]
      /\ joining \in Gen \cup {0}
  BY DEF NegotiationTypeOK, ServerTypeOK, ClientTypeOK
<1>1. ASSUME NEW g \in Gen, Acting(g) PROVE StaysOK'
  BY <1>1, Alone, ActingLives, BlankKept DEF StaysOK, client
<1>2. CASE OnSubscribeAnswer
  <2>1. UNCHANGED <<stay, joining, calls>> /\ \A h \in Gen : stay[h] = "none" => Same(h)
    BY <1>2, AnswerAlone DEF client, Same
  <2>2. QED
    BY <2>1, BlankKept DEF StaysOK
<1>3. CASE HandleJoin
  <2>1. PICK f \in [DOMAIN toServer -> 0 .. calls], g \in Gen : NewAt(f, g)
    BY <1>3, NewParticipant DEF NumbersOK
  <2>2. /\ Reads("join") /\ UNCHANGED <<conn, nego, calls>>
    BY <1>3 DEF HandleJoin, client
  <2>3. Participants = {}
    <3>1. toServer[1] = Joining /\ DOMAIN toServer = 1 .. Len(toServer) /\ 1 \in DOMAIN toServer
      BY <2>2, JoinHead, ReadsHead
    <3>2. ~ \E k \in DOMAIN toServer : k < 1
      BY <3>1
    <3>3. QED
      BY <3>1, <3>2 DEF TurnsOK
  <2>4. \A h \in Gen : h < g => stay[h] = "closed"
    <3>1. ASSUME NEW h \in Gen, h < g PROVE stay[h] # "none"
      <4>1. h \in 1 .. g - 1
        BY <3>1 DEF Gen
      <4>2. QED
        BY <2>1, <4>1 DEF NewAt
    <3>2. QED
      BY <1>0, <2>3, <3>1 DEF Participants
  <2>5. \A h \in Gen : stay[h] # "none" => h < g
    BY <1>0, <2>1, <2>4 DEF StaysOK, Gen, NewAt
  <2>6. \A h \in Gen : Blank(h) => Blank(h)'
    BY <2>2 DEF Blank, conn, nego
  <2>7. QED
    BY <1>0, <2>1, <2>2, <2>4, <2>5, <2>6 DEF StaysOK, Gen, NewAt
<1>4. CASE HandleLeave
  <2>1. \A h \in Gen : Blank(h) => Blank(h)'
    BY <1>4 DEF Blank, conn, nego, HandleLeave
  <2>2. \A h \in Gen : (stay'[h] = "none" <=> stay[h] = "none") /\ (stay[h] = "closed" => stay'[h] = "closed")
    BY <1>4 DEF HandleLeave
  <2>3. UNCHANGED <<calls, joining>>
    BY <1>4 DEF HandleLeave, client
  <2>4. QED
    BY <1>0, <2>1, <2>2, <2>3 DEF StaysOK
<1>5. CASE AnswerJoin
  <2>1. \A h \in Gen : Blank(h) => Blank(h)'
    BY <1>5 DEF Blank, conn, nego, AnswerJoin
  <2>2. QED
    BY <1>5, <2>1 DEF AnswerJoin, StaysOK, client, Gen
<1>6. CASE UNCHANGED server /\ calls' \in {calls, calls + 1}
  <2>1. \A h \in Gen : Blank(h) => Blank(h)'
    BY <1>6 DEF Blank, conn, nego, server
  <2>2. QED
    BY <1>0, <1>6, <2>1 DEF StaysOK, server, Gen
<1>7. CASE ClientJoin \/ ClientLeave \/ Receiving \/ Replying
  BY <1>6, <1>7 DEF ClientJoin, ClientLeave, Receiving, Ignore, HandleCallJoined, HandleSubscribeOffer,
                    Replying, Reply, GiveUp, client
<1>8. QED
  BY <1>1, <1>2, <1>3, <1>4, <1>5, <1>7 DEF NegotiationNext, Reading, Acting
\* Without its head, a queue still has its other turns.
LEMMA ShiftTurns ==
  ASSUME NegotiationTypeOK, TurnsOK, NEW type, Reads(type), inCall' = inCall
  PROVE  /\ \A i, j \in DOMAIN toServer' :
              i < j /\ toServer'[i] = Joining /\ toServer'[j] = Joining =>
                \E k \in DOMAIN toServer' : i < k /\ k < j /\ toServer'[k] = Leaving
         /\ ~inCall' => \A i \in DOMAIN toServer' :
              toServer'[i] = Joining => \E k \in DOMAIN toServer' : i < k /\ toServer'[k] = Leaving
         /\ \A k \in DOMAIN toServer : k > 1 => k - 1 \in DOMAIN toServer' /\ toServer'[k - 1] = toServer[k]
<1>1. /\ DOMAIN toServer = 1 .. Len(toServer) /\ Len(toServer) \in Nat
      /\ DOMAIN toServer' = 1 .. Len(toServer) - 1
      /\ \A i \in DOMAIN toServer' : toServer'[i] = toServer[i + 1] /\ i + 1 \in DOMAIN toServer
  BY ReadsHead
<1>2. \A k \in DOMAIN toServer : k > 1 => k - 1 \in DOMAIN toServer' /\ toServer'[k - 1] = toServer[k]
  BY <1>1
<1>3. ASSUME NEW i \in DOMAIN toServer', NEW j \in DOMAIN toServer',
             i < j, toServer'[i] = Joining, toServer'[j] = Joining
      PROVE  \E k \in DOMAIN toServer' : i < k /\ k < j /\ toServer'[k] = Leaving
  <2>1. PICK k \in DOMAIN toServer : i + 1 < k /\ k < j + 1 /\ toServer[k] = Leaving
    BY <1>1, <1>3 DEF TurnsOK
  <2>2. k - 1 \in DOMAIN toServer' /\ toServer'[k - 1] = Leaving /\ i < k - 1 /\ k - 1 < j
    BY <1>1, <1>2, <2>1
  <2>3. QED
    BY <2>2
<1>4. ASSUME ~inCall', NEW i \in DOMAIN toServer', toServer'[i] = Joining
      PROVE  \E k \in DOMAIN toServer' : i < k /\ toServer'[k] = Leaving
  <2>1. PICK k \in DOMAIN toServer : i + 1 < k /\ toServer[k] = Leaving
    BY <1>1, <1>4 DEF TurnsOK
  <2>2. k - 1 \in DOMAIN toServer' /\ toServer'[k - 1] = Leaving /\ i < k - 1
    BY <1>1, <1>2, <2>1
  <2>3. QED
    BY <2>2
<1>5. QED
  BY <1>2, <1>3, <1>4

LEMMA TurnsStep ==
  ASSUME NegotiationTypeOK, StaysOK, TurnsOK, CallOK, NegotiationNext
  PROVE  TurnsOK'
<1>0. /\ toServer \in Seq(ToServer) /\ Joining \in ToServer /\ Leaving \in ToServer
      /\ DOMAIN toServer = 1 .. Len(toServer) /\ Len(toServer) \in Nat
  BY DEF NegotiationTypeOK, ToServer
<1>1. Joining # Leaving /\ \A s \in Sdp : Answer(s) # Joining /\ Answer(s) # Leaving
  BY DEF Joining, Leaving, Answer
<1>2. CASE toServer' = toServer /\ inCall' = inCall /\ Participants' = Participants
  BY <1>2 DEF TurnsOK
<1>3. CASE UNCHANGED stay /\ ~HandleJoin /\ ~HandleLeave
  <2>1. Participants' = Participants
    BY <1>3 DEF Participants
  <2>2. CASE ClientJoin
    <3>1. toServer' = Append(toServer, Joining) /\ ~inCall /\ inCall'
      BY <2>2 DEF ClientJoin
    <3>2. /\ DOMAIN toServer' = 1 .. Len(toServer) + 1 /\ toServer'[Len(toServer) + 1] = Joining
          /\ \A i \in DOMAIN toServer : toServer'[i] = toServer[i]
      BY <1>0, <3>1, Appends
    <3>3. QED
      BY <1>0, <1>1, <2>1, <3>1, <3>2 DEF TurnsOK
  <2>3. CASE ClientLeave
    <3>1. toServer' = Append(toServer, Leaving) /\ inCall /\ ~inCall'
      BY <2>3 DEF ClientLeave
    <3>2. /\ DOMAIN toServer' = 1 .. Len(toServer) + 1 /\ toServer'[Len(toServer) + 1] = Leaving
          /\ \A i \in DOMAIN toServer : toServer'[i] = toServer[i]
      BY <1>0, <3>1, Appends
    <3>3. QED
      BY <1>0, <1>1, <2>1, <3>1, <3>2 DEF TurnsOK
  <2>4. ASSUME NEW r \in replies, Reply(r), inCall PROVE TurnsOK'
    <3>1. /\ toServer' = Append(toServer, Answer(r[2])) /\ inCall'
          /\ Answer(r[2]) \in ToServer /\ Answer(r[2]) # Joining
      BY <1>1, <2>4 DEF Reply, NegotiationTypeOK, ClientTypeOK, ToServer, Answer, Sdp
    <3>2. /\ DOMAIN toServer' = 1 .. Len(toServer) + 1 /\ toServer'[Len(toServer) + 1] # Joining
          /\ \A i \in DOMAIN toServer : toServer'[i] = toServer[i]
      BY <1>0, <3>1, Appends
    <3>3. QED
      BY <1>0, <1>1, <2>1, <2>4, <3>1, <3>2 DEF TurnsOK
  <2>5. ASSUME NEW r \in replies, Reply(r), ~inCall PROVE TurnsOK'
    BY <1>2, <2>1, <2>5 DEF Reply
  <2>6. ASSUME NEW r \in replies, GiveUp(r) PROVE TurnsOK'
    BY <1>2, <2>1, <2>6 DEF GiveUp
  <2>7. CASE Receiving
    BY <1>2, <2>1, <2>7 DEF Receiving, Ignore, HandleCallJoined, HandleSubscribeOffer, client
  <2>8. ASSUME NEW g \in Gen, Acting(g) PROVE TurnsOK'
    BY <1>2, <2>1, <2>8, Alone DEF client
  <2>9. CASE AnswerJoin
    BY <1>2, <2>1, <2>9 DEF AnswerJoin, client
  <2>10. CASE OnSubscribeAnswer
    <3>1. Reads("answer") /\ inCall' = inCall
      BY <2>10 DEF OnSubscribeAnswer, client
    <3>2. toServer[1] # Leaving
      BY <3>1, ReadsHead DEF Leaving
    <3>3. \A j \in DOMAIN toServer' : toServer'[j] = Joining /\ Participants # {} =>
            \E k \in DOMAIN toServer' : k < j /\ toServer'[k] = Leaving
      <4>1. SUFFICES ASSUME NEW j \in DOMAIN toServer', toServer'[j] = Joining, Participants # {}
                     PROVE  \E k \in DOMAIN toServer' : k < j /\ toServer'[k] = Leaving
        OBVIOUS
      <4>2. toServer[j + 1] = Joining /\ j + 1 \in DOMAIN toServer /\ j \in Nat
        BY <3>1, <4>1, ReadsHead
      <4>3. PICK k \in DOMAIN toServer : k < j + 1 /\ toServer[k] = Leaving
        BY <4>1, <4>2 DEF TurnsOK
      <4>4. k > 1 /\ k - 1 < j
        BY <1>0, <3>2, <4>2, <4>3
      <4>5. QED
        BY <3>1, <4>3, <4>4, ShiftTurns
    <3>4. ~inCall /\ Participants # {} => \E k \in DOMAIN toServer' : toServer'[k] = Leaving
      <4>1. SUFFICES ASSUME ~inCall, Participants # {}
                     PROVE  \E k \in DOMAIN toServer' : toServer'[k] = Leaving
        OBVIOUS
      <4>2. PICK k \in DOMAIN toServer : toServer[k] = Leaving
        BY <4>1 DEF TurnsOK
      <4>3. k > 1
        BY <1>0, <3>2, <4>2
      <4>4. QED
        BY <3>1, <4>2, <4>3, ShiftTurns
    <3>5. QED
      BY <2>1, <3>1, <3>3, <3>4, ShiftTurns DEF TurnsOK
  <2>11. QED
    BY <1>3, <2>2, <2>3, <2>4, <2>5, <2>6, <2>7, <2>8, <2>9, <2>10
       DEF NegotiationNext, Reading, Replying, Acting
<1>4. CASE HandleLeave
  <2>1. Participants' = {} /\ inCall' = inCall /\ Reads("leave")
    BY <1>4 DEF HandleLeave, Participants, client
  <2>2. QED
    BY <2>1, ShiftTurns DEF TurnsOK
<1>5. CASE HandleJoin
  <2>1. inCall' = inCall /\ Reads("join")
    BY <1>5 DEF HandleJoin, client
  <2>2. toServer[1] = Joining /\ 1 \in DOMAIN toServer
    BY <2>1, JoinHead, ReadsHead
  <2>3. ASSUME NEW j \in DOMAIN toServer', toServer'[j] = Joining
        PROVE  \E k \in DOMAIN toServer' : k < j /\ toServer'[k] = Leaving
    <3>1. toServer[j + 1] = Joining /\ j + 1 \in DOMAIN toServer /\ j \in Nat /\ 1 < j + 1
      BY <1>0, <2>1, <2>3, ReadsHead
    <3>2. PICK k \in DOMAIN toServer : 1 < k /\ k < j + 1 /\ toServer[k] = Leaving
      BY <2>2, <3>1 DEF TurnsOK
    <3>3. k - 1 < j
      BY <1>0, <3>1, <3>2
    <3>4. QED
      BY <2>1, <3>2, <3>3, ShiftTurns
  <2>4. ASSUME ~inCall PROVE \E k \in DOMAIN toServer' : toServer'[k] = Leaving
    <3>1. PICK k \in DOMAIN toServer : 1 < k /\ toServer[k] = Leaving
      BY <2>2, <2>4 DEF TurnsOK
    <3>2. QED
      BY <1>0, <2>1, <3>1, ShiftTurns
  <2>5. QED
    BY <2>1, <2>3, <2>4, ShiftTurns DEF TurnsOK
<1>6. \/ UNCHANGED stay \/ HandleJoin \/ HandleLeave
  BY Alone DEF NegotiationNext, Acting, Reading, AnswerJoin, OnSubscribeAnswer, ClientJoin, ClientLeave, Receiving,
     Ignore, HandleCallJoined, HandleSubscribeOffer, Replying, Reply, GiveUp, server
<1>7. QED
  BY <1>3, <1>4, <1>5, <1>6
\* The queue without its head, with the numbers it had.
LEMMA ShiftNumbers ==
  ASSUME NegotiationTypeOK, NEW f \in [DOMAIN toServer -> 0 .. calls], Numbers(f), NEW type, Reads(type),
         calls' = calls,
         \A g \in Gen : stay'[g] # "none" => stay[g] # "none" \/ (toServer[1] = Joining /\ g <= f[1])
  PROVE  NumbersOK'
<1>1. /\ DOMAIN toServer = 1 .. Len(toServer) /\ Len(toServer) \in Nat /\ 1 \in DOMAIN toServer
      /\ DOMAIN toServer' = 1 .. Len(toServer) - 1
      /\ \A i \in DOMAIN toServer' : toServer'[i] = toServer[i + 1] /\ i + 1 \in DOMAIN toServer
  BY ReadsHead
<1>2. calls \in Nat /\ \A g \in Gen : g \in Nat
  BY DEF NegotiationTypeOK, ClientTypeOK, Gen
<1>0. PICK e : e = [i \in DOMAIN toServer' |-> f[i + 1]]
  OBVIOUS
<1>3. e \in [DOMAIN toServer' -> 0 .. calls'] /\ \A i \in DOMAIN toServer' : e[i] = f[i + 1]
  BY <1>0, <1>1
<1>4. ASSUME NEW i \in DOMAIN toServer', toServer'[i] = Joining
      PROVE  /\ e[i] \in 1 .. calls' /\ \A g \in Gen : stay'[g] # "none" => g < e[i]
             /\ \A j \in DOMAIN toServer' : i < j /\ toServer'[j] = Joining => e[i] < e[j]
  <2>1. i + 1 \in DOMAIN toServer /\ toServer[i + 1] = Joining /\ i \in Nat /\ i > 0
    BY <1>1, <1>4
  <2>2. e[i] \in 1 .. calls'
    BY <1>3, <1>4, <2>1 DEF Numbers
  <2>3. ASSUME NEW g \in Gen, stay'[g] # "none" PROVE g < e[i]
    <3>1. CASE stay[g] # "none"
      BY <1>3, <1>4, <2>1, <3>1 DEF Numbers
    <3>2. CASE toServer[1] = Joining /\ g <= f[1]
      <4>1. f[1] < f[i + 1] /\ f[1] \in Nat /\ f[i + 1] \in Nat
        BY <1>1, <1>2, <2>1, <3>2 DEF Numbers
      <4>2. QED
        BY <1>2, <1>3, <1>4, <3>2, <4>1
    <3>3. QED
      BY <2>3, <3>1, <3>2
  <2>4. ASSUME NEW j \in DOMAIN toServer', i < j, toServer'[j] = Joining PROVE e[i] < e[j]
    <3>1. j + 1 \in DOMAIN toServer /\ toServer[j + 1] = Joining /\ i + 1 < j + 1
      BY <1>1, <2>4
    <3>2. f[i + 1] < f[j + 1]
      BY <2>1, <3>1 DEF Numbers
    <3>3. QED
      BY <1>3, <1>4, <2>4, <3>2
  <2>5. QED
    BY <2>2, <2>3, <2>4
<1>5. Numbers(e)'
  BY <1>4 DEF Numbers
<1>6. QED
  BY <1>3, <1>5 DEF NumbersOK

\* One message more: if it is a join, it has the number of its call.
LEMMA GrowNumbers ==
  ASSUME NegotiationTypeOK, StaysOK, NumbersOK, NEW m \in ToServer, toServer' = Append(toServer, m), stay' = stay,
         calls' = (IF m = Joining THEN calls + 1 ELSE calls)
  PROVE  NumbersOK'
<1>1. /\ DOMAIN toServer = 1 .. Len(toServer) /\ Len(toServer) \in Nat
      /\ DOMAIN toServer' = 1 .. Len(toServer) + 1 /\ toServer'[Len(toServer) + 1] = m
      /\ \A i \in DOMAIN toServer : toServer'[i] = toServer[i]
  <2>1. toServer \in Seq(ToServer)
    BY DEF NegotiationTypeOK
  <2>2. QED
    BY <2>1, Appends
<1>2. calls \in Nat /\ calls' \in Nat /\ calls <= calls' /\ (m = Joining => calls < calls') /\ \A g \in Gen : g \in Nat
  BY DEF NegotiationTypeOK, ClientTypeOK, Gen
<1>3. PICK f \in [DOMAIN toServer -> 0 .. calls] : Numbers(f)
  BY DEF NumbersOK
<1>0. PICK e : e = [i \in DOMAIN toServer' |-> IF i = Len(toServer) + 1 THEN calls' ELSE f[i]]
  OBVIOUS
<1>4. /\ e \in [DOMAIN toServer' -> 0 .. calls'] /\ e[Len(toServer) + 1] = calls'
      /\ \A i \in DOMAIN toServer : e[i] = f[i]
  BY <1>0, <1>1, <1>2
<1>5. ASSUME NEW i \in DOMAIN toServer', toServer'[i] = Joining
      PROVE  /\ e[i] \in 1 .. calls' /\ \A g \in Gen : stay'[g] # "none" => g < e[i]
             /\ \A j \in DOMAIN toServer' : i < j /\ toServer'[j] = Joining => e[i] < e[j]
  <2>1. CASE i \in DOMAIN toServer
    <3>1. e[i] = f[i] /\ f[i] \in 1 .. calls /\ \A g \in Gen : stay[g] # "none" => g < f[i]
      BY <1>1, <1>3, <1>4, <1>5, <2>1 DEF Numbers
    <3>2. ASSUME NEW j \in DOMAIN toServer', i < j, toServer'[j] = Joining PROVE e[i] < e[j]
      <4>1. CASE j \in DOMAIN toServer
        BY <1>1, <1>3, <1>4, <1>5, <2>1, <3>2, <4>1 DEF Numbers
      <4>2. CASE j = Len(toServer) + 1
        BY <1>1, <1>2, <1>4, <3>1, <3>2, <4>2
      <4>3. QED
        BY <1>1, <4>1, <4>2
    <3>3. QED
      BY <1>2, <3>1, <3>2
  <2>2. CASE i = Len(toServer) + 1
    <3>1. e[i] = calls' /\ calls < calls'
      BY <1>1, <1>2, <1>4, <1>5, <2>2
    <3>2. \A g \in Gen : stay'[g] # "none" => g < e[i]
      BY <1>2, <3>1 DEF StaysOK
    <3>3. \A j \in DOMAIN toServer' : ~(i < j)
      BY <1>1, <2>2
    <3>4. QED
      BY <1>2, <3>1, <3>2, <3>3
  <2>3. QED
    BY <1>1, <2>1, <2>2
<1>6. Numbers(e)'
  BY <1>5 DEF Numbers
<1>7. QED
  BY <1>4, <1>6 DEF NumbersOK

LEMMA NumbersStep ==
  ASSUME NegotiationTypeOK, StaysOK, TurnsOK, NumbersOK, NegotiationNext
  PROVE  NumbersOK'
<1>0. Joining \in ToServer /\ Leaving \in ToServer /\ Leaving # Joining
      /\ \A s \in Sdp : Answer(s) \in ToServer /\ Answer(s) # Joining
  BY DEF ToServer, Joining, Leaving, Answer, Sdp
<1>1. CASE UNCHANGED <<toServer, stay, calls>>
  BY <1>1 DEF NumbersOK, Numbers
<1>2. PICK f \in [DOMAIN toServer -> 0 .. calls] : Numbers(f)
  BY DEF NumbersOK
<1>3. ASSUME NEW g \in Gen, Acting(g) PROVE NumbersOK'
  BY <1>1, <1>3, Alone DEF client
<1>4. CASE OnSubscribeAnswer \/ HandleLeave
  <2>1. Reads("answer") \/ Reads("leave")
    BY <1>4 DEF OnSubscribeAnswer, HandleLeave
  <2>2. calls' = calls /\ \A g \in Gen : stay'[g] # "none" => stay[g] # "none"
    BY <1>4 DEF OnSubscribeAnswer, HandleLeave, client
  <2>3. QED
    BY <1>2, <2>1, <2>2, ShiftNumbers
<1>5. CASE HandleJoin
  <2>1. PICK g \in Gen : NewAt(f, g)
    BY <1>2, <1>5, NewParticipant
  <2>2. /\ Reads("join") /\ calls' = calls /\ toServer[1] = Joining
    BY <1>5, JoinHead DEF HandleJoin, client
  <2>3. \A h \in Gen : stay'[h] # "none" => stay[h] # "none" \/ (toServer[1] = Joining /\ h <= f[1])
    BY <2>1, <2>2 DEF NewAt, NegotiationTypeOK, ServerTypeOK
  <2>4. QED
    BY <1>2, <2>2, <2>3, ShiftNumbers
<1>6. CASE ClientJoin
  BY <1>0, <1>6, GrowNumbers DEF ClientJoin, server
<1>7. CASE ClientLeave
  BY <1>0, <1>7, GrowNumbers DEF ClientLeave, server
<1>8. ASSUME NEW r \in replies, Reply(r) \/ GiveUp(r) PROVE NumbersOK'
  <2>1. r[2] \in Sdp
    BY DEF NegotiationTypeOK, ClientTypeOK
  <2>2. QED
    BY <1>0, <1>1, <1>8, <2>1, GrowNumbers DEF Reply, GiveUp, server
<1>9. CASE AnswerJoin \/ Receiving
  BY <1>1, <1>9 DEF AnswerJoin, Receiving, Ignore, HandleCallJoined, HandleSubscribeOffer, server, client
<1>10. QED
  BY <1>3, <1>4, <1>5, <1>6, <1>7, <1>8, <1>9 DEF NegotiationNext, Reading, Replying, Acting
-----------------------------------------------------------------------------
(* Messages of a participant, and the answer to its join *)

\* The queue to the client: a message is added, or lost, or taken from the head.
Grown(m) ==
  /\ DOMAIN toClient' = 1 .. Len(toClient) + 1 /\ toClient'[Len(toClient) + 1] = m
  /\ DOMAIN toClient = 1 .. Len(toClient) /\ Len(toClient) \in Nat
  /\ \A i \in DOMAIN toClient : toClient'[i] = toClient[i]

Shrunk ==
  /\ DOMAIN toClient = 1 .. Len(toClient) /\ Len(toClient) \in Nat /\ 1 \in DOMAIN toClient
  /\ DOMAIN toClient' = 1 .. Len(toClient) - 1 /\ Head(toClient) = toClient[1] /\ toClient[1] \in ToClient
  /\ \A i \in DOMAIN toClient' : toClient'[i] = toClient[i + 1] /\ i + 1 \in DOMAIN toClient
  /\ \A k \in DOMAIN toClient : k > 1 => k - 1 \in DOMAIN toClient' /\ toClient'[k - 1] = toClient[k]

LEMMA Sent ==
  ASSUME NegotiationTypeOK, NEW m \in ToClient, SendToUser(m)
  PROVE  (toClient' = toClient /\ lost' = lost + 1) \/ (lost' = lost /\ Grown(m))
<1>1. toClient \in Seq(ToClient)
  BY DEF NegotiationTypeOK
<1>2. CASE toClient' = Append(toClient, m)
  BY <1>1, <1>2, Appends DEF Grown, SendToUser
<1>3. QED
  BY <1>2 DEF SendToUser

LEMMA Received ==
  ASSUME NegotiationTypeOK, toClient # <<>>, toClient' = Tail(toClient)
  PROVE  Shrunk
<1>1. toClient \in Seq(ToClient)
  BY DEF NegotiationTypeOK
<1>2. /\ DOMAIN toClient = 1 .. Len(toClient) /\ Len(toClient) \in Nat /\ Len(toClient) >= 1
      /\ DOMAIN toClient' = 1 .. Len(toClient) - 1 /\ Head(toClient) = toClient[1] /\ toClient[1] \in ToClient
      /\ \A i \in 1 .. Len(toClient) - 1 : toClient'[i] = toClient[i + 1]
  BY <1>1, Tails
<1>3. QED
  BY <1>2 DEF Shrunk

\* The steps that lengthen it.
LEMMA Sends ==
  ASSUME NegotiationTypeOK, NEW g \in Gen, Acting(g)
  PROVE  \/ UNCHANGED <<toClient, lost>> \/ (toClient' = toClient /\ lost' = lost + 1)
         \/ /\ lost' = lost /\ Grown(Offer(g, offered[g])) /\ UNCHANGED <<conn, inFlight, pending, draft>>
            /\ \E t \in Goroutine : at[g][t] = "send" /\ at' = [at EXCEPT ![g][t] = "idle"]
<1>1. Offer(g, offered[g]) \in ToClient
  BY DEF Offer, ToClient, NegotiationTypeOK, ServerTypeOK
<1>2. ASSUME NEW t \in Goroutine, SendSubscribeOffer(g, t)
      PROVE  \/ (toClient' = toClient /\ lost' = lost + 1)
             \/ /\ lost' = lost /\ Grown(Offer(g, offered[g])) /\ UNCHANGED <<conn, inFlight, pending, draft>>
                /\ at[g][t] = "send" /\ at' = [at EXCEPT ![g][t] = "idle"]
  BY <1>1, <1>2, Sent DEF SendSubscribeOffer
<1>3. QED
  BY <1>2 DEF Acting, Change, NegotiationNeeded, Offering, Request, CreateOffer, SetLocalDescription, ClearNegoInFlight

LEMMA StayUp ==
  ASSUME NegotiationTypeOK, NegotiationNext
  PROVE  \A g \in Gen : stay[g] # "none" => stay'[g] # "none"
<1>1. stay \in [Gen -> {"none", "in", "closed"}]
  BY DEF NegotiationTypeOK, ServerTypeOK
<1>2. UNCHANGED stay \/ HandleJoin \/ HandleLeave
  BY Alone DEF NegotiationNext, Acting, Reading, AnswerJoin, OnSubscribeAnswer, ClientJoin, ClientLeave, Receiving,
     Ignore, HandleCallJoined, HandleSubscribeOffer, Replying, Reply, GiveUp, server
<1>3. QED
  BY <1>1, <1>2 DEF HandleJoin, HandleLeave

\* What each step does to the queues and to what the client holds.
LEMMA ToClientMoves ==
  ASSUME NegotiationTypeOK, StaysOK, NegotiationNext
  PROVE  \/ toClient' = toClient
         \/ \E m \in ToClient : Grown(m) /\ stay[m.gen] # "none"
         \/ Shrunk
<1>1. ASSUME NEW g \in Gen, Acting(g)
      PROVE  toClient' = toClient \/ \E m \in ToClient : Grown(m) /\ stay[m.gen] # "none"
  <2>1. /\ Offer(g, offered[g]) \in ToClient /\ Offer(g, offered[g]).gen = g
    BY DEF Offer, ToClient, NegotiationTypeOK, ServerTypeOK
  <2>2. QED
    BY <1>1, <2>1, Sends, ActingLives
<1>2. CASE AnswerJoin
  <2>1. Joined(joining) \in ToClient /\ Joined(joining).gen = joining /\ stay[joining] # "none"
    BY <1>2 DEF Joined, ToClient, AnswerJoin, NegotiationTypeOK, ServerTypeOK, StaysOK
  <2>2. QED
    BY <1>2, <2>1, Sent DEF AnswerJoin
<1>3. CASE Receiving
  BY <1>3, Received DEF Receiving, Ignore, HandleCallJoined, HandleSubscribeOffer, Receives
<1>4. QED
  BY <1>1, <1>2, <1>3 DEF NegotiationNext, Acting, Reading, HandleJoin, HandleLeave, OnSubscribeAnswer, ClientJoin,
     ClientLeave, Replying, Reply, GiveUp

LEMMA ToServerMoves ==
  ASSUME NegotiationTypeOK, NegotiationNext
  PROVE  \/ toServer' = toServer
         \/ \E m \in {Joining, Leaving} \cup {Answer(r[2]) : r \in replies} :
              /\ DOMAIN toServer = 1 .. Len(toServer) /\ DOMAIN toServer' = 1 .. Len(toServer) + 1
              /\ Len(toServer) \in Nat /\ toServer'[Len(toServer) + 1] = m
              /\ \A i \in DOMAIN toServer : toServer'[i] = toServer[i]
         \/ Reads("join") \/ Reads("leave") \/ Reads("answer")
<1>1. /\ toServer \in Seq(ToServer) /\ Joining \in ToServer /\ Leaving \in ToServer
      /\ \A r \in replies : Answer(r[2]) \in ToServer
  BY DEF NegotiationTypeOK, ClientTypeOK, ToServer, Answer, Sdp
<1>2. \/ toServer' = toServer
      \/ \E m \in {Joining, Leaving} \cup {Answer(r[2]) : r \in replies} : m \in ToServer /\ toServer' = Append(toServer, m)
      \/ Reads("join") \/ Reads("leave") \/ Reads("answer")
  BY <1>1, Alone DEF NegotiationNext, Acting, Reading, HandleJoin, HandleLeave, OnSubscribeAnswer, AnswerJoin, ClientJoin,
     ClientLeave, Receiving, Ignore, HandleCallJoined, HandleSubscribeOffer, Replying, Reply, GiveUp
<1>3. QED
  BY <1>1, <1>2, Appends

LEMMA ClientMoves ==
  ASSUME NegotiationTypeOK, NegotiationNext
  PROVE  /\ buffered' \in {buffered, NoSdp} \/ (toClient # <<>> /\ buffered' = SdpOf(Head(toClient)))
         /\ \A r \in replies' : \/ r \in replies
                                \/ r[2] = buffered /\ buffered # NoSdp
                                \/ toClient # <<>> /\ r[2] = SdpOf(Head(toClient))
<1>1. CASE UNCHANGED client
  BY <1>1 DEF client
<1>2. CASE Receiving \/ Replying
  BY <1>2 DEF Receiving, Ignore, HandleCallJoined, HandleSubscribeOffer, Receives, Apply, Replying, Reply, GiveUp, client
<1>3. QED
  BY <1>1, <1>2, Alone DEF NegotiationNext, Acting, Reading, HandleJoin, HandleLeave, OnSubscribeAnswer, AnswerJoin, ClientJoin,
     ClientLeave

LEMMA MadeStep ==
  ASSUME NegotiationTypeOK, StaysOK, MadeOK, NegotiationNext
  PROVE  MadeOK'
<1>1. \A g \in Gen : stay[g] # "none" => stay'[g] # "none"
  BY StayUp
<1>2. /\ toClient \in Seq(ToClient) /\ toServer \in Seq(ToServer)
      /\ \A i \in DOMAIN toClient : toClient[i].gen \in Gen
      /\ \A i \in DOMAIN toServer : toServer[i].type = "answer" => toServer[i].gen \in Gen
      /\ buffered # NoSdp => buffered.gen \in Gen
      /\ \A r \in replies : r[2].gen \in Gen
      /\ \A m \in ToClient : m.gen \in Gen
  BY DEF NegotiationTypeOK, ClientTypeOK, ToClient, ToServer, Joining, Leaving, Sdp
<1>3. \A i \in DOMAIN toClient' : stay'[toClient'[i].gen] # "none"
  <2>1. CASE toClient' = toClient
    BY <1>1, <1>2, <2>1 DEF MadeOK
  <2>2. ASSUME NEW m \in ToClient, Grown(m), stay[m.gen] # "none"
        PROVE  \A i \in DOMAIN toClient' : stay'[toClient'[i].gen] # "none"
    <3>1. \A i \in DOMAIN toClient' : toClient'[i] = m \/ (i \in DOMAIN toClient /\ toClient'[i] = toClient[i])
      BY <2>2 DEF Grown
    <3>2. QED
      BY <1>1, <1>2, <2>2, <3>1 DEF MadeOK
  <2>3. CASE Shrunk
    BY <1>1, <1>2, <2>3 DEF MadeOK, Shrunk
  <2>4. QED
    BY <2>1, <2>2, <2>3, ToClientMoves
<1>4. \A i \in DOMAIN toServer' : toServer'[i].type = "answer" => stay'[toServer'[i].gen] # "none"
  <2>1. CASE toServer' = toServer
    BY <1>1, <1>2, <2>1 DEF MadeOK
  <2>2. ASSUME NEW m \in {Joining, Leaving} \cup {Answer(r[2]) : r \in replies},
               DOMAIN toServer = 1 .. Len(toServer), DOMAIN toServer' = 1 .. Len(toServer) + 1,
               Len(toServer) \in Nat, toServer'[Len(toServer) + 1] = m,
               \A i \in DOMAIN toServer : toServer'[i] = toServer[i]
        PROVE  \A i \in DOMAIN toServer' : toServer'[i].type = "answer" => stay'[toServer'[i].gen] # "none"
    <3>1. m.type = "answer" => stay[m.gen] # "none" /\ m.gen \in Gen
      BY <1>2 DEF Joining, Leaving, Answer, MadeOK
    <3>2. \A i \in DOMAIN toServer' : toServer'[i] = m \/ (i \in DOMAIN toServer /\ toServer'[i] = toServer[i])
      BY <2>2
    <3>3. QED
      BY <1>1, <1>2, <3>1, <3>2 DEF MadeOK
  <2>3. ASSUME NEW type, Reads(type)
        PROVE  \A i \in DOMAIN toServer' : toServer'[i].type = "answer" => stay'[toServer'[i].gen] # "none"
    BY <1>1, <1>2, <2>3, ReadsHead DEF MadeOK
  <2>4. QED
    BY <2>1, <2>2, <2>3, ToServerMoves
<1>5. toClient # <<>> => Head(toClient) = toClient[1] /\ 1 \in DOMAIN toClient
  BY <1>2, Tails
<1>6. toClient # <<>> => SdpOf(Head(toClient)).gen \in Gen /\ stay[SdpOf(Head(toClient)).gen] # "none"
  BY <1>2, <1>5 DEF MadeOK, SdpOf
<1>7. buffered' # NoSdp => stay'[buffered'.gen] # "none"
  BY <1>1, <1>2, <1>6, ClientMoves DEF MadeOK
<1>8. \A r \in replies' : stay'[r[2].gen] # "none"
  BY <1>1, <1>2, <1>6, ClientMoves DEF MadeOK
<1>9. QED
  BY <1>3, <1>4, <1>7, <1>8 DEF MadeOK

LEMMA JoinedStep ==
  ASSUME NegotiationTypeOK, StaysOK, MadeOK, JoinedOK, NegotiationNext
  PROVE  JoinedOK'
<1>0. joining \in Gen \cup {0} /\ \A i \in DOMAIN toClient : toClient[i].gen \in Gen
  BY DEF NegotiationTypeOK, ServerTypeOK, ToClient
<1>1. CASE toClient' = toClient /\ joining' \in {joining, 0}
  BY <1>1 DEF JoinedOK, JoinedAt, Gen
<1>2. ASSUME NEW g \in Gen, Acting(g) PROVE JoinedOK'
  <2>1. CASE Grown(Offer(g, offered[g]))
    <3>1. \A h \in Gen : \A i \in DOMAIN toClient' : JoinedAt(i, h)' => i \in DOMAIN toClient /\ JoinedAt(i, h)
      BY <2>1 DEF Grown, JoinedAt, Offer
    <3>2. joining' = joining
      BY <1>2, Alone
    <3>3. QED
      BY <1>0, <3>1, <3>2 DEF JoinedOK
  <2>2. QED
    BY <1>1, <1>2, <2>1, Sends, Alone
<1>3. CASE AnswerJoin
  <2>1. Joined(joining) \in ToClient /\ joining' = 0 /\ joining # 0
    BY <1>0, <1>3 DEF Joined, ToClient, AnswerJoin
  <2>2. CASE Grown(Joined(joining))
    <3>1. \A h \in Gen : \A i \in DOMAIN toClient' :
            JoinedAt(i, h)' => (i = Len(toClient) + 1 /\ h = joining) \/ (i \in DOMAIN toClient /\ JoinedAt(i, h))
      BY <2>2 DEF Grown, JoinedAt, Joined
    <3>2. QED
      BY <2>1, <3>1 DEF JoinedOK
  <2>3. QED
    BY <1>1, <1>3, <2>1, <2>2, Sent DEF AnswerJoin
<1>4. CASE HandleJoin
  <2>1. PICK g \in Gen : stay[g] = "none" /\ joining' = g /\ toClient' = toClient
    BY <1>4 DEF HandleJoin
  <2>2. \A i \in DOMAIN toClient : ~JoinedAt(i, g)
    <3>1. \A i \in DOMAIN toClient : stay[toClient[i].gen] # "none"
      BY DEF MadeOK
    <3>2. QED
      BY <2>1, <3>1 DEF JoinedAt
  <2>3. \A h \in Gen : \A i \in DOMAIN toClient : JoinedAt(i, h)' <=> JoinedAt(i, h)
    BY <2>1 DEF JoinedAt
  <2>4. \A i \in DOMAIN toClient' : ~JoinedAt(i, joining)'
    BY <2>1, <2>2 DEF JoinedAt
  <2>5. QED
    BY <2>1, <2>3, <2>4 DEF JoinedOK
<1>5. CASE Receiving
  <2>1. Shrunk /\ joining' = joining
    BY <1>5, Received DEF Receiving, Ignore, HandleCallJoined, HandleSubscribeOffer, Receives, server
  <2>2. \A h \in Gen : \A i \in DOMAIN toClient' : JoinedAt(i, h)' => i + 1 \in DOMAIN toClient /\ JoinedAt(i + 1, h)
    BY <2>1 DEF Shrunk, JoinedAt
  <2>3. \A i \in DOMAIN toClient' : i \in Nat
    BY <2>1 DEF Shrunk
  <2>4. ASSUME NEW h \in Gen, NEW i \in DOMAIN toClient', NEW j \in DOMAIN toClient', JoinedAt(i, h)', JoinedAt(j, h)'
        PROVE  i = j
    <3>1. i + 1 = j + 1
      BY <2>2, <2>4 DEF JoinedOK
    <3>2. QED
      BY <2>3, <3>1
  <2>5. joining' # 0 => \A i \in DOMAIN toClient' : ~JoinedAt(i, joining)'
    BY <1>0, <2>1, <2>2 DEF JoinedOK, JoinedAt
  <2>6. QED
    BY <2>4, <2>5 DEF JoinedOK
<1>6. QED
  BY <1>1, <1>2, <1>3, <1>4, <1>5 DEF NegotiationNext, Acting, Reading, HandleLeave, OnSubscribeAnswer, ClientJoin,
     ClientLeave, Replying, Reply, GiveUp, server
-----------------------------------------------------------------------------
(* What the client holds is of its call *)

\* What the client holds.
LEMMA ClientHas ==
  ASSUME NegotiationTypeOK
  PROVE  /\ calls \in 0 .. Joins /\ Joins \in Nat /\ pcs \in Nat /\ pc \in 0 .. pcs
         /\ \A r \in replies : r[1] \in 1 .. pcs /\ r[2] \in Sdp
         /\ joining \in Gen \cup {0} /\ stay \in [Gen -> {"none", "in", "closed"}]
         /\ inCall \in BOOLEAN /\ mixed \in BOOLEAN
         /\ buffered \in Sdp \cup {NoSdp}
         /\ \A i \in DOMAIN toClient : toClient[i].gen \in Gen
  BY DEF NegotiationTypeOK, ClientTypeOK, ServerTypeOK, ToClient

\* Once its subscribePC is there, no other answer to the client's join is coming.
Established == joining # calls /\ stay[calls] # "none" /\ \A i \in DOMAIN toClient : ~JoinedAt(i, calls)

LEMMA CallKept ==
  ASSUME CallOK, UNCHANGED <<client, mixed>>, inCall /\ ~mixed /\ pc # 0 => Established'
  PROVE  CallOK'
  BY DEF CallOK, client, Established, JoinedAt

LEMMA CallStep ==
  ASSUME NegotiationTypeOK, StaysOK, MadeOK, JoinedOK, CallOK, NegotiationNext
  PROVE  CallOK'
<1>0. /\ inCall => calls \in Gen
      /\ inCall /\ ~mixed /\ pc # 0 => Established /\ calls \in Gen
  BY ClientHas DEF CallOK, Established, Gen
<1>1. CASE UNCHANGED <<stay, joining, client, mixed, toClient>>
  BY <1>0, <1>1, CallKept DEF Established, JoinedAt, client
<1>2. ASSUME NEW g \in Gen, Acting(g) PROVE CallOK'
  <2>1. UNCHANGED <<stay, joining, client, mixed>>
    BY <1>2, Alone
  <2>2. CASE Grown(Offer(g, offered[g]))
    <3>1. \A i \in DOMAIN toClient' : JoinedAt(i, calls)' => i \in DOMAIN toClient /\ JoinedAt(i, calls)
      BY <2>1, <2>2 DEF Grown, JoinedAt, Offer, client
    <3>2. QED
      BY <1>0, <2>1, <3>1, CallKept DEF Established, client
  <2>3. QED
    BY <1>1, <1>2, <2>1, <2>2, Sends
<1>3. CASE AnswerJoin
  <2>1. Joined(joining) \in ToClient /\ joining' = 0 /\ joining # 0 /\ UNCHANGED <<stay, client, mixed>>
    BY <1>3, ClientHas DEF Joined, ToClient, AnswerJoin
  <2>2. CASE Grown(Joined(joining))
    <3>1. \A i \in DOMAIN toClient' :
            JoinedAt(i, calls)' => calls = joining \/ (i \in DOMAIN toClient /\ JoinedAt(i, calls))
      BY <2>1, <2>2 DEF Grown, JoinedAt, Joined, client
    <3>2. QED
      BY <1>0, <2>1, <3>1, CallKept DEF Established, client, Gen
  <2>3. CASE toClient' = toClient
    <3>1. \A i \in DOMAIN toClient' : JoinedAt(i, calls)' => JoinedAt(i, calls)
      BY <2>1, <2>3 DEF JoinedAt, client
    <3>2. QED
      BY <1>0, <2>1, <2>3, <3>1, CallKept DEF Established, client, Gen
  <2>4. QED
    BY <1>3, <2>1, <2>2, <2>3, Sent DEF AnswerJoin
<1>4. CASE HandleJoin \/ HandleLeave
  <2>1. UNCHANGED <<client, mixed, toClient>>
    BY <1>4 DEF HandleJoin, HandleLeave
  <2>2. \A i \in DOMAIN toClient' : JoinedAt(i, calls)' => JoinedAt(i, calls)
    BY <2>1 DEF JoinedAt, client
  <2>3. joining' = joining \/ \E g \in Gen : joining' = g /\ stay[g] = "none"
    BY <1>4 DEF HandleJoin, HandleLeave
  <2>4. inCall /\ ~mixed /\ pc # 0 => Established'
    BY <1>0, <2>1, <2>2, <2>3, StayUp DEF Established, client
  <2>5. QED
    BY <2>1, <2>4, CallKept
<1>5. CASE OnSubscribeAnswer
  BY <1>1, <1>5, AnswerAlone
<1>6. CASE ClientJoin
  <2>1. /\ pc = 0 /\ applied = NoSdp /\ calls' = calls + 1 /\ buffered' = NoSdp
        /\ UNCHANGED <<pc, applied, replies, mixed>>
    BY <1>6 DEF ClientJoin, CallOK
  <2>2. \A r \in replies : r[1] # 0 /\ r[2].gen \in Gen /\ stay[r[2].gen] # "none"
    BY ClientHas DEF MadeOK, Sdp
  <2>3. \A r \in replies : r[1] # 0 /\ r[2].gen # calls + 1
    BY <2>2, ClientHas DEF StaysOK, Gen
  <2>4. calls' # 0
    BY <2>1, ClientHas
  <2>5. QED
    BY <2>1, <2>3, <2>4 DEF CallOK
<1>7. CASE ClientLeave
  BY <1>7 DEF ClientLeave, CallOK
<1>8. CASE Ignore
  BY <1>8 DEF Ignore, CallOK, client
<1>9. CASE HandleCallJoined
  <2>1. /\ pc' = pcs + 1 /\ inCall /\ inCall' /\ calls' = calls /\ buffered' = NoSdp /\ UNCHANGED <<stay, joining>>
        /\ toClient[1].type = "joined" /\ Shrunk
        /\ \/ buffered # NoSdp /\ applied' = buffered /\ replies' = replies \cup {<<pcs + 1, buffered>>}
           \/ applied' = NoSdp /\ UNCHANGED replies
    BY <1>9, Received DEF HandleCallJoined, Receives, Apply, server, Shrunk
  <2>2. pc' # 0 /\ calls' # 0
    BY <2>1, ClientHas DEF CallOK
  <2>3. SUFFICES ASSUME ~mixed' PROVE CallOK'
    BY <2>1, <2>2, <2>3 DEF CallOK
  <2>4. ~mixed /\ JoinedAt(1, calls) /\ 1 \in DOMAIN toClient /\ calls \in Gen
    BY <1>0, <1>9, <2>1, <2>3 DEF HandleCallJoined, Mixed, JoinedAt, Shrunk
  <2>5. pc = 0
    BY <1>0, <2>1, <2>4 DEF Established
  <2>6. \A r \in replies : r[1] # pcs + 1 /\ r[2].gen # calls
    BY <2>1, <2>4, <2>5, ClientHas DEF CallOK
  <2>7. buffered # NoSdp => buffered.gen = calls
    BY <2>1, <2>4 DEF CallOK
  <2>8. \A r \in replies' : r[2].gen = calls' <=> r[1] = pc'
    BY <2>1, <2>6, <2>7
  <2>9. Established'
    <3>1. joining # calls
      BY <1>0, <2>1, <2>4, ClientHas DEF JoinedOK, JoinedAt, Gen
    <3>2. stay[calls] # "none"
      BY <2>4 DEF MadeOK, JoinedAt
    <3>3. \A i \in DOMAIN toClient' : ~JoinedAt(i, calls)'
      <4>1. \A i \in DOMAIN toClient' : JoinedAt(i, calls)' => i \in Nat \ {0} /\ i + 1 \in DOMAIN toClient /\ JoinedAt(i + 1, calls)
        BY <2>1 DEF Shrunk, JoinedAt
      <4>2. QED
        BY <2>4, <4>1 DEF JoinedOK
    <3>4. QED
      BY <2>1, <3>1, <3>2, <3>3 DEF Established
  <2>10. QED
    BY <2>1, <2>2, <2>7, <2>8, <2>9 DEF CallOK, Established
<1>10. CASE HandleSubscribeOffer
  <2>1. /\ inCall /\ UNCHANGED <<stay, joining, pc, calls, inCall>> /\ toClient[1].type = "offer" /\ Shrunk
        /\ \/ pc = 0 /\ buffered' = SdpOf(toClient[1]) /\ UNCHANGED <<applied, replies>>
           \/ pc # 0 /\ applied' = SdpOf(toClient[1]) /\ replies' = replies \cup {<<pc, SdpOf(toClient[1])>>}
                     /\ UNCHANGED buffered
    BY <1>10, Received DEF HandleSubscribeOffer, Receives, Apply, server, Shrunk
  <2>2. SUFFICES ASSUME ~mixed' PROVE CallOK'
    BY <2>1, <2>2 DEF CallOK
  <2>3. ~mixed /\ SdpOf(toClient[1]).gen = calls
    BY <1>10, <2>1, <2>2 DEF HandleSubscribeOffer, Mixed, SdpOf, Shrunk
  <2>4. \A i \in DOMAIN toClient' : JoinedAt(i, calls)' => i + 1 \in DOMAIN toClient /\ JoinedAt(i + 1, calls)
    BY <2>1 DEF Shrunk, JoinedAt
  <2>5. pc # 0 => Established'
    BY <1>0, <2>1, <2>3, <2>4 DEF Established
  <2>6. \A r \in replies' : r[2].gen = calls' <=> r[1] = pc'
    <3>1. \A r \in replies : r[2].gen = calls <=> r[1] = pc
      BY <2>1, <2>3 DEF CallOK
    <3>2. QED
      BY <2>1, <2>3, <3>1
  <2>7. /\ buffered' # NoSdp => buffered'.gen = calls'
        /\ applied' # NoSdp => applied'.gen = calls'
    BY <2>1, <2>3 DEF CallOK
  <2>8. pc' = 0 => applied' = NoSdp
    BY <2>1 DEF CallOK
  <2>9. QED
    BY <2>1, <2>5, <2>6, <2>7, <2>8 DEF CallOK, Established
<1>11. ASSUME NEW r \in replies, Reply(r) \/ GiveUp(r) PROVE CallOK'
  <2>1. /\ UNCHANGED <<stay, joining, calls, inCall, pc, buffered, applied, toClient, mixed>>
        /\ replies' \subseteq replies
    BY <1>11 DEF Reply, GiveUp, server
  <2>2. \A i \in DOMAIN toClient' : JoinedAt(i, calls)' => JoinedAt(i, calls)
    BY <2>1 DEF JoinedAt
  <2>3. QED
    BY <2>1, <2>2 DEF CallOK
<1>12. QED
  BY <1>2, <1>3, <1>4, <1>5, <1>6, <1>7, <1>8, <1>9, <1>10, <1>11 DEF NegotiationNext, Acting, Reading, Receiving, Replying
-----------------------------------------------------------------------------
(* The rounds of a participant *)

\* UnderWay and Places, place by place.
Visible      == \A g \in Gen : UnderWay(g) <=> Somewhere(g)

LEMMA UnderWayIs == Visible
<1> SUFFICES ASSUME NEW g \in Gen PROVE UnderWay(g) <=> Somewhere(g)
  BY DEF Visible
<1>1. Places(g) # {} <=> GoesOut(g) \/ Waits(g) \/ InHand(g) \/ ComesIn(g)
  BY DEF Places, GoesOut, Waits, InHand, ComesIn, OfferAt, AnswerAt
<1>2. QED
  BY <1>1 DEF UnderWay, Somewhere, Busy, Works

LEMMA OnePlace ==
  ASSUME NEW g \in Gen, RoundOK(g)
  PROVE  \A p, q \in Places(g) : p = q
<1>1. \A p \in Places(g) :
        \/ (\E i \in DOMAIN toClient : p = <<"offer", i>> /\ OfferAt(i, g))
        \/ (\E i \in DOMAIN toServer : p = <<"answer", i>> /\ AnswerAt(i, g))
        \/ (p = <<"buffered", 0>> /\ Waits(g))
        \/ (\E r \in replies : p = <<"reply", r>> /\ r[2].gen = g)
  BY DEF Places, OfferAt, AnswerAt, Waits
<1>2. QED
  BY <1>1 DEF RoundOK, Somewhere, Alike, GoesOut, ComesIn, InHand

\* A participant that is not made yet has no round.
Unmade == \A g \in Gen : stay[g] = "none" => RoundOK(g)

LEMMA Fresh == NegotiationTypeOK /\ StaysOK /\ MadeOK => Unmade
<1> SUFFICES ASSUME NegotiationTypeOK, StaysOK, MadeOK, NEW g \in Gen, stay[g] = "none" PROVE RoundOK(g)
  BY DEF Unmade
<1>1. ~GoesOut(g)
  BY DEF MadeOK, GoesOut, OfferAt
<1>2. ~ComesIn(g)
  BY DEF MadeOK, ComesIn, AnswerAt
<1>3. ~InHand(g)
  BY DEF MadeOK, InHand
<1>4. ~Waits(g)
  BY DEF MadeOK, Waits, NoSdp, Gen
<1>5. ~Busy(g)
  BY DEF StaysOK, Blank, Busy, Works
<1>6. QED
  BY <1>1, <1>2, <1>3, <1>4, <1>5 DEF RoundOK, Somewhere, Alike, GoesOut, ComesIn, InHand, Busy

\* In the first stay there is one participant at most.
First == calls <= 1 => \A g \in Gen : stay[g] # "none" => g = 1 /\ calls = 1

LEMMA FirstOnly == NegotiationTypeOK /\ StaysOK => First
  BY DEF First, StaysOK, NegotiationTypeOK, ClientTypeOK, Gen

\* What a participant's own step does to its round.
LEMMA RoundOfOwn ==
  ASSUME NegotiationTypeOK, NEW g \in Gen, Acting(g), RoundOK(g)
  PROVE  RoundOK(g)'
<1>0. /\ at \in [Gen -> [Goroutine -> Stage]] /\ inFlight \in [Gen -> BOOLEAN]
      /\ UNCHANGED <<client, toServer>>
  BY Alone DEF NegotiationTypeOK, ServerTypeOK
<1>1. /\ Waits(g)' = Waits(g) /\ InHand(g)' = InHand(g) /\ ComesIn(g)' = ComesIn(g)
      /\ \A q, r \in replies' : q[2].gen = g /\ r[2].gen = g => q = r
      /\ \A i, j \in DOMAIN toServer' : AnswerAt(i, g)' /\ AnswerAt(j, g)' => i = j
  BY <1>0 DEF RoundOK, Somewhere, Alike, Waits, InHand, ComesIn, AnswerAt, client
<1>2. CASE toClient' = toClient
  <2>1. GoesOut(g)' = GoesOut(g) /\ \A i, j \in DOMAIN toClient' : OfferAt(i, g)' /\ OfferAt(j, g)' => i = j
    BY <1>2 DEF RoundOK, Somewhere, Alike, GoesOut, OfferAt
  <2>2. ASSUME UNCHANGED inFlight, \A t \in Goroutine : Works(g, t)' => Works(g, t) PROVE RoundOK(g)'
    BY <1>1, <2>1, <2>2 DEF RoundOK, Somewhere, Alike, Busy
  <2>3. ASSUME Change(g) \/ NegotiationNeeded(g) PROVE RoundOK(g)'
    BY <1>0, <2>2, <2>3 DEF Change, NegotiationNeeded, Works, nego, Goroutine
  <2>4. ASSUME NEW t \in Goroutine, Request(g, t) PROVE RoundOK(g)'
    <3>1. CASE inFlight[g]
      BY <1>0, <2>2, <2>4, <3>1 DEF Request, Works
    <3>2. CASE ~inFlight[g]
      <4>1. inFlight'[g] = TRUE
        BY <1>0, <2>4, <3>2 DEF Request
      <4>2. \A u \in Goroutine : Works(g, u)' => u = t
        BY <1>0, <2>4, <3>2 DEF Request, Works, RoundOK, Somewhere, Busy
      <4>3. QED
        BY <1>1, <2>1, <3>2, <4>1, <4>2 DEF RoundOK, Somewhere, Alike
    <3>3. QED
      BY <3>1, <3>2
  <2>5. ASSUME NEW t \in Goroutine, CreateOffer(g, t) \/ SetLocalDescription(g, t) PROVE RoundOK(g)'
    BY <1>0, <2>2, <2>5 DEF CreateOffer, SetLocalDescription, Works
  <2>6. ASSUME NEW t \in Goroutine, SendSubscribeOffer(g, t) PROVE RoundOK(g)'
    BY <1>0, <2>2, <2>6 DEF SendSubscribeOffer, Works
  <2>7. ASSUME NEW t \in Goroutine, ClearNegoInFlight(g, t) PROVE RoundOK(g)'
    <3>1. Works(g, t) /\ \A u \in Goroutine : ~Works(g, u)'
      BY <1>0, <2>7 DEF ClearNegoInFlight, Works, RoundOK, Somewhere, Alike
    <3>2. QED
      BY <1>1, <2>1, <3>1 DEF RoundOK, Somewhere, Alike, Busy
  <2>8. QED
    BY <2>3, <2>4, <2>5, <2>6, <2>7 DEF Acting, Offering
<1>3. ASSUME Grown(Offer(g, offered[g])), UNCHANGED inFlight,
             NEW t \in Goroutine, at[g][t] = "send", at' = [at EXCEPT ![g][t] = "idle"]
      PROVE  RoundOK(g)'
  <2>1. Works(g, t) /\ \A u \in Goroutine : ~Works(g, u)'
    BY <1>0, <1>3 DEF Works, RoundOK, Somewhere, Alike
  <2>2. \A i \in DOMAIN toClient' : OfferAt(i, g)' => i = Len(toClient) + 1
    BY <1>3, <2>1 DEF Grown, OfferAt, RoundOK, Busy, GoesOut
  <2>3. QED
    BY <1>1, <1>3, <2>1, <2>2 DEF RoundOK, Somewhere, Alike, Busy
<1>4. QED
  BY <1>2, <1>3, Sends
\* Where there was nothing more than before, there still is.
LEMMA Fewer ==
  ASSUME NEW g \in Gen, RoundOK(g), Alike(g)', UNCHANGED inFlight,
         Busy(g)' => Busy(g), GoesOut(g)' => GoesOut(g), Waits(g)' => Waits(g),
         InHand(g)' => InHand(g), ComesIn(g)' => ComesIn(g)
  PROVE  RoundOK(g)'
  BY DEF RoundOK, Somewhere

LEMMA OutKept ==
  ASSUME NEW g \in Gen, RoundOK(g), toClient' = toClient \/ Shrunk
  PROVE  /\ GoesOut(g)' => GoesOut(g)
         /\ \A i, j \in DOMAIN toClient' : OfferAt(i, g)' /\ OfferAt(j, g)' => i = j
         /\ Shrunk /\ OfferAt(1, g) => ~GoesOut(g)'
<1>1. CASE toClient' = toClient /\ ~Shrunk
  BY <1>1 DEF RoundOK, Somewhere, Alike, GoesOut, OfferAt
<1>2. CASE Shrunk
  <2>1. \A i \in DOMAIN toClient' : OfferAt(i, g)' => i \in Nat \ {0} /\ i + 1 \in DOMAIN toClient /\ OfferAt(i + 1, g)
    BY <1>2 DEF Shrunk, OfferAt
  <2>2. \A i, j \in DOMAIN toClient : OfferAt(i, g) /\ OfferAt(j, g) => i = j
    BY DEF RoundOK, Somewhere, Alike
  <2>3. ASSUME NEW i \in DOMAIN toClient', NEW j \in DOMAIN toClient', OfferAt(i, g)', OfferAt(j, g)' PROVE i = j
    <3>1. i + 1 = j + 1 /\ i \in Nat /\ j \in Nat
      BY <2>1, <2>2, <2>3
    <3>2. QED
      BY <3>1
  <2>4. OfferAt(1, g) => ~GoesOut(g)'
    <3>1. 1 \in DOMAIN toClient
      BY <1>2 DEF Shrunk
    <3>2. QED
      BY <2>1, <2>2, <3>1 DEF GoesOut
  <2>5. QED
    BY <2>1, <2>3, <2>4 DEF GoesOut
<1>3. QED
  BY <1>1, <1>2

LEMMA InKept ==
  ASSUME NegotiationTypeOK, NEW g \in Gen, RoundOK(g), NEW type, Reads(type)
  PROVE  /\ ComesIn(g)' => ComesIn(g)
         /\ \A i, j \in DOMAIN toServer' : AnswerAt(i, g)' /\ AnswerAt(j, g)' => i = j
         /\ AnswerAt(1, g) => ~ComesIn(g)'
<1>1. \A i \in DOMAIN toServer' : AnswerAt(i, g)' => i \in Nat \ {0} /\ i + 1 \in DOMAIN toServer /\ AnswerAt(i + 1, g)
  BY ReadsHead DEF AnswerAt
<1>2. \A i, j \in DOMAIN toServer : AnswerAt(i, g) /\ AnswerAt(j, g) => i = j
  BY DEF RoundOK, Somewhere, Alike
<1>3. ASSUME NEW i \in DOMAIN toServer', NEW j \in DOMAIN toServer', AnswerAt(i, g)', AnswerAt(j, g)' PROVE i = j
  <2>1. i + 1 = j + 1 /\ i \in Nat /\ j \in Nat
    BY <1>1, <1>2, <1>3
  <2>2. QED
    BY <2>1
<1>4. AnswerAt(1, g) => ~ComesIn(g)'
  BY <1>1, <1>2, ReadsHead DEF ComesIn
<1>5. QED
  BY <1>1, <1>3, <1>4 DEF ComesIn

\* The client says something that is not an answer of g.
LEMMA InSame ==
  ASSUME NegotiationTypeOK, NEW g \in Gen, NEW m \in ToServer, ~(m.type = "answer" /\ m.gen = g),
         toServer' = toServer \/ toServer' = Append(toServer, m)
  PROVE  /\ ComesIn(g)' <=> ComesIn(g)
         /\ RoundOK(g) => \A i, j \in DOMAIN toServer' : AnswerAt(i, g)' /\ AnswerAt(j, g)' => i = j
<1>1. toServer \in Seq(ToServer)
  BY DEF NegotiationTypeOK
<1>2. CASE toServer' = Append(toServer, m)
  <2>1. \A i \in DOMAIN toServer' : AnswerAt(i, g)' => i \in DOMAIN toServer /\ AnswerAt(i, g)
    BY <1>1, <1>2, Appends DEF AnswerAt
  <2>2. \A i \in DOMAIN toServer : AnswerAt(i, g) => i \in DOMAIN toServer' /\ AnswerAt(i, g)'
    BY <1>1, <1>2, Appends DEF AnswerAt
  <2>3. QED
    BY <2>1, <2>2 DEF RoundOK, Somewhere, Alike, ComesIn
<1>3. CASE toServer' = toServer
  BY <1>3 DEF RoundOK, Somewhere, Alike, ComesIn, AnswerAt
<1>4. QED
  BY <1>2, <1>3

LEMMA RoundsStep ==
  ASSUME NegotiationTypeOK, StaysOK, MadeOK, NegotiationTypeOK', StaysOK', MadeOK', RoundsOK, NegotiationNext
  PROVE  RoundsOK'
<1>1. Unmade'
  BY Fresh, PTL
<1>2. First'
  BY FirstOnly, PTL
<1>3. SUFFICES ASSUME NEW g \in Gen, stay'[g] # "none", calls' <= 1, g = 1, calls' = 1 PROVE RoundOK(g)'
  BY <1>1, <1>2 DEF RoundsOK, Unmade, First
<1>4. \A h \in Gen : stay[h] # "none" => stay'[h] # "none" /\ h = g
  BY <1>2, <1>3, StayUp DEF First
<1>5. CASE ClientJoin
  <2>1. stay' = stay /\ calls' = calls + 1 /\ calls \in Nat
    BY <1>5, ClientHas DEF ClientJoin, server
  <2>2. g <= calls
    BY <1>3, <2>1 DEF StaysOK
  <2>3. QED
    BY <1>3, <2>1, <2>2
<1>6. CASE calls' = calls
  <2>0. RoundOK(g)
    BY <1>3, <1>6 DEF RoundsOK
  <2>1. ASSUME NEW h \in Gen, Acting(h) PROVE RoundOK(g)'
    <3>1. h = g
      BY <1>4, <2>1, ActingLives
    <3>2. QED
      BY <2>0, <2>1, <3>1, RoundOfOwn
  <2>2. CASE HandleJoin \/ HandleLeave
    <3>1. UNCHANGED <<at, inFlight, client, toClient>> /\ (Reads("join") \/ Reads("leave"))
      BY <2>2 DEF HandleJoin, HandleLeave, nego
    <3>2. Busy(g)' <=> Busy(g)
      BY <3>1 DEF Busy, Works
    <3>3. (Waits(g)' <=> Waits(g)) /\ (InHand(g)' <=> InHand(g))
      BY <3>1 DEF client, Waits, InHand
    <3>4. Alike(g)'
      BY <2>0, <3>1, InKept, OutKept DEF Alike, RoundOK, Somewhere, Works, client
    <3>5. QED
      BY <2>0, <3>1, <3>2, <3>3, <3>4, Fewer, OutKept, InKept
  <2>3. CASE AnswerJoin
    <3>1. UNCHANGED <<at, inFlight, client, toServer>> /\ Joined(joining) \in ToClient /\ SendToUser(Joined(joining))
      BY <2>3, ClientHas DEF AnswerJoin, nego, Joined, ToClient
    <3>2. GoesOut(g)' => GoesOut(g)
      BY <3>1, Sent DEF GoesOut, OfferAt, Grown, Joined
    <3>3. \A i, j \in DOMAIN toClient' : OfferAt(i, g)' /\ OfferAt(j, g)' => i = j
      <4>1. CASE toClient' = toClient
        BY <2>0, <4>1 DEF OfferAt, RoundOK, Alike
      <4>2. CASE Grown(Joined(joining))
        <5>1. \A i \in DOMAIN toClient' : OfferAt(i, g)' => i \in DOMAIN toClient /\ OfferAt(i, g)
          BY <4>2 DEF OfferAt, Grown, Joined
        <5>2. QED
          BY <2>0, <5>1 DEF RoundOK, Somewhere, Alike
      <4>3. QED
        BY <3>1, <4>1, <4>2, Sent
    <3>4. /\ Busy(g)' <=> Busy(g)
          /\ (Waits(g)' <=> Waits(g)) /\ (InHand(g)' <=> InHand(g)) /\ (ComesIn(g)' <=> ComesIn(g))
      BY <3>1 DEF Busy, Works, client, Waits, InHand, ComesIn, AnswerAt
    <3>5. Alike(g)'
      BY <2>0, <3>1, <3>3 DEF Alike, RoundOK, Somewhere, Works, client, AnswerAt
    <3>6. QED
      BY <2>0, <3>1, <3>2, <3>4, <3>5, Fewer
  <2>4. CASE OnSubscribeAnswer
    <3>1. /\ AnswerAt(1, g) /\ ComesIn(g) /\ Reads("answer")
      <4>1. toServer[1].type = "answer" /\ 1 \in DOMAIN toServer /\ toServer[1] \in ToServer /\ Reads("answer")
        BY <2>4, ReadsHead DEF OnSubscribeAnswer
      <4>2. toServer[1].gen \in Gen /\ stay[toServer[1].gen] # "none"
        BY <4>1 DEF MadeOK, ToServer, Joining, Leaving
      <4>3. QED
        BY <1>4, <4>1, <4>2 DEF AnswerAt, ComesIn
    <3>2. ~Busy(g) /\ ~GoesOut(g) /\ ~Waits(g) /\ ~InHand(g) /\ inFlight[g]
      BY <2>0, <3>1 DEF RoundOK, Somewhere
    <3>3. UNCHANGED <<stay, inFlight, client, toClient>>
      BY <2>4 DEF OnSubscribeAnswer
    <3>4. ~GoesOut(g)' /\ ~Waits(g)' /\ ~InHand(g)' /\ ~ComesIn(g)' /\ inFlight'[g]
      BY <2>0, <3>1, <3>2, <3>3, InKept DEF GoesOut, OfferAt, Waits, InHand, client
    <3>5. \A t, u \in Goroutine : Works(g, t)' /\ Works(g, u)' => t = u
      <4>1. CASE at' = at
        BY <3>2, <4>1 DEF Works, Busy
      <4>2. ASSUME NEW h \in Gen, at' = [at EXCEPT ![h]["reader"] = "clear"]
            PROVE  \A t \in Goroutine : Works(g, t)' => t = "reader"
        <5>1. at \in [Gen -> [Goroutine -> Stage]] /\ "reader" \in Goroutine
          BY DEF NegotiationTypeOK, ServerTypeOK, Goroutine
        <5>2. QED
          BY <3>2, <4>2, <5>1 DEF Works, Busy
      <4>3. QED
        BY <2>4, <4>1, <4>2, AnswerAlone DEF Answered
    <3>6. QED
      BY <3>4, <3>5 DEF RoundOK, Somewhere, Alike, GoesOut, InHand, ComesIn
  <2>5. CASE ClientLeave
    <3>1. /\ UNCHANGED <<at, inFlight, toClient, replies>> /\ ~Waits(g)' /\ Leaving \in ToServer
          /\ toServer' = Append(toServer, Leaving) /\ Leaving.type # "answer"
      BY <2>5 DEF ClientLeave, Waits, NoSdp, Gen, server, nego, ToServer, Leaving
    <3>2. (Busy(g)' <=> Busy(g)) /\ (InHand(g)' <=> InHand(g))
      BY <3>1 DEF Busy, Works, InHand
    <3>3. Alike(g)'
      BY <2>0, <3>1, InSame, OutKept DEF Alike, RoundOK, Somewhere, Works
    <3>4. QED
      BY <2>0, <3>1, <3>2, <3>3, Fewer, OutKept, InSame
  <2>6. CASE Ignore
    <3>1. UNCHANGED <<at, inFlight, client, toServer>> /\ Shrunk
      BY <2>6, Received DEF Ignore, server, nego
    <3>2. /\ Busy(g)' <=> Busy(g)
          /\ (Waits(g)' <=> Waits(g)) /\ (InHand(g)' <=> InHand(g)) /\ (ComesIn(g)' <=> ComesIn(g))
      BY <3>1 DEF Busy, Works, client, Waits, InHand, ComesIn, AnswerAt
    <3>3. Alike(g)'
      BY <2>0, <3>1, OutKept DEF Alike, RoundOK, Somewhere, Works, client, AnswerAt
    <3>4. QED
      BY <2>0, <3>1, <3>2, <3>3, Fewer, OutKept
  <2>7. CASE HandleCallJoined
    <3>1. /\ UNCHANGED <<at, inFlight, toServer>> /\ Shrunk /\ buffered' = NoSdp
          /\ \/ buffered # NoSdp /\ replies' = replies \cup {<<pcs + 1, buffered>>}
             \/ UNCHANGED replies
      BY <2>7, Received DEF HandleCallJoined, Receives, Apply, server, nego
    <3>2. (Busy(g)' <=> Busy(g)) /\ (ComesIn(g)' <=> ComesIn(g)) /\ ~Waits(g)'
      BY <3>1 DEF Busy, Works, ComesIn, AnswerAt, Waits, NoSdp, Gen
    <3>3. InHand(g)' => InHand(g) \/ Waits(g)
      BY <3>1 DEF InHand, Waits
    <3>4. \A q, r \in replies' : q[2].gen = g /\ r[2].gen = g => q = r
      BY <2>0, <3>1 DEF RoundOK, Somewhere, Alike, Waits, InHand
    <3>5. Alike(g)'
      BY <2>0, <3>1, <3>4, OutKept DEF Alike, RoundOK, Somewhere, Works, AnswerAt
    <3>6. QED
      BY <2>0, <3>1, <3>2, <3>3, <3>5, OutKept DEF RoundOK, Somewhere
  <2>8. CASE HandleSubscribeOffer
    <3>1. /\ UNCHANGED <<stay, at, inFlight, toServer>> /\ Shrunk /\ toClient[1].type = "offer"
          /\ \/ pc = 0 /\ buffered' = SdpOf(toClient[1]) /\ UNCHANGED replies
             \/ pc # 0 /\ replies' = replies \cup {<<pc, SdpOf(toClient[1])>>} /\ UNCHANGED buffered
      BY <2>8, Received DEF HandleSubscribeOffer, Receives, Apply, server, nego, Shrunk
    <3>2. OfferAt(1, g) /\ GoesOut(g)
      <4>1. 1 \in DOMAIN toClient /\ toClient[1].gen \in Gen /\ stay[toClient[1].gen] # "none"
        BY <3>1, ClientHas DEF MadeOK, Shrunk
      <4>2. QED
        BY <1>4, <3>1, <4>1 DEF OfferAt, GoesOut
    <3>3. ~Busy(g) /\ ~Waits(g) /\ ~InHand(g) /\ ~ComesIn(g) /\ inFlight[g]
      BY <2>0, <3>2 DEF RoundOK, Somewhere
    <3>4. ~GoesOut(g)'
      BY <2>0, <3>1, <3>2, OutKept
    <3>5. (Busy(g)' <=> Busy(g)) /\ (ComesIn(g)' <=> ComesIn(g)) /\ inFlight'[g]
      BY <3>1, <3>3 DEF Busy, Works, ComesIn, AnswerAt
    <3>6. ~(Waits(g)' /\ InHand(g)') /\ \A q, r \in replies' : q[2].gen = g /\ r[2].gen = g => q = r
      BY <3>1, <3>3 DEF Waits, InHand
    <3>7. QED
      BY <3>3, <3>4, <3>5, <3>6 DEF RoundOK, Somewhere, Alike, Busy, GoesOut, ComesIn
  <2>9. ASSUME NEW r \in replies, Reply(r) \/ GiveUp(r) PROVE RoundOK(g)'
    <3>1. /\ UNCHANGED <<at, inFlight, buffered, toClient>> /\ replies' = replies \ {r}
          /\ toServer' = toServer \/ toServer' = Append(toServer, Answer(r[2]))
      BY <2>9 DEF Reply, GiveUp, server, nego
    <3>2. /\ Answer(r[2]) \in ToServer /\ Answer(r[2]).gen = g /\ Answer(r[2]).type = "answer" /\ InHand(g)
          /\ r[2].gen = g
      <4>1. r[2].gen \in Gen /\ stay[r[2].gen] # "none" /\ r[2] \in Sdp
        BY ClientHas DEF MadeOK, Sdp
      <4>2. r[2].gen = g
        BY <1>4, <4>1
      <4>3. InHand(g)
        BY <4>2 DEF InHand
      <4>4. QED
        BY <4>1, <4>2, <4>3 DEF Answer, ToServer, Sdp
    <3>3. ~Busy(g) /\ ~GoesOut(g) /\ ~Waits(g) /\ ~ComesIn(g) /\ inFlight[g]
      BY <2>0, <3>2 DEF RoundOK, Somewhere
    <3>4. ~InHand(g)'
      <4>1. \A q \in replies : q[2].gen = g => q = r
        BY <2>0, <3>2 DEF RoundOK, Somewhere, Alike
      <4>2. QED
        BY <3>1, <4>1 DEF InHand
    <3>5. ~Busy(g)' /\ ~GoesOut(g)' /\ ~Waits(g)' /\ inFlight'[g]
      BY <3>1, <3>3 DEF Busy, Works, GoesOut, OfferAt, Waits
    <3>6. \A i, j \in DOMAIN toServer' : AnswerAt(i, g)' /\ AnswerAt(j, g)' => i = j
      <4>1. \A i \in DOMAIN toServer : ~AnswerAt(i, g)
        BY <3>3 DEF ComesIn
      <4>2. toServer \in Seq(ToServer)
        BY DEF NegotiationTypeOK
      <4>3. CASE toServer' = Append(toServer, Answer(r[2]))
        <5>1. \A i \in DOMAIN toServer' : AnswerAt(i, g)' => i = Len(toServer) + 1
          BY <3>2, <4>1, <4>2, <4>3, Appends DEF AnswerAt
        <5>2. QED
          BY <5>1
      <4>4. CASE toServer' = toServer
        BY <4>1, <4>4 DEF AnswerAt
      <4>5. QED
        BY <3>1, <4>3, <4>4
    <3>7. QED
      BY <3>4, <3>5, <3>6 DEF RoundOK, Somewhere, Alike, Busy, GoesOut, InHand
  <2>10. QED
    BY <1>3, <1>6, <2>1, <2>2, <2>3, <2>4, <2>5, <2>6, <2>7, <2>8, <2>9
       DEF NegotiationNext, Acting, Reading, Receiving, Replying, ClientJoin
<1>7. calls' = calls \/ ClientJoin
  BY Alone DEF NegotiationNext, Acting, Reading, HandleJoin, HandleLeave, OnSubscribeAnswer, AnswerJoin, ClientLeave,
     Receiving, Ignore, HandleCallJoined, HandleSubscribeOffer, Replying, Reply, GiveUp, client
<1>8. QED
  BY <1>5, <1>6, <1>7
\* An offer or an answer that is under way goes on, one way or another.
LEMMA StallStep ==
  ASSUME NegotiationTypeOK, StaysOK, CallOK, NoStall, NegotiationNext
  PROVE  NoStall'
<1>0. Visible /\ Visible'
  BY UnderWayIs, PTL
<1>1. /\ Visible /\ Visible'
      /\ at \in [Gen -> [Goroutine -> Stage]] /\ inFlight \in [Gen -> BOOLEAN] /\ stay \in [Gen -> {"none", "in", "closed"}]
      /\ lost \in Nat /\ toServer \in Seq(ToServer)
  BY <1>0 DEF NegotiationTypeOK, ServerTypeOK
<1>2. SUFFICES ASSUME NEW g \in Gen, stay'[g] = "in", inFlight'[g], calls' = g, inCall', lost' = 0, ~mixed'
               PROVE  Somewhere(g)'
  BY <1>1 DEF NoStall, Visible
<1>3. ASSUME stay[g] = "in", inFlight[g], calls = g, inCall, lost = 0, ~mixed PROVE Somewhere(g)
  BY <1>1, <1>3 DEF NoStall, Visible
<1>4. ASSUME NEW h \in Gen, Acting(h) PROVE Somewhere(g)'
  <2>1. UNCHANGED <<stay, client, toServer, mixed>>
    BY <1>4, Alone
  <2>2. \/ toClient' = toClient /\ lost = 0
        \/ lost = 0 /\ Grown(Offer(h, offered[h]))
           /\ \E t \in Goroutine : at[h][t] = "send" /\ at' = [at EXCEPT ![h][t] = "idle"]
    BY <1>1, <1>2, <1>4, Sends
  <2>3. GoesOut(g) => GoesOut(g)'
    BY <2>2 DEF Grown, GoesOut, OfferAt
  <2>4. Waits(g)' = Waits(g) /\ InHand(g)' = InHand(g) /\ ComesIn(g)' = ComesIn(g)
    BY <2>1 DEF client, Waits, InHand, ComesIn, AnswerAt
  <2>5. CASE h # g
    <3>1. inFlight'[g] = inFlight[g] /\ at'[g] = at[g]
      BY <1>4, <2>5, Alone DEF Same
    <3>2. Busy(g)' = Busy(g)
      BY <3>1 DEF Busy, Works
    <3>3. QED
      BY <1>2, <1>3, <2>1, <2>2, <2>3, <2>4, <3>1, <3>2 DEF Somewhere, client
  <2>6. CASE h = g
    <3>1. CASE Grown(Offer(g, offered[g]))
      <4>1. Offer(g, offered[g]).type = "offer" /\ Offer(g, offered[g]).gen = g
        BY DEF Offer
      <4>2. GoesOut(g)'
        BY <3>1, <4>1 DEF Grown, GoesOut, OfferAt
      <4>3. QED
        BY <4>2 DEF Somewhere
    <3>2. ASSUME UNCHANGED inFlight, \A t \in Goroutine : Works(g, t) => Busy(g)' PROVE Somewhere(g)'
      BY <1>2, <1>3, <2>1, <2>2, <2>3, <2>4, <3>2 DEF Somewhere, Busy, client
    <3>3. CASE Change(g) \/ NegotiationNeeded(g)
      <4>1. UNCHANGED inFlight /\ \A t \in Goroutine : Works(g, t) => Works(g, t)'
        BY <1>1, <3>3 DEF Change, NegotiationNeeded, Works, nego, Goroutine
      <4>2. QED
        BY <3>2, <4>1 DEF Busy
    <3>4. ASSUME NEW t \in Goroutine, Request(g, t) PROVE Somewhere(g)'
      <4>1. CASE inFlight[g]
        <5>1. UNCHANGED inFlight /\ \A u \in Goroutine : Works(g, u) => Works(g, u)'
          BY <1>1, <3>4, <4>1 DEF Request, Works
        <5>2. QED
          BY <3>2, <5>1 DEF Busy
      <4>2. CASE ~inFlight[g]
        <5>1. Works(g, t)'
          BY <1>1, <3>4, <4>2 DEF Request, Works
        <5>2. QED
          BY <5>1 DEF Somewhere, Busy
      <4>3. QED
        BY <4>1, <4>2
    <3>5. ASSUME NEW t \in Goroutine, CreateOffer(g, t) \/ SetLocalDescription(g, t) PROVE Somewhere(g)'
      <4>1. Works(g, t)'
        BY <1>1, <3>5 DEF CreateOffer, SetLocalDescription, Works
      <4>2. QED
        BY <4>1 DEF Somewhere, Busy
    <3>6. ASSUME NEW t \in Goroutine, SendSubscribeOffer(g, t) PROVE Somewhere(g)'
      <4>1. /\ toClient \in Seq(ToClient) /\ Offer(g, offered[g]) \in ToClient
        BY DEF NegotiationTypeOK, ServerTypeOK, Offer, ToClient
      <4>2. Grown(Offer(g, offered[g]))
        BY <1>1, <1>2, <3>6, <4>1, Sent DEF SendSubscribeOffer
      <4>3. QED
        BY <3>1, <4>2
    <3>7. ASSUME NEW t \in Goroutine, ClearNegoInFlight(g, t) PROVE FALSE
      BY <1>1, <1>2, <3>7 DEF ClearNegoInFlight, Cleared
    <3>8. QED
      BY <1>4, <2>6, <3>3, <3>4, <3>5, <3>6, <3>7 DEF Acting, Offering
  <2>7. QED
    BY <2>5, <2>6
<1>5. CASE HandleJoin
  <2>1. UNCHANGED <<at, inFlight, client, toClient, lost, mixed>> /\ Reads("join")
    BY <1>5 DEF HandleJoin, nego
  <2>2. stay[g] = "in"
    BY <1>1, <1>2, <1>5, <2>1 DEF HandleJoin, StaysOK, Blank
  <2>3. Somewhere(g)
    BY <1>2, <1>3, <2>1, <2>2 DEF client
  <2>4. ComesIn(g) => ComesIn(g)'
    <3>1. toServer[1].type # "answer"
      BY <2>1, ReadsHead
    <3>2. \A i \in DOMAIN toServer : AnswerAt(i, g) => i - 1 \in DOMAIN toServer' /\ AnswerAt(i - 1, g)'
      BY <2>1, <3>1, ReadsHead DEF AnswerAt
    <3>3. QED
      BY <3>2 DEF ComesIn
  <2>5. /\ Busy(g)' <=> Busy(g)
        /\ (Waits(g)' <=> Waits(g)) /\ (InHand(g)' <=> InHand(g)) /\ (GoesOut(g)' <=> GoesOut(g))
    BY <2>1 DEF Busy, Works, client, Waits, InHand, GoesOut, OfferAt
  <2>6. QED
    BY <2>3, <2>4, <2>5 DEF Somewhere
<1>6. CASE AnswerJoin
  <2>1. UNCHANGED <<stay, at, inFlight, client, toServer, mixed>> /\ Joined(joining) \in ToClient /\ SendToUser(Joined(joining))
    BY <1>6, ClientHas DEF AnswerJoin, nego, Joined, ToClient
  <2>2. lost = 0
    BY <1>1, <1>2, <2>1, Sent
  <2>3. GoesOut(g) => GoesOut(g)'
    BY <2>1, Sent DEF GoesOut, OfferAt, Grown
  <2>4. /\ Busy(g)' <=> Busy(g)
        /\ (Waits(g)' <=> Waits(g)) /\ (InHand(g)' <=> InHand(g)) /\ (ComesIn(g)' <=> ComesIn(g))
    BY <2>1 DEF Busy, Works, client, Waits, InHand, ComesIn, AnswerAt
  <2>5. QED
    BY <1>2, <1>3, <2>1, <2>2, <2>3, <2>4 DEF client, Somewhere
<1>7. CASE HandleLeave
  BY <1>1, <1>2, <1>7 DEF HandleLeave
<1>8. CASE OnSubscribeAnswer
  <2>1. UNCHANGED <<stay, calls>>
    BY <1>8 DEF OnSubscribeAnswer, client
  <2>2. g \in Participants
    BY <1>2, <2>1 DEF Participants
  <2>3. PICK h \in Gen : stay[h] = "in" /\ at' = [at EXCEPT ![h]["reader"] = "clear"]
    BY <1>8, <2>2, AnswerAlone DEF Answered
  <2>4. h = g
    BY <1>2, <2>1, <2>3 DEF StaysOK, Gen
  <2>5. Works(g, "reader")' /\ "reader" \in Goroutine
    BY <1>1, <2>3, <2>4 DEF Works, Goroutine
  <2>6. QED
    BY <2>5 DEF Somewhere, Busy
<1>9. CASE ClientJoin
  <2>1. stay' = stay /\ g = calls + 1 /\ calls \in Nat
    BY <1>2, <1>9, ClientHas DEF ClientJoin, server
  <2>2. g <= calls
    BY <1>2, <2>1 DEF StaysOK
  <2>3. QED
    BY <2>1, <2>2
<1>10. CASE HandleCallJoined
  <2>1. /\ UNCHANGED <<stay, at, inFlight, calls, inCall, toServer, lost>> /\ inCall /\ Shrunk /\ ~mixed
        /\ toClient[1].type = "joined"
        /\ buffered # NoSdp => replies' = replies \cup {<<pcs + 1, buffered>>}
        /\ buffered = NoSdp => UNCHANGED replies
    BY <1>2, <1>10, Received DEF HandleCallJoined, Receives, Apply, server, nego, Mixed, Shrunk
  <2>2. Somewhere(g)
    BY <1>2, <1>3, <2>1
  <2>3. GoesOut(g) => GoesOut(g)'
    <3>1. \A i \in DOMAIN toClient : OfferAt(i, g) => i - 1 \in DOMAIN toClient' /\ OfferAt(i - 1, g)'
      BY <2>1 DEF Shrunk, OfferAt
    <3>2. QED
      BY <3>1 DEF GoesOut
  <2>4. Waits(g) \/ InHand(g) => InHand(g)'
    <3>1. Waits(g) => buffered # NoSdp
      BY DEF Waits, NoSdp, Gen
    <3>2. <<pcs + 1, buffered>>[2] = buffered
      OBVIOUS
    <3>3. QED
      BY <2>1, <3>1, <3>2 DEF Waits, InHand
  <2>5. (Busy(g)' <=> Busy(g)) /\ (ComesIn(g)' <=> ComesIn(g))
    BY <2>1 DEF Busy, Works, ComesIn, AnswerAt
  <2>6. QED
    BY <2>2, <2>3, <2>4, <2>5 DEF Somewhere
<1>11. CASE HandleSubscribeOffer
  <2>1. /\ SdpOf(toClient[1]).gen = g
        /\ buffered' = SdpOf(toClient[1]) \/ replies' = replies \cup {<<pc, SdpOf(toClient[1])>>}
    BY <1>2, <1>11, Received DEF HandleSubscribeOffer, Receives, Apply, Mixed, SdpOf, Shrunk
  <2>2. <<pc, SdpOf(toClient[1])>>[2] = SdpOf(toClient[1])
    OBVIOUS
  <2>3. Waits(g)' \/ InHand(g)'
    BY <2>1, <2>2 DEF Waits, InHand
  <2>4. QED
    BY <2>3 DEF Somewhere
<1>12. ASSUME NEW r \in replies, Reply(r) PROVE Somewhere(g)'
  <2>1. /\ UNCHANGED <<stay, at, inFlight, calls, inCall, buffered, toClient, lost, mixed>> /\ inCall
        /\ replies' = replies \ {r} /\ toServer' = Append(toServer, Answer(r[2]))
    BY <1>2, <1>12 DEF Reply, server, nego
  <2>2. Somewhere(g)
    BY <1>2, <1>3, <2>1
  <2>3. Answer(r[2]) \in ToServer /\ Answer(r[2]).type = "answer" /\ Answer(r[2]).gen = r[2].gen
    <3>1. r[2] \in Sdp
      BY ClientHas
    <3>2. QED
      BY <3>1 DEF Answer, ToServer, Sdp
  <2>4. ComesIn(g) \/ r[2].gen = g => ComesIn(g)'
    <3>1. /\ DOMAIN toServer = 1 .. Len(toServer) /\ DOMAIN toServer' = 1 .. Len(toServer) + 1 /\ Len(toServer) \in Nat
          /\ toServer'[Len(toServer) + 1] = Answer(r[2]) /\ \A i \in DOMAIN toServer : toServer'[i] = toServer[i]
      <4>1. PICK m \in ToServer : m = Answer(r[2])
        BY <2>3
      <4>2. toServer' = Append(toServer, m) /\ toServer \in Seq(ToServer)
        BY <1>1, <2>1, <4>1
      <4>3. QED
        BY <4>1, <4>2, Appends
    <3>2. r[2].gen = g => \E i \in DOMAIN toServer' : AnswerAt(i, g)'
      <4>1. Len(toServer) + 1 \in DOMAIN toServer'
        BY <3>1
      <4>2. toServer'[Len(toServer) + 1].type = "answer" /\ toServer'[Len(toServer) + 1].gen = r[2].gen
        BY <2>3, <3>1
      <4>3. QED
        BY <4>1, <4>2 DEF AnswerAt
    <3>3. \A i \in DOMAIN toServer : AnswerAt(i, g) => AnswerAt(i, g)' /\ i \in DOMAIN toServer'
      BY <3>1 DEF AnswerAt
    <3>4. QED
      BY <3>2, <3>3 DEF ComesIn
  <2>5. InHand(g) => InHand(g)' \/ r[2].gen = g
    BY <2>1 DEF InHand
  <2>6. /\ Busy(g)' <=> Busy(g)
        /\ (Waits(g)' <=> Waits(g)) /\ (GoesOut(g)' <=> GoesOut(g))
    BY <2>1 DEF Busy, Works, Waits, GoesOut, OfferAt
  <2>7. QED
    BY <2>2, <2>4, <2>5, <2>6 DEF Somewhere
<1>13. ASSUME NEW r \in replies, GiveUp(r) PROVE Somewhere(g)'
  <2>1. /\ UNCHANGED <<stay, at, inFlight, calls, inCall, pc, buffered, toClient, toServer, lost, mixed>> /\ inCall
        /\ replies' = replies \ {r} /\ (r[1] = pc => \E o \in replies : o # r /\ o[1] = r[1])
    BY <1>2, <1>13 DEF GiveUp, server, nego
  <2>2. Somewhere(g)
    BY <1>2, <1>3, <2>1
  <2>3. \A q \in replies : q[2].gen = g <=> q[1] = pc
    BY <1>2, <2>1 DEF CallOK
  <2>4. InHand(g) => InHand(g)'
    BY <2>1, <2>3 DEF InHand
  <2>5. /\ Busy(g)' <=> Busy(g)
        /\ (Waits(g)' <=> Waits(g)) /\ (GoesOut(g)' <=> GoesOut(g)) /\ (ComesIn(g)' <=> ComesIn(g))
    BY <2>1 DEF Busy, Works, Waits, GoesOut, OfferAt, ComesIn, AnswerAt
  <2>6. QED
    BY <2>2, <2>4, <2>5 DEF Somewhere
<1>14. ~ClientLeave /\ ~Ignore
  BY <1>2 DEF ClientLeave, Ignore, client
<1>15. QED
  BY <1>4, <1>5, <1>6, <1>7, <1>8, <1>9, <1>10, <1>11, <1>12, <1>13, <1>14
     DEF NegotiationNext, Acting, Reading, Receiving, Replying

\* Everything that the rounds rest on.
Rounds == NegotiationInv /\ RoundsOK /\ NoStall

LEMMA RoundsInit == NegotiationInit => Rounds
<1> SUFFICES ASSUME NegotiationInit PROVE Rounds
  OBVIOUS
<1>1. NegotiationTypeOK
  BY NegotiationInitType
<1>2. /\ toClient = <<>> /\ toServer = <<>> /\ calls = 0 /\ ~inCall /\ joining = 0 /\ pc = 0 /\ replies = {}
      /\ buffered = NoSdp /\ applied = NoSdp
      /\ \A g \in Gen : /\ stay[g] = "none" /\ want[g] = 0 /\ offered[g] = 0 /\ ~inFlight[g] /\ ~pending[g] /\ ~asked[g]
                        /\ sig[g] = "stable" /\ \A t \in Goroutine : at[g][t] = "idle"
  BY DEF NegotiationInit
<1>3. StaysOK /\ MadeOK /\ JoinedOK /\ CallOK
  BY <1>2 DEF StaysOK, Blank, MadeOK, JoinedOK, CallOK
<1>4. TurnsOK
  BY <1>2 DEF TurnsOK, Participants
<1>5. NumbersOK
  <2>1. [i \in DOMAIN toServer |-> 0] \in [DOMAIN toServer -> 0 .. calls] /\ DOMAIN toServer = {}
    BY <1>2
  <2>2. Numbers([i \in DOMAIN toServer |-> 0])
    BY <2>1 DEF Numbers
  <2>3. QED
    BY <2>1, <2>2 DEF NumbersOK
<1>6. RoundsOK
  BY <1>1, <1>2, <1>3, Fresh DEF Unmade, RoundsOK
<1>7. NoStall
  BY <1>2 DEF NoStall
<1>8. QED
  BY <1>1, <1>3, <1>4, <1>5, <1>6, <1>7 DEF Rounds, NegotiationInv

LEMMA RoundsInductive == Rounds /\ [NegotiationNext]_negotiationVars => Rounds'
<1>1. ASSUME Rounds, NegotiationNext PROVE Rounds'
  <2>1. NegotiationTypeOK /\ StaysOK /\ MadeOK /\ TurnsOK /\ NumbersOK /\ JoinedOK /\ CallOK /\ RoundsOK /\ NoStall
    BY <1>1 DEF Rounds, NegotiationInv
  <2>2. NegotiationTypeOK' /\ StaysOK' /\ MadeOK' /\ TurnsOK'
    BY <1>1, <2>1, NegotiationTypeStep, StaysStep, MadeStep, TurnsStep
  <2>3. NumbersOK' /\ JoinedOK' /\ CallOK' /\ NoStall'
    BY <1>1, <2>1, NumbersStep, JoinedStep, CallStep, StallStep
  <2>4. RoundsOK'
    BY <1>1, <2>1, <2>2, RoundsStep
  <2>5. QED
    BY <2>2, <2>3, <2>4 DEF Rounds, NegotiationInv
<1>2. ASSUME Rounds, UNCHANGED negotiationVars PROVE Rounds'
  <2>1. UNCHANGED <<stay, want, agreed, offered, sig, asked, inFlight, pending, at, draft, joining, toClient, toServer,
                    calls, inCall, pc, pcs, buffered, applied, replies, lost, mixed>>
    BY <1>2 DEF negotiationVars, server, client, conn, nego
  <2>2. NegotiationTypeOK'
    BY <1>2, <2>1 DEF Rounds, NegotiationInv, NegotiationTypeOK, ServerTypeOK, ClientTypeOK
  <2>3. StaysOK' /\ MadeOK'
    BY <1>2, <2>1 DEF Rounds, NegotiationInv, StaysOK, Blank, MadeOK
  <2>4. TurnsOK'
    BY <1>2, <2>1 DEF Rounds, NegotiationInv, TurnsOK, Participants
  <2>5. NumbersOK'
    BY <1>2, <2>1 DEF Rounds, NegotiationInv, NumbersOK, Numbers
  <2>6. JoinedOK' /\ CallOK'
    BY <1>2, <2>1 DEF Rounds, NegotiationInv, JoinedOK, JoinedAt, CallOK
  <2>7. RoundsOK'
    BY <1>2, <2>1 DEF Rounds, RoundsOK, RoundOK, Alike, Somewhere, Works, OfferAt, AnswerAt, Busy, GoesOut, Waits, InHand, ComesIn
  <2>8. NoStall'
    BY <1>2, <2>1 DEF Rounds, NoStall, UnderWay, Places
  <2>9. QED
    BY <2>2, <2>3, <2>4, <2>5, <2>6, <2>7, <2>8 DEF Rounds, NegotiationInv
<1>3. QED
  BY <1>1, <1>2

LEMMA RoundsKept == NegotiationSpec => []Rounds
<1>1. QED
  BY RoundsInit, RoundsInductive, PTL DEF NegotiationSpec

\* Every variable of the negotiation keeps its type, and no message names a participant that
\* cannot exist.
THEOREM NegotiationTypeCorrect == NegotiationSpec => []NegotiationTypeOK
<1>1. Rounds => NegotiationTypeOK
  BY DEF Rounds, NegotiationInv
<1>2. QED
  BY <1>1, RoundsKept, PTL

\* At most one offer of a participant is outstanding in the first stay, and one that is
\* waited for can still be answered (negoInFlight, negoPending), however often the user joins,
\* the tracks change and messages are lost.
THEOREM RoundsCorrect == NegotiationSpec => []RoundsTakeTurns
<1>1. Rounds => RoundsTakeTurns
  BY OnePlace DEF Rounds, RoundsOK, RoundsTakeTurns, OneOffer
<1>2. QED
  BY <1>1, RoundsKept, PTL
-----------------------------------------------------------------------------
(* The order of the versions *)

\* pion's request is in one pair of hands.
LEMMA BatonStep ==
  ASSUME NegotiationTypeOK, BatonOK, NegotiationNext
  PROVE  BatonOK'
<1>0. /\ at \in [Gen -> [Goroutine -> Stage]] /\ asked \in [Gen -> BOOLEAN] /\ pending \in [Gen -> BOOLEAN]
      /\ sig \in [Gen -> {"stable", "offer"}]
  BY DEF NegotiationTypeOK, ServerTypeOK
<1>1. SUFFICES ASSUME NEW g \in Gen PROVE BatonAt(g)'
  BY DEF BatonOK
<1>2. BatonAt(g)
  BY DEF BatonOK
<1>3. ASSUME Same(g) PROVE BatonAt(g)'
  BY <1>2, <1>3 DEF BatonAt, Holds, Same
<1>4. CASE Acting(g)
  <2>1. CASE Change(g)
    BY <1>2, <2>1 DEF Change, nego, BatonAt, Holds
  <2>2. CASE NegotiationNeeded(g)
    <3>1. \A t \in Goroutine : ~Holds(g, t)
      BY <1>2, <2>2 DEF NegotiationNeeded, BatonAt
    <3>2. ~pending[g] /\ sig[g] = "stable" /\ UNCHANGED <<pending, sig>> /\ asked'[g]
      BY <1>0, <1>2, <2>2 DEF NegotiationNeeded, BatonAt
    <3>3. \A t \in Goroutine : Holds(g, t)' => t = "pion"
      BY <1>0, <2>2, <3>1 DEF NegotiationNeeded, Holds, Goroutine
    <3>4. QED
      BY <3>2, <3>3 DEF BatonAt
  <2>3. ASSUME NEW t \in Goroutine, Request(g, t) PROVE BatonAt(g)'
    <3>1. Holds(g, t) /\ UNCHANGED <<asked, sig>>
      BY <2>3 DEF Request, Holds, conn
    <3>2. asked[g] /\ ~pending[g] /\ sig[g] = "stable" /\ \A u \in Goroutine : Holds(g, u) => u = t
      BY <1>2, <3>1 DEF BatonAt
    <3>3. CASE inFlight[g]
      <4>1. \A u \in Goroutine : ~Holds(g, u)'
        BY <1>0, <2>3, <3>2, <3>3 DEF Request, Holds
      <4>2. QED
        BY <3>1, <3>2, <4>1 DEF BatonAt
    <3>4. CASE ~inFlight[g]
      <4>1. UNCHANGED pending /\ \A u \in Goroutine : Holds(g, u)' => u = t
        BY <1>0, <2>3, <3>2, <3>4 DEF Request, Holds
      <4>2. QED
        BY <3>1, <3>2, <4>1 DEF BatonAt
    <3>5. QED
      BY <3>3, <3>4
  <2>4. ASSUME NEW t \in Goroutine, CreateOffer(g, t) PROVE BatonAt(g)'
    <3>1. Holds(g, t) /\ UNCHANGED <<asked, sig, pending>>
      BY <2>4 DEF CreateOffer, Holds, conn
    <3>2. \A u \in Goroutine : Holds(g, u)' => Holds(g, u)
      BY <1>0, <2>4, <3>1 DEF CreateOffer, Holds
    <3>3. QED
      BY <1>2, <3>1, <3>2 DEF BatonAt
  <2>5. ASSUME NEW t \in Goroutine, SetLocalDescription(g, t) PROVE BatonAt(g)'
    <3>1. Holds(g, t) /\ UNCHANGED <<asked, pending>>
      BY <2>5 DEF SetLocalDescription, Holds
    <3>2. asked[g] /\ ~pending[g] /\ \A u \in Goroutine : Holds(g, u) => u = t
      BY <1>2, <3>1 DEF BatonAt
    <3>3. \A u \in Goroutine : ~Holds(g, u)'
      BY <1>0, <2>5, <3>2 DEF SetLocalDescription, Holds
    <3>4. QED
      BY <3>1, <3>2, <3>3 DEF BatonAt
  <2>6. ASSUME NEW t \in Goroutine, SendSubscribeOffer(g, t) PROVE BatonAt(g)'
    <3>1. UNCHANGED <<asked, sig, pending>>
      BY <2>6 DEF SendSubscribeOffer, conn
    <3>2. \A u \in Goroutine : Holds(g, u)' => Holds(g, u)
      BY <1>0, <2>6 DEF SendSubscribeOffer, Holds
    <3>3. QED
      BY <1>2, <3>1, <3>2 DEF BatonAt
  <2>7. ASSUME NEW t \in Goroutine, ClearNegoInFlight(g, t) PROVE BatonAt(g)'
    <3>1. UNCHANGED <<asked, sig>> /\ pending'[g] = FALSE
      BY <1>0, <2>7 DEF ClearNegoInFlight, conn
    <3>2. CASE pending[g]
      <4>1. asked[g] /\ sig[g] = "stable" /\ \A u \in Goroutine : ~Holds(g, u)
        BY <1>2, <3>2 DEF BatonAt
      <4>2. \A u \in Goroutine : Holds(g, u)' => u = t
        BY <1>0, <2>7, <4>1 DEF ClearNegoInFlight, Holds
      <4>3. QED
        BY <3>1, <4>1, <4>2 DEF BatonAt
    <3>3. CASE ~pending[g]
      <4>1. \A u \in Goroutine : Holds(g, u)' => Holds(g, u)
        BY <1>0, <2>7, <3>3 DEF ClearNegoInFlight, Holds
      <4>2. QED
        BY <1>2, <3>1, <3>3, <4>1 DEF BatonAt
    <3>4. QED
      BY <3>2, <3>3
  <2>8. QED
    BY <1>4, <2>1, <2>2, <2>3, <2>4, <2>5, <2>6, <2>7 DEF Acting, Offering
<1>5. ASSUME NEW h \in Gen, Acting(h) PROVE BatonAt(g)'
  BY <1>3, <1>4, <1>5, Alone
<1>6. CASE OnSubscribeAnswer
  <2>1. UNCHANGED <<want, offered, inFlight, pending, draft>>
    BY <1>6, AnswerAlone
  <2>2. CASE UNCHANGED <<sig, agreed, asked, at>>
    BY <1>3, <2>1, <2>2 DEF Same
  <2>3. ASSUME NEW ok \in BOOLEAN, Answered(g, ok), ok => sig[g] = "offer" PROVE BatonAt(g)'
    <3>1. \A u \in Goroutine : Holds(g, u)' => Holds(g, u)
      BY <1>0, <2>3 DEF Answered, Holds
    <3>2. CASE ok
      <4>1. ~pending[g] /\ \A u \in Goroutine : ~Holds(g, u)
        BY <1>2, <2>3, <3>2 DEF BatonAt
      <4>2. sig'[g] = "stable"
        BY <1>0, <2>3, <3>2 DEF Answered
      <4>3. QED
        BY <2>1, <3>1, <4>1, <4>2 DEF BatonAt
    <3>3. CASE ~ok
      <4>1. UNCHANGED <<sig, asked>>
        BY <2>3, <3>3 DEF Answered
      <4>2. QED
        BY <1>2, <2>1, <3>1, <4>1 DEF BatonAt
    <3>4. QED
      BY <3>2, <3>3
  <2>4. QED
    BY <1>3, <1>6, <2>2, <2>3, AnswerAlone
<1>7. CASE UNCHANGED <<conn, nego>>
  BY <1>3, <1>7 DEF conn, nego, Same
<1>8. QED
  BY <1>5, <1>6, <1>7 DEF NegotiationNext, Acting, Reading, HandleJoin, HandleLeave, AnswerJoin, ClientJoin, ClientLeave,
     Receiving, Ignore, HandleCallJoined, HandleSubscribeOffer, Replying, Reply, GiveUp, server

\* An offer describes the tracks of the moment it is made.
LEMMA MadeInOrderStep ==
  ASSUME NegotiationTypeOK, BatonOK, NegotiationNext, NEW g \in Gen, MadeInOrder(g)
  PROVE  MadeInOrder(g)' /\ offered[g] <= offered'[g]
<1>0. /\ at \in [Gen -> [Goroutine -> Stage]] /\ want \in [Gen -> Nat] /\ offered \in [Gen -> Nat]
      /\ draft \in [Gen -> [Goroutine -> Nat]]
  <2>1. Version \subseteq Nat
    BY DEF Version
  <2>2. /\ want \in [Gen -> Version] /\ offered \in [Gen -> Version] /\ at \in [Gen -> [Goroutine -> Stage]]
        /\ draft \in [Gen -> [Goroutine -> Version]]
    BY DEF NegotiationTypeOK, ServerTypeOK
  <2>3. want \in [Gen -> Nat] /\ offered \in [Gen -> Nat]
    BY <2>1, <2>2
  <2>4. draft \in [Gen -> [Goroutine -> Nat]]
    BY <2>1, <2>2
  <2>5. QED
    BY <2>2, <2>3, <2>4
<1>1. want[g] \in Nat /\ offered[g] \in Nat /\ \A t \in Goroutine : draft[g][t] \in Nat
  BY <1>0
<1>2. ASSUME want'[g] = want[g], offered'[g] = offered[g], draft'[g] = draft[g],
             \A t \in Goroutine : at'[g][t] = "set" => at[g][t] = "set"
      PROVE  MadeInOrder(g)' /\ offered[g] <= offered'[g]
  BY <1>1, <1>2 DEF MadeInOrder
<1>3. ASSUME Same(g) PROVE MadeInOrder(g)' /\ offered[g] <= offered'[g]
  BY <1>2, <1>3 DEF Same
<1>4. CASE Acting(g)
  <2>1. CASE Change(g)
    <3>1. want'[g] = want[g] + 1 /\ UNCHANGED <<offered, at, draft>>
      BY <1>0, <2>1 DEF Change, nego
    <3>2. QED
      BY <1>1, <3>1 DEF MadeInOrder
  <2>2. CASE NegotiationNeeded(g)
    <3>1. UNCHANGED <<want, offered, draft>> /\ \A t \in Goroutine : at'[g][t] = "set" => at[g][t] = "set"
      BY <1>0, <2>2 DEF NegotiationNeeded
    <3>2. QED
      BY <1>2, <3>1
  <2>3. ASSUME NEW t \in Goroutine, Request(g, t) \/ SendSubscribeOffer(g, t) \/ ClearNegoInFlight(g, t)
        PROVE MadeInOrder(g)' /\ offered[g] <= offered'[g]
    <3>1. UNCHANGED <<want, offered, draft>> /\ \A u \in Goroutine : at'[g][u] = "set" => at[g][u] = "set"
      BY <1>0, <2>3 DEF Request, SendSubscribeOffer, ClearNegoInFlight, conn
    <3>2. QED
      BY <1>2, <3>1
  <2>4. ASSUME NEW t \in Goroutine, CreateOffer(g, t) PROVE MadeInOrder(g)' /\ offered[g] <= offered'[g]
    <3>1. UNCHANGED <<want, offered>> /\ \A u \in Goroutine \ {t} : at'[g][u] = at[g][u] /\ draft'[g][u] = draft[g][u]
      BY <1>0, <2>4 DEF CreateOffer, conn
    <3>2. at'[g][t] = "set" => draft'[g][t] = want[g]
      BY <1>0, <2>4 DEF CreateOffer
    <3>3. QED
      BY <1>1, <3>1, <3>2 DEF MadeInOrder
  <2>5. ASSUME NEW t \in Goroutine, SetLocalDescription(g, t) PROVE MadeInOrder(g)' /\ offered[g] <= offered'[g]
    <3>1. UNCHANGED <<want, draft>> /\ at[g][t] = "set"
      BY <2>5 DEF SetLocalDescription
    <3>2. \A u \in Goroutine : at'[g][u] # "set"
      <4>1. \A u \in Goroutine : Holds(g, u) => u = t
        BY <3>1 DEF BatonOK, BatonAt, Holds
      <4>2. at' = [at EXCEPT ![g][t] = "clear"] \/ at' = [at EXCEPT ![g][t] = "send"]
        BY <2>5 DEF SetLocalDescription
      <4>3. \A u \in Goroutine \ {t} : at'[g][u] = at[g][u]
        BY <1>0, <4>2
      <4>4. at'[g][t] # "set"
        BY <1>0, <4>2
      <4>5. QED
        BY <4>1, <4>3, <4>4 DEF Holds
    <3>3. offered'[g] = offered[g] \/ offered'[g] = draft[g][t]
      BY <1>0, <2>5 DEF SetLocalDescription
    <3>4. QED
      BY <1>1, <3>1, <3>2, <3>3 DEF MadeInOrder
  <2>6. QED
    BY <1>4, <2>1, <2>2, <2>3, <2>4, <2>5 DEF Acting, Offering
<1>5. ASSUME NEW h \in Gen, Acting(h) PROVE MadeInOrder(g)' /\ offered[g] <= offered'[g]
  BY <1>3, <1>4, <1>5, Alone
<1>6. CASE OnSubscribeAnswer
  <2>1. UNCHANGED <<want, offered, draft>>
    BY <1>6, AnswerAlone
  <2>2. \A t \in Goroutine : at'[g][t] = "set" => at[g][t] = "set"
    BY <1>0, <1>6, AnswerAlone DEF Answered, Participants
  <2>3. QED
    BY <1>2, <2>1, <2>2
<1>7. CASE UNCHANGED <<conn, nego>>
  BY <1>3, <1>7 DEF conn, nego, Same
<1>8. QED
  BY <1>5, <1>6, <1>7 DEF NegotiationNext, Acting, Reading, HandleJoin, HandleLeave, AnswerJoin, ClientJoin, ClientLeave,
     Receiving, Ignore, HandleCallJoined, HandleSubscribeOffer, Replying, Reply, GiveUp, server
\* What the queue to the client and the client are given.
LEMMA QueueMoves ==
  ASSUME NegotiationTypeOK, NegotiationNext
  PROVE  \/ /\ toClient' = toClient
            /\ buffered' \in {buffered, NoSdp} /\ applied' \in {applied, NoSdp}
         \/ /\ UNCHANGED <<buffered, applied>>
            /\ \E m \in ToClient : Grown(m) /\ (m.type = "offer" => m = Offer(m.gen, offered[m.gen]) /\ offered' = offered)
         \/ /\ Shrunk
            /\ {buffered', applied'} \subseteq {buffered, applied, NoSdp, SdpOf(toClient[1])}
            /\ toClient[1].type # "offer" => {buffered', applied'} \subseteq {buffered, applied, NoSdp}
<1>1. ASSUME NEW g \in Gen, Acting(g)
      PROVE  /\ UNCHANGED <<buffered, applied>>
             /\ \/ toClient' = toClient
                \/ \E m \in ToClient : Grown(m) /\ m = Offer(m.gen, offered[m.gen]) /\ offered' = offered
  <2>1. Offer(g, offered[g]) \in ToClient /\ Offer(g, offered[g]).gen = g
    BY DEF Offer, ToClient, NegotiationTypeOK, ServerTypeOK
  <2>2. QED
    BY <1>1, <2>1, Sends, Alone DEF conn, client
<1>2. CASE AnswerJoin
  <2>1. Joined(joining) \in ToClient /\ Joined(joining).type # "offer"
    BY <1>2, ClientHas DEF Joined, ToClient, AnswerJoin
  <2>2. QED
    BY <1>2, <2>1, Sent DEF AnswerJoin, client
<1>3. CASE Receiving
  <2>1. Shrunk
    BY <1>3, Received DEF Receiving, Ignore, HandleCallJoined, HandleSubscribeOffer, Receives
  <2>2. QED
    BY <1>3, <2>1 DEF Receiving, Ignore, HandleCallJoined, HandleSubscribeOffer, Receives, Apply, client, Shrunk
<1>4. CASE HandleJoin \/ HandleLeave \/ OnSubscribeAnswer
  BY <1>4 DEF HandleJoin, HandleLeave, OnSubscribeAnswer, client
<1>5. CASE ClientJoin \/ ClientLeave \/ Replying
  BY <1>5 DEF ClientJoin, ClientLeave, Replying, Reply, GiveUp
<1>6. QED
  BY <1>1, <1>2, <1>3, <1>4, <1>5 DEF NegotiationNext, Acting, Reading

LEMMA OrderStep ==
  ASSUME NegotiationTypeOK, BatonOK, OrderOK, NegotiationNext
  PROVE  OrderOK'
<1>1. SUFFICES ASSUME NEW g \in Gen
               PROVE  MadeInOrder(g)' /\ SentInOrder(g)' /\ Passed(buffered, g)' /\ Passed(applied, g)'
  BY DEF OrderOK
<1>2. MadeInOrder(g) /\ SentInOrder(g) /\ Passed(buffered, g) /\ Passed(applied, g)
  BY DEF OrderOK
<1>3. MadeInOrder(g)' /\ offered[g] <= offered'[g]
  BY <1>2, MadeInOrderStep
<1>4. offered[g] \in Nat /\ \A i \in DOMAIN toClient : toClient[i].ver \in Nat
  BY DEF NegotiationTypeOK, ServerTypeOK, ToClient, Version
<1>5. /\ offered'[g] \in Nat /\ buffered.ver \in Nat /\ applied.ver \in Nat
  <2>1. NegotiationTypeOK'
    BY NegotiationTypeStep
  <2>2. offered' \in [Gen -> Version]
    BY <2>1 DEF NegotiationTypeOK, ServerTypeOK
  <2>3. buffered \in Sdp \cup {NoSdp} /\ applied \in Sdp \cup {NoSdp}
    BY DEF NegotiationTypeOK, ClientTypeOK
  <2>4. QED
    BY <2>2, <2>3 DEF Version, Sdp, NoSdp
<1>6. NoSdp.gen # g
  BY DEF NoSdp, Gen
<1>7. CASE toClient' = toClient /\ buffered' \in {buffered, NoSdp} /\ applied' \in {applied, NoSdp}
  <2>1. SentInOrder(g)'
    BY <1>2, <1>3, <1>4, <1>5, <1>7 DEF SentInOrder, OfferAt
  <2>2. ASSUME NEW s, s.ver \in Nat, Passed(s, g), NEW r, r \in {s, NoSdp}
        PROVE  r.gen = g => r.ver <= offered'[g] /\ \A i \in DOMAIN toClient' : OfferAt(i, g)' => r.ver <= toClient'[i].ver
    BY <1>3, <1>4, <1>5, <1>6, <1>7, <2>2 DEF Passed, OfferAt
  <2>3. Passed(buffered, g)'
    BY <1>2, <1>5, <1>7, <2>2 DEF Passed
  <2>4. Passed(applied, g)'
    BY <1>2, <1>5, <1>7, <2>2 DEF Passed
  <2>5. QED
    BY <1>3, <2>1, <2>3, <2>4
<1>8. ASSUME UNCHANGED <<buffered, applied>>, NEW m \in ToClient, Grown(m),
             m.type = "offer" => m = Offer(m.gen, offered[m.gen]) /\ offered' = offered
      PROVE  SentInOrder(g)' /\ Passed(buffered, g)' /\ Passed(applied, g)'
  <2>1. \A i \in DOMAIN toClient' :
          /\ OfferAt(i, g)' => \/ i \in DOMAIN toClient /\ OfferAt(i, g) /\ toClient'[i] = toClient[i]
                               \/ i = Len(toClient) + 1 /\ toClient'[i].ver = offered[g] /\ offered'[g] = offered[g]
    BY <1>8 DEF Grown, OfferAt, Offer
  <2>2. DOMAIN toClient = 1 .. Len(toClient) /\ Len(toClient) \in Nat /\ DOMAIN toClient' = 1 .. Len(toClient) + 1
    BY <1>8 DEF Grown
  <2>3. \A i \in DOMAIN toClient' : OfferAt(i, g)' => toClient'[i].ver <= offered'[g]
    BY <1>2, <1>3, <1>4, <1>5, <2>1 DEF SentInOrder
  <2>4. ASSUME NEW i \in DOMAIN toClient', NEW j \in DOMAIN toClient', i < j, OfferAt(i, g)', OfferAt(j, g)'
        PROVE  toClient'[i].ver <= toClient'[j].ver
    <3>1. i \in DOMAIN toClient /\ OfferAt(i, g) /\ toClient'[i] = toClient[i]
      BY <2>1, <2>2, <2>4
    <3>2. CASE j \in DOMAIN toClient /\ OfferAt(j, g) /\ toClient'[j] = toClient[j]
      BY <1>2, <2>4, <3>1, <3>2 DEF SentInOrder
    <3>3. CASE toClient'[j].ver = offered[g]
      BY <1>2, <3>1, <3>3 DEF SentInOrder
    <3>4. QED
      BY <2>1, <2>4, <3>2, <3>3
  <2>5. ASSUME NEW s, s.ver \in Nat, Passed(s, g)
        PROVE  s.gen = g => s.ver <= offered'[g] /\ \A i \in DOMAIN toClient' : OfferAt(i, g)' => s.ver <= toClient'[i].ver
    BY <1>3, <1>4, <1>5, <2>1, <2>5 DEF Passed
  <2>6. QED
    BY <1>2, <1>5, <1>8, <2>3, <2>4, <2>5 DEF SentInOrder, Passed
<1>9. CASE /\ Shrunk
           /\ {buffered', applied'} \subseteq {buffered, applied, NoSdp, SdpOf(toClient[1])}
           /\ toClient[1].type # "offer" => {buffered', applied'} \subseteq {buffered, applied, NoSdp}
  <2>1. \A i \in DOMAIN toClient' : OfferAt(i, g)' => /\ i \in Nat \ {0} /\ i + 1 \in DOMAIN toClient /\ OfferAt(i + 1, g)
                                                      /\ toClient'[i] = toClient[i + 1]
    BY <1>9 DEF Shrunk, OfferAt
  <2>2. \A i \in DOMAIN toClient' : OfferAt(i, g)' => toClient'[i].ver <= offered'[g]
    BY <1>2, <1>3, <1>4, <1>5, <2>1 DEF SentInOrder
  <2>3. ASSUME NEW i \in DOMAIN toClient', NEW j \in DOMAIN toClient', i < j, OfferAt(i, g)', OfferAt(j, g)'
        PROVE  toClient'[i].ver <= toClient'[j].ver
    <3>1. i + 1 < j + 1
      BY <2>1, <2>3
    <3>2. QED
      BY <1>2, <2>1, <2>3, <3>1 DEF SentInOrder
  <2>4. ASSUME NEW s, s.ver \in Nat, Passed(s, g)
        PROVE  s.gen = g => s.ver <= offered'[g] /\ \A i \in DOMAIN toClient' : OfferAt(i, g)' => s.ver <= toClient'[i].ver
    BY <1>3, <1>4, <1>5, <2>1, <2>4 DEF Passed
  <2>5. 1 \in DOMAIN toClient /\ SdpOf(toClient[1]).ver = toClient[1].ver /\ SdpOf(toClient[1]).gen = toClient[1].gen
    BY <1>9 DEF Shrunk, SdpOf
  <2>6. ASSUME OfferAt(1, g) PROVE Passed(SdpOf(toClient[1]), g)
    <3>1. toClient[1].ver <= offered[g]
      BY <1>2, <2>5, <2>6 DEF SentInOrder
    <3>2. \A i \in DOMAIN toClient : OfferAt(i, g) => toClient[1].ver <= toClient[i].ver
      <4>1. \A i \in DOMAIN toClient : i = 1 \/ 1 < i
        BY <1>9 DEF Shrunk
      <4>2. QED
        BY <1>2, <1>4, <2>5, <2>6, <4>1 DEF SentInOrder
    <3>3. QED
      BY <2>5, <3>1, <3>2 DEF Passed
  <2>7. ASSUME NEW r \in {buffered', applied'}
        PROVE  r.gen = g => r.ver <= offered'[g] /\ \A i \in DOMAIN toClient' : OfferAt(i, g)' => r.ver <= toClient'[i].ver
    <3>1. CASE r \in {buffered, applied}
      BY <1>2, <1>5, <2>4, <3>1
    <3>2. CASE r = NoSdp
      BY <1>6, <3>2
    <3>3. CASE r = SdpOf(toClient[1]) /\ toClient[1].type = "offer" /\ r.gen = g
      <4>1. Passed(r, g) /\ r.ver \in Nat
        BY <1>4, <2>5, <2>6, <3>3 DEF OfferAt
      <4>2. QED
        BY <2>4, <4>1
    <3>4. QED
      BY <1>9, <2>7, <3>1, <3>2, <3>3
  <2>8. QED
    BY <1>3, <2>2, <2>3, <2>7 DEF SentInOrder, Passed
<1>10. QED
  BY <1>3, <1>7, <1>8, <1>9, QueueMoves
-----------------------------------------------------------------------------
(* What the client has follows what the server wants it to have: the safety *)
(* of TrackMirror.                                                          *)

Following == Rounds /\ BatonOK /\ OrderOK

LEMMA FollowingInit == NegotiationInit => Following
<1> SUFFICES ASSUME NegotiationInit PROVE Following
  OBVIOUS
<1>1. /\ toClient = <<>> /\ buffered = NoSdp /\ applied = NoSdp
      /\ \A g \in Gen : /\ want[g] = 0 /\ offered[g] = 0 /\ ~pending[g] /\ sig[g] = "stable"
                        /\ \A t \in Goroutine : at[g][t] = "idle"
  BY DEF NegotiationInit
<1>2. BatonOK
  BY <1>1 DEF BatonOK, BatonAt, Holds
<1>3. \A g \in Gen : MadeInOrder(g)
  BY <1>1 DEF MadeInOrder
<1>4. \A g \in Gen : SentInOrder(g) /\ Passed(NoSdp, g)
  BY <1>1 DEF SentInOrder, Passed, NoSdp, Gen
<1>5. QED
  BY <1>1, <1>2, <1>3, <1>4, RoundsInit DEF Following, OrderOK

LEMMA FollowingInductive == Following /\ [NegotiationNext]_negotiationVars => Following'
<1>1. ASSUME Following, NegotiationNext PROVE BatonOK' /\ OrderOK'
  <2>1. NegotiationTypeOK /\ BatonOK /\ OrderOK
    BY <1>1 DEF Following, Rounds, NegotiationInv
  <2>2. QED
    BY <1>1, <2>1, BatonStep, OrderStep
<1>2. ASSUME Following, UNCHANGED negotiationVars PROVE BatonOK' /\ OrderOK'
  <2>1. UNCHANGED <<want, asked, sig, pending, at, draft, offered, toClient, buffered, applied>>
    BY <1>2 DEF negotiationVars, server, client, conn, nego
  <2>2. BatonOK'
    BY <1>2, <2>1 DEF Following, BatonOK, BatonAt, Holds
  <2>3. OrderOK'
    BY <1>2, <2>1 DEF Following, OrderOK, MadeInOrder, SentInOrder, Passed, OfferAt
  <2>4. QED
    BY <2>2, <2>3
<1>3. QED
  BY <1>1, <1>2, RoundsInductive DEF Following

\* In a stay where nothing was lost or mixed up, the version the client has goes up, and
\* only to what the server wants.
LEMMA ViewGoesUp ==
  ASSUME Following, Following', NegotiationNext, Undisturbed, Undisturbed'
  PROVE  /\ calls' = calls /\ want[calls] \in Nat /\ applied.ver \in Nat /\ applied'.ver \in Nat
         /\ applied'.ver <= want'[calls]
         /\ \/ want'[calls] = want[calls] + 1 /\ applied' = applied
            \/ want'[calls] = want[calls] /\ applied.ver <= applied'.ver
<1>1. /\ NegotiationTypeOK /\ NegotiationTypeOK' /\ StaysOK /\ CallOK /\ CallOK' /\ OrderOK /\ OrderOK'
      /\ inCall /\ ~mixed /\ inCall' /\ ~mixed'
  BY DEF Following, Rounds, NegotiationInv, Undisturbed
<1>2. calls \in Gen
  BY <1>1, ClientHas DEF CallOK, Gen
<1>3. calls' = calls
  BY <1>1, Alone DEF NegotiationNext, Acting, Reading, HandleJoin, HandleLeave, OnSubscribeAnswer, AnswerJoin, ClientJoin,
     ClientLeave, Receiving, Ignore, HandleCallJoined, HandleSubscribeOffer, Replying, Reply, GiveUp, client
<1>4. want \in [Gen -> Nat] /\ want' \in [Gen -> Nat] /\ offered' \in [Gen -> Nat]
  <2>1. Version \subseteq Nat
    BY DEF Version
  <2>2. QED
    BY <1>1, <2>1 DEF NegotiationTypeOK, ServerTypeOK
<1>5. applied.ver \in Nat /\ applied'.ver \in Nat
  <2>1. applied \in Sdp \cup {NoSdp} /\ applied' \in Sdp \cup {NoSdp}
    BY <1>1 DEF NegotiationTypeOK, ClientTypeOK
  <2>2. QED
    BY <2>1 DEF Sdp, NoSdp, Version
<1>6. applied'.ver <= want'[calls]
  <2>1. CASE applied' = NoSdp
    BY <1>2, <1>4, <2>1 DEF NoSdp
  <2>2. CASE applied' # NoSdp
    <3>1. applied'.gen = calls
      BY <1>1, <1>3, <2>2 DEF CallOK
    <3>2. applied'.ver <= offered'[calls] /\ offered'[calls] <= want'[calls]
      BY <1>1, <1>2, <3>1 DEF OrderOK, Passed, MadeInOrder
    <3>3. QED
      BY <1>2, <1>4, <1>5, <3>2
  <2>3. QED
    BY <2>1, <2>2
<1>7. ASSUME NEW g \in Gen, Acting(g)
      PROVE  applied' = applied /\ (want'[calls] = want[calls] \/ want'[calls] = want[calls] + 1)
  <2>1. applied' = applied
    BY <1>1, <1>7, Alone DEF client
  <2>2. want'[calls] = want[calls] \/ want'[calls] = want[calls] + 1
    BY <1>2, <1>4, <1>7 DEF Acting, Change, NegotiationNeeded, Offering, Request, CreateOffer, SetLocalDescription,
       SendSubscribeOffer, ClearNegoInFlight, conn
  <2>3. QED
    BY <2>1, <2>2
<1>8. CASE HandleCallJoined
  <2>1. /\ toClient[1].type = "joined" /\ toClient[1].gen = calls /\ 1 \in DOMAIN toClient /\ want' = want
    BY <1>1, <1>8, Received DEF HandleCallJoined, Receives, Mixed, Shrunk, server, conn
  <2>2. pc = 0
    BY <1>1, <2>1 DEF CallOK, JoinedAt
  <2>3. applied = NoSdp
    BY <1>1, <2>2 DEF CallOK
  <2>4. applied.ver <= applied'.ver
    BY <1>5, <2>3 DEF NoSdp
  <2>5. QED
    BY <1>2, <1>3, <1>4, <1>5, <1>6, <2>1, <2>4
<1>9. CASE HandleSubscribeOffer
  <2>1. /\ toClient[1].type = "offer" /\ toClient[1].gen = calls /\ 1 \in DOMAIN toClient /\ want' = want
        /\ applied' = applied \/ applied' = SdpOf(toClient[1])
    BY <1>1, <1>9, Received DEF HandleSubscribeOffer, Receives, Apply, Mixed, Shrunk, server, conn
  <2>2. applied.ver <= applied'.ver
    <3>1. CASE applied = NoSdp
      BY <1>5, <3>1 DEF NoSdp
    <3>2. CASE applied' = applied
      BY <1>5, <3>2
    <3>3. CASE applied # NoSdp /\ applied' = SdpOf(toClient[1])
      <4>1. applied.gen = calls
        BY <1>1, <3>3 DEF CallOK
      <4>2. applied.ver <= toClient[1].ver
        BY <1>1, <1>2, <2>1, <4>1 DEF OrderOK, Passed, OfferAt
      <4>3. QED
        BY <3>3, <4>2 DEF SdpOf
    <3>4. QED
      BY <2>1, <3>1, <3>2, <3>3
  <2>3. QED
    BY <1>2, <1>3, <1>4, <1>5, <1>6, <2>1, <2>2
<1>10. CASE HandleJoin \/ HandleLeave \/ AnswerJoin \/ OnSubscribeAnswer \/ Replying
  <2>1. UNCHANGED <<want, applied>>
    BY <1>10 DEF HandleJoin, HandleLeave, AnswerJoin, OnSubscribeAnswer, Replying, Reply, GiveUp, server, client, conn
  <2>2. QED
    BY <1>2, <1>3, <1>4, <1>5, <1>6, <2>1
<1>11. ~ClientJoin /\ ~ClientLeave /\ ~Ignore
  BY <1>1 DEF ClientJoin, ClientLeave, Ignore
<1>12. QED
  BY <1>2, <1>3, <1>4, <1>5, <1>6, <1>7, <1>8, <1>9, <1>10, <1>11 DEF NegotiationNext, Acting, Reading, Receiving

\* A stay begins with nothing wanted and nothing there.
LEMMA StayBegins ==
  ASSUME Following, NegotiationNext, ~Undisturbed, Undisturbed'
  PROVE  want'[calls'] = 0 /\ applied'.ver = 0
<1>1. NegotiationTypeOK /\ StaysOK /\ CallOK
  BY DEF Following, Rounds, NegotiationInv
<1>2. lost = 0 /\ ~mixed
  <2>1. lost' = 0 /\ ~mixed'
    BY DEF Undisturbed
  <2>2. lost' = lost \/ lost' = lost + 1
    <3>1. ASSUME NEW g \in Gen, Acting(g) PROVE lost' = lost \/ lost' = lost + 1
      BY <1>1, <3>1, Sends
    <3>2. CASE AnswerJoin
      BY <3>2 DEF AnswerJoin, SendToUser
    <3>3. CASE HandleJoin \/ HandleLeave \/ OnSubscribeAnswer \/ ClientJoin \/ ClientLeave
      BY <3>3 DEF HandleJoin, HandleLeave, OnSubscribeAnswer, ClientJoin, ClientLeave
    <3>4. CASE Receiving \/ Replying
      BY <3>4 DEF Receiving, Ignore, HandleCallJoined, HandleSubscribeOffer, Replying, Reply, GiveUp
    <3>5. QED
      BY <3>1, <3>2, <3>3, <3>4 DEF NegotiationNext, Acting, Reading
  <2>3. mixed => mixed'
    BY <1>1, Alone DEF NegotiationNext, Acting, Reading, HandleJoin, HandleLeave, OnSubscribeAnswer, AnswerJoin, ClientJoin,
       ClientLeave, Receiving, Ignore, HandleCallJoined, HandleSubscribeOffer, Replying, Reply, GiveUp, Mixed
  <2>4. lost \in Nat
    BY <1>1 DEF NegotiationTypeOK
  <2>5. QED
    BY <2>1, <2>2, <2>3, <2>4
<1>3. ~inCall /\ inCall'
  BY <1>2 DEF Undisturbed
<1>4. ClientJoin
  BY <1>1, <1>3, Alone DEF NegotiationNext, Acting, Reading, HandleJoin, HandleLeave, OnSubscribeAnswer, AnswerJoin,
     ClientLeave, Receiving, Ignore, HandleCallJoined, HandleSubscribeOffer, Replying, Reply, GiveUp, client
<1>5. applied' = NoSdp
  BY <1>1, <1>3, <1>4 DEF ClientJoin, CallOK
<1>6. calls + 1 \in Gen /\ calls' = calls + 1 /\ want' = want /\ calls \in Nat
  BY <1>1, <1>4, ClientHas DEF ClientJoin, server, conn, Gen
<1>7. stay[calls + 1] = "none"
  BY <1>1, <1>6 DEF StaysOK
<1>8. want[calls + 1] = 0
  BY <1>1, <1>6, <1>7 DEF StaysOK, Blank
<1>9. QED
  BY <1>5, <1>6, <1>8 DEF NoSdp

LEMMA MirrorStep ==
  ASSUME Following, Following', [NegotiationNext]_negotiationVars
  PROVE  [Mirror!Next]_Mirror!vars
<1>1. CASE UNCHANGED negotiationVars
  BY <1>1 DEF Mirror!vars, Undisturbed, negotiationVars, server, client, conn
<1>2. CASE NegotiationNext
  <2>1. CASE ~Undisturbed /\ ~Undisturbed'
    <3>1. Undisturbed' = Undisturbed
      BY <2>1 DEF Undisturbed
    <3>2. QED
      BY <2>1, <3>1 DEF Mirror!vars
  <2>2. CASE ~Undisturbed /\ Undisturbed'
    BY <1>2, <2>2, StayBegins DEF Mirror!Next, Mirror!Begin
  <2>3. CASE Undisturbed /\ ~Undisturbed'
    BY <2>3 DEF Mirror!Next, Mirror!End
  <2>4. CASE Undisturbed /\ Undisturbed'
    <3>1. /\ calls' = calls /\ want[calls] \in Nat /\ applied.ver \in Nat /\ applied'.ver \in Nat
          /\ applied'.ver <= want'[calls]
          /\ \/ want'[calls] = want[calls] + 1 /\ applied' = applied
             \/ want'[calls] = want[calls] /\ applied.ver <= applied'.ver
      BY <1>2, <2>4, ViewGoesUp
    <3>2. CASE want'[calls] = want[calls] + 1 /\ applied' = applied
      BY <2>4, <3>1, <3>2 DEF Mirror!Next, Mirror!Change
    <3>3. CASE want'[calls] = want[calls] /\ applied'.ver = applied.ver
      BY <2>4, <3>1, <3>3 DEF Mirror!vars
    <3>4. CASE want'[calls] = want[calls] /\ applied.ver < applied'.ver
      <4>1. applied'.ver \in applied.ver + 1 .. want[calls]
        BY <3>1, <3>4
      <4>2. QED
        BY <2>4, <3>1, <3>4, <4>1 DEF Mirror!Next, Mirror!Sync
    <3>5. QED
      BY <3>1, <3>2, <3>3, <3>4
  <2>5. QED
    BY <2>1, <2>2, <2>3, <2>4
<1>3. QED
  BY <1>1, <1>2

LEMMA MirrorInit == NegotiationInit => Mirror!Init
  BY DEF NegotiationInit, Mirror!Init, Undisturbed

\* A negotiated connection is a TrackMirror: the client never goes back to fewer changes than
\* it had and never has tracks the server does not want it to have.
THEOREM MirrorCorrect == NegotiationSpec => Mirror!Spec
<1>1. NegotiationSpec => []Following
  BY FollowingInit, FollowingInductive, PTL DEF NegotiationSpec
<1>2. Following /\ Following' /\ [NegotiationNext]_negotiationVars => [Mirror!Next]_Mirror!vars
  BY MirrorStep
<1>3. QED
  BY <1>1, <1>2, MirrorInit, PTL DEF NegotiationSpec, Mirror!Spec

-----------------------------------------------------------------------------
(* TrackForwarding *)

USE TrackAssumption, PartAssumption, NoneAssumption, ThreadAssumption

LEMMA InitType == Init => TypeOK
  BY DEF Init, TypeOK

LEMMA TypeStep == TypeOK /\ [Next]_vars => TypeOK'
<1> SUFFICES ASSUME TypeOK, [Next]_vars PROVE TypeOK'
  OBVIOUS
<1> USE DEF TypeOK, Thread
<1>1. ASSUME NEW h \in Thread, Wire(h) PROVE TypeOK'
  <2>1. CASE AddSubscriber(h)
    <3>1. half[h] \in Sender
      BY <1>1, <2>1 DEF AddSubscriber
    <3>2. half[h].trk \in Track /\ Who(half[h].sub) \in User
      BY <3>1 DEF Sender
    <3>3. sub' \in [Track -> [User -> Sender \cup {None}]]
      BY <2>1, <3>1, <3>2 DEF AddSubscriber, Noted
    <3>4. half' \in [Thread -> Sender \cup {None}] /\ late' \in SUBSET Track
      BY <2>1, <3>2 DEF AddSubscriber
    <3>5. QED
      BY <2>1, <3>3, <3>4 DEF AddSubscriber, people
  <2>2. ASSUME NEW s \in todo[h], AddTrack(h, s) PROVE TypeOK'
    <3>1. s \in Sender
      BY <1>1
    <3>2. todo' \in [Thread -> SUBSET Sender]
      BY <2>2 DEF AddTrack
    <3>3. wired' \in SUBSET Sender
      BY <2>2, <3>1 DEF AddTrack
    <3>4. half' \in [Thread -> Sender \cup {None}]
      <4>1. half' = half \/ half' = [half EXCEPT ![h] = s]
        BY <2>2 DEF AddTrack
      <4>2. half \in [Thread -> Sender \cup {None}]
        OBVIOUS
      <4>3. QED
        BY <3>1, <4>1, <4>2
    <3>5. QED
      BY <2>2, <3>2, <3>3, <3>4 DEF AddTrack, people
  <2>3. QED
    BY <1>1, <2>1, <2>2 DEF Wire
<1>2. ASSUME NEW p \in Part, Join(p) PROVE TypeOK'
  <2>1. Who(p) \in User /\ InRoom \subseteq Part
    BY DEF InRoom
  <2>2. room' \in [User -> Part \cup {None}] /\ unread' \in [Part -> SUBSET Part]
    BY <1>2, <2>1 DEF Join
  <2>3. life' \in [Part -> {"new", "in", "removed", "leaving", "closed"}]
    BY <1>2 DEF Join
  <2>4. QED
    BY <1>2, <2>2, <2>3 DEF Join
<1>3. ASSUME NEW p \in Part, NEW o \in Part, ReadTracks(p, o) PROVE TypeOK'
  <2>1. {[sub |-> p, trk |-> t, by |-> "join"] : t \in TracksOf(o)} \subseteq Sender
    BY DEF TracksOf, Sender
  <2>2. todo' \in [Thread -> SUBSET Sender]
    BY <1>3, <2>1 DEF ReadTracks
  <2>3. unread' \in [Part -> SUBSET Part]
    BY <1>3 DEF ReadTracks
  <2>4. QED
    BY <1>3, <2>2, <2>3 DEF ReadTracks
<1>4. ASSUME NEW p \in Part, Remove(p) PROVE TypeOK'
  <2>1. Who(p) \in User /\ InRoom \subseteq Part
    BY DEF InRoom
  <2>2. room' \in [User -> Part \cup {None}] /\ left' \in [Part -> SUBSET Part]
    BY <1>4, <2>1 DEF Remove
  <2>3. life' \in [Part -> {"new", "in", "removed", "leaving", "closed"}]
    BY <1>4 DEF Remove
  <2>4. QED
    BY <1>4, <2>2, <2>3 DEF Remove
<1>5. ASSUME NEW p \in Part, SnapshotTracks(p) PROVE TypeOK'
  <2>1. ToTake(p) \subseteq Track \X User
    BY DEF ToTake
  <2>2. take' \in [Part -> SUBSET (Track \X User)]
    BY <1>5, <2>1 DEF SnapshotTracks
  <2>3. life' \in [Part -> {"new", "in", "removed", "leaving", "closed"}]
    BY <1>5 DEF SnapshotTracks
  <2>4. QED
    BY <1>5, <2>2, <2>3 DEF SnapshotTracks
<1>6. ASSUME NEW p \in Part, NEW t \in Track, NEW u \in User, TakeOff(p, t, u) PROVE TypeOK'
  <2>1. take' \in [Part -> SUBSET (Track \X User)]
    BY <1>6 DEF TakeOff
  <2>2. sub' \in [Track -> [User -> Sender \cup {None}]]
    BY <1>6 DEF TakeOff
  <2>3. wired' \in SUBSET Sender
    BY <1>6 DEF TakeOff
  <2>4. QED
    BY <1>6, <2>1, <2>2, <2>3 DEF TakeOff, people
<1>7. ASSUME NEW p \in Part, Close(p) PROVE TypeOK'
  <2>1. life' \in [Part -> {"new", "in", "removed", "leaving", "closed"}]
    BY <1>7 DEF Close
  <2>2. wired' \in SUBSET Sender
    BY <1>7 DEF Close
  <2>3. QED
    BY <1>7, <2>1, <2>2 DEF Close
<1>8. ASSUME NEW t \in Track, Publish(t) PROVE TypeOK'
  BY <1>8 DEF Publish, people
<1>9. ASSUME NEW t \in Track, Snapshot(t) PROVE TypeOK'
  <2>1. {[sub |-> p, trk |-> t, by |-> "publish"] : p \in Subscribers(t)} \subseteq Sender
    BY DEF Subscribers, InRoom, Sender
  <2>2. todo' \in [Thread -> SUBSET Sender]
    BY <1>9, <2>1 DEF Snapshot
  <2>3. QED
    BY <1>9, <2>2 DEF Snapshot, people
<1>10. ASSUME NEW t \in Track, EndTrack(t) \/ Unpublish(t) PROVE TypeOK'
  BY <1>10 DEF EndTrack, Unpublish, people
<1>11. ASSUME NEW t \in Track, SnapshotSenders(t) PROVE TypeOK'
  <2>1. {sub[t][u] : u \in {v \in User : sub[t][v] # None}} \subseteq Sender
    OBVIOUS
  <2>2. undo' \in [Track -> SUBSET Sender]
    BY <1>11, <2>1 DEF SnapshotSenders
  <2>3. QED
    BY <1>11, <2>2 DEF SnapshotSenders, people
<1>12. ASSUME NEW t \in Track, NEW s \in Sender, UndoTrack(t, s) PROVE TypeOK'
  BY <1>12 DEF UndoTrack, people
<1>13. CASE UNCHANGED vars
  BY <1>13 DEF vars, people
<1>14. QED
  BY <1>1, <1>2, <1>3, <1>4, <1>5, <1>6, <1>7, <1>8, <1>9, <1>10, <1>11, <1>12, <1>13
     DEF Next, Stay, Stream

\* Every reachable state is well typed, whatever goroutines interleave.
THEOREM TypeCorrect == Spec => []TypeOK
<1>1. QED
  BY InitType, TypeStep, PTL DEF Spec

-----------------------------------------------------------------------------
(* Nobody misses a track *)

\* Who is in the room is not leaving.
RoomOK == \A p \in InRoom : life[p] = "in"

\* A track is published by somebody who came, and is not once it has ended.
PubOK ==
  \A t \in Track :
    /\ stage[t] = "new" \/ life[Publisher(t)] = "new" \/ stage[t] = "ended" => t \notin pub
    /\ stage[t] \in {"new", "published"} => todo[t] = {}

\* Senders are kept by track, and taken off when it is over.
SubOK ==
  \A t \in Track :
    /\ \A u \in User : sub[t][u] # None => sub[t][u].trk = t
    /\ \A s \in undo[t] : s.trk = t /\ t \notin pub /\ stage[t] = "done"

\* Who takes senders off has left the room.
TakeOK == \A p \in Part : \A x \in take[p] : Publisher(x[1]) = p /\ life[p] = "leaving"

WireInv == RoomOK /\ PubOK /\ SubOK /\ TakeOK

LEMMA WireInit == Init => WireInv /\ NobodyMisses
<1> SUFFICES ASSUME Init PROVE WireInv /\ NobodyMisses
  OBVIOUS
<1>1. InRoom = {}
  BY DEF Init, InRoom
<1>2. RoomOK /\ TakeOK /\ NobodyMisses
  BY <1>1 DEF Init, RoomOK, TakeOK, NobodyMisses
<1>3. PubOK
  BY DEF Init, PubOK, Thread
<1>4. SubOK
  BY DEF Init, SubOK
<1>5. QED
  BY <1>2, <1>3, <1>4 DEF WireInv

LEMMA RoomStep == TypeOK /\ RoomOK /\ [Next]_vars => RoomOK'
<1> SUFFICES ASSUME TypeOK, RoomOK, [Next]_vars PROVE RoomOK'
  OBVIOUS
<1> USE DEF TypeOK, RoomOK, InRoom
<1>1. ASSUME UNCHANGED people PROVE RoomOK'
  BY <1>1 DEF people
<1>2. ASSUME NEW p \in Part, Join(p) PROVE RoomOK'
  BY <1>2 DEF Join
<1>3. ASSUME NEW p \in Part, Remove(p) PROVE RoomOK'
  BY <1>3 DEF Remove
<1>4. ASSUME NEW p \in Part, SnapshotTracks(p) \/ Close(p) PROVE RoomOK'
  BY <1>4 DEF SnapshotTracks, Close
<1>5. ASSUME NEW p \in Part, NEW o \in Part, ReadTracks(p, o) PROVE RoomOK'
  BY <1>5 DEF ReadTracks
<1>6. ASSUME NEW p \in Part, NEW t \in Track, NEW u \in User, TakeOff(p, t, u) PROVE RoomOK'
  BY <1>1, <1>6 DEF TakeOff
<1>7. ASSUME NEW t \in Track, Stream(t) PROVE RoomOK'
  BY <1>1, <1>7 DEF Stream, Publish, Snapshot, EndTrack, Unpublish, SnapshotSenders, UndoTrack
<1>8. ASSUME NEW h \in Thread, Wire(h) PROVE RoomOK'
  BY <1>1, <1>8 DEF Wire, AddSubscriber, AddTrack
<1>9. CASE UNCHANGED vars
  BY <1>1, <1>9 DEF vars
<1>10. QED
  BY <1>2, <1>3, <1>4, <1>5, <1>6, <1>7, <1>8, <1>9 DEF Next, Stay

LEMMA PubStep == TypeOK /\ PubOK /\ [Next]_vars => PubOK'
<1> SUFFICES ASSUME TypeOK, PubOK, [Next]_vars PROVE PubOK'
  OBVIOUS
<1> USE DEF TypeOK, PubOK, Thread
<1>1. ASSUME UNCHANGED <<life, stage, pub, todo>> PROVE PubOK'
  BY <1>1
<1>2. ASSUME NEW p \in Part, Join(p) \/ Remove(p) \/ SnapshotTracks(p) \/ Close(p) PROVE PubOK'
  BY <1>2 DEF Join, Remove, SnapshotTracks, Close
<1>3. ASSUME NEW p \in Part, NEW o \in Part, ReadTracks(p, o) PROVE PubOK'
  <2>1. UNCHANGED <<life, stage, pub>> /\ \A t \in Track : todo'[t] = todo[t]
    BY <1>3 DEF ReadTracks
  <2>2. QED
    BY <2>1
<1>4. ASSUME NEW p \in Part, NEW t \in Track, NEW u \in User, TakeOff(p, t, u) PROVE PubOK'
  BY <1>1, <1>4 DEF TakeOff, people
<1>5. ASSUME NEW h \in Thread, Wire(h) PROVE PubOK'
  <2>1. UNCHANGED <<life, stage, pub>> /\ \A t \in Track : todo'[t] \subseteq todo[t]
    BY <1>5 DEF Wire, AddSubscriber, AddTrack, people
  <2>2. QED
    BY <2>1
<1>6. ASSUME NEW t \in Track, Publish(t) PROVE PubOK'
  BY <1>6 DEF Publish, people
<1>7. ASSUME NEW t \in Track, Snapshot(t) PROVE PubOK'
  <2>1. /\ UNCHANGED <<life, pub>> /\ \A r \in Track \ {t} : todo'[r] = todo[r]
        /\ stage'[t] = "wiring" /\ \A r \in Track \ {t} : stage'[r] = stage[r]
    BY <1>7 DEF Snapshot, people
  <2>2. QED
    BY <1>7, <2>1 DEF Snapshot
<1>8. ASSUME NEW t \in Track, EndTrack(t) \/ Unpublish(t) \/ SnapshotSenders(t) PROVE PubOK'
  BY <1>8 DEF EndTrack, Unpublish, SnapshotSenders, people
<1>9. ASSUME NEW t \in Track, NEW s \in Sender, UndoTrack(t, s) PROVE PubOK'
  BY <1>1, <1>9 DEF UndoTrack, people
<1>10. CASE UNCHANGED vars
  BY <1>1, <1>10 DEF vars, people
<1>11. QED
  BY <1>2, <1>3, <1>4, <1>5, <1>6, <1>7, <1>8, <1>9, <1>10 DEF Next, Stay, Stream

LEMMA SubStep == TypeOK /\ PubOK /\ SubOK /\ [Next]_vars => SubOK'
<1> SUFFICES ASSUME TypeOK, PubOK, SubOK, [Next]_vars PROVE SubOK'
  OBVIOUS
<1> USE DEF TypeOK, SubOK
<1>1. ASSUME UNCHANGED <<sub, undo, pub, stage>> PROVE SubOK'
  BY <1>1
<1>2. ASSUME NEW p \in Part, Join(p) \/ Remove(p) \/ SnapshotTracks(p) \/ Close(p) PROVE SubOK'
  BY <1>1, <1>2 DEF Join, Remove, SnapshotTracks, Close
<1>3. ASSUME NEW p \in Part, NEW o \in Part, ReadTracks(p, o) PROVE SubOK'
  BY <1>1, <1>3 DEF ReadTracks
<1>4. ASSUME NEW p \in Part, NEW t \in Track, NEW u \in User, TakeOff(p, t, u) PROVE SubOK'
  BY <1>4 DEF TakeOff
<1>5. ASSUME NEW h \in Thread, AddSubscriber(h) PROVE SubOK'
  <2>1. half[h] \in Sender
    BY <1>5 DEF AddSubscriber
  <2>2. half[h].trk \in Track /\ Who(half[h].sub) \in User
    BY <2>1 DEF Sender
  <2>3. sub' = [sub EXCEPT ![half[h].trk][Who(half[h].sub)] = half[h]] /\ UNCHANGED <<undo, pub, stage>>
    BY <1>5 DEF AddSubscriber, Noted
  <2>4. QED
    BY <2>2, <2>3
<1>6. ASSUME NEW h \in Thread, NEW s \in todo[h], AddTrack(h, s) PROVE SubOK'
  BY <1>1, <1>6 DEF AddTrack
<1>7. ASSUME NEW t \in Track, Publish(t) PROVE SubOK'
  BY <1>7 DEF Publish
<1>8. ASSUME NEW t \in Track, Snapshot(t) \/ EndTrack(t) \/ Unpublish(t) PROVE SubOK'
  BY <1>8 DEF Snapshot, EndTrack, Unpublish
<1>9. ASSUME NEW t \in Track, SnapshotSenders(t) PROVE SubOK'
  BY <1>9 DEF SnapshotSenders, PubOK
<1>10. ASSUME NEW t \in Track, NEW s \in Sender, UndoTrack(t, s) PROVE SubOK'
  BY <1>10 DEF UndoTrack
<1>11. CASE UNCHANGED vars
  BY <1>1, <1>11 DEF vars
<1>12. QED
  BY <1>2, <1>3, <1>4, <1>5, <1>6, <1>7, <1>8, <1>9, <1>10, <1>11 DEF Next, Wire, Stay, Stream

LEMMA TakeStep == TypeOK /\ TakeOK /\ [Next]_vars => TakeOK'
<1> SUFFICES ASSUME TypeOK, TakeOK, [Next]_vars PROVE TakeOK'
  OBVIOUS
<1> USE DEF TypeOK, TakeOK
<1>1. ASSUME UNCHANGED <<life, take>> PROVE TakeOK'
  BY <1>1
<1>2. ASSUME NEW p \in Part, Join(p) \/ Remove(p) PROVE TakeOK'
  BY <1>2 DEF Join, Remove
<1>3. ASSUME NEW p \in Part, SnapshotTracks(p) PROVE TakeOK'
  BY <1>3 DEF SnapshotTracks, ToTake
<1>4. ASSUME NEW p \in Part, Close(p) PROVE TakeOK'
  BY <1>4 DEF Close
<1>5. ASSUME NEW p \in Part, NEW o \in Part, ReadTracks(p, o) PROVE TakeOK'
  BY <1>1, <1>5 DEF ReadTracks
<1>6. ASSUME NEW p \in Part, NEW t \in Track, NEW u \in User, TakeOff(p, t, u) PROVE TakeOK'
  BY <1>6 DEF TakeOff, people
<1>7. ASSUME NEW t \in Track, Stream(t) PROVE TakeOK'
  BY <1>1, <1>7 DEF Stream, Publish, Snapshot, EndTrack, Unpublish, SnapshotSenders, UndoTrack, people
<1>8. ASSUME NEW h \in Thread, Wire(h) PROVE TakeOK'
  BY <1>1, <1>8 DEF Wire, AddSubscriber, AddTrack, people
<1>9. CASE UNCHANGED vars
  BY <1>1, <1>9 DEF vars, people
<1>10. QED
  BY <1>2, <1>3, <1>4, <1>5, <1>6, <1>7, <1>8, <1>9 DEF Next, Stay

\* Every action either wires the track, or keeps it in a list of one to wire, or
\* is about a track that is gone.
LEMMA MissStep == TypeOK /\ WireInv /\ NobodyMisses /\ [Next]_vars => NobodyMisses'
<1> SUFFICES ASSUME TypeOK, WireInv, NobodyMisses, [Next]_vars,
                    NEW t \in pub', NEW p \in InRoom',
                    Who(p) # Who(Publisher(t)), ~Gone(t)'
             PROVE  Pending(p, t)' \/ \E s \in wired' : s.sub = p /\ s.trk = t
  BY DEF NobodyMisses
<1>1. t \in Track /\ p \in Part /\ Publisher(t) \in Part /\ Who(p) \in User
  <2>1. TypeOK'
    BY TypeStep
  <2>2. QED
    BY <2>1 DEF TypeOK, InRoom
<1>3. ASSUME t \in pub, p \in InRoom, room[Who(Publisher(t))] = Publisher(t)
      PROVE  Pending(p, t) \/ \E s \in wired : s.sub = p /\ s.trk = t
  BY <1>3 DEF NobodyMisses, Gone
<1>4. ASSUME UNCHANGED room, UNCHANGED pub
      PROVE  Pending(p, t) \/ \E s \in wired : s.sub = p /\ s.trk = t
  BY <1>3, <1>4 DEF InRoom, Gone
<1>5. ASSUME UNCHANGED <<room, pub, unread, stage, todo>>, wired \subseteq wired'
      PROVE  Pending(p, t)' \/ \E s \in wired' : s.sub = p /\ s.trk = t
  BY <1>4, <1>5 DEF Pending
<1>6. room[Who(Publisher(t))] = Publisher(t) => life[Publisher(t)] = "in"
  BY <1>1 DEF WireInv, RoomOK, InRoom
<1>7. ASSUME NEW q \in Part, Join(q) PROVE Pending(p, t)' \/ \E s \in wired' : s.sub = p /\ s.trk = t
  <2>1. Publisher(t) # q
    BY <1>1, <1>7 DEF Join, WireInv, PubOK
  <2>2. room[Who(Publisher(t))] = Publisher(t)
    BY <1>1, <1>7, <2>1 DEF Join, Gone, TypeOK
  <2>3. CASE p = q
    BY <1>1, <1>7, <2>2, <2>3 DEF Join, Pending, InRoom, TypeOK
  <2>4. CASE p # q
    <3>1. p \in InRoom /\ t \in pub
      BY <1>1, <1>7, <2>4 DEF Join, InRoom, TypeOK
    <3>2. unread'[p] = unread[p] /\ UNCHANGED <<stage, todo, wired>>
      BY <1>1, <1>7, <2>4 DEF Join, TypeOK
    <3>3. QED
      BY <1>3, <2>2, <3>1, <3>2 DEF Pending
  <2>5. QED
    BY <2>3, <2>4
<1>8. ASSUME NEW q \in Part, NEW o \in Part, ReadTracks(q, o)
      PROVE  Pending(p, t)' \/ \E s \in wired' : s.sub = p /\ s.trk = t
  <2>1. UNCHANGED <<room, pub, wired, stage>> /\ todo[q] = {}
    BY <1>8 DEF ReadTracks, Wired
  <2>2. Pending(p, t) \/ \E s \in wired : s.sub = p /\ s.trk = t
    BY <1>4, <2>1
  <2>3. CASE p = q /\ Publisher(t) = o
    <3>1. t \in TracksOf(o)
      BY <2>1, <2>3 DEF TracksOf
    <3>2. [sub |-> p, trk |-> t, by |-> "join"] \in todo'[q] /\ q \in Thread
      BY <1>8, <2>3, <3>1 DEF ReadTracks, Thread, TypeOK
    <3>3. QED
      BY <3>2 DEF Pending
  <2>4. CASE ~(p = q /\ Publisher(t) = o)
    <3>1. Publisher(t) \in unread[p] => Publisher(t) \in unread'[p]
      BY <1>1, <1>8, <2>4 DEF ReadTracks, TypeOK
    <3>2. \A h \in Thread : todo[h] \subseteq todo'[h]
      BY <1>8, <2>1 DEF ReadTracks, Thread, TypeOK
    <3>3. QED
      BY <2>1, <2>2, <3>1, <3>2 DEF Pending
  <2>5. QED
    BY <2>3, <2>4
<1>9. ASSUME NEW q \in Part, Remove(q) PROVE Pending(p, t)' \/ \E s \in wired' : s.sub = p /\ s.trk = t
  <2>1. room[Who(Publisher(t))] = Publisher(t) /\ p \in InRoom
    BY <1>1, <1>9 DEF Remove, Gone, InRoom, TypeOK
  <2>2. QED
    BY <1>3, <1>9, <2>1 DEF Remove, Pending
<1>10. ASSUME NEW q \in Part, SnapshotTracks(q)
       PROVE  Pending(p, t)' \/ \E s \in wired' : s.sub = p /\ s.trk = t
  BY <1>5, <1>10 DEF SnapshotTracks
\* A sender taken off is of a publisher who has left the room.
<1>11. ASSUME NEW q \in Part, NEW x \in Track, NEW u \in User, TakeOff(q, x, u)
       PROVE  Pending(p, t)' \/ \E s \in wired' : s.sub = p /\ s.trk = t
  <2>1. UNCHANGED <<room, pub, unread, stage, todo>>
    BY <1>11 DEF TakeOff, people
  <2>2. x # t
    <3>1. Publisher(x) = q /\ life[q] = "leaving"
      BY <1>11 DEF TakeOff, WireInv, TakeOK
    <3>2. room[Who(Publisher(t))] = Publisher(t)
      BY <2>1 DEF Gone
    <3>3. QED
      BY <1>6, <3>1, <3>2
  <2>3. \A s \in wired : s.trk = t => s \in wired'
    <3>1. sub[x][u] # None => sub[x][u].trk = x
      BY DEF WireInv, SubOK
    <3>2. None \notin wired
      BY DEF TypeOK
    <3>3. QED
      BY <1>11, <2>2, <3>1, <3>2 DEF TakeOff
  <2>4. QED
    BY <1>4, <2>1, <2>3 DEF Pending
<1>12. ASSUME NEW q \in Part, Close(q) PROVE Pending(p, t)' \/ \E s \in wired' : s.sub = p /\ s.trk = t
  <2>1. UNCHANGED <<room, pub, unread, stage, todo>>
    BY <1>12 DEF Close
  <2>2. p # q
    BY <1>12, <2>1 DEF Close, WireInv, RoomOK, InRoom
  <2>3. QED
    BY <1>4, <1>12, <2>1, <2>2 DEF Close, Pending
<1>13. ASSUME NEW x \in Track, Publish(x)
       PROVE  Pending(p, t)' \/ \E s \in wired' : s.sub = p /\ s.trk = t
  <2>1. UNCHANGED <<room, unread, todo, wired>>
    BY <1>13 DEF Publish, people
  <2>2. CASE t = x
    BY <1>1, <1>13, <2>2 DEF Publish, Pending, TypeOK
  <2>3. CASE t # x
    <3>1. t \in pub /\ stage'[t] = stage[t] /\ p \in InRoom /\ room[Who(Publisher(t))] = Publisher(t)
      BY <1>1, <1>13, <2>1, <2>3 DEF Publish, InRoom, Gone, TypeOK
    <3>2. QED
      BY <1>3, <2>1, <3>1 DEF Pending
  <2>4. QED
    BY <2>2, <2>3
<1>14. ASSUME NEW x \in Track, Snapshot(x)
       PROVE  Pending(p, t)' \/ \E s \in wired' : s.sub = p /\ s.trk = t
  <2>1. UNCHANGED <<room, unread, pub, wired>> /\ todo[x] = {}
    BY <1>14 DEF Snapshot, people, WireInv, PubOK
  <2>2. Pending(p, t) \/ \E s \in wired : s.sub = p /\ s.trk = t
    BY <1>4, <2>1
  <2>3. CASE t = x
    <3>1. p \in Subscribers(t)
      BY <2>1 DEF Subscribers, InRoom
    <3>2. [sub |-> p, trk |-> t, by |-> "publish"] \in todo'[t] /\ t \in Thread
      BY <1>1, <1>14, <2>3, <3>1 DEF Snapshot, Thread, TypeOK
    <3>3. QED
      BY <3>2 DEF Pending
  <2>4. CASE t # x
    <3>1. stage'[t] = stage[t]
      BY <1>1, <1>14, <2>4 DEF Snapshot, TypeOK
    <3>2. \A h \in Thread : todo[h] \subseteq todo'[h]
      BY <1>14, <2>1 DEF Snapshot, Thread, TypeOK
    <3>3. QED
      BY <2>1, <2>2, <3>1, <3>2 DEF Pending
  <2>5. QED
    BY <2>3, <2>4
<1>15. ASSUME NEW x \in Track, EndTrack(x) \/ Unpublish(x) \/ SnapshotSenders(x)
       PROVE  Pending(p, t)' \/ \E s \in wired' : s.sub = p /\ s.trk = t
  <2>1. UNCHANGED <<room, unread, todo, wired>> /\ pub' \subseteq pub
    BY <1>15 DEF EndTrack, Unpublish, SnapshotSenders, people
  <2>2. stage[t] = "published" => stage'[t] = "published"
    BY <1>1, <1>15 DEF EndTrack, Unpublish, SnapshotSenders, TypeOK
  <2>3. p \in InRoom /\ t \in pub /\ room[Who(Publisher(t))] = Publisher(t)
    BY <2>1 DEF InRoom, Gone
  <2>4. QED
    BY <1>3, <2>1, <2>2, <2>3 DEF Pending
<1>16. ASSUME NEW x \in Track, NEW s \in Sender, UndoTrack(x, s)
       PROVE  Pending(p, t)' \/ \E r \in wired' : r.sub = p /\ r.trk = t
  <2>1. UNCHANGED <<room, pub, unread, stage, todo>>
    BY <1>16 DEF UndoTrack, people
  <2>2. s.trk # t
    BY <1>16, <2>1 DEF UndoTrack, WireInv, SubOK
  <2>3. \A r \in wired : r.trk = t => r \in wired'
    BY <1>16, <2>2 DEF UndoTrack
  <2>4. QED
    BY <1>4, <2>1, <2>3 DEF Pending
<1>17. ASSUME NEW h \in Thread, AddSubscriber(h)
       PROVE  Pending(p, t)' \/ \E s \in wired' : s.sub = p /\ s.trk = t
  BY <1>5, <1>17 DEF AddSubscriber, people
<1>18. ASSUME NEW h \in Thread, NEW s \in todo[h], AddTrack(h, s)
       PROVE  Pending(p, t)' \/ \E r \in wired' : r.sub = p /\ r.trk = t
  <2>1. UNCHANGED <<room, pub, unread, stage>> /\ wired \subseteq wired'
    BY <1>18 DEF AddTrack, people
  <2>2. Pending(p, t) \/ \E r \in wired : r.sub = p /\ r.trk = t
    BY <1>4, <2>1
  <2>3. CASE s.sub = p /\ s.trk = t
    <3>1. life[p] = "in"
      BY <2>1 DEF WireInv, RoomOK, InRoom
    <3>2. s \in wired'
      BY <1>18, <2>3, <3>1 DEF AddTrack
    <3>3. QED
      BY <2>3, <3>2
  <2>4. CASE ~(s.sub = p /\ s.trk = t)
    <3>1. \A g \in Thread : \A r \in todo[g] : r # s => r \in todo'[g]
      BY <1>18 DEF AddTrack, TypeOK
    <3>2. QED
      BY <2>1, <2>2, <2>4, <3>1 DEF Pending
  <2>5. QED
    BY <2>3, <2>4
<1>19. CASE UNCHANGED vars
  BY <1>5, <1>19 DEF vars, people
<1>20. QED
  BY <1>7, <1>8, <1>9, <1>10, <1>11, <1>12, <1>13, <1>14, <1>15, <1>16, <1>17, <1>18, <1>19
     DEF Next, Wire, Stay, Stream

\* Nobody in the room misses a track of another user, for any number of users,
\* participants and tracks, in whatever order the goroutines take their steps.
THEOREM NobodyMissesCorrect == Spec => []NobodyMisses
<1>1. TypeOK /\ WireInv /\ NobodyMisses /\ [Next]_vars => (TypeOK /\ WireInv /\ NobodyMisses)'
  BY TypeStep, RoomStep, PubStep, SubStep, TakeStep, MissStep DEF WireInv
<1>2. QED
  BY InitType, WireInit, <1>1, PTL DEF Spec

-----------------------------------------------------------------------------
(* What is left over *)

\* Who came and has not left is in the room; only then are there senders for it.
ComingOK ==
  \A p \in Part :
    /\ life[p] = "in" => p \in InRoom
    /\ life[p] = "new" => unread[p] = {}

\* How far a track is.
StageOK ==
  \A t \in Track :
    /\ t \notin pub => stage[t] \in {"new", "ended", "done"}
    /\ t \in pub /\ stage[t] = "done" => life[Publisher(t)] = "closed"

\* A sender is for somebody who came, and of a track that arrived.
Sound(s) == life[s.sub] # "new" /\ stage[s.trk] # "new"

SoundOK ==
  /\ \A s \in wired : Sound(s)
  /\ \A h \in Thread : \A s \in todo[h] : Sound(s)
  /\ \A h \in Thread : half[h] # None => Sound(half[h])

\* A sender that is noted will be found when its track, or the publisher, goes.
Found(s) ==
  LET t == s.trk
      p == Publisher(t) IN
  /\ sub[t][Who(s.sub)] = s
  /\ life[p] \notin {"new", "in"} => s.sub \in left[p]
  /\ t \notin pub => stage[t] = "ended" \/ s \in undo[t]
  /\ t \in pub => life[p] # "closed" /\ (life[p] = "leaving" => <<t, Who(s.sub)>> \in take[p])

FoundOK ==
  \A s \in wired : s.sub \in InRoom /\ s.trk \notin late =>
    Found(s) \/ \E h \in Thread : half[h] = s

LeftInv == ComingOK /\ StageOK /\ SoundOK /\ FoundOK

LEMMA LeftInit == Init => LeftInv
<1> SUFFICES ASSUME Init PROVE LeftInv
  OBVIOUS
<1>1. ComingOK /\ StageOK
  BY DEF Init, ComingOK, StageOK
<1>2. SoundOK
  BY DEF Init, SoundOK, Thread
<1>3. FoundOK
  BY DEF Init, FoundOK
<1>4. QED
  BY <1>1, <1>2, <1>3 DEF LeftInv

LEMMA ComingStep == TypeOK /\ ComingOK /\ [Next]_vars => ComingOK'
<1> SUFFICES ASSUME TypeOK, ComingOK, [Next]_vars PROVE ComingOK'
  OBVIOUS
<1> USE DEF TypeOK, ComingOK, InRoom
<1>1. ASSUME UNCHANGED people PROVE ComingOK'
  BY <1>1 DEF people
<1>2. ASSUME NEW p \in Part, Join(p) PROVE ComingOK'
  BY <1>2 DEF Join
<1>3. ASSUME NEW p \in Part, Remove(p) PROVE ComingOK'
  BY <1>3 DEF Remove
<1>4. ASSUME NEW p \in Part, SnapshotTracks(p) \/ Close(p) PROVE ComingOK'
  BY <1>4 DEF SnapshotTracks, Close
<1>5. ASSUME NEW p \in Part, NEW o \in Part, ReadTracks(p, o) PROVE ComingOK'
  BY <1>5 DEF ReadTracks
<1>6. ASSUME NEW p \in Part, NEW t \in Track, NEW u \in User, TakeOff(p, t, u) PROVE ComingOK'
  BY <1>1, <1>6 DEF TakeOff
<1>7. ASSUME NEW t \in Track, Stream(t) PROVE ComingOK'
  BY <1>1, <1>7 DEF Stream, Publish, Snapshot, EndTrack, Unpublish, SnapshotSenders, UndoTrack
<1>8. ASSUME NEW h \in Thread, Wire(h) PROVE ComingOK'
  BY <1>1, <1>8 DEF Wire, AddSubscriber, AddTrack
<1>9. CASE UNCHANGED vars
  BY <1>1, <1>9 DEF vars
<1>10. QED
  BY <1>2, <1>3, <1>4, <1>5, <1>6, <1>7, <1>8, <1>9 DEF Next, Stay

LEMMA StageStep == TypeOK /\ PubOK /\ StageOK /\ [Next]_vars => StageOK'
<1> SUFFICES ASSUME TypeOK, PubOK, StageOK, [Next]_vars PROVE StageOK'
  OBVIOUS
<1> USE DEF TypeOK, StageOK
<1>1. ASSUME UNCHANGED <<life, stage, pub>> PROVE StageOK'
  BY <1>1
<1>2. ASSUME NEW p \in Part, Join(p) \/ Remove(p) \/ SnapshotTracks(p) \/ Close(p) PROVE StageOK'
  BY <1>2 DEF Join, Remove, SnapshotTracks, Close
<1>3. ASSUME NEW p \in Part, NEW o \in Part, ReadTracks(p, o) PROVE StageOK'
  BY <1>1, <1>3 DEF ReadTracks
<1>4. ASSUME NEW p \in Part, NEW t \in Track, NEW u \in User, TakeOff(p, t, u) PROVE StageOK'
  BY <1>1, <1>4 DEF TakeOff, people
<1>5. ASSUME NEW h \in Thread, Wire(h) PROVE StageOK'
  BY <1>1, <1>5 DEF Wire, AddSubscriber, AddTrack, people
<1>6. ASSUME NEW t \in Track, Publish(t) \/ Snapshot(t) \/ EndTrack(t) PROVE StageOK'
  BY <1>6 DEF Publish, Snapshot, EndTrack, people
<1>7. ASSUME NEW t \in Track, Unpublish(t) PROVE StageOK'
  BY <1>7 DEF Unpublish, people
<1>8. ASSUME NEW t \in Track, SnapshotSenders(t) PROVE StageOK'
  BY <1>8 DEF SnapshotSenders, PubOK, people
<1>9. ASSUME NEW t \in Track, NEW s \in Sender, UndoTrack(t, s) PROVE StageOK'
  BY <1>1, <1>9 DEF UndoTrack, people
<1>10. CASE UNCHANGED vars
  BY <1>1, <1>10 DEF vars, people
<1>11. QED
  BY <1>2, <1>3, <1>4, <1>5, <1>6, <1>7, <1>8, <1>9, <1>10 DEF Next, Stay, Stream

\* Nobody becomes new again, nor does a track.
LEMMA NotNewAgain ==
  TypeOK /\ [Next]_vars => \A s \in Sender : Sound(s) => Sound(s)'
<1> SUFFICES ASSUME TypeOK, [Next]_vars, NEW s \in Sender, Sound(s) PROVE Sound(s)'
  OBVIOUS
<1>1. s.sub \in Part /\ s.trk \in Track
  BY DEF Sender
<1> USE <1>1 DEF TypeOK, Sound
<1>2. ASSUME NEW p \in Part, Join(p) \/ Remove(p) \/ SnapshotTracks(p) \/ Close(p) PROVE Sound(s)'
  BY <1>2 DEF Join, Remove, SnapshotTracks, Close
<1>3. ASSUME NEW p \in Part, NEW o \in Part, ReadTracks(p, o) PROVE Sound(s)'
  BY <1>3 DEF ReadTracks
<1>4. ASSUME NEW p \in Part, NEW t \in Track, NEW u \in User, TakeOff(p, t, u) PROVE Sound(s)'
  BY <1>4 DEF TakeOff, people
<1>5. ASSUME NEW h \in Thread, Wire(h) PROVE Sound(s)'
  BY <1>5 DEF Wire, AddSubscriber, AddTrack, people
<1>6. ASSUME NEW t \in Track, Stream(t) PROVE Sound(s)'
  BY <1>6 DEF Stream, Publish, Snapshot, EndTrack, Unpublish, SnapshotSenders, UndoTrack, people
<1>7. CASE UNCHANGED vars
  BY <1>7 DEF vars, people
<1>8. QED
  BY <1>2, <1>3, <1>4, <1>5, <1>6, <1>7 DEF Next, Stay

LEMMA SoundStep == TypeOK /\ WireInv /\ ComingOK /\ SoundOK /\ [Next]_vars => SoundOK'
<1> SUFFICES ASSUME TypeOK, WireInv, ComingOK, SoundOK, [Next]_vars PROVE SoundOK'
  OBVIOUS
<1>1. \A s \in Sender : Sound(s) => Sound(s)'
  BY NotNewAgain
<1>2. ASSUME wired' \subseteq wired,
             \A h \in Thread : todo'[h] \subseteq todo[h],
             \A h \in Thread : half'[h] # None => half'[h] = half[h]
      PROVE  SoundOK'
  BY <1>1, <1>2 DEF SoundOK, TypeOK
<1>3. ASSUME NEW p \in Part, Join(p) \/ Remove(p) \/ SnapshotTracks(p) \/ Close(p) PROVE SoundOK'
  BY <1>2, <1>3 DEF Join, Remove, SnapshotTracks, Close
<1>4. ASSUME NEW p \in Part, NEW o \in Part, ReadTracks(p, o) PROVE SoundOK'
  <2>1. UNCHANGED <<life, stage, wired, half>>
    BY <1>4 DEF ReadTracks
  <2>2. life[p] # "new"
    BY <1>4 DEF ReadTracks, ComingOK
  <2>3. \A t \in TracksOf(o) : stage[t] # "new"
    BY DEF TracksOf, WireInv, PubOK, TypeOK
  <2>4. \A s \in todo'[p] : Sound(s)
    BY <1>4, <2>2, <2>3 DEF ReadTracks, Sound, TypeOK, Thread
  <2>5. \A h \in Thread : h # p => todo'[h] = todo[h]
    BY <1>4 DEF ReadTracks, TypeOK
  <2>6. \A h \in Thread : \A s \in todo'[h] : Sound(s)
    BY <2>4, <2>5 DEF SoundOK
  <2>7. QED
    BY <2>1, <2>6 DEF SoundOK, Sound
<1>5. ASSUME NEW p \in Part, NEW t \in Track, NEW u \in User, TakeOff(p, t, u) PROVE SoundOK'
  BY <1>2, <1>5 DEF TakeOff
<1>6. ASSUME NEW h \in Thread, AddSubscriber(h) PROVE SoundOK'
  BY <1>2, <1>6 DEF AddSubscriber, TypeOK
<1>7. ASSUME NEW h \in Thread, NEW s \in todo[h], AddTrack(h, s) PROVE SoundOK'
  <2>1. UNCHANGED <<life, stage>> /\ wired' \subseteq wired \cup {s}
    BY <1>7 DEF AddTrack, people
  <2>2. \A g \in Thread : todo'[g] \subseteq todo[g]
    BY <1>7 DEF AddTrack, TypeOK
  <2>3. \A g \in Thread : half'[g] \in {half[g], s}
    BY <1>7 DEF AddTrack, TypeOK
  <2>4. Sound(s)
    BY <1>7 DEF SoundOK
  <2>5. QED
    BY <2>1, <2>2, <2>3, <2>4 DEF SoundOK, Sound
<1>8. ASSUME NEW t \in Track, Snapshot(t) PROVE SoundOK'
  <2>1. UNCHANGED <<life, wired, half>> /\ stage'[t] = "wiring"
    BY <1>8 DEF Snapshot, people, TypeOK
  <2>2. \A p \in Subscribers(t) : life[p] = "in"
    BY DEF Subscribers, WireInv, RoomOK
  <2>3. \A s \in todo'[t] : Sound(s)'
    BY <1>8, <2>1, <2>2 DEF Snapshot, Sound, TypeOK, Thread
  <2>4. \A h \in Thread : h # t => todo'[h] = todo[h]
    BY <1>8 DEF Snapshot, TypeOK
  <2>5. \A h \in Thread : \A s \in todo'[h] : Sound(s)'
    BY <1>1, <2>3, <2>4 DEF SoundOK, TypeOK
  <2>6. QED
    BY <1>1, <2>1, <2>5 DEF SoundOK, TypeOK
<1>9. ASSUME NEW t \in Track, Publish(t) \/ EndTrack(t) \/ Unpublish(t) \/ SnapshotSenders(t) PROVE SoundOK'
  BY <1>2, <1>9 DEF Publish, EndTrack, Unpublish, SnapshotSenders
<1>10. ASSUME NEW t \in Track, NEW s \in Sender, UndoTrack(t, s) PROVE SoundOK'
  BY <1>2, <1>10 DEF UndoTrack
<1>11. CASE UNCHANGED vars
  BY <1>2, <1>11 DEF vars
<1>12. QED
  BY <1>3, <1>4, <1>5, <1>6, <1>7, <1>8, <1>9, <1>10, <1>11 DEF Next, Wire, Stay, Stream

\* A sender stays findable, or is taken off; one that is noted after its track
\* went, or beside another one of its user, makes the track late.
LEMMA FoundStep ==
  TypeOK /\ WireInv /\ ComingOK /\ SoundOK /\ FoundOK /\ [Next]_vars => FoundOK'
<1> SUFFICES ASSUME TypeOK, WireInv, ComingOK, SoundOK, FoundOK, [Next]_vars,
                    NEW s \in wired', s.sub \in InRoom', s.trk \notin late'
             PROVE  Found(s)' \/ \E h \in Thread : half'[h] = s
  BY DEF FoundOK
<1> DEFINE t == s.trk
           p == Publisher(t)
           Kept == Found(s)' \/ \E h \in Thread : half'[h] = s
<1>1. /\ s \in Sender /\ s.sub \in Part /\ t \in Track /\ p \in Part
      /\ Who(s.sub) \in User /\ Who(p) \in User
  <2>1. s \in Sender
    BY TypeStep DEF TypeOK
  <2>2. QED
    BY <2>1 DEF Sender
<1>2. late \subseteq late'
  BY DEF Next, Wire, Stay, Stream, AddSubscriber, AddTrack, Join, ReadTracks, Remove, SnapshotTracks,
         TakeOff, Close, Publish, Snapshot, EndTrack, Unpublish, SnapshotSenders, UndoTrack, vars
<1>3. ASSUME s \in wired, s.sub \in InRoom PROVE Found(s) \/ \E h \in Thread : half[h] = s
  BY <1>2, <1>3 DEF FoundOK
<1>4. ASSUME UNCHANGED <<room, half>>, s \in wired, Found(s) => Found(s)' PROVE Kept
  BY <1>3, <1>4 DEF InRoom
<1>5. ASSUME UNCHANGED <<life, left, stage, pub, sub, undo, take>>, Found(s) PROVE Found(s)'
  BY <1>5 DEF Found
<1>6. ASSUME NEW j \in Part, Join(j) PROVE Kept
  <2>1. s \in wired /\ UNCHANGED half
    BY <1>6 DEF Join
  <2>2. s.sub # j
    BY <1>6, <2>1 DEF Join, SoundOK, Sound
  <2>3. s.sub \in InRoom
    BY <1>1, <1>6, <2>2 DEF Join, InRoom, TypeOK
  <2>4. Found(s) => Found(s)'
    BY <1>1, <1>6 DEF Join, Found, TypeOK
  <2>5. QED
    BY <1>3, <2>1, <2>3, <2>4
<1>7. ASSUME NEW j \in Part, Remove(j) PROVE Kept
  <2>1. s \in wired /\ UNCHANGED half
    BY <1>7 DEF Remove
  <2>2. s.sub # j /\ s.sub \in InRoom
    BY <1>1, <1>7 DEF Remove, InRoom, TypeOK
  <2>3. Found(s) => Found(s)'
    BY <1>1, <1>7, <2>2 DEF Remove, Found, TypeOK
  <2>4. QED
    BY <1>3, <2>1, <2>2, <2>3
<1>8. ASSUME NEW j \in Part, SnapshotTracks(j) PROVE Kept
  <2>1. Found(s) => Found(s)'
    <3> SUFFICES ASSUME Found(s) PROVE Found(s)'
      OBVIOUS
    <3>1. CASE p = j
      <4>1. s.sub \in left[p] /\ take'[p] = ToTake(p) /\ life'[p] = "leaving"
        BY <1>8, <3>1 DEF SnapshotTracks, Found, TypeOK
      <4>2. t \in pub => <<t, Who(s.sub)>> \in ToTake(p)
        BY <1>1, <4>1 DEF ToTake, TypeOK
      <4>3. QED
        BY <1>8, <4>1, <4>2 DEF SnapshotTracks, Found
    <3>2. CASE p # j
      BY <1>1, <1>8, <3>2 DEF SnapshotTracks, Found, TypeOK
    <3>3. QED
      BY <3>1, <3>2
  <2>2. QED
    BY <1>4, <1>8, <2>1 DEF SnapshotTracks
<1>9. ASSUME NEW j \in Part, NEW x \in Track, NEW u \in User, TakeOff(j, x, u) PROVE Kept
  <2>1. UNCHANGED <<room, half, life, left, stage, pub, undo>> /\ s \in wired
    BY <1>9 DEF TakeOff, people
  <2>2. Publisher(x) = j /\ life[j] = "leaving"
    BY <1>9 DEF TakeOff, WireInv, TakeOK
  <2>3. Found(s) => Found(s)'
    <3> SUFFICES ASSUME Found(s) PROVE Found(s)'
      OBVIOUS
    <3>1. ~(x = t /\ u = Who(s.sub))
      BY <1>9, <2>2 DEF TakeOff, Found
    <3>2. sub'[t][Who(s.sub)] = sub[t][Who(s.sub)]
      BY <1>1, <1>9, <3>1 DEF TakeOff, TypeOK
    <3>3. <<t, Who(s.sub)>> \in take[p] => <<t, Who(s.sub)>> \in take'[p]
      BY <1>1, <1>9, <3>1 DEF TakeOff, TypeOK
    <3>4. QED
      BY <2>1, <3>2, <3>3 DEF Found
  <2>4. QED
    BY <1>4, <2>1, <2>3
<1>10. ASSUME NEW j \in Part, Close(j) PROVE Kept
  <2>1. Found(s) => Found(s)'
    BY <1>1, <1>10 DEF Close, Found, TypeOK
  <2>2. QED
    BY <1>4, <1>10, <2>1 DEF Close
<1>11. ASSUME NEW j \in Part, NEW o \in Part, ReadTracks(j, o) PROVE Kept
  BY <1>4, <1>5, <1>11 DEF ReadTracks
<1>12. ASSUME NEW h \in Thread, NEW r \in todo[h], AddTrack(h, r) PROVE Kept
  <2>1. UNCHANGED <<room, life, left, stage, pub, sub, undo, take>> /\ half[h] = None
    BY <1>12 DEF AddTrack, people
  <2>2. CASE s \in wired
    <3>1. Found(s) \/ \E g \in Thread : half[g] = s
      BY <1>3, <2>1, <2>2 DEF InRoom
    <3>2. \A g \in Thread : half[g] = s => half'[g] = s
      BY <1>1, <1>12, <2>1 DEF AddTrack, TypeOK
    <3>3. QED
      BY <1>5, <2>1, <3>1, <3>2
  <2>3. CASE s \notin wired
    BY <1>12, <2>3 DEF AddTrack, TypeOK
  <2>4. QED
    BY <2>2, <2>3
<1>13. ASSUME NEW h \in Thread, AddSubscriber(h) PROVE Kept
  <2>1. UNCHANGED <<room, life, left, stage, pub, wired, undo, take>> /\ half[h] # None
    BY <1>13 DEF AddSubscriber, people
  <2>2. half[h] \in Sender /\ half[h].trk \in Track /\ Who(half[h].sub) \in User
    BY <2>1 DEF TypeOK, Sender
  <2>3. sub' = [sub EXCEPT ![half[h].trk][Who(half[h].sub)] = half[h]]
    BY <1>13 DEF AddSubscriber, Noted
  <2>4. CASE s = half[h]
    <3>1. ~Gone(t)
      BY <1>13, <2>4 DEF AddSubscriber
    <3>2. t \in pub /\ life[p] = "in"
      BY <1>1, <3>1 DEF Gone, WireInv, RoomOK, InRoom
    <3>3. sub'[t][Who(s.sub)] = s
      BY <2>2, <2>3, <2>4 DEF TypeOK
    <3>4. QED
      BY <2>1, <3>2, <3>3 DEF Found
  <2>5. CASE s # half[h]
    <3>1. ~(s.trk = half[h].trk /\ Who(s.sub) = Who(half[h].sub))
      BY <1>13, <2>1, <2>5 DEF AddSubscriber
    <3>2. sub'[t][Who(s.sub)] = sub[t][Who(s.sub)]
      BY <1>1, <2>2, <2>3, <3>1 DEF TypeOK
    <3>3. Found(s) => Found(s)'
      BY <2>1, <3>2 DEF Found
    <3>4. \A g \in Thread : half[g] = s => half'[g] = s
      BY <1>13, <2>5 DEF AddSubscriber, TypeOK
    <3>5. QED
      BY <1>3, <2>1, <3>3, <3>4 DEF InRoom
  <2>6. QED
    BY <2>4, <2>5
<1>14. ASSUME NEW x \in Track, Publish(x) PROVE Kept
  <2>1. t # x
    BY <1>14 DEF Publish, SoundOK, Sound
  <2>2. Found(s) => Found(s)'
    BY <1>1, <1>14, <2>1 DEF Publish, people, Found, TypeOK
  <2>3. QED
    BY <1>4, <1>14, <2>2 DEF Publish, people
<1>15. ASSUME NEW x \in Track, Snapshot(x) \/ EndTrack(x) PROVE Kept
  <2>1. Found(s) => Found(s)'
    BY <1>1, <1>15 DEF Snapshot, EndTrack, people, Found, TypeOK
  <2>2. QED
    BY <1>4, <1>15, <2>1 DEF Snapshot, EndTrack, people
<1>16. ASSUME NEW x \in Track, Unpublish(x) PROVE Kept
  <2>1. Found(s) => Found(s)'
    BY <1>1, <1>16 DEF Unpublish, people, Found, TypeOK
  <2>2. QED
    BY <1>4, <1>16, <2>1 DEF Unpublish, people
<1>17. ASSUME NEW x \in Track, SnapshotSenders(x) PROVE Kept
  <2>1. Found(s) => Found(s)'
    <3> SUFFICES ASSUME Found(s) PROVE Found(s)'
      OBVIOUS
    <3>1. UNCHANGED <<life, left, pub, sub, take>>
      BY <1>17 DEF SnapshotSenders, people
    <3>2. CASE t = x
      <4>1. s # None /\ sub[t][Who(s.sub)] = s
        BY <1>1 DEF Found
      <4>2. s \in undo'[t]
        BY <1>1, <1>17, <3>2, <4>1 DEF SnapshotSenders, TypeOK
      <4>3. QED
        BY <3>1, <4>2 DEF Found
    <3>3. CASE t # x
      BY <1>1, <1>17, <3>1, <3>3 DEF SnapshotSenders, Found, TypeOK
    <3>4. QED
      BY <3>2, <3>3
  <2>2. QED
    BY <1>4, <1>17, <2>1 DEF SnapshotSenders, people
<1>18. ASSUME NEW x \in Track, NEW r \in Sender, UndoTrack(x, r) PROVE Kept
  <2>1. UNCHANGED <<room, half, life, left, stage, pub, sub, take>> /\ s \in wired
    BY <1>18 DEF UndoTrack, people
  <2>2. s # r
    BY <1>18, <2>1 DEF UndoTrack, InRoom
  <2>3. s \in undo[t] => s \in undo'[t]
    BY <1>1, <1>18, <2>2 DEF UndoTrack, TypeOK
  <2>4. Found(s) => Found(s)'
    BY <2>1, <2>3 DEF Found
  <2>5. QED
    BY <1>4, <2>1, <2>4
<1>19. CASE UNCHANGED vars
  BY <1>4, <1>5, <1>19 DEF vars, people
<1>20. QED
  BY <1>6, <1>7, <1>8, <1>9, <1>10, <1>11, <1>12, <1>13, <1>14, <1>15, <1>16, <1>17, <1>18, <1>19
     DEF Next, Wire, Stay, Stream

LEMMA LeftImplies == TypeOK /\ WireInv /\ LeftInv => LeftoversOnlyFromRaces
<1> SUFFICES ASSUME TypeOK, WireInv, LeftInv,
                    NEW s \in wired, s.sub \in InRoom, Gone(s.trk), Settled(s.trk), s.trk \notin late
             PROVE  FALSE
  BY DEF LeftoversOnlyFromRaces
<1> DEFINE t == s.trk
           p == Publisher(t)
<1>1. s \in Sender /\ t \in Track /\ p \in Part /\ s # None
  BY DEF TypeOK, Sender
<1>2. \A h \in Thread : half[h] # s
  BY <1>1 DEF Settled
<1>3. Found(s)
  BY <1>2 DEF LeftInv, FoundOK
<1>4. CASE t \notin pub
  BY <1>3, <1>4 DEF Found, Settled
<1>5. CASE t \in pub
  <2>1. life[p] # "closed"
    BY <1>3, <1>5 DEF Found
  <2>2. stage[t] = "done"
    BY <2>1 DEF Settled
  <2>3. QED
    BY <1>1, <1>5, <2>1, <2>2 DEF LeftInv, StageOK
<1>6. QED
  BY <1>4, <1>5

\* A track that is over is left on the connection of somebody in the room only
\* when it was wired twice for one user, or while it ended, for any number of
\* users, participants and tracks.
THEOREM LeftoversCorrect == Spec => []LeftoversOnlyFromRaces
<1>1. Init => TypeOK /\ WireInv /\ LeftInv
  BY InitType, WireInit, LeftInit
<1>2. TypeOK /\ WireInv /\ LeftInv /\ [Next]_vars => (TypeOK /\ WireInv /\ LeftInv)'
  BY TypeStep, RoomStep, PubStep, SubStep, TakeStep, ComingStep, StageStep, SoundStep, FoundStep
     DEF WireInv, LeftInv
<1>3. QED
  BY <1>1, <1>2, LeftImplies, PTL DEF Spec

-----------------------------------------------------------------------------
(* VoiceRouter *)

USE NoUserAssumption, NoAddrAssumption, LoopAssumption

LEMMA RouterInitType == RouterInit => RouterTypeOK
  BY DEF RouterInit, RouterTypeOK, Proc

LEMMA TakeType ==
  ASSUME RouterTypeOK, NEW p \in Packet, Take(p)
  PROVE  RouterTypeOK'
<1>1. p.user \in Speaker
  BY DEF Packet
<1>2. QED
  BY <1>1 DEF RouterTypeOK, Take, maps, world, announce

LEMMA EnvironmentType == RouterTypeOK /\ Environment => RouterTypeOK'
<1> SUFFICES ASSUME RouterTypeOK, Environment PROVE RouterTypeOK'
  OBVIOUS
<1>1. ASSUME NEW u \in Speaker, NEW r \in Removal, Disconnect(u, r) PROVE RouterTypeOK'
  BY <1>1 DEF RouterTypeOK, Disconnect, maps, world, announce, past
<1>2. ASSUME NEW u \in Speaker, NEW c \in Channel, ChangeRecord(u, c) PROVE RouterTypeOK'
  BY <1>2 DEF RouterTypeOK, ChangeRecord, maps, announce, past
<1>3. ASSUME NEW u \in Speaker, NEW a \in Addr, TakeRegister(u, a) PROVE RouterTypeOK'
  BY <1>3, TakeType DEF TakeRegister, Packet
<1>4. ASSUME NEW a \in Addr, NEW c \in Channel, TakeJoin(a, c) \/ TakeLeave(a, c) PROVE RouterTypeOK'
  <2>1. userMap[a] \in Speaker
    BY <1>4 DEF RouterTypeOK, TakeJoin, TakeLeave
  <2>2. QED
    BY <1>4, <2>1, TakeType DEF TakeJoin, TakeLeave, Packet
<1>5. ASSUME NEW a \in Addr, NEW c \in Channel, ReadSender(a, c) PROVE RouterTypeOK'
  <2>1. userMap[a] \in Speaker
    BY <1>5 DEF RouterTypeOK, ReadSender
  <2> DEFINE n == [from |-> userMap[a], chan |-> c, at |-> "lookup", to |-> {}, moved |-> {}]
  <2>2. n \in AudioStream
    BY <2>1 DEF AudioStream
  <2>3. audio' = audio \cup {n}
    BY <1>5 DEF ReadSender
  <2> HIDE DEF n
  <2>4. QED
    BY <1>5, <2>2, <2>3 DEF RouterTypeOK, ReadSender, maps, world, announce, past
<1>6. QED
  BY <1>1, <1>2, <1>3, <1>4, <1>5 DEF Environment

\* What is noted for the packets under way changes nothing else of them.
LEMMA StreamNoted ==
  ASSUME RouterTypeOK, StreamsNote, NEW s \in audio'
  PROVE  /\ s \in AudioStream
         /\ \E t \in audio : /\ s.from = t.from /\ s.chan = t.chan /\ s.to = t.to
                            /\ s.at = t.at
                            /\ s.moved = IF t.at = "write" THEN t.moved \cup Moved ELSE t.moved
<1>1. PICK t \in audio :
        s = [t EXCEPT !.moved = IF t.at = "write" THEN t.moved \cup Moved ELSE t.moved]
  BY DEF StreamsNote
<1>2. t \in AudioStream /\ Moved \subseteq Addr
  BY DEF RouterTypeOK, Moved
<1>3. s = [from |-> t.from, chan |-> t.chan, at |-> t.at, to |-> t.to,
           moved |-> IF t.at = "write" THEN t.moved \cup Moved ELSE t.moved]
  BY <1>1, <1>2 DEF AudioStream
<1> HIDE DEF Moved
<1>4. QED
  BY <1>2, <1>3 DEF AudioStream

LEMMA NotedType == ASSUME RouterTypeOK, StreamsNote PROVE audio' \in SUBSET AudioStream
  BY StreamNoted

LEMMA HandleType == RouterTypeOK /\ Handle => RouterTypeOK'
<1> SUFFICES ASSUME RouterTypeOK, Handle PROVE RouterTypeOK'
  OBVIOUS
<1>1. CASE HandleRegister
  <2>1. audio' \in SUBSET AudioStream
    BY <1>1, NotedType DEF HandleRegister
  <2>2. loop.user \in Speaker /\ loop.addr \in Addr
    BY <1>1 DEF HandleRegister, Doing, RouterTypeOK, Packet
  <2>3. unheard' \in SUBSET Speaker
    BY <1>1, <2>2 DEF HandleRegister, RouterTypeOK
  <2>4. addrMap' \in [Speaker -> Addr \cup {NoAddr}] /\ userMap' \in [Addr -> Speaker \cup {NoUser}]
    BY <1>1, <2>2 DEF HandleRegister, ClaimedAddrMap, ClaimedUserMap, RouterTypeOK
  <2>5. QED
    BY <1>1, <2>1, <2>3, <2>4 DEF HandleRegister, RouterTypeOK, world, announce
<1>2. CASE CheckMember
  BY <1>2 DEF CheckMember, AfterCheck, RouterTypeOK, Doing, Packet, maps, world, announce, past
<1>3. CASE HandleJoinPacket
  BY <1>3 DEF HandleJoinPacket, StillTold, Proc, RouterTypeOK, Doing, Packet, maps, world, past
<1>4. CASE HandleLeavePacket
  BY <1>4 DEF HandleLeavePacket, LeaveNotice, StillTold, Proc, RouterTypeOK, Doing, Packet, maps,
              world, past
<1>5. QED
  BY <1>1, <1>2, <1>3, <1>4 DEF Handle

LEMMA NotifyType ==
  ASSUME RouterTypeOK, NEW p \in Proc, Notify(p)
  PROVE  RouterTypeOK'
<1>1. CASE Announce(p)
  BY <1>1 DEF RouterTypeOK, Announce, Notice, maps, world, past
<1>2. ASSUME NEW c \in Channel, ReadRoster(p, c) PROVE RouterTypeOK'
  BY <1>2 DEF RouterTypeOK, ReadRoster, Notice, maps, world, past
<1>3. QED
  BY <1>1, <1>2 DEF Notify

LEMMA RemoveUserType ==
  ASSUME RouterTypeOK, NEW r \in Removal, RemoveUser(r)
  PROVE  RouterTypeOK'
<1>1. audio' \in SUBSET AudioStream
  BY NotedType DEF RemoveUser
<1>2. leaving[r] \in Speaker
  BY DEF RouterTypeOK, RemoveUser
<1>3. spoken' \in SUBSET Speaker /\ unheard' \in SUBSET Speaker
  BY <1>2 DEF RouterTypeOK, RemoveUser
<1>4. QED
  BY <1>1, <1>2, <1>3 DEF RouterTypeOK, RemoveUser, SessionsOf, ForgottenUserMap, StillTold, Proc, world

\* What the goroutine of an audio packet does changes nothing but what it holds.
LEMMA AudioStep ==
  ASSUME RouterTypeOK, NEW s \in audio, HandleAudio(s)
  PROVE  /\ UNCHANGED <<maps, active, world, loop, leaving, past, announce>>
         /\ \A t \in audio' :
              \/ t \in audio
              \/ /\ t \in AudioStream /\ t.from = s.from /\ t.chan = s.chan
                 /\ \/ t.to \subseteq s.to /\ t.moved = s.moved
                    \/ t.to = {[for |-> v, to |-> addrMap[v]] : v \in Listeners(s)}
<1>0. s \in AudioStream
  BY DEF RouterTypeOK
<1>1. CASE CollectTargets(s)
  <2> DEFINE new == {[for |-> v, to |-> addrMap[v]] : v \in Listeners(s)}
  <2>1. new \subseteq Datagram
    BY <1>0 DEF Listeners, RouterTypeOK, Datagram, AudioStream
  <2> HIDE DEF new
  <2>2. audio' = (audio \ {s}) \cup
                   {[from |-> s.from, chan |-> s.chan, at |-> "write", moved |-> {}, to |-> new]}
    BY <1>1 DEF CollectTargets, new
  <2>3. QED
    BY <1>0, <1>1, <2>1, <2>2 DEF CollectTargets, AudioStream, new
<1>2. ASSUME NEW d \in s.to, WriteToUDP(s, d)
      PROVE  /\ UNCHANGED <<maps, active, world, loop, leaving, past, announce>>
             /\ \A t \in audio' :
                  \/ t \in audio
                  \/ /\ t \in AudioStream /\ t.from = s.from /\ t.chan = s.chan
                     /\ t.moved = s.moved /\ t.to \subseteq s.to
  <2>1. [s EXCEPT !.to = @ \ {d}] =
          [from |-> s.from, chan |-> s.chan, at |-> s.at, to |-> s.to \ {d},
           moved |-> s.moved]
    BY <1>0 DEF AudioStream
  <2>2. QED
    BY <1>0, <1>2, <2>1 DEF WriteToUDP, AudioStream
<1>3. CASE Done(s)
  BY <1>3 DEF Done
<1>4. QED
  BY <1>1, <1>2, <1>3 DEF HandleAudio

LEMMA AudioType ==
  ASSUME RouterTypeOK, NEW s \in audio, HandleAudio(s)
  PROVE  RouterTypeOK'
<1>1. audio' \in SUBSET AudioStream
  BY AudioStep DEF RouterTypeOK
<1>2. QED
  BY <1>1, AudioStep DEF RouterTypeOK, maps, world, announce, past

\* Every variable keeps its type: the code never stores an absent value where
\* it expects a user or an address, nor announces a channel it does not know.
THEOREM RouterTypeCorrect == RouterSpec => []RouterTypeOK
<1>1. RouterTypeOK /\ [RouterNext]_routerVars => RouterTypeOK'
  <2> SUFFICES ASSUME RouterTypeOK, [RouterNext]_routerVars PROVE RouterTypeOK'
    OBVIOUS
  <2>1. CASE UNCHANGED routerVars
    BY <2>1 DEF RouterTypeOK, routerVars, maps, world, announce, past
  <2>2. QED
    BY <2>1, EnvironmentType, HandleType, NotifyType, RemoveUserType, AudioType DEF RouterNext
<1>2. QED
  BY RouterInitType, <1>1, PTL DEF RouterSpec

-----------------------------------------------------------------------------
(* The two address maps are inverse to each other. *)

\* Only a Register packet and RemoveUser touch the maps.
LEMMA MapsTouched ==
  [RouterNext]_routerVars => \/ UNCHANGED maps
                             \/ HandleRegister
                             \/ \E r \in Removal : RemoveUser(r)
  BY DEF RouterNext, routerVars, Environment, Handle, Notify, Disconnect, ChangeRecord,
         TakeRegister, TakeJoin, TakeLeave, Take, ReadSender, CheckMember, HandleJoinPacket,
         HandleLeavePacket, Announce, ReadRoster, HandleAudio, CollectTargets, WriteToUDP, Done

\* Whatever registrations, address takeovers and removals happen, in whatever
\* order, addrMap and userMap stay inverse (handleRegister, RemoveUser).
THEOREM MapsStayInverse == RouterSpec => []MapsInverse
<1>1. RouterInit => MapsInverse
  BY DEF RouterInit, MapsInverse
<1>2. RouterTypeOK /\ MapsInverse /\ [RouterNext]_routerVars => MapsInverse'
  <2> SUFFICES ASSUME RouterTypeOK, MapsInverse, [RouterNext]_routerVars,
                      NEW u \in Speaker, NEW a \in Addr
               PROVE  (addrMap[u] = a <=> userMap[a] = u)'
    BY DEF MapsInverse
  <2> USE DEF RouterTypeOK, MapsInverse
  <2>1. CASE UNCHANGED maps
    BY <2>1 DEF maps
  <2>2. CASE HandleRegister
    <3> DEFINE v == loop.user
               b == loop.addr
    <3>1. v \in Speaker /\ b \in Addr
      BY <2>2 DEF HandleRegister, Doing, Packet
    <3>2. /\ addrMap' = ClaimedAddrMap(v, b)
          /\ userMap' = ClaimedUserMap(v, b)
      BY <2>2 DEF HandleRegister
    <3> HIDE DEF v, b
    <3>3. CASE u = v
      BY <3>1, <3>2, <3>3 DEF ClaimedAddrMap, ClaimedUserMap
    <3>4. CASE u # v
      BY <3>1, <3>2, <3>4 DEF ClaimedAddrMap, ClaimedUserMap
    <3>5. QED
      BY <3>3, <3>4
  <2>3. ASSUME NEW r \in Removal, RemoveUser(r)
        PROVE  (addrMap[u] = a <=> userMap[a] = u)'
    BY <2>3 DEF RemoveUser, ForgottenUserMap
  <2>4. QED
    BY <2>1, <2>2, <2>3, MapsTouched
<1>3. QED
  BY <1>1, <1>2, RouterTypeCorrect, PTL DEF RouterSpec

-----------------------------------------------------------------------------
(* Admission, ghosts and audio. *)

\* Who has a record now has had one: what the admission check relies on.
Recorded == \A c \in Channel : record[c] \subseteq been[c]

\* Only who had a record of membership is ever admitted to a voice session, although the
\* record may go between handleJoin's check and its update of the session.
THEOREM AdmissionIsChecked == RouterSpec => [](Recorded /\ OnlyRecordedAdmitted)
<1> DEFINE Inv == Recorded /\ OnlyRecordedAdmitted
<1>1. RouterInit => Inv
  BY DEF RouterInit, Recorded, OnlyRecordedAdmitted, Doing
<1>2. RouterTypeOK /\ Inv /\ [RouterNext]_routerVars => Inv'
  <2> SUFFICES ASSUME RouterTypeOK, Inv, [RouterNext]_routerVars PROVE Inv'
    OBVIOUS
  <2> USE DEF Recorded, OnlyRecordedAdmitted, Doing
  <2>0. /\ \A c \in Channel : record[c] \subseteq Speaker /\ been[c] \subseteq Speaker
        /\ active \in [Channel -> SUBSET Speaker]
        /\ record \in [Channel -> SUBSET Speaker] /\ been \in [Channel -> SUBSET Speaker]
        /\ loop \in Packet \cup {Idle}
    BY DEF RouterTypeOK
  <2>1. CASE UNCHANGED <<active, record, been, loop>>
    BY <2>1
  <2>2. CASE Environment
    <3>1. ASSUME NEW u \in Speaker, NEW c \in Channel, ChangeRecord(u, c) PROVE Inv'
      BY <2>0, <3>1 DEF ChangeRecord
    <3>2. ASSUME NEW p, Take(p), p.op # "admit" PROVE Inv'
      BY <3>2 DEF Take, world
    <3>3. QED
      BY <2>1, <2>2, <3>1, <3>2 DEF Environment, Disconnect, ReadSender, world,
         TakeRegister, TakeJoin, TakeLeave
  <2>3. CASE Handle
    <3>1. CASE CheckMember
      BY <2>0, <3>1 DEF CheckMember, AfterCheck, Packet, world
    <3>2. CASE HandleJoinPacket
      BY <2>0, <3>2 DEF HandleJoinPacket, world
    <3>3. CASE HandleRegister \/ HandleLeavePacket
      BY <2>0, <3>3 DEF HandleRegister, HandleLeavePacket, world
    <3>4. QED
      BY <2>3, <3>1, <3>2, <3>3 DEF Handle
  <2>4. ASSUME NEW r \in Removal, RemoveUser(r) PROVE Inv'
    BY <2>0, <2>4 DEF RemoveUser, world
  <2>5. ASSUME \/ \E p \in Proc : Notify(p)
               \/ \E s \in audio : HandleAudio(s)
        PROVE  UNCHANGED <<active, record, been, loop>>
    BY <2>5, AudioStep DEF Notify, Announce, ReadRoster, world
  <2>6. CASE UNCHANGED routerVars
    BY <2>1, <2>6 DEF routerVars, world
  <2>7. QED
    BY <2>1, <2>2, <2>3, <2>4, <2>5, <2>6 DEF RouterNext
<1>3. QED
  BY <1>1, <1>2, RouterTypeCorrect, PTL DEF RouterSpec

\* A user whose join is being handled had an address when it was taken, and has it still
\* unless a removal overtook the join.
JoinerHasAddress ==
  Doing("check") \/ Doing("admit") => loop.user \in unheard \/ addrMap[loop.user] # NoAddr

\* After a removal there is nothing of the user but what the packets bring back that the
\* loop was in the middle of or takes later, and who is in a session has an address but
\* for the two races. The invariant is inductive because only the loop brings users back,
\* for loop.user, and an address is lost only to another registration or a removal.
THEOREM RacesAreTheOnlyGhostSource == RouterSpec => [](JoinerHasAddress /\ GhostsOnlyFromRaces)
<1> DEFINE Inv == JoinerHasAddress /\ GhostsOnlyFromRaces
<1>1. RouterInit => Inv
  BY DEF RouterInit, GhostsOnlyFromRaces, JoinerHasAddress, Doing
<1>2. RouterTypeOK /\ MapsInverse /\ Inv /\ [RouterNext]_routerVars => Inv'
  <2> SUFFICES ASSUME RouterTypeOK, MapsInverse, Inv, [RouterNext]_routerVars PROVE Inv'
    OBVIOUS
  <2> USE DEF GhostsOnlyFromRaces, JoinerHasAddress, Doing
  <2>0. /\ active \in [Channel -> SUBSET Speaker] /\ loop \in Packet \cup {Idle}
        /\ addrMap \in [Speaker -> Addr \cup {NoAddr}] /\ userMap \in [Addr -> Speaker \cup {NoUser}]
        /\ spoken \subseteq Speaker /\ unheard \subseteq Speaker
        /\ leaving \in [Removal -> Speaker \cup {NoUser}]
    BY DEF RouterTypeOK
  <2>1. ASSUME UNCHANGED <<addrMap, active, loop, spoken, unheard>> PROVE Inv'
    BY <2>1
  <2>2. CASE Environment
    <3>1. ASSUME NEW p, Take(p), p.op \in {"claim", "leave"} \/ addrMap[p.user] # NoAddr PROVE Inv'
      BY <3>1 DEF Take, maps
    <3>2. ASSUME NEW a \in Addr, NEW c \in Channel, TakeJoin(a, c) PROVE Inv'
      <4>1. addrMap[userMap[a]] = a
        BY <2>0, <3>2 DEF TakeJoin, MapsInverse
      <4>2. QED
        BY <3>1, <3>2, <4>1 DEF TakeJoin
    <3>3. CASE \E u \in Speaker, a \in Addr : TakeRegister(u, a)
      BY <3>1, <3>3 DEF TakeRegister
    <3>4. CASE \E a \in Addr, c \in Channel : TakeLeave(a, c)
      BY <3>1, <3>4 DEF TakeLeave
    <3>5. QED
      BY <2>1, <2>2, <3>2, <3>3, <3>4 DEF Environment, Disconnect, ChangeRecord, ReadSender,
         maps, past
  <2>3. CASE Handle
    <3>1. CASE HandleRegister
      <4> DEFINE v == loop.user
                 b == loop.addr
      <4>1. v \in Speaker /\ b \in Addr /\ v \in spoken
        BY <2>0, <3>1 DEF HandleRegister, Packet
      <4>2. /\ addrMap' = ClaimedAddrMap(v, b) /\ loop' = Idle
            /\ unheard' = (unheard \ {v}) \cup ({userMap[b]} \ {v, NoUser})
            /\ UNCHANGED <<active, spoken>>
        BY <3>1 DEF HandleRegister
      <4> HIDE DEF v, b
      <4>3. ASSUME NEW u \in Speaker, addrMap'[u] = NoAddr, u \notin unheard'
            PROVE  u # v /\ addrMap[u] = NoAddr /\ u \notin unheard
        BY <2>0, <4>1, <4>2, <4>3 DEF ClaimedAddrMap
      <4>4. \A u \in Speaker \ {v} : addrMap[u] = NoAddr => addrMap'[u] = NoAddr
        BY <4>1, <4>2 DEF ClaimedAddrMap
      <4>5. QED
        BY <4>1, <4>2, <4>3, <4>4
    <3>2. CASE CheckMember
      BY <2>0, <3>2 DEF CheckMember, AfterCheck, Packet, maps, past
    <3>3. CASE HandleJoinPacket
      <4>1. /\ loop # Idle /\ loop.op = "admit" /\ loop' = Idle /\ loop.chan \in Channel
            /\ active' = [active EXCEPT ![loop.chan] = active[loop.chan] \cup {loop.user}]
            /\ UNCHANGED <<addrMap, spoken, unheard>>
        BY <2>0, <3>3 DEF HandleJoinPacket, Packet, maps, past
      <4>2. \A c \in Channel, u \in Speaker : u \in active'[c] => u \in active[c] \/ u = loop.user
        BY <2>0, <4>1
      <4>3. QED
        BY <4>1, <4>2
    <3>4. CASE HandleLeavePacket
      <4>1. /\ loop' = Idle /\ UNCHANGED <<addrMap, spoken, unheard>>
            /\ \A c \in Channel : active'[c] \subseteq active[c]
        BY <2>0, <3>4 DEF HandleLeavePacket, maps, past
      <4>2. QED
        BY <4>1
    <3>5. QED
      BY <2>3, <3>1, <3>2, <3>3, <3>4 DEF Handle
  <2>4. ASSUME NEW r \in Removal, RemoveUser(r) PROVE Inv'
    <3> DEFINE w == leaving[r]
    <3>1. /\ w \in Speaker /\ loop' = loop
          /\ addrMap' = [addrMap EXCEPT ![w] = NoAddr]
          /\ \A c \in Channel : w \notin active'[c] /\ active'[c] \subseteq active[c]
          /\ spoken' = IF loop # Idle /\ loop.user = w THEN spoken ELSE spoken \ {w}
          /\ unheard' = IF (Doing("check") \/ Doing("admit")) /\ loop.user = w THEN unheard \cup {w}
                     ELSE unheard \ {w}
      BY <2>0, <2>4 DEF RemoveUser, SessionsOf
    <3> HIDE DEF w
    <3>2. addrMap'[w] = NoAddr /\ \A u \in Speaker \ {w} : addrMap'[u] = addrMap[u]
      BY <2>0, <3>1
    <3>3. loop # Idle => loop.user \in Speaker
      BY <2>0 DEF Packet
    <3>4. JoinerHasAddress'
      BY <3>1, <3>2, <3>3
    <3>5. GhostsOnlyFromRaces'
      BY <3>1, <3>2, <3>3
    <3>6. QED
      BY <3>4, <3>5
  <2>5. ASSUME \/ \E p \in Proc : Notify(p)
               \/ \E s \in audio : HandleAudio(s)
        PROVE  UNCHANGED <<addrMap, active, loop, spoken, unheard>>
    BY <2>5, AudioStep DEF Notify, Announce, ReadRoster, maps, past
  <2>6. CASE UNCHANGED routerVars
    BY <2>1, <2>6 DEF routerVars, maps, past
  <2>7. QED
    BY <2>1, <2>2, <2>3, <2>4, <2>5, <2>6 DEF RouterNext
<1>3. QED
  BY <1>1, <1>2, RouterTypeCorrect, MapsStayInverse, PTL DEF RouterSpec

\* So a session has those who were let in and can be reached, but for those races.
THEOREM SessionsCorrect == RouterSpec => []SessionsAreTrue
<1>1. OnlyRecordedAdmitted /\ GhostsOnlyFromRaces => SessionsAreTrue
  BY DEF SessionsAreTrue
<1>2. QED
  BY <1>1, AdmissionIsChecked, RacesAreTheOnlyGhostSource, PTL

\* Audio is written to the address of the listener it is meant for or to one that changed
\* hands after the targets were collected, in whatever order the read loop, removals and
\* the goroutines of audio packets take the lock.
THEOREM AudioIsNotMisrouted == RouterSpec => []AudioReachesItsListener
<1> DEFINE Good(s, d) == /\ userMap[d.to] = d.for \/ d.to \in s.moved
                         /\ d.for # s.from
                         /\ d.for \in been[s.chan]
           Inv == AudioReachesItsListener /\ \A s \in audio : s.at = "write" \/ s.to = {}
<1>1. RouterInit => Inv
  BY DEF RouterInit, AudioReachesItsListener
<1>2. /\ RouterTypeOK /\ MapsInverse /\ OnlyRecordedAdmitted /\ Inv /\ [RouterNext]_routerVars
      => Inv'
  <2> SUFFICES ASSUME RouterTypeOK, MapsInverse, OnlyRecordedAdmitted, Inv, [RouterNext]_routerVars
               PROVE  Inv'
    OBVIOUS
  <2>0. audio \subseteq AudioStream /\ been \in [Channel -> SUBSET Speaker]
    BY DEF RouterTypeOK
  <2>1. ASSUME UNCHANGED <<userMap, audio>>, \A c \in Channel : been[c] \subseteq been'[c] PROVE Inv'
    BY <2>0, <2>1 DEF AudioReachesItsListener, AudioStream
  <2>2. CASE Environment
    <3>1. ASSUME NEW a \in Addr, NEW c \in Channel, ReadSender(a, c) PROVE Inv'
      <4> DEFINE n == [from |-> userMap[a], chan |-> c, at |-> "lookup", to |-> {}, moved |-> {}]
      <4>1. audio' = audio \cup {n} /\ UNCHANGED <<userMap, been>> /\ n.to = {}
        BY <3>1 DEF ReadSender, maps, world
      <4> HIDE DEF n
      <4>2. QED
        BY <4>1 DEF AudioReachesItsListener
    <3>2. ASSUME NEW u \in Speaker, NEW c \in Channel, ChangeRecord(u, c) PROVE Inv'
      BY <2>0, <2>1, <3>2 DEF ChangeRecord, maps
    <3>3. ASSUME NEW p, Take(p) PROVE Inv'
      BY <2>1, <3>3 DEF Take, maps, world
    <3>4. ASSUME NEW u \in Speaker, NEW r \in Removal, Disconnect(u, r) PROVE Inv'
      BY <2>1, <3>4 DEF Disconnect, maps, world
    <3>5. QED
      BY <2>2, <3>1, <3>2, <3>3, <3>4 DEF Environment, TakeRegister, TakeJoin, TakeLeave
  <2>3. ASSUME StreamsNote, been' = been PROVE Inv'
    <3>1. ASSUME NEW s \in audio'
          PROVE  (s.at = "write" \/ s.to = {}) /\ \A d \in s.to : Good(s, d)'
      <4>1. PICK t \in audio : /\ s.from = t.from /\ s.chan = t.chan /\ s.to = t.to
                               /\ s.at = t.at
                               /\ s.moved = IF t.at = "write" THEN t.moved \cup Moved ELSE t.moved
        BY <2>3, <3>1, StreamNoted
      <4>2. t.to \subseteq Datagram /\ t.moved \subseteq Addr
        BY <2>0 DEF AudioStream
      <4>3. ASSUME NEW d \in t.to PROVE Good(s, d)'
        <5>1. Good(t, d) /\ t.at = "write" /\ d.to \in Addr
          BY <4>2, <4>3 DEF AudioReachesItsListener, Datagram
        <5>2. userMap'[d.to] = userMap[d.to] \/ d.to \in Moved
          BY <5>1 DEF Moved
        <5> HIDE DEF Moved
        <5>3. QED
          BY <2>3, <4>1, <5>1, <5>2
      <4>4. QED
        BY <4>1, <4>3
    <3>2. QED
      BY <3>1 DEF AudioReachesItsListener
  <2>4. CASE Handle
    BY <2>1, <2>3, <2>4 DEF Handle, HandleRegister, CheckMember, HandleJoinPacket, HandleLeavePacket,
       maps, world
  <2>5. ASSUME NEW r \in Removal, RemoveUser(r) PROVE Inv'
    BY <2>3, <2>5 DEF RemoveUser, world
  <2>6. ASSUME NEW s \in audio, HandleAudio(s) PROVE Inv'
    <3>0. s \in AudioStream /\ UNCHANGED <<userMap, been>>
      BY <2>0, AudioStep, <2>6 DEF maps, world
    <3>1. ASSUME NEW d \in {[for |-> v, to |-> addrMap[v]] : v \in Listeners(s)} PROVE  userMap[d.to] = d.for /\ d.for # s.from /\ d.for \in been[s.chan]
      <4>1. PICK v \in Listeners(s) : d = [for |-> v, to |-> addrMap[v]]
        BY <3>1
      <4>2. /\ v \in Speaker /\ addrMap[v] \in Addr
            /\ v \in active[s.chan] \ {s.from} /\ s.chan \in Channel
        BY <3>0 DEF Listeners, RouterTypeOK, AudioStream
      <4>3. userMap[addrMap[v]] = v
        BY <4>2 DEF MapsInverse
      <4>4. QED
        BY <4>1, <4>2, <4>3 DEF OnlyRecordedAdmitted
    <3>2. ASSUME NEW t \in audio', NEW d \in t.to PROVE Good(t, d)'
      <4>1. CASE t \in audio
        BY <3>0, <4>1, <3>2 DEF AudioReachesItsListener
      <4>2. CASE t \notin audio
        <5>1. /\ t.from = s.from /\ t.chan = s.chan
              /\ \/ d \in s.to /\ t.moved = s.moved
                 \/ d \in {[for |-> v, to |-> addrMap[v]] : v \in Listeners(s)}
          BY <2>6, <3>2, <4>2, AudioStep
        <5>2. /\ d.for # s.from /\ d.for \in been[s.chan]
              /\ userMap[d.to] = d.for \/ d.to \in t.moved
          BY <3>1, <5>1 DEF AudioReachesItsListener
        <5>3. QED
          BY <3>0, <5>1, <5>2
      <4>3. QED
        BY <4>1, <4>2
    <3>3. ASSUME NEW t \in audio' PROVE t.at = "write" \/ t.to = {}
      <4>1. CASE CollectTargets(s)
        BY <3>0, <3>3, <4>1 DEF CollectTargets, AudioStream
      <4>2. ASSUME NEW d \in s.to, WriteToUDP(s, d) PROVE t.at = "write" \/ t.to = {}
        BY <3>0, <3>3, <4>2 DEF WriteToUDP, AudioStream
      <4>3. CASE Done(s)
        BY <3>3, <4>3 DEF Done
      <4>4. QED
        BY <2>6, <4>1, <4>2, <4>3 DEF HandleAudio
    <3>4. QED
      BY <3>2, <3>3 DEF AudioReachesItsListener
  <2>7. CASE UNCHANGED routerVars \/ \E p \in Proc : Notify(p)
    BY <2>1, <2>7 DEF routerVars, Notify, Announce, ReadRoster, maps, world
  <2>8. QED
    BY <2>2, <2>4, <2>5, <2>6, <2>7 DEF RouterNext
<1>3. QED
  BY <1>1, <1>2, RouterTypeCorrect, MapsStayInverse, AdmissionIsChecked, PTL DEF RouterSpec

-----------------------------------------------------------------------------
(* Announcements. *)

\* A process is done with its announcements before it changes a session again:
\* the loop before it takes a packet, a goroutine before it removes anybody else.
DoneBefore ==
  /\ \A p \in Proc : \A n \in held[p] : n.chan \in due[p]
  /\ loop # Idle => due[Loop] = {}
  /\ \A r \in Removal : leaving[r] # NoUser => due[r] = {}

LEMMA OthersDoNotAnnounce ==
  ASSUME [RouterNext]_routerVars
  PROVE  \/ UNCHANGED <<announce, active>>
         \/ HandleJoinPacket \/ HandleLeavePacket
         \/ \E r \in Removal : RemoveUser(r)
         \/ \E p \in Proc : Notify(p)
<1>1. CASE UNCHANGED routerVars
  BY <1>1 DEF routerVars
<1>2. CASE Environment
  BY <1>2 DEF Environment, Disconnect, ChangeRecord, TakeRegister, TakeJoin,
              TakeLeave, Take, ReadSender
<1>3. CASE Handle
  BY <1>3 DEF Handle, HandleRegister, CheckMember
<1>4. CASE \E s \in audio : HandleAudio(s)
  BY <1>4 DEF HandleAudio, CollectTargets, WriteToUDP, Done
<1>5. QED
  BY <1>1, <1>2, <1>3, <1>4 DEF RouterNext

LEMMA ProcessesAreDone == RouterTypeOK /\ DoneBefore /\ [RouterNext]_routerVars => DoneBefore'
<1> SUFFICES ASSUME RouterTypeOK, DoneBefore, [RouterNext]_routerVars PROVE DoneBefore'
  OBVIOUS
<1> USE DEF RouterTypeOK, DoneBefore
<1>1. CASE UNCHANGED routerVars
  BY <1>1 DEF routerVars, world, announce
<1>2. CASE Environment
  <2>1. ASSUME NEW p, Take(p) PROVE DoneBefore'
    BY <2>1 DEF Take, world, announce
  <2>2. ASSUME NEW u \in Speaker, NEW r \in Removal, Disconnect(u, r) PROVE DoneBefore'
    BY <2>2 DEF Disconnect, announce
  <2>3. QED
    BY <1>2, <2>1, <2>2 DEF Environment, ChangeRecord, ReadSender, TakeRegister,
       TakeJoin, TakeLeave, announce
<1>3. CASE Handle
  <2>1. CASE HandleRegister \/ CheckMember
    BY <2>1 DEF HandleRegister, CheckMember, AfterCheck, Doing, world, announce
  <2>2. CASE HandleJoinPacket \/ HandleLeavePacket
    <3>1. \A p \in Proc : due[p] \subseteq due'[p]
      BY <2>2 DEF HandleJoinPacket, HandleLeavePacket, Doing
    <3>2. \A r \in Removal : due'[r] = due[r]
      BY <2>2, LoopAssumption DEF HandleJoinPacket, HandleLeavePacket, Proc
    <3>3. loop' = Idle /\ UNCHANGED <<held, leaving>>
      BY <2>2 DEF HandleJoinPacket, HandleLeavePacket, world
    <3>4. QED
      BY <3>1, <3>2, <3>3
  <2>3. QED
    BY <1>3, <2>1, <2>2 DEF Handle
<1>4. ASSUME NEW r \in Removal, RemoveUser(r) PROVE DoneBefore'
  <2>1. due[r] = {} /\ held[r] = {} /\ r # Loop
    BY <1>4, LoopAssumption DEF RemoveUser, Proc
  <2>2. /\ \A p \in Proc \ {r} : due'[p] = due[p]
        /\ leaving'[r] = NoUser /\ \A q \in Removal \ {r} : leaving'[q] = leaving[q]
        /\ UNCHANGED <<held, loop>>
    BY <1>4 DEF RemoveUser
  <2>3. QED
    BY <2>1, <2>2 DEF Proc
<1>5. ASSUME NEW p \in Proc, Notify(p) PROVE DoneBefore'
  <2>1. ASSUME NEW c \in Channel, ReadRoster(p, c) PROVE DoneBefore'
    BY <2>1 DEF ReadRoster, world
  <2>2. CASE Announce(p)
    BY <2>2 DEF Announce, world, Proc
  <2>3. QED
    BY <1>5, <2>1, <2>2 DEF Notify
<1>6. QED
  BY <1>1, <1>2, <1>3, <1>4, <1>5, AudioStep DEF RouterNext, announce

\* However joins, leaves, removals and announcements interleave, a session whose
\* present members are not announced has an exact announcement still to come.
THEOREM ChangesAreNotForgotten == RouterSpec => [](DoneBefore /\ ChangesAreAnnounced)
<1>1. RouterInit => DoneBefore /\ ChangesAreAnnounced
  BY DEF RouterInit, DoneBefore, ChangesAreAnnounced
<1>2. RouterTypeOK /\ DoneBefore /\ ChangesAreAnnounced /\ [RouterNext]_routerVars => ChangesAreAnnounced'
  <2> SUFFICES ASSUME RouterTypeOK, DoneBefore, ChangesAreAnnounced, [RouterNext]_routerVars,
                      NEW c \in Channel, ~told'[c]
               PROVE  \E p \in Proc : /\ c \in due'[p]
                                      /\ \A n \in held'[p] : n.chan = c => n.users = active'[c]
    BY DEF ChangesAreAnnounced
  <2> DEFINE Will(p) == /\ c \in due[p]
                        /\ \A n \in held[p] : n.chan = c => n.users = active[c]
             Goal == \E p \in Proc : /\ c \in due'[p]
                                     /\ \A n \in held'[p] : n.chan = c => n.users = active'[c]
  <2>0. told[c] \/ \E p \in Proc : Will(p)
    BY DEF ChangesAreAnnounced
  <2> USE DEF RouterTypeOK
  <2>1. CASE UNCHANGED <<announce, active>>
    BY <2>0, <2>1 DEF announce
  <2>2. CASE HandleJoinPacket \/ HandleLeavePacket
    <3>1. due[Loop] = {} /\ held[Loop] = {}
      BY <2>2 DEF HandleJoinPacket, HandleLeavePacket, Doing, DoneBefore, Proc
    <3>2. /\ due'[Loop] = {loop.chan}
          /\ \A p \in Proc \ {Loop} : due'[p] = due[p]
          /\ held' = held
          /\ loop.chan \in Channel
          /\ \A d \in Channel \ {loop.chan} : active'[d] = active[d]
          /\ told' = StillTold
      BY <2>2 DEF HandleJoinPacket, HandleLeavePacket, LeaveNotice, Proc, Doing, Packet
    <3>3. CASE c = loop.chan
      BY <3>1, <3>2, <3>3 DEF Proc
    <3>4. CASE c # loop.chan
      BY <2>0, <3>1, <3>2, <3>4 DEF StillTold
    <3>5. QED
      BY <3>3, <3>4
  <2>3. ASSUME NEW r \in Removal, RemoveUser(r) PROVE Goal
    <3> DEFINE gone == SessionsOf(leaving[r])
    <3>1. due[r] = {} /\ held[r] = {}
      BY <2>3 DEF RemoveUser, DoneBefore, Proc
    <3>2. /\ due'[r] = gone
          /\ \A p \in Proc \ {r} : due'[p] = due[p]
          /\ held' = held
          /\ \A d \in Channel \ gone : active'[d] = active[d]
          /\ told' = StillTold
      BY <2>3 DEF RemoveUser, Proc
    <3> HIDE DEF gone
    <3>3. CASE c \in gone
      BY <3>1, <3>2, <3>3 DEF Proc
    <3>4. CASE c \notin gone
      BY <2>0, <3>1, <3>2, <3>4 DEF StillTold
    <3>5. QED
      BY <3>3, <3>4
  <2>4. ASSUME NEW p \in Proc, Notify(p) PROVE Goal
    <3>1. ASSUME NEW d \in Channel, ReadRoster(p, d) PROVE Goal
      BY <2>0, <3>1 DEF ReadRoster
    <3>2. CASE Announce(p)
      <4>1. PICK n \in held[p] :
              /\ told' = [told EXCEPT ![n.chan] = @ \/ n.users = active[n.chan]]
              /\ due' = [due EXCEPT ![p] = @ \ {n.chan}]
              /\ held' = [held EXCEPT ![p] = {}]
              /\ UNCHANGED active
        BY <3>2 DEF Announce
      <4>2. n.chan \in Channel
        BY DEF Notice
      <4>3. ~told[c]
        BY <4>1, <4>2
      <4>4. PICK q \in Proc : Will(q)
        BY <2>0, <4>3
      <4>5. CASE q = p /\ n.chan = c
        BY <4>1, <4>2, <4>4, <4>5
      <4>6. CASE q # p \/ n.chan # c
        BY <4>1, <4>4, <4>6
      <4>7. QED
        BY <4>5, <4>6
    <3>3. QED
      BY <2>4, <3>1, <3>2 DEF Notify
  <2>5. QED
    BY <2>1, <2>2, <2>3, <2>4, OthersDoNotAnnounce
<1>3. QED
  BY <1>1, <1>2, ProcessesAreDone, RouterTypeCorrect, PTL DEF RouterSpec

=============================================================================
