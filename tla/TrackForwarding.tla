-------------------------- MODULE TrackForwarding --------------------------
(***************************************************************************)
(* How the SFU wires the tracks of a call (backend/internal/rtc): every    *)
(* track a participant publishes is added to the subscribe connection of   *)
(* every other participant of the room (room.go), and taken off again when *)
(* it ends or its publisher leaves (participant.go, forwarder.go).         *)
(*                                                                         *)
(* Joining, leaving, a new track and the end of a track are goroutines of  *)
(* their own.  Each works through a snapshot it took under a lock; nothing *)
(* is held while it does.                                                  *)
(***************************************************************************)
EXTENDS FiniteSets

CONSTANTS User,
          Part,      \* the Participant objects there may be, each <<its user, a copy>>
          Track,     \* the publishedTrack objects there may be, each <<its participant, a name>>
          None

Who(p)       == p[1]
Publisher(t) == t[1]

\* An RTPSender on a subscribe connection, by the goroutine that added it.
Sender == [sub : Part, trk : Track, by : {"join", "publish"}]

ASSUME TrackAssumption == \A t \in Track : Publisher(t) \in Part
ASSUME PartAssumption  == \A p \in Part : Who(p) \in User
ASSUME NoneAssumption  == None \notin Part \cup Sender
ASSUME ThreadAssumption == Part \cap Track = {}

VARIABLES
  room,     \* user -> the participant object of the user in the room
  life,     \* participant -> how far it is, from "new" to "closed"
  stage,    \* track -> how far its goroutine is
  pub,      \* the tracks in the publishedTracks of their participants
  wired,    \* the senders on the subscribe connections
  sub,      \* track -> user -> the sender to remove for that user later
  unread,   \* joining participant -> participants whose tracks it has yet to read
  left,     \* leaving participant -> who was left in the room
  todo,     \* goroutine of a participant or track -> senders it has yet to add
  half,     \* goroutine -> the sender it has added and not yet noted, or None
  undo,     \* track that ended -> senders it has yet to take off
  take,     \* leaving participant -> <<track, user>> it has yet to take off
  late      \* tracks wired twice for a user, or after their end began (history)

people == <<room, life, unread, left>>
vars   == <<people, stage, pub, wired, sub, todo, half, undo, take, late>>

Thread == Part \cup Track

TypeOK ==
  /\ room \in [User -> Part \cup {None}]
  /\ life \in [Part -> {"new", "in", "removed", "leaving", "closed"}]
  /\ stage \in [Track -> {"new", "published", "wiring", "ending", "ended", "unwiring", "done"}]
  /\ pub \in SUBSET Track
  /\ wired \in SUBSET Sender
  /\ sub \in [Track -> [User -> Sender \cup {None}]]
  /\ unread \in [Part -> SUBSET Part]
  /\ left \in [Part -> SUBSET Part]
  /\ todo \in [Thread -> SUBSET Sender]
  /\ half \in [Thread -> Sender \cup {None}]
  /\ undo \in [Track -> SUBSET Sender]
  /\ take \in [Part -> SUBSET (Track \X User)]
  /\ late \in SUBSET Track

Init ==
  /\ room = [u \in User |-> None]
  /\ life = [p \in Part |-> "new"]
  /\ stage = [t \in Track |-> "new"]
  /\ pub = {}
  /\ wired = {}
  /\ sub = [t \in Track |-> [u \in User |-> None]]
  /\ unread = [p \in Part |-> {}]
  /\ left = [p \in Part |-> {}]
  /\ todo = [h \in Thread |-> {}]
  /\ half = [h \in Thread |-> None]
  /\ undo = [t \in Track |-> {}]
  /\ take = [p \in Part |-> {}]
  /\ late = {}

InRoom == {p \in Part : room[Who(p)] = p}

\* Everything a goroutine was about to wire is wired.
Wired(h) == todo[h] = {} /\ half[h] = None

-----------------------------------------------------------------------------
(* Joining: addParticipant *)

Join(p) ==
  /\ life[p] = "new"
  /\ room[Who(p)] = None
  /\ life' = [life EXCEPT ![p] = "in"]
  /\ room' = [room EXCEPT ![Who(p)] = p]
  /\ unread' = [unread EXCEPT ![p] = InRoom]
  /\ UNCHANGED <<left, stage, pub, wired, sub, todo, half, undo, take, late>>

\* Mutant: the tracks are read before the participant is in the room.
TracksOfNobody(o) == {}

TracksOf(o) == {t \in pub : Publisher(t) = o}

\* One participant after the other: read its tracks, wire them.
ReadTracks(p, o) ==
  /\ o \in unread[p]
  /\ Wired(p)
  /\ unread' = [unread EXCEPT ![p] = @ \ {o}]
  /\ todo' = [todo EXCEPT ![p] = {[sub |-> p, trk |-> t, by |-> "join"] : t \in TracksOf(o)}]
  /\ UNCHANGED <<room, life, left, stage, pub, wired, sub, half, undo, take, late>>

-----------------------------------------------------------------------------
(* Publishing: onPublishedTrack, and forwardTrack when the wiring is done *)

\* A track arrives as long as the publish connection is open.
Publish(t) ==
  /\ stage[t] = "new"
  /\ life[Publisher(t)] \in {"in", "removed", "leaving"}
  /\ stage' = [stage EXCEPT ![t] = "published"]
  /\ pub' = pub \cup {t}
  /\ UNCHANGED <<people, wired, sub, todo, half, undo, take, late>>

Subscribers(t) == {p \in InRoom : Who(p) # Who(Publisher(t))}

Snapshot(t) ==
  /\ stage[t] = "published"
  /\ stage' = [stage EXCEPT ![t] = "wiring"]
  /\ todo' = [todo EXCEPT ![t] = {[sub |-> p, trk |-> t, by |-> "publish"] : p \in Subscribers(t)}]
  /\ UNCHANGED <<people, pub, wired, sub, half, undo, take, late>>

-----------------------------------------------------------------------------
(* wireSubscriber: AddTrack, then addSubscriber *)

\* A closed connection takes no track.
AddTrack(h, s) ==
  /\ s \in todo[h]
  /\ half[h] = None
  /\ todo' = [todo EXCEPT ![h] = @ \ {s}]
  /\ IF life[s.sub] = "closed"
     THEN UNCHANGED <<wired, half>>
     ELSE /\ wired' = wired \cup {s}
          /\ half' = [half EXCEPT ![h] = s]
  /\ UNCHANGED <<people, stage, pub, sub, undo, take, late>>

\* Mutant: the sender is not kept for later.
NotNoted(s) == sub

\* The map has one sender for a user: the last one.
Noted(s) == [sub EXCEPT ![s.trk][Who(s.sub)] = s]

Gone(t) == t \notin pub \/ room[Who(Publisher(t))] # Publisher(t)

AddSubscriber(h) ==
  /\ half[h] # None
  /\ LET s == half[h] IN
       /\ sub' = Noted(s)
       /\ late' = IF \/ Gone(s.trk)
                     \/ \E r \in wired : r # s /\ Who(r.sub) = Who(s.sub) /\ r.trk = s.trk
                  THEN late \cup {s.trk} ELSE late
  /\ half' = [half EXCEPT ![h] = None]
  /\ UNCHANGED <<people, stage, pub, wired, todo, undo, take>>

-----------------------------------------------------------------------------
(* The end of a track: onTrackEnded *)

\* The forwarding loop stops; when the whole participant goes, that is all.
EndTrack(t) ==
  /\ stage[t] = "wiring"
  /\ Wired(t)
  /\ stage' = [stage EXCEPT ![t] = IF life[Publisher(t)] = "closed" THEN "done" ELSE "ending"]
  /\ UNCHANGED <<people, pub, wired, sub, todo, half, undo, take, late>>

Unpublish(t) ==
  /\ stage[t] = "ending"
  /\ stage' = [stage EXCEPT ![t] = "ended"]
  /\ pub' = pub \ {t}
  /\ UNCHANGED <<people, wired, sub, todo, half, undo, take, late>>

SnapshotSenders(t) ==
  /\ stage[t] = "ended"
  /\ stage' = [stage EXCEPT ![t] = "done"]
  /\ undo' = [undo EXCEPT ![t] = {sub[t][u] : u \in {v \in User : sub[t][v] # None}}]
  /\ UNCHANGED <<people, pub, wired, sub, todo, half, take, late>>

\* The sender is taken off if it is on the connection the user has now.
UndoTrack(t, s) ==
  /\ s \in undo[t]
  /\ undo' = [undo EXCEPT ![t] = @ \ {s}]
  /\ wired' = IF room[Who(s.sub)] = s.sub THEN wired \ {s} ELSE wired
  /\ UNCHANGED <<people, stage, pub, sub, todo, half, take, late>>

-----------------------------------------------------------------------------
(* Leaving: removeParticipant *)

\* A user's handlers come one after the other here: he joins when he is out, and leaves when
\* his join is done. What two devices of one user may do to the room is in CallRooms.
Remove(p) ==
  /\ life[p] = "in"
  /\ unread[p] = {} /\ Wired(p)
  /\ life' = [life EXCEPT ![p] = "removed"]
  /\ room' = [room EXCEPT ![Who(p)] = None]
  /\ left' = [left EXCEPT ![p] = InRoom \ {p}]
  /\ UNCHANGED <<unread, stage, pub, wired, sub, todo, half, undo, take, late>>

ToTake(p) == {t \in pub : Publisher(t) = p} \X {Who(o) : o \in left[p]}

SnapshotTracks(p) ==
  /\ life[p] = "removed"
  /\ life' = [life EXCEPT ![p] = "leaving"]
  /\ take' = [take EXCEPT ![p] = ToTake(p)]
  /\ UNCHANGED <<room, unread, left, stage, pub, wired, sub, todo, half, undo, late>>

\* removeSubscriber, and RemoveTrack of the sender it returned on the connection
\* of the participant who was left.
TakeOff(p, t, u) ==
  /\ <<t, u>> \in take[p]
  /\ take' = [take EXCEPT ![p] = @ \ {<<t, u>>}]
  /\ sub' = [sub EXCEPT ![t][u] = None]
  /\ wired' = {s \in wired : ~(s = sub[t][u] /\ s.sub \in left[p])}
  /\ UNCHANGED <<people, stage, pub, todo, half, undo, late>>

\* Closing a subscribe connection ends its senders.
Close(p) ==
  /\ life[p] = "leaving"
  /\ take[p] = {}
  /\ life' = [life EXCEPT ![p] = "closed"]
  /\ wired' = {s \in wired : s.sub # p}
  /\ UNCHANGED <<room, unread, left, stage, pub, sub, todo, half, undo, take, late>>

-----------------------------------------------------------------------------
Wire(h) == AddSubscriber(h) \/ \E s \in todo[h] : AddTrack(h, s)

Stay(p) ==
  \/ Join(p)
  \/ \E o \in Part : ReadTracks(p, o)
  \/ Remove(p)
  \/ SnapshotTracks(p)
  \/ \E t \in Track, u \in User : TakeOff(p, t, u)
  \/ Close(p)

Stream(t) ==
  \/ Publish(t)
  \/ Snapshot(t)
  \/ EndTrack(t)
  \/ Unpublish(t)
  \/ SnapshotSenders(t)
  \/ \E s \in Sender : UndoTrack(t, s)

Next ==
  \/ \E h \in Thread : Wire(h)
  \/ \E p \in Part : Stay(p)
  \/ \E t \in Track : Stream(t)

Spec == Init /\ [][Next]_vars

-----------------------------------------------------------------------------
(* Safety. *)

\* Some goroutine is still about to wire t for p.
Pending(p, t) ==
  \/ Publisher(t) \in unread[p]
  \/ stage[t] = "published"
  \/ \E h \in Thread : \E s \in todo[h] : s.sub = p /\ s.trk = t

\* Nobody misses a track: whether a participant joins before, after or during
\* the publication of a track, one of the two goroutines wires it. The joiner
\* enters the room before it reads the tracks, the publisher adds the track
\* before it reads the room.
NobodyMisses ==
  \A t \in pub, p \in InRoom :
    \/ Who(p) = Who(Publisher(t))
    \/ Gone(t)
    \/ Pending(p, t)
    \/ \E s \in wired : s.sub = p /\ s.trk = t

\* Nothing is left of t to take off, or to wire.
Settled(t) ==
  /\ stage[t] = "done" \/ life[Publisher(t)] = "closed"
  /\ stage[t] \notin {"published", "ending", "ended"}
  /\ undo[t] = {}
  /\ \A h \in Thread : \A s \in todo[h] \cup ({half[h]} \ {None}) : s.trk # t

\* A track that is over is left on the connection of somebody in the room only
\* when it was wired twice for one user, or while it ended: every other sender was noted in
\* time to be found. (Who leaves is skipped, and closes the connection anyway.)
LeftoversOnlyFromRaces ==
  \A s \in wired :
    s.sub \in InRoom /\ Gone(s.trk) /\ Settled(s.trk) => s.trk \in late
=============================================================================
