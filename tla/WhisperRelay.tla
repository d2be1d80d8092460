---------------------------- MODULE WhisperRelay ----------------------------
(***************************************************************************)
(* The whisper relay of the WebSocket hub (backend/internal/ws): the       *)
(* connection registry, the whisper sessions held in memory, and the       *)
(* handlers that relay whisper frames between the two parties.             *)
(*                                                                         *)
(* A user may have several connections.  A connection handles its frames   *)
(* one after the other, but the handlers of different connections, the     *)
(* replay of pending invites to a new connection and the cleanup after a   *)
(* user's last connection interleave: a handler first updates the sessions *)
(* under whisperMu, and sends what it has to send after that.              *)
(***************************************************************************)
EXTENDS FiniteSets

CONSTANTS User, Slot, Session,
          Conn,        \* the connections there may be, each <<its user, a slot>>
          Friends,     \* the pairs of users the store says are friends
          None

ASSUME FriendsAssumption == Friends \subseteq User \X User

ASSUME ConnAssumption    == Conn \subseteq User \X Slot

Owner(c) == c[1]

VARIABLES
  conn,      \* connection -> "down", "joining", "up" or "closing"
  sess,      \* session -> its record in whisperSessions, or None
  party,     \* session -> its parties and first connection, or None: who knows of it
  ender,     \* session -> the user whose frame or cleanup ended it, or None (history)
  todo,      \* connection -> what its goroutine has yet to send
  heard      \* connection -> session -> kinds of frames queued to it

vars == <<conn, sess, party, ender, todo, heard>>

\* An invite or accept queued after the end of its session is heard as "late".
Kind    == {"init", "late", "accept", "end"}
Record  == {r \in [init : User, target : User, pending : BOOLEAN, old : BOOLEAN] :
              r.init # r.target}
Party   == [init : User, target : User, by : Conn]
\* self: the frame is for the connection itself, not for all of the user's.
Frame   == [kind : Kind, s : Session, to : User, self : BOOLEAN]

ASSUME NoneAssumption == None \notin User \cup Record \cup Party

TypeOK ==
  /\ conn \in [Conn -> {"down", "joining", "up", "closing"}]
  /\ sess \in [Session -> Record \cup {None}]
  /\ party \in [Session -> Party \cup {None}]
  /\ ender \in [Session -> User \cup {None}]
  /\ todo \in [Conn -> SUBSET Frame]
  /\ heard \in [Conn -> [Session -> SUBSET Kind]]

Init ==
  /\ conn = [c \in Conn |-> "down"]
  /\ sess = [s \in Session |-> None]
  /\ party = [s \in Session |-> None]
  /\ ender = [s \in Session |-> None]
  /\ todo = [c \in Conn |-> {}]
  /\ heard = [c \in Conn |-> [s \in Session |-> {}]]

\* In the hub's clients map.
Registered(c) == conn[c] \in {"joining", "up"}
IsUserOnline(u) == \E c \in Conn : Owner(c) = u /\ Registered(c)

\* The goroutine of c is free to read the next frame.
Reading(c) == conn[c] = "up" /\ todo[c] = {}

Live(s) == sess[s] # None

\* u ends the sessions D.
Remove(D, u) ==
  /\ sess' = [s \in Session |-> IF s \in D THEN None ELSE sess[s]]
  /\ ender' = [s \in Session |-> IF s \in D THEN u ELSE ender[s]]

ToUser(kind, s, u) == [kind |-> kind, s |-> s, to |-> u, self |-> FALSE]
ToSelf(kind, s, c) == [kind |-> kind, s |-> s, to |-> Owner(c), self |-> TRUE]

Then(c, frames) == todo' = [todo EXCEPT ![c] = frames]

-----------------------------------------------------------------------------
(* Connections. *)

\* ServeHTTP up to register.
Register(c) ==
  /\ conn[c] = "down"
  /\ todo[c] = {}
  /\ conn' = [conn EXCEPT ![c] = "joining"]
  /\ heard' = [heard EXCEPT ![c] = [s \in Session |-> {}]]
  /\ UNCHANGED <<sess, party, ender, todo>>

Pending(s) == Live(s) /\ sess[s].pending

\* Sessions the replay to c drops: stale ones, and those of initiators who left.
Unreplayable(c) ==
  {s \in Session : /\ Pending(s)
                   /\ \/ sess[s].old
                      \/ sess[s].target = Owner(c) /\ ~IsUserOnline(sess[s].init)}

\* Mutant: the user's own invites are replayed instead of those to the user.
ReplayableOwn(c) == {s \in Session : Pending(s) /\ sess[s].init = Owner(c)} \ Unreplayable(c)

Replayable(c) ==
  {s \in Session : Pending(s) /\ sess[s].target = Owner(c)} \ Unreplayable(c)

\* ReplayPendingWhisperInvites: the scan under whisperMu.
Replay(c) ==
  /\ conn[c] = "joining"
  /\ conn' = [conn EXCEPT ![c] = "up"]
  /\ sess' = [s \in Session |-> IF s \in Unreplayable(c) THEN None ELSE sess[s]]
  /\ Then(c, {ToSelf("init", s, c) : s \in Replayable(c)})
  /\ UNCHANGED <<party, ender, heard>>

OtherConns(c) == {d \in Conn \ {c} : Owner(d) = Owner(c)}

\* unregister: the connection leaves the map; the last one leaves a cleanup.
Unregister(c) ==
  /\ Reading(c)
  /\ conn' = [conn EXCEPT ![c] = IF \E d \in OtherConns(c) : Registered(d)
                                 THEN "down" ELSE "closing"]
  /\ UNCHANGED <<sess, party, ender, todo, heard>>

\* Mutant: a target's absence never ends a session.
SessionsOfInitiator(u) == {s \in Session : Live(s) /\ sess[s].init = u}

\* Sessions that end when u is gone: an invite survives its target's absence.
SessionsOf(u) ==
  {s \in Session : /\ Live(s)
                   /\ \/ sess[s].init = u
                      \/ sess[s].target = u /\ ~sess[s].pending}

\* Mutant: it is always the target that is told.
PeerIsTarget(s, u) == sess[s].target

\* The other party of a session.
PeerOf(s, u) == IF sess[s].target = u THEN sess[s].init ELSE sess[s].target

\* CleanupUserWhisperSessions, after the rest of unregister.
Cleanup(c) ==
  /\ conn[c] = "closing"
  /\ conn' = [conn EXCEPT ![c] = "down"]
  /\ Remove(SessionsOf(Owner(c)), Owner(c))
  /\ Then(c, {ToUser("end", s, PeerOf(s, Owner(c))) : s \in SessionsOf(Owner(c))})
  /\ UNCHANGED <<party, heard>>

\* Thirty minutes pass before the invite is answered.
Age(s) ==
  /\ Pending(s)
  /\ ~sess[s].old
  /\ sess' = [sess EXCEPT ![s].old = TRUE]
  /\ UNCHANGED <<conn, party, ender, todo, heard>>

-----------------------------------------------------------------------------
(* The whisper handlers, up to what they send. *)

\* Friends only, and not with oneself.
MayWhisper(u, v) == u # v /\ <<u, v>> \in Friends

\* The initiator's client draws a fresh session id.
HandleWhisperInit(c, s, v) ==
  /\ Reading(c)
  /\ party[s] = None
  /\ MayWhisper(Owner(c), v)
  /\ sess' = [sess EXCEPT ![s] = [init |-> Owner(c), target |-> v,
                                  pending |-> TRUE, old |-> FALSE]]
  /\ party' = [party EXCEPT ![s] = [init |-> Owner(c), target |-> v, by |-> c]]
  /\ Then(c, {ToUser("init", s, v)})
  /\ UNCHANGED <<conn, ender, heard>>

Invited(c, s) == party[s] # None /\ party[s].target = Owner(c)

\* Only the target may accept, and only a session that is still there.
HandleWhisperAccept(c, s) ==
  /\ Reading(c)
  /\ Invited(c, s)
  /\ Live(s)
  /\ sess' = [sess EXCEPT ![s].pending = FALSE]
  /\ Then(c, {ToUser("accept", s, sess[s].init)})
  /\ UNCHANGED <<conn, party, ender, heard>>

\* Who sends the id of a session takes part in it: the handlers below do not check that, but
\* ids are random and nobody else is told one.
Knows(c, s) == party[s] # None /\ Owner(c) \in {party[s].init, party[s].target}

\* handleWhisperReject and handleWhisperClose: whoever comes first removes it.
HandleWhisperEnd(c, s) ==
  /\ Reading(c)
  /\ Knows(c, s)
  /\ Live(s)
  /\ Remove({s}, Owner(c))
  /\ Then(c, {ToUser("end", s, PeerOf(s, Owner(c)))})
  /\ UNCHANGED <<conn, party, heard>>

-----------------------------------------------------------------------------
(* Sending. A frame for a user is queued to all connections it has now. *)

Receivers(c, f) ==
  IF f.self THEN {c} \cap {d \in Conn : Registered(d)}
  ELSE {d \in Conn : Owner(d) = f.to /\ Registered(d)}

Hear(D, f) ==
  LET kind == IF f.kind \in {"init", "accept"} /\ ~Live(f.s) THEN "late" ELSE f.kind IN
  heard' = [d \in Conn |-> IF d \in D THEN [heard[d] EXCEPT ![f.s] = @ \cup {kind}]
                           ELSE heard[d]]

\* An accept that finds nobody ends the session; other lost frames are lost.
Send(c, f) ==
  /\ Then(c, todo[c] \ {f})
  /\ Hear(Receivers(c, f), f)
  /\ IF f.kind = "accept" /\ Receivers(c, f) = {} /\ Live(f.s)
     THEN Remove({f.s}, Owner(c)) ELSE UNCHANGED <<sess, ender>>
  /\ UNCHANGED <<conn, party>>

-----------------------------------------------------------------------------
Connection(c) == Register(c) \/ Replay(c) \/ Unregister(c) \/ Cleanup(c)

Handle(c, s) ==
  \/ \E v \in User : HandleWhisperInit(c, s, v)
  \/ HandleWhisperAccept(c, s)
  \/ HandleWhisperEnd(c, s)

Next ==
  \/ \E c \in Conn : Connection(c) \/ \E f \in todo[c] : Send(c, f)
  \/ \E c \in Conn, s \in Session : Handle(c, s)
  \/ \E s \in Session : Age(s)

Spec == Init /\ [][Next]_vars

-----------------------------------------------------------------------------
(* Safety. *)

Closing(u) == \E c \in Conn : Owner(c) = u /\ conn[c] = "closing"

\* The relay keeps no session forever: the initiator of each session, and the
\* target of each established one, is connected or about to be cleaned up after,
\* however accepts, replays, reconnects and cleanups interleave.
NoOrphanedSession ==
  \A s \in Session : Live(s) =>
    /\ IsUserOnline(sess[s].init) \/ Closing(sess[s].init)
    /\ sess[s].pending \/ IsUserOnline(sess[s].target) \/ Closing(sess[s].target)

Sending(kind, s) == \E c \in Conn : \E f \in todo[c] : f.kind = kind /\ f.s = s

\* No invite is lost between the initiator's check that the target is online and
\* the target's registration followed by its replay: once nothing is under way,
\* every connection of the target has the pending invite (handleWhisperInit
\* registers the session first, ServeHTTP the connection first).
InviteNotLost ==
  \A s \in Session, c \in Conn :
    /\ Pending(s)
    /\ sess[s].target = Owner(c)
    /\ conn[c] = "up"
    /\ ~Sending("init", s)
    => "init" \in heard[c][s]

\* Whoever holds an invite or an accepted session that somebody else ended hears
\* of its end, or is about to: by reject, close or peer_disconnected. That does not hold
\* of an invite or accept that is queued only after the end.
PeerHearsTheEnd ==
  \A s \in Session, c \in Conn :
    /\ conn[c] = "up"
    /\ Knows(c, s)
    /\ ender[s] \notin {None, Owner(c)}
    /\ heard[c][s] \cap {"init", "accept"} # {}
    => "end" \in heard[c][s] \/ Sending("end", s)
=============================================================================
