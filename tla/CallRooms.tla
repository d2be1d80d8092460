----------------------------- MODULE CallRooms -----------------------------
(***************************************************************************)
(* Who is in which call: the registry of rooms of the SFU (backend/        *)
(* internal/rtc, manager.go and signaling.go) and the participants of each *)
(* room (room.go).                                                         *)
(*                                                                         *)
(* Each WebSocket connection handles its call_join and call_leave frames   *)
(* one after the other, and removes its user from the call when it was the *)
(* user's last one.  The connections run side by side.  The manager and    *)
(* each room have a mutex of their own, held for one look or one write: an *)
(* action below is what happens under one of them.                         *)
(***************************************************************************)
EXTENDS Naturals, FiniteSets

CONSTANTS User, Slot, Channel,
          Conn,        \* the connections there may be, each <<its user, a slot>>
          Copy,        \* tells the Room objects of one channel apart
          Part,        \* the Participant objects there may be
          Capacity,    \* MaxParticipantsPerCall
          None

ASSUME ConnAssumption     == Conn \subseteq User \X Slot
ASSUME CapacityAssumption == Capacity \in Nat \ {0}

Room     == Channel \X Copy
Owner(c) == c[1]
Chan(r)  == r[1]

ASSUME NoneAssumption     == None \notin User \cup Channel \cup Room \cup Part

VARIABLES
  conn,       \* the connections in the hub's clients map
  job,        \* connection -> the handler it is in the middle of
  rooms,      \* channel -> its room
  userRooms,  \* user -> the channel of the call the user is in
  members,    \* room -> user -> the participant object of the user there
  pcs,        \* participant object -> its user, while its PeerConnections are open
  raced,      \* users of whom two handlers overlapped (history)
  orphaned    \* rooms dropped while a join was about to use them (history)

vars == <<conn, job, rooms, userRooms, members, pcs, raced, orphaned>>

Step == {"idle", "find", "count", "enter", "record",
         "remove", "seek", "take", "close", "forget", "drop"}

Job == [at : Step, chan : Channel \cup {None}, room : Room \cup {None},
        part : Part \cup {None}]

TypeOK ==
  /\ conn \in SUBSET Conn
  /\ job \in [Conn -> Job]
  /\ rooms \in [Channel -> Room \cup {None}]
  /\ userRooms \in [User -> Channel \cup {None}]
  /\ members \in [Room -> [User -> Part \cup {None}]]
  /\ pcs \in [Part -> User \cup {None}]
  /\ raced \in SUBSET User
  /\ orphaned \in SUBSET Room

NoJob == [at |-> "idle", chan |-> None, room |-> None, part |-> None]

Init ==
  /\ conn = {}
  /\ job = [c \in Conn |-> NoJob]
  /\ rooms = [ch \in Channel |-> None]
  /\ userRooms = [u \in User |-> None]
  /\ members = [r \in Room |-> [u \in User |-> None]]
  /\ pcs = [p \in Part |-> None]
  /\ raced = {}
  /\ orphaned = {}

ConnsOf(u) == {c \in Conn : Owner(c) = u}
Busy(c)    == job[c].at # "idle"
Quiet(u)   == \A c \in ConnsOf(u) : ~Busy(c)
InRoom(r)  == {u \in User : members[r][u] # None}

\* A handler of c's user begins; it may overlap with one on another connection.
Begin(c, at, ch) ==
  /\ job' = [job EXCEPT ![c] = [NoJob EXCEPT !.at = at, !.chan = ch]]
  /\ raced' = IF Quiet(Owner(c)) THEN raced ELSE raced \cup {Owner(c)}

Goto(c, at) == job' = [job EXCEPT ![c].at = at]
Return(c)   == job' = [job EXCEPT ![c] = NoJob]

-----------------------------------------------------------------------------
(* handleJoin *)

\* A Room object nobody has a pointer to.
Unused(r) == /\ InRoom(r) = {}
             /\ rooms[Chan(r)] # r
             /\ \A c \in Conn : job[c].room # r

\* Bound: the model has a Room object left for every join under way.
RoomsLeft(ch) ==
  Cardinality({r \in Room : Chan(r) = ch /\ Unused(r)})
    > Cardinality({c \in Conn : job[c].at = "find" /\ job[c].chan = ch})

\* The first look: a user who is in a call already is turned away.
Join(c, ch) ==
  /\ c \in conn
  /\ ~Busy(c)
  /\ userRooms[Owner(c)] = None
  /\ RoomsLeft(ch)
  /\ Begin(c, "find", ch)
  /\ UNCHANGED <<conn, rooms, userRooms, members, pcs, orphaned>>

GetOrCreateRoom(c) ==
  /\ job[c].at = "find"
  /\ \E r \in Room :
       /\ Chan(r) = job[c].chan
       /\ IF rooms[Chan(r)] = None THEN Unused(r) ELSE rooms[Chan(r)] = r
       /\ rooms' = [rooms EXCEPT ![Chan(r)] = r]
       /\ job' = [job EXCEPT ![c].at = "count", ![c].room = r]
       /\ orphaned' = IF rooms[Chan(r)] = None THEN orphaned \ {r} ELSE orphaned
  /\ UNCHANGED <<conn, userRooms, members, pcs, raced>>

HasSpace(r) == Cardinality(InRoom(r)) < Capacity

CheckSize(c) ==
  /\ job[c].at = "count"
  /\ IF HasSpace(job[c].room) THEN Goto(c, "enter") ELSE Return(c)
  /\ UNCHANGED <<conn, rooms, userRooms, members, pcs, raced, orphaned>>

\* newParticipant, and what addParticipant does under the room's lock.
AddParticipant(c) ==
  /\ job[c].at = "enter"
  /\ \E p \in Part :
       /\ pcs[p] = None
       /\ pcs' = [pcs EXCEPT ![p] = Owner(c)]
       /\ members' = [members EXCEPT ![job[c].room][Owner(c)] = p]
  /\ Goto(c, "record")
  /\ UNCHANGED <<conn, rooms, userRooms, raced, orphaned>>

\* newParticipant may fail: the room stays as it is.
FailToAdd(c) ==
  /\ job[c].at = "enter"
  /\ Return(c)
  /\ UNCHANGED <<conn, rooms, userRooms, members, pcs, raced, orphaned>>

Recorded(u, ch) == [userRooms EXCEPT ![u] = ch]

RecordJoin(c) ==
  /\ job[c].at = "record"
  /\ userRooms' = Recorded(Owner(c), job[c].chan)
  /\ Return(c)
  /\ UNCHANGED <<conn, rooms, members, pcs, raced, orphaned>>

-----------------------------------------------------------------------------
(* handleLeave, for a call_leave frame and for RemoveUser *)

\* call_leave names any channel; nothing to leave where there is no room.
Leave(c, ch) ==
  /\ c \in conn
  /\ ~Busy(c)
  /\ rooms[ch] # None
  /\ Begin(c, "seek", ch)
  /\ UNCHANGED <<conn, rooms, userRooms, members, pcs, orphaned>>

GetRoom(c) ==
  /\ job[c].at = "seek"
  /\ IF rooms[job[c].chan] = None
     THEN Return(c)
     ELSE job' = [job EXCEPT ![c].at = "take", ![c].room = rooms[job[c].chan]]
  /\ UNCHANGED <<conn, rooms, userRooms, members, pcs, raced, orphaned>>

\* removeParticipant under the room's lock.
TakeOut(c) ==
  /\ job[c].at = "take"
  /\ LET p == members[job[c].room][Owner(c)] IN
       /\ members' = [members EXCEPT ![job[c].room][Owner(c)] = None]
       /\ job' = [job EXCEPT ![c].at = IF p = None THEN "forget" ELSE "close", ![c].part = p]
  /\ UNCHANGED <<conn, rooms, userRooms, pcs, raced, orphaned>>

\* Mutant: the PeerConnections are left open.
NotClosed(p) == pcs

Closed(p) == [pcs EXCEPT ![p] = None]

Close(c) ==
  /\ job[c].at = "close"
  /\ pcs' = Closed(job[c].part)
  /\ job' = [job EXCEPT ![c].at = "forget", ![c].part = None]
  /\ UNCHANGED <<conn, rooms, userRooms, members, raced, orphaned>>

\* Only the call that was left is forgotten.
Forgotten(u, ch) == IF userRooms[u] = ch THEN [userRooms EXCEPT ![u] = None] ELSE userRooms

Forget(c) ==
  /\ job[c].at = "forget"
  /\ userRooms' = Forgotten(Owner(c), job[c].chan)
  /\ job' = [job EXCEPT ![c].at = "drop", ![c].room = None]
  /\ UNCHANGED <<conn, rooms, members, pcs, raced, orphaned>>

\* Mutant: a room is dropped whoever is in it.
AnyRoom(r) == r # None

Droppable(r) == r # None /\ InRoom(r) = {}

\* A join that holds the room and has not entered it is not seen.
DropRoomIfEmpty(c) ==
  /\ job[c].at = "drop"
  /\ LET ch == job[c].chan
         r  == rooms[ch] IN
       IF Droppable(r)
       THEN /\ rooms' = [rooms EXCEPT ![ch] = None]
            /\ orphaned' = IF \E d \in Conn : job[d].room = r /\ job[d].at \in {"count", "enter"}
                           THEN orphaned \cup {r} ELSE orphaned
       ELSE UNCHANGED <<rooms, orphaned>>
  /\ Return(c)
  /\ UNCHANGED <<conn, userRooms, members, pcs, raced>>

\* Mutant: a dropped connection takes nobody out of a call.
NeverLast(c) == FALSE

\* The user's last connection is gone.
WasLast(c) == \A d \in conn \ {c} : Owner(d) # Owner(c)

\* unregister: the last connection to go calls RemoveUser.
Disconnect(c) ==
  /\ c \in conn
  /\ ~Busy(c)
  /\ conn' = conn \ {c}
  /\ IF WasLast(c) THEN Begin(c, "remove", None) ELSE UNCHANGED <<job, raced>>
  /\ UNCHANGED <<rooms, userRooms, members, pcs, orphaned>>

\* RemoveUser: what it takes from userRooms, it then leaves.
RemoveUser(c) ==
  /\ job[c].at = "remove"
  /\ LET ch == userRooms[Owner(c)] IN
       /\ userRooms' = [userRooms EXCEPT ![Owner(c)] = None]
       /\ job' = [job EXCEPT ![c] = IF ch = None THEN NoJob
                                    ELSE [NoJob EXCEPT !.at = "seek", !.chan = ch]]
  /\ UNCHANGED <<conn, rooms, members, pcs, raced, orphaned>>

Connect(c) ==
  /\ c \notin conn
  /\ ~Busy(c)
  /\ conn' = conn \cup {c}
  /\ UNCHANGED <<job, rooms, userRooms, members, pcs, raced, orphaned>>

-----------------------------------------------------------------------------
HandleJoin(c) ==
  \/ \E ch \in Channel : Join(c, ch)
  \/ GetOrCreateRoom(c)
  \/ CheckSize(c)
  \/ AddParticipant(c)
  \/ FailToAdd(c)
  \/ RecordJoin(c)

HandleLeave(c) ==
  \/ \E ch \in Channel : Leave(c, ch)
  \/ GetRoom(c)
  \/ TakeOut(c)
  \/ Close(c)
  \/ Forget(c)
  \/ DropRoomIfEmpty(c)

Session(c) == Connect(c) \/ Disconnect(c) \/ RemoveUser(c)

Next == \E c \in Conn : HandleJoin(c) \/ HandleLeave(c) \/ Session(c)

Spec == Init /\ [][Next]_vars

-----------------------------------------------------------------------------
(* Safety. Two races break the registry, and nothing else does: handlers of *)
(* one user on two connections, and a room dropped under a join.            *)

\* Whoever the manager says is in a call is in the room that the channel's call
\* signals reach; otherwise every frame is answered "not in this call" and every
\* new join "already in this call".
CallIsReachable ==
  \A u \in User : userRooms[u] # None /\ Quiet(u) /\ u \notin raced =>
    \/ \E r \in Room : r = rooms[userRooms[u]] /\ u \in InRoom(r)
    \/ \E r \in orphaned : u \in InRoom(r)

\* No ghosts: whoever is in a room and has nothing under way is connected, and
\* the manager knows the call, so that leaving or disconnecting ends it.
GhostsOnlyFromRaces ==
  \A r \in Room \ orphaned : \A u \in InRoom(r) \ raced : Quiet(u) =>
    /\ userRooms[u] = Chan(r)
    /\ rooms[Chan(r)] = r
    /\ ConnsOf(u) \cap conn # {}

\* No PeerConnection is left open: every open participant object is in its room,
\* or in the hands of the handler that closes it.
LeaksOnlyFromRaces ==
  \A p \in Part : pcs[p] \notin raced \cup {None} =>
    \/ \E r \in Room : members[r][pcs[p]] = p
    \/ \E c \in Conn : job[c].part = p

\* Whoever left a call is gone from it: from the room and the manager, and with the
\* connection of the participant, but for the overlaps named above.
CallsAreLeft == GhostsOnlyFromRaces /\ LeaksOnlyFromRaces
=============================================================================
