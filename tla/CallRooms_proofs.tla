--------------------------- MODULE CallRooms_proofs ---------------------------
(***************************************************************************)
(* Proofs about CallRooms for any users, connections and channels.         *)
(*                                                                         *)
(* The registry, the room and the participant of a user are written in     *)
(* steps of their own, with the handlers of other users in between.        *)
(* PlacesOK says for each step of a handler what its user may rely on      *)
(* there: no other handler of that user is at work (AloneOK), and nobody   *)
(* else touches a room the user is in (Kept).                              *)
(***************************************************************************)
EXTENDS CallRooms, TLAPS

USE NoneAssumption

LEMMA OwnerType == \A c \in Conn : Owner(c) \in User
  BY ConnAssumption DEF Owner

LEMMA ChanType == \A r \in Room : Chan(r) \in Channel
  BY DEF Chan, Room

\* Whoever is in a current room is where the manager says.
Home(u) ==
  \A r \in Room \ orphaned : members[r][u] # None =>
    rooms[Chan(r)] = r /\ userRooms[u] = Chan(r) /\ ConnsOf(u) \cap conn # {}

Reached(u) ==
  userRooms[u] # None =>
    \/ rooms[userRooms[u]] # None /\ members[rooms[userRooms[u]]][u] # None
    \/ \E r \in orphaned : members[r][u] # None

\* Once the room of channel ch is behind it, a leave has no other to care for.
HomeBut(u, ch) ==
  \A r \in Room \ orphaned : members[r][u] # None =>
    /\ rooms[Chan(r)] = r
    /\ Chan(r) # ch /\ userRooms[u] = Chan(r) /\ ConnsOf(u) \cap conn # {}

\* A current room is of its channel, and no orphan.
RoomsOK ==
  \A ch \in Channel : rooms[ch] # None => Chan(rooms[ch]) = ch /\ rooms[ch] \notin orphaned

\* What a handler knows at each step.
JobOK ==
  \A c \in Conn :
    /\ job[c].at \notin {"idle", "remove"} => job[c].chan \in Channel
    /\ job[c].at \in {"count", "enter", "record", "take", "close", "forget"} =>
         job[c].room \in Room /\ Chan(job[c].room) = job[c].chan
    /\ job[c].at \in {"count", "enter", "record"} /\ Owner(c) \notin raced =>
         rooms[job[c].chan] = job[c].room \/ job[c].room \in orphaned
    /\ job[c].at # "close" => job[c].part = None
    /\ job[c].at = "close" => job[c].part \in Part
    /\ job[c].at \in {"find", "count", "enter", "record"} => c \in conn

\* Two handlers of one user make it raced.
AloneOK ==
  \A c, d \in Conn : Owner(c) = Owner(d) /\ Busy(c) /\ Busy(d) /\ Owner(c) \notin raced => c = d

\* Where a user is whose handler has come to a step.
PlaceAt(u, c) ==
  LET at == job[c].at
      ch == job[c].chan
      rm == job[c].room IN
  /\ at \in {"find", "count", "enter"} => Home(u) /\ userRooms[u] = None
  /\ at \in {"count", "enter"} => members[rm][u] = None
  /\ at = "record" =>
       /\ members[rm][u] # None
       /\ \A r \in Room \ orphaned : members[r][u] # None => r = rm
  /\ at = "remove" =>
       /\ Reached(u)
       /\ \A r \in Room \ orphaned : members[r][u] # None =>
            rooms[Chan(r)] = r /\ userRooms[u] = Chan(r)
  /\ at = "seek" =>
       /\ Reached(u)
       /\ \A r \in Room \ orphaned : members[r][u] # None =>
            /\ rooms[Chan(r)] = r
            /\ Chan(r) = ch \/ (userRooms[u] = Chan(r) /\ ConnsOf(u) \cap conn # {})
  /\ at = "take" =>
       /\ userRooms[u] # ch => Reached(u)
       /\ members[rm][u] # None => rm \notin orphaned /\ rooms[ch] = rm
       /\ \A r \in Room \ (orphaned \cup {rm}) : members[r][u] # None =>
            /\ rooms[Chan(r)] = r
            /\ Chan(r) # ch /\ userRooms[u] = Chan(r) /\ ConnsOf(u) \cap conn # {}
  /\ at \in {"close", "forget"} => HomeBut(u, ch) /\ (userRooms[u] # ch => Reached(u))
  /\ at = "drop" => Home(u) /\ Reached(u)

PlaceOK(u) == (Quiet(u) => Home(u) /\ Reached(u)) /\ \A c \in ConnsOf(u) : PlaceAt(u, c)

PlacesOK == \A u \in User \ raced : PlaceOK(u)

LEMMA InitOK ==
  Init => TypeOK /\ RoomsOK /\ JobOK /\ AloneOK /\ PlacesOK /\ LeaksOnlyFromRaces
<1> SUFFICES ASSUME Init
             PROVE  TypeOK /\ RoomsOK /\ JobOK /\ AloneOK /\ PlacesOK /\ LeaksOnlyFromRaces
  OBVIOUS
<1> USE DEF Init, NoJob
<1>1. TypeOK
  BY DEF TypeOK, Job, Step
<1>2. RoomsOK /\ JobOK /\ AloneOK /\ LeaksOnlyFromRaces
  BY DEF RoomsOK, JobOK, AloneOK, Busy, LeaksOnlyFromRaces
<1>3. PlacesOK
  BY DEF PlacesOK, PlaceOK, PlaceAt, Home, Reached, ConnsOf
<1>4. QED
  BY <1>1, <1>2, <1>3

-----------------------------------------------------------------------------
(* Types, rooms and handlers *)

\* Jobs the handlers go on with.
LEMMA JobType ==
  /\ NoJob \in Job
  /\ \A at \in Step, ch \in Channel \cup {None} : [NoJob EXCEPT !.at = at, !.chan = ch] \in Job
  /\ \A j \in Job, at \in Step : [j EXCEPT !.at = at] \in Job
  /\ \A j \in Job, at \in Step, r \in Room \cup {None} : [j EXCEPT !.at = at, !.room = r] \in Job
  /\ \A j \in Job, at \in Step, p \in Part \cup {None} : [j EXCEPT !.at = at, !.part = p] \in Job
  BY DEF NoJob, Job, Step

LEMMA TypeStep == TypeOK /\ JobOK /\ [Next]_vars => TypeOK'
<1> SUFFICES ASSUME TypeOK, JobOK, [Next]_vars PROVE TypeOK'
  OBVIOUS
<1> USE OwnerType, ChanType DEF TypeOK
<1>1. ASSUME NEW c \in Conn, NEW ch \in Channel, Join(c, ch) PROVE TypeOK'
  <2>1. job' \in [Conn -> Job]
    BY <1>1 DEF Join, Begin, NoJob, Job, Step
  <2>2. QED
    BY <1>1, <2>1 DEF Join, Begin, NoJob
<1>2. ASSUME NEW c \in Conn, GetOrCreateRoom(c) PROVE TypeOK'
  <2>1. job' \in [Conn -> Job]
    <3>1. PICK r \in Room : job' = [job EXCEPT ![c].at = "count", ![c].room = r]
      BY <1>2 DEF GetOrCreateRoom
    <3>2. [job[c] EXCEPT !.at = "count", !.room = r] \in Job
      BY JobType DEF Step
    <3>3. QED
      BY <3>1, <3>2
  <2>9. QED
    BY <1>2, <2>1 DEF GetOrCreateRoom
<1>3. ASSUME NEW c \in Conn, CheckSize(c) PROVE TypeOK'
  <2>1. CASE HasSpace(job[c].room)
    <3>1. [job[c] EXCEPT !.at = "enter"] \in Job
      BY JobType DEF Step
    <3>2. job' = [job EXCEPT ![c] = [job[c] EXCEPT !.at = "enter"]]
      BY <1>3, <2>1 DEF CheckSize, Goto
    <3>3. QED
      BY <1>3, <3>1, <3>2 DEF CheckSize
  <2>2. CASE ~HasSpace(job[c].room)
    <3>1. job' = [job EXCEPT ![c] = NoJob]
      BY <1>3, <2>2 DEF CheckSize, Return
    <3>2. QED
      BY <1>3, <3>1, JobType DEF CheckSize
  <2>3. QED
    BY <2>1, <2>2
<1>4. ASSUME NEW c \in Conn, AddParticipant(c) PROVE TypeOK'
  <2>1. job' \in [Conn -> Job]
    BY <1>4 DEF AddParticipant, Goto, Job, Step
  <2>2. job[c].room \in Room \cup {None}
    BY DEF Job
  <2>3. pcs' \in [Part -> User \cup {None}]
    BY <1>4 DEF AddParticipant
  <2>4. members' \in [Room -> [User -> Part \cup {None}]]
    <3>1. PICK p \in Part : members' = [members EXCEPT ![job[c].room][Owner(c)] = p]
      BY <1>4 DEF AddParticipant
    <3>2. job[c].room \in Room
      BY <1>4 DEF AddParticipant, JobOK
    <3>3. members[job[c].room] \in [User -> Part \cup {None}]
      BY <3>2
    <3>4. [members[job[c].room] EXCEPT ![Owner(c)] = p] \in [User -> Part \cup {None}]
      BY <3>3
    <3>5. members' = [members EXCEPT ![job[c].room] = [members[job[c].room] EXCEPT ![Owner(c)] = p]]
      BY <3>1
    <3>6. QED
      BY <3>4, <3>5
  <2>5. QED
    BY <1>4, <2>1, <2>3, <2>4 DEF AddParticipant
<1>5. ASSUME NEW c \in Conn, FailToAdd(c) PROVE TypeOK'
  BY <1>5, JobType DEF FailToAdd, Return
<1>6. ASSUME NEW c \in Conn, RecordJoin(c) PROVE TypeOK'
  <2>1. job' \in [Conn -> Job]
    BY <1>6, JobType DEF RecordJoin, Return
  <2>2. job[c].chan \in Channel \cup {None}
    BY DEF Job
  <2>9. QED
    BY <1>6, <2>1, <2>2 DEF RecordJoin, Return, NoJob, Recorded
<1>7. ASSUME NEW c \in Conn, NEW ch \in Channel, Leave(c, ch) PROVE TypeOK'
  <2>1. job' \in [Conn -> Job]
    BY <1>7 DEF Leave, Begin, NoJob, Job, Step
  <2>2. QED
    BY <1>7, <2>1 DEF Leave, Begin, NoJob
<1>8. ASSUME NEW c \in Conn, GetRoom(c) PROVE TypeOK'
  <2>1. job' \in [Conn -> Job]
    <3>1. rooms[job[c].chan] \in Room \cup {None}
      BY <1>8 DEF GetRoom, JobOK
    <3>2. [job[c] EXCEPT !.at = "take", !.room = rooms[job[c].chan]] \in Job
      BY <3>1, JobType DEF Step
    <3>3. QED
      BY <1>8, <3>2, JobType DEF GetRoom, Return
  <2>2. QED
    BY <1>8, <2>1 DEF GetRoom, Return, NoJob
<1>9. ASSUME NEW c \in Conn, TakeOut(c) PROVE TypeOK'
  <2>1. job' \in [Conn -> Job]
    <3> DEFINE p == members[job[c].room][Owner(c)]
               at == IF p = None THEN "forget" ELSE "close"
    <3>1. job' = [job EXCEPT ![c] = [job[c] EXCEPT !.at = at, !.part = p]]
      BY <1>9 DEF TakeOut
    <3>2. job[c].room \in Room
      BY <1>9 DEF JobOK, TakeOut
    <3>3. p \in Part \cup {None} /\ at \in Step
      BY <3>2 DEF Step
    <3>4. [job[c] EXCEPT !.at = at, !.part = p] \in Job
      BY <3>3, JobType
    <3>5. QED
      BY <3>1, <3>4
  <2>9. QED
    BY <1>9, <2>1 DEF TakeOut
<1>10. ASSUME NEW c \in Conn, Close(c) PROVE TypeOK'
  <2>1. job' \in [Conn -> Job]
    <3>1. [job[c] EXCEPT !.at = "forget", !.part = None] \in Job
      BY JobType DEF Step
    <3>2. QED
      BY <1>10, <3>1 DEF Close
  <2>9. QED
    BY <1>10, <2>1 DEF Close, Closed
<1>11. ASSUME NEW c \in Conn, Forget(c) PROVE TypeOK'
  <2>1. job' \in [Conn -> Job]
    <3>1. [job[c] EXCEPT !.at = "drop", !.room = None] \in Job
      BY JobType DEF Step
    <3>2. QED
      BY <1>11, <3>1 DEF Forget
  <2>9. QED
    BY <1>11, <2>1 DEF Forget, Forgotten
<1>12. ASSUME NEW c \in Conn, DropRoomIfEmpty(c) PROVE TypeOK'
  <2>1. job' \in [Conn -> Job]
    BY <1>12, JobType DEF DropRoomIfEmpty, Return
  <2>2. rooms' \in [Channel -> Room \cup {None}]
    BY <1>12 DEF DropRoomIfEmpty
  <2>3. orphaned' \in SUBSET Room
    <3>1. rooms[job[c].chan] \in Room \cup {None}
      BY <1>12 DEF DropRoomIfEmpty, JobOK
    <3>2. QED
      BY <1>12, <3>1 DEF DropRoomIfEmpty, Droppable
  <2>4. QED
    BY <1>12, <2>1, <2>2, <2>3 DEF DropRoomIfEmpty
<1>13. ASSUME NEW c \in Conn, Connect(c) PROVE TypeOK'
  BY <1>13 DEF Connect
<1>14. ASSUME NEW c \in Conn, Disconnect(c) PROVE TypeOK'
  <2>1. CASE WasLast(c)
    <3>1. job' \in [Conn -> Job]
      <4>1. [NoJob EXCEPT !.at = "remove", !.chan = None] \in Job
        BY JobType DEF Step
      <4>2. job' = [job EXCEPT ![c] = [NoJob EXCEPT !.at = "remove", !.chan = None]]
        BY <1>14, <2>1 DEF Disconnect, Begin
      <4>3. QED
        BY <4>1, <4>2
    <3>2. QED
      BY <1>14, <2>1, <3>1 DEF Disconnect, Begin
  <2>2. CASE ~WasLast(c)
    BY <1>14, <2>2 DEF Disconnect
  <2>3. QED
    BY <2>1, <2>2
<1>15. ASSUME NEW c \in Conn, RemoveUser(c) PROVE TypeOK'
  <2>1. job' \in [Conn -> Job]
    BY <1>15 DEF RemoveUser, NoJob, Job, Step
  <2>2. QED
    BY <1>15, <2>1 DEF RemoveUser, NoJob
<1>16. CASE UNCHANGED vars
  BY <1>16 DEF vars
<1>17. QED
  BY <1>1, <1>2, <1>3, <1>4, <1>5, <1>6, <1>7, <1>8,
     <1>9, <1>10, <1>11, <1>12, <1>13, <1>14, <1>15, <1>16
  DEF Next, HandleJoin, HandleLeave, Session

LEMMA RoomsStep == TypeOK /\ JobOK /\ RoomsOK /\ [Next]_vars => RoomsOK'
<1> SUFFICES ASSUME TypeOK, JobOK, RoomsOK, [Next]_vars PROVE RoomsOK'
  OBVIOUS
<1> USE OwnerType, ChanType DEF TypeOK, JobOK, RoomsOK, Job, Step
<1>1. ASSUME NEW c \in Conn, NEW ch \in Channel, Join(c, ch) PROVE RoomsOK'
  BY <1>1 DEF Join, Begin, NoJob
<1>2. ASSUME NEW c \in Conn, GetOrCreateRoom(c) PROVE RoomsOK'
  BY <1>2 DEF GetOrCreateRoom, Unused
<1>3. ASSUME NEW c \in Conn, CheckSize(c) PROVE RoomsOK'
  BY <1>3 DEF CheckSize, Goto, Return, NoJob
<1>4. ASSUME NEW c \in Conn, AddParticipant(c) PROVE RoomsOK'
  BY <1>4 DEF AddParticipant, Goto
<1>5. ASSUME NEW c \in Conn, FailToAdd(c) PROVE RoomsOK'
  BY <1>5 DEF FailToAdd, Return, NoJob
<1>6. ASSUME NEW c \in Conn, RecordJoin(c) PROVE RoomsOK'
  BY <1>6 DEF RecordJoin, Return, NoJob, Recorded
<1>7. ASSUME NEW c \in Conn, NEW ch \in Channel, Leave(c, ch) PROVE RoomsOK'
  BY <1>7 DEF Leave, Begin, NoJob
<1>8. ASSUME NEW c \in Conn, GetRoom(c) PROVE RoomsOK'
  BY <1>8 DEF GetRoom, Return, NoJob
<1>9. ASSUME NEW c \in Conn, TakeOut(c) PROVE RoomsOK'
  BY <1>9 DEF TakeOut
<1>10. ASSUME NEW c \in Conn, Close(c) PROVE RoomsOK'
  BY <1>10 DEF Close, Closed
<1>11. ASSUME NEW c \in Conn, Forget(c) PROVE RoomsOK'
  BY <1>11 DEF Forget, Forgotten
<1>12. ASSUME NEW c \in Conn, DropRoomIfEmpty(c) PROVE RoomsOK'
  BY <1>12 DEF DropRoomIfEmpty, Return, NoJob, Droppable, InRoom
<1>13. ASSUME NEW c \in Conn, Connect(c) PROVE RoomsOK'
  BY <1>13 DEF Connect
<1>14. ASSUME NEW c \in Conn, Disconnect(c) PROVE RoomsOK'
  BY <1>14 DEF Disconnect, Begin, NoJob
<1>15. ASSUME NEW c \in Conn, RemoveUser(c) PROVE RoomsOK'
  BY <1>15 DEF RemoveUser, NoJob
<1>16. CASE UNCHANGED vars
  BY <1>16 DEF vars
<1>17. QED
  BY <1>1, <1>2, <1>3, <1>4, <1>5, <1>6, <1>7, <1>8,
     <1>9, <1>10, <1>11, <1>12, <1>13, <1>14, <1>15, <1>16
  DEF Next, HandleJoin, HandleLeave, Session

LEMMA AloneStep == TypeOK /\ AloneOK /\ [Next]_vars => AloneOK'
<1> SUFFICES ASSUME TypeOK, AloneOK, [Next]_vars PROVE AloneOK'
  OBVIOUS
<1> USE OwnerType, ChanType DEF TypeOK, AloneOK, Job, Step, Busy, Quiet, ConnsOf
<1>1. ASSUME NEW c \in Conn, NEW ch \in Channel, Join(c, ch) PROVE AloneOK'
  BY <1>1 DEF Join, Begin, NoJob
<1>2. ASSUME NEW c \in Conn, GetOrCreateRoom(c) PROVE AloneOK'
  BY <1>2 DEF GetOrCreateRoom
<1>3. ASSUME NEW c \in Conn, CheckSize(c) PROVE AloneOK'
  BY <1>3 DEF CheckSize, Goto, Return, NoJob
<1>4. ASSUME NEW c \in Conn, AddParticipant(c) PROVE AloneOK'
  BY <1>4 DEF AddParticipant, Goto
<1>5. ASSUME NEW c \in Conn, FailToAdd(c) PROVE AloneOK'
  BY <1>5 DEF FailToAdd, Return, NoJob
<1>6. ASSUME NEW c \in Conn, RecordJoin(c) PROVE AloneOK'
  BY <1>6 DEF RecordJoin, Return, NoJob, Recorded
<1>7. ASSUME NEW c \in Conn, NEW ch \in Channel, Leave(c, ch) PROVE AloneOK'
  BY <1>7 DEF Leave, Begin, NoJob
<1>8. ASSUME NEW c \in Conn, GetRoom(c) PROVE AloneOK'
  BY <1>8 DEF GetRoom, Return, NoJob
<1>9. ASSUME NEW c \in Conn, TakeOut(c) PROVE AloneOK'
  BY <1>9 DEF TakeOut
<1>10. ASSUME NEW c \in Conn, Close(c) PROVE AloneOK'
  BY <1>10 DEF Close, Closed
<1>11. ASSUME NEW c \in Conn, Forget(c) PROVE AloneOK'
  BY <1>11 DEF Forget, Forgotten
<1>12. ASSUME NEW c \in Conn, DropRoomIfEmpty(c) PROVE AloneOK'
  BY <1>12 DEF DropRoomIfEmpty, Return, NoJob, Droppable, InRoom
<1>13. ASSUME NEW c \in Conn, Connect(c) PROVE AloneOK'
  BY <1>13 DEF Connect
<1>14. ASSUME NEW c \in Conn, Disconnect(c) PROVE AloneOK'
  BY <1>14 DEF Disconnect, Begin, NoJob
<1>15. ASSUME NEW c \in Conn, RemoveUser(c) PROVE AloneOK'
  BY <1>15 DEF RemoveUser, NoJob
<1>16. CASE UNCHANGED vars
  BY <1>16 DEF vars
<1>17. QED
  BY <1>1, <1>2, <1>3, <1>4, <1>5, <1>6, <1>7, <1>8,
     <1>9, <1>10, <1>11, <1>12, <1>13, <1>14, <1>15, <1>16
  DEF Next, HandleJoin, HandleLeave, Session

LEMMA JobStep == TypeOK /\ RoomsOK /\ JobOK /\ PlacesOK /\ [Next]_vars => JobOK'
<1> SUFFICES ASSUME TypeOK, RoomsOK, JobOK, PlacesOK, [Next]_vars PROVE JobOK'
  OBVIOUS
<1> USE OwnerType, ChanType DEF TypeOK, RoomsOK, JobOK, Job, Step, Busy
<1>1. ASSUME NEW c \in Conn, NEW ch \in Channel, Join(c, ch) PROVE JobOK'
  BY <1>1 DEF Join, Begin, NoJob
<1>2. ASSUME NEW c \in Conn, GetOrCreateRoom(c) PROVE JobOK'
  BY <1>2 DEF GetOrCreateRoom, Unused
<1>3. ASSUME NEW c \in Conn, CheckSize(c) PROVE JobOK'
  <2>1. CASE HasSpace(job[c].room)
    BY <1>3, <2>1 DEF CheckSize, Goto
  <2>2. CASE ~HasSpace(job[c].room)
    BY <1>3, <2>2 DEF CheckSize, Return, NoJob
  <2>3. QED
    BY <2>1, <2>2
<1>4. ASSUME NEW c \in Conn, AddParticipant(c) PROVE JobOK'
  BY <1>4 DEF AddParticipant, Goto
<1>5. ASSUME NEW c \in Conn, FailToAdd(c) PROVE JobOK'
  BY <1>5 DEF FailToAdd, Return, NoJob
<1>6. ASSUME NEW c \in Conn, RecordJoin(c) PROVE JobOK'
  BY <1>6 DEF RecordJoin, Return, NoJob, Recorded
<1>7. ASSUME NEW c \in Conn, NEW ch \in Channel, Leave(c, ch) PROVE JobOK'
  BY <1>7 DEF Leave, Begin, NoJob
<1>8. ASSUME NEW c \in Conn, GetRoom(c) PROVE JobOK'
  BY <1>8 DEF GetRoom, Return, NoJob
<1>9. ASSUME NEW c \in Conn, TakeOut(c) PROVE JobOK'
  BY <1>9 DEF TakeOut
<1>10. ASSUME NEW c \in Conn, Close(c) PROVE JobOK'
  BY <1>10 DEF Close, Closed
<1>11. ASSUME NEW c \in Conn, Forget(c) PROVE JobOK'
  BY <1>11 DEF Forget, Forgotten
<1>12. ASSUME NEW c \in Conn, DropRoomIfEmpty(c) PROVE JobOK'
  BY <1>12
  DEF DropRoomIfEmpty, Return, NoJob, Droppable, InRoom, PlacesOK, PlaceOK, PlaceAt, ConnsOf
<1>13. ASSUME NEW c \in Conn, Connect(c) PROVE JobOK'
  BY <1>13 DEF Connect
<1>14. ASSUME NEW c \in Conn, Disconnect(c) PROVE JobOK'
  <2>1. CASE WasLast(c)
    <3>1. \A d \in Conn : d # c => job'[d] = job[d]
      BY <1>14, <2>1 DEF Disconnect, Begin
    <3>2. job'[c].at = "remove" /\ job'[c].part = None
      <4>1. job' = [job EXCEPT ![c] = [NoJob EXCEPT !.at = "remove", !.chan = None]]
        BY <1>14, <2>1 DEF Disconnect, Begin
      <4>2. job'[c] = [NoJob EXCEPT !.at = "remove", !.chan = None]
        BY <4>1
      <4>3. QED
        BY <4>2 DEF NoJob
    <3>3. UNCHANGED <<rooms, orphaned>> /\ conn' = conn \ {c} /\ raced \subseteq raced'
      BY <1>14, <2>1 DEF Disconnect, Begin
    <3>4. QED
      BY <3>1, <3>2, <3>3
  <2>2. CASE ~WasLast(c)
    BY <1>14, <2>2 DEF Disconnect
  <2>3. QED
    BY <2>1, <2>2
<1>15. ASSUME NEW c \in Conn, RemoveUser(c) PROVE JobOK'
  BY <1>15 DEF RemoveUser, NoJob
<1>16. CASE UNCHANGED vars
  BY <1>16 DEF vars
<1>17. QED
  BY <1>1, <1>2, <1>3, <1>4, <1>5, <1>6, <1>7, <1>8,
     <1>9, <1>10, <1>11, <1>12, <1>13, <1>14, <1>15, <1>16
  DEF Next, HandleJoin, HandleLeave, Session

-----------------------------------------------------------------------------
(* Where the users are *)

\* What a step leaves of where u is.
Kept(u) ==
  /\ userRooms'[u] = userRooms[u]
  /\ \A r \in Room : members'[r][u] = members[r][u]
  /\ \A r \in Room : members[r][u] # None =>
       /\ r \in orphaned' <=> r \in orphaned
       /\ rooms[Chan(r)] = r => rooms'[Chan(r)] = r
  /\ ConnsOf(u) \cap conn # {} => ConnsOf(u) \cap conn' # {}

LEMMA KeptHome ==
  ASSUME TypeOK, RoomsOK, TypeOK', NEW u \in User, Kept(u)
  PROVE  /\ Home(u) => Home(u)'
         /\ Reached(u) => Reached(u)'
         /\ \A ch : HomeBut(u, ch) => HomeBut(u, ch)'
<1> USE ChanType DEF TypeOK, RoomsOK, Kept
<1>1. Home(u) => Home(u)'
  BY DEF Home, ConnsOf
<1>2. Reached(u) => Reached(u)'
  <2> SUFFICES ASSUME Reached(u), userRooms'[u] # None PROVE Reached(u)'
    BY DEF Reached
  <2>1. userRooms[u] # None
    OBVIOUS
  <2>2. CASE rooms[userRooms[u]] # None /\ members[rooms[userRooms[u]]][u] # None
    BY <2>1, <2>2 DEF Reached
  <2>3. CASE \E r \in orphaned : members[r][u] # None
    BY <2>3 DEF Reached
  <2>4. QED
    BY <2>1, <2>2, <2>3 DEF Reached
<1>3. ASSUME NEW ch, HomeBut(u, ch) PROVE HomeBut(u, ch)'
  BY <1>3 DEF HomeBut, ConnsOf
<1>4. QED
  BY <1>1, <1>2, <1>3

LEMMA KeptPlace ==
  ASSUME TypeOK, RoomsOK, JobOK, TypeOK', NEW u \in User, Kept(u), PlaceOK(u),
         \A d \in ConnsOf(u) : job'[d] = job[d]
  PROVE  PlaceOK(u)'
<1>1. (Quiet(u) => Home(u) /\ Reached(u))'
  BY KeptHome DEF PlaceOK, Quiet, Busy, ConnsOf
<1>2. ASSUME NEW c \in ConnsOf(u) PROVE PlaceAt(u, c)'
  <2>1. PlaceAt(u, c) /\ job'[c] = job[c] /\ c \in Conn
    BY <1>2 DEF PlaceOK, ConnsOf
  <2>2. /\ Home(u) => Home(u)'
        /\ Reached(u) => Reached(u)'
        /\ HomeBut(u, job[c].chan) => HomeBut(u, job[c].chan)'
    BY KeptHome
  <2>3. job[c].at \in {"count", "enter", "record", "take"} =>
          job[c].room \in Room /\ Chan(job[c].room) = job[c].chan
    BY <2>1 DEF JobOK
  <2>5. CASE job[c].at \in {"find", "count", "enter", "record", "close", "forget", "drop", "idle"}
    BY <2>1, <2>2, <2>3, <2>5 DEF PlaceAt, Kept
  <2>6. CASE job[c].at \in {"remove", "seek"}
    BY <2>1, <2>2, <2>6, ChanType DEF PlaceAt, Kept, TypeOK
  <2>7. CASE job[c].at = "take"
    BY <2>1, <2>2, <2>3, <2>7, ChanType DEF PlaceAt, Kept, TypeOK
  <2>8. QED
    BY <2>1, <2>5, <2>6, <2>7 DEF TypeOK, Job, Step
<1>3. QED
  BY <1>1, <1>2 DEF PlaceOK, ConnsOf

\* The place of a user is that of its only handler.
LEMMA OwnPlace ==
  ASSUME NEW u \in User, NEW c \in ConnsOf(u),
         \A d \in ConnsOf(u) \ {c} : job'[d].at = "idle",
         job'[c].at = "idle" => Home(u)' /\ Reached(u)', PlaceAt(u, c)'
  PROVE  PlaceOK(u)'
<1>1. ASSUME NEW d \in ConnsOf(u), d # c PROVE PlaceAt(u, d)'
  BY <1>1 DEF PlaceAt
<1>2. QED
  BY <1>1 DEF PlaceOK, Quiet, Busy, ConnsOf

\* Every step leaves its user, and everybody else, in a place.
LEMMA PlacesStep ==
  TypeOK /\ TypeOK' /\ RoomsOK /\ JobOK /\ AloneOK /\ PlacesOK /\ [Next]_vars => PlacesOK'
<1> SUFFICES ASSUME TypeOK, TypeOK', RoomsOK, JobOK, AloneOK, PlacesOK, [Next]_vars,
                    NEW u \in User \ raced'
             PROVE  PlaceOK(u)'
  BY DEF PlacesOK
<1> USE OwnerType
<1>1. ASSUME NEW c \in Conn, NEW ch \in Channel, Join(c, ch) PROVE PlaceOK(u)'
  <2>1. u \in User /\ u \notin raced /\ PlaceOK(u)
    BY <1>1 DEF PlacesOK, Join, Begin
  <2>2. Kept(u)
    BY <1>1 DEF Join, Kept
  <2>3. CASE u # Owner(c)
    <3>1. \A d \in ConnsOf(u) : job'[d] = job[d]
      BY <1>1, <2>3 DEF Join, Begin, NoJob, ConnsOf, TypeOK
    <3>2. QED
      BY <2>1, <2>2, <3>1, KeptPlace
  <2>5. CASE u = Owner(c)
    <3>1. c \in ConnsOf(u) /\ \A d \in ConnsOf(u) \ {c} : job'[d].at = "idle"
      BY <1>1, <2>1, <2>5 DEF Join, Begin, NoJob, ConnsOf, Quiet, Busy, TypeOK
    <3>2. Home(u)' /\ Reached(u)'
      BY <1>1, <2>1, <2>2, <2>5, KeptHome DEF PlaceOK, Join, Begin, NoJob
    <3>3. job'[c].at = "find" /\ userRooms'[u] = None
      BY <1>1, <2>1, <2>2, <2>5 DEF Join, Begin, NoJob, TypeOK
    <3>4. PlaceAt(u, c)'
      BY <3>2, <3>3 DEF PlaceAt
    <3>5. QED
      BY <2>1, <3>1, <3>2, <3>3, <3>4, OwnPlace
  <2>6. QED
    BY <2>3, <2>5
<1>2. ASSUME NEW c \in Conn, GetOrCreateRoom(c) PROVE PlaceOK(u)'
  <2>1. u \in User /\ u \notin raced /\ PlaceOK(u)
    BY <1>2 DEF PlacesOK, GetOrCreateRoom
  <2>2. Kept(u)
    <3>1. PICK r \in Room :
            /\ Chan(r) = job[c].chan
            /\ IF rooms[Chan(r)] = None THEN Unused(r) ELSE rooms[Chan(r)] = r
            /\ rooms' = [rooms EXCEPT ![Chan(r)] = r]
            /\ orphaned' = IF rooms[Chan(r)] = None THEN orphaned \ {r} ELSE orphaned
      BY <1>2 DEF GetOrCreateRoom
    <3>2. \A x \in Room : members[x][u] # None =>
            /\ x \in orphaned' <=> x \in orphaned
            /\ rooms[Chan(x)] = x => rooms'[Chan(x)] = x
      BY <3>1, ChanType DEF Unused, InRoom, TypeOK
    <3>3. QED
      BY <1>2, <3>2 DEF Kept, GetOrCreateRoom
  <2>3. CASE u # Owner(c)
    <3>1. \A d \in ConnsOf(u) : job'[d] = job[d]
      BY <1>2, <2>3 DEF GetOrCreateRoom, ConnsOf, TypeOK
    <3>2. QED
      BY <2>1, <2>2, <3>1, KeptPlace
  <2>4. PlaceAt(u, c) \/ u # Owner(c)
    BY <2>1 DEF PlaceOK, ConnsOf
  <2>5. CASE u = Owner(c)
    <3>1. c \in ConnsOf(u) /\ \A d \in ConnsOf(u) \ {c} : job'[d].at = "idle"
      <4>1. \A d \in ConnsOf(u) \ {c} : job[d].at = "idle"
        BY <1>2, <2>1, <2>5 DEF GetOrCreateRoom, ConnsOf, AloneOK, Busy
      <4>2. \A d \in ConnsOf(u) \ {c} : job'[d] = job[d]
        BY <1>2 DEF GetOrCreateRoom, ConnsOf, TypeOK
      <4>3. QED
        BY <2>5, <4>1, <4>2 DEF ConnsOf
    <3>2. Home(u) /\ userRooms[u] = None
      BY <1>2, <2>1, <2>2, <2>5, <2>4 DEF GetOrCreateRoom, PlaceAt
    <3>3. Home(u)' /\ userRooms'[u] = None
      BY <1>2, <2>1, <2>2, <2>5, <3>2, KeptHome DEF Kept
    <3>4. PICK r \in Room : /\ job'[c].at = "count" /\ job'[c].room = r /\ UNCHANGED members
                            /\ IF rooms[Chan(r)] = None THEN Unused(r) ELSE rooms[Chan(r)] = r
      BY <1>2, <2>1, <2>2, <2>5 DEF GetOrCreateRoom, TypeOK, Job
    <3>5. members[r][u] = None
      BY <3>2, <3>4, ChanType DEF Home, Unused, InRoom, RoomsOK
    <3>6. PlaceAt(u, c)'
      BY <3>3, <3>4, <3>5 DEF PlaceAt
    <3>7. QED
      BY <2>1, <3>1, <3>2, <3>3, <3>4, <3>5, <3>6, OwnPlace
  <2>6. QED
    BY <2>3, <2>5
<1>3. ASSUME NEW c \in Conn, CheckSize(c) PROVE PlaceOK(u)'
  <2>1. u \in User /\ u \notin raced /\ PlaceOK(u)
    BY <1>3 DEF PlacesOK, CheckSize
  <2>2. Kept(u)
    BY <1>3 DEF CheckSize, Kept
  <2>3. CASE u # Owner(c)
    <3>1. \A d \in ConnsOf(u) : job'[d] = job[d]
      BY <1>3, <2>3 DEF CheckSize, Goto, Return, NoJob, ConnsOf, TypeOK
    <3>2. QED
      BY <2>1, <2>2, <3>1, KeptPlace
  <2>4. PlaceAt(u, c) \/ u # Owner(c)
    BY <2>1 DEF PlaceOK, ConnsOf
  <2>5. CASE u = Owner(c)
    <3>1. c \in ConnsOf(u) /\ \A d \in ConnsOf(u) \ {c} : job'[d].at = "idle"
      <4>1. \A d \in ConnsOf(u) \ {c} : job[d].at = "idle"
        BY <1>3, <2>1, <2>5 DEF CheckSize, ConnsOf, AloneOK, Busy
      <4>2. \A d \in ConnsOf(u) \ {c} : job'[d] = job[d]
        BY <1>3 DEF CheckSize, Goto, Return, NoJob, ConnsOf, TypeOK
      <4>3. QED
        BY <2>5, <4>1, <4>2 DEF ConnsOf
    <3>2. Home(u)' /\ userRooms'[u] = None /\ members'[job[c].room][u] = None
      BY <1>3, <2>1, <2>2, <2>5, <2>4, KeptHome DEF CheckSize, PlaceAt, Kept
    <3>3. job'[c].at = "idle" \/ (job'[c].at = "enter" /\ job'[c].room = job[c].room)
      BY <1>3, <2>1, <2>2, <2>5 DEF CheckSize, Goto, Return, NoJob, TypeOK, Job
    <3>4. PlaceAt(u, c)' /\ Reached(u)'
      BY <3>2, <3>3 DEF PlaceAt, Reached
    <3>5. QED
      BY <2>1, <3>1, <3>2, <3>3, <3>4, OwnPlace
  <2>6. QED
    BY <2>3, <2>5
<1>4. ASSUME NEW c \in Conn, AddParticipant(c) PROVE PlaceOK(u)'
  <2>1. u \in User /\ u \notin raced /\ PlaceOK(u)
    BY <1>4 DEF PlacesOK, AddParticipant
  <2>2. CASE u # Owner(c)
    <3>1. \A r \in Room : members'[r][u] = members[r][u]
      BY <1>4, <2>2 DEF AddParticipant, TypeOK
    <3>2. Kept(u) /\ \A d \in ConnsOf(u) : job'[d] = job[d]
      BY <1>4, <2>2, <3>1 DEF AddParticipant, Goto, Kept, ConnsOf, TypeOK
    <3>3. QED
      BY <2>1, <3>2, KeptPlace
  <2>4. PlaceAt(u, c) \/ u # Owner(c)
    BY <2>1 DEF PlaceOK, ConnsOf
  <2>5. CASE u = Owner(c)
    <3>1. c \in ConnsOf(u) /\ \A d \in ConnsOf(u) \ {c} : job'[d].at = "idle"
      <4>1. \A d \in ConnsOf(u) \ {c} : job[d].at = "idle"
        BY <1>4, <2>1, <2>5 DEF AddParticipant, ConnsOf, AloneOK, Busy
      <4>2. \A d \in ConnsOf(u) \ {c} : job'[d] = job[d]
        BY <1>4 DEF AddParticipant, Goto, ConnsOf, TypeOK
      <4>3. QED
        BY <2>5, <4>1, <4>2 DEF ConnsOf
    <3>2. Home(u) /\ userRooms[u] = None
      BY <1>4, <2>1, <2>5, <2>4 DEF AddParticipant, PlaceAt
    <3>3. job'[c].at = "record" /\ job'[c].room = job[c].room /\ UNCHANGED <<rooms, orphaned>>
      BY <1>4, <2>1, <2>5 DEF AddParticipant, Goto, TypeOK, Job
    <3>4. PICK p \in Part : members' = [members EXCEPT ![job[c].room][u] = p]
      BY <1>4, <2>1, <2>5 DEF AddParticipant
    <3>5. job[c].room \in Room
      BY <1>4, <2>1, <2>5 DEF AddParticipant, JobOK
    <3>6. /\ members'[job[c].room][u] = p
          /\ \A r \in Room : r # job[c].room => members'[r][u] = members[r][u]
      BY <3>4, <3>5 DEF TypeOK
    <3>7. \A r \in Room \ orphaned : members[r][u] = None
      BY <3>2, ChanType DEF Home
    <3>8. PlaceAt(u, c)'
      BY <3>3, <3>6, <3>7 DEF PlaceAt
    <3>9. QED
      BY <2>1, <3>1, <3>2, <3>3, <3>4, <3>5, <3>6, <3>7, <3>8, OwnPlace
  <2>6. QED
    BY <2>2, <2>5
<1>5. ASSUME NEW c \in Conn, FailToAdd(c) PROVE PlaceOK(u)'
  <2>1. u \in User /\ u \notin raced /\ PlaceOK(u)
    BY <1>5 DEF PlacesOK, FailToAdd
  <2>2. Kept(u)
    BY <1>5 DEF FailToAdd, Kept
  <2>3. CASE u # Owner(c)
    <3>1. \A d \in ConnsOf(u) : job'[d] = job[d]
      BY <1>5, <2>3 DEF FailToAdd, Return, NoJob, ConnsOf, TypeOK
    <3>2. QED
      BY <2>1, <2>2, <3>1, KeptPlace
  <2>4. PlaceAt(u, c) \/ u # Owner(c)
    BY <2>1 DEF PlaceOK, ConnsOf
  <2>5. CASE u = Owner(c)
    <3>1. c \in ConnsOf(u) /\ \A d \in ConnsOf(u) \ {c} : job'[d].at = "idle"
      <4>1. \A d \in ConnsOf(u) \ {c} : job[d].at = "idle"
        BY <1>5, <2>1, <2>5 DEF FailToAdd, ConnsOf, AloneOK, Busy
      <4>2. \A d \in ConnsOf(u) \ {c} : job'[d] = job[d]
        BY <1>5 DEF FailToAdd, Return, NoJob, ConnsOf, TypeOK
      <4>3. QED
        BY <2>5, <4>1, <4>2 DEF ConnsOf
    <3>2. Home(u)' /\ userRooms'[u] = None /\ job'[c].at = "idle"
      BY <1>5, <2>1, <2>2, <2>5, <2>4, KeptHome DEF FailToAdd, Return, NoJob, PlaceAt, Kept, TypeOK
    <3>3. PlaceAt(u, c)' /\ Reached(u)'
      BY <3>2 DEF PlaceAt, Reached
    <3>4. QED
      BY <2>1, <3>1, <3>2, <3>3, OwnPlace
  <2>6. QED
    BY <2>3, <2>5
<1>6. ASSUME NEW c \in Conn, RecordJoin(c) PROVE PlaceOK(u)'
  <2>1. u \in User /\ u \notin raced /\ PlaceOK(u)
    BY <1>6 DEF PlacesOK, RecordJoin
  <2>2. CASE u # Owner(c)
    <3>1. Kept(u) /\ \A d \in ConnsOf(u) : job'[d] = job[d]
      BY <1>6, <2>2 DEF RecordJoin, Return, NoJob, Recorded, Kept, ConnsOf, TypeOK
    <3>2. QED
      BY <2>1, <3>1, KeptPlace
  <2>4. PlaceAt(u, c) \/ u # Owner(c)
    BY <2>1 DEF PlaceOK, ConnsOf
  <2>5. CASE u = Owner(c)
    <3>1. c \in ConnsOf(u) /\ \A d \in ConnsOf(u) \ {c} : job'[d].at = "idle"
      <4>1. \A d \in ConnsOf(u) \ {c} : job[d].at = "idle"
        BY <1>6, <2>1, <2>5 DEF RecordJoin, ConnsOf, AloneOK, Busy
      <4>2. \A d \in ConnsOf(u) \ {c} : job'[d] = job[d]
        BY <1>6 DEF RecordJoin, Return, NoJob, Recorded, ConnsOf, TypeOK
      <4>3. QED
        BY <2>5, <4>1, <4>2 DEF ConnsOf
    <3> DEFINE rm == job[c].room
               ch == job[c].chan
    <3>2. /\ members[rm][u] # None
          /\ \A r \in Room \ orphaned : members[r][u] # None => r = rm
      BY <1>6, <2>1, <2>5, <2>4 DEF RecordJoin, PlaceAt
    <3>3. /\ ch \in Channel /\ rm \in Room /\ Chan(rm) = ch /\ c \in conn
          /\ rooms[ch] = rm \/ rm \in orphaned
      BY <1>6, <2>1, <2>5 DEF RecordJoin, JobOK
    <3>4. /\ userRooms'[u] = ch /\ job'[c].at = "idle"
          /\ UNCHANGED <<conn, rooms, members, orphaned>>
      BY <1>6, <2>1, <2>5 DEF RecordJoin, Recorded, Return, NoJob, TypeOK
    <3>5. Home(u)' /\ Reached(u)'
      BY <3>1, <3>2, <3>3, <3>4 DEF Home, Reached, ConnsOf
    <3>6. PlaceAt(u, c)'
      BY <3>4 DEF PlaceAt
    <3>7. QED
      BY <2>1, <3>1, <3>2, <3>3, <3>4, <3>5, <3>6, OwnPlace
  <2>6. QED
    BY <2>2, <2>5
<1>7. ASSUME NEW c \in Conn, NEW ch \in Channel, Leave(c, ch) PROVE PlaceOK(u)'
  <2>1. u \in User /\ u \notin raced /\ PlaceOK(u)
    BY <1>7 DEF PlacesOK, Leave, Begin
  <2>2. Kept(u)
    BY <1>7 DEF Leave, Kept
  <2>3. CASE u # Owner(c)
    <3>1. \A d \in ConnsOf(u) : job'[d] = job[d]
      BY <1>7, <2>3 DEF Leave, Begin, NoJob, ConnsOf, TypeOK
    <3>2. QED
      BY <2>1, <2>2, <3>1, KeptPlace
  <2>5. CASE u = Owner(c)
    <3>1. c \in ConnsOf(u) /\ \A d \in ConnsOf(u) \ {c} : job'[d].at = "idle"
      BY <1>7, <2>1, <2>5 DEF Leave, Begin, NoJob, ConnsOf, Quiet, Busy, TypeOK
    <3>2. Home(u)' /\ Reached(u)'
      BY <1>7, <2>1, <2>2, <2>5, KeptHome DEF PlaceOK, Leave, Begin, NoJob
    <3>3. job'[c].at = "seek"
      BY <1>7, <2>1, <2>2, <2>5 DEF Leave, Begin, NoJob, TypeOK
    <3>4. PlaceAt(u, c)'
      BY <3>2, <3>3 DEF PlaceAt, Home
    <3>5. QED
      BY <2>1, <3>1, <3>2, <3>3, <3>4, OwnPlace
  <2>6. QED
    BY <2>3, <2>5
<1>8. ASSUME NEW c \in Conn, GetRoom(c) PROVE PlaceOK(u)'
  <2>1. u \in User /\ u \notin raced /\ PlaceOK(u)
    BY <1>8 DEF PlacesOK, GetRoom
  <2>2. Kept(u)
    BY <1>8 DEF GetRoom, Kept
  <2>3. CASE u # Owner(c)
    <3>1. \A d \in ConnsOf(u) : job'[d] = job[d]
      BY <1>8, <2>3 DEF GetRoom, Return, NoJob, ConnsOf, TypeOK
    <3>2. QED
      BY <2>1, <2>2, <3>1, KeptPlace
  <2>4. PlaceAt(u, c) \/ u # Owner(c)
    BY <2>1 DEF PlaceOK, ConnsOf
  <2>5. CASE u = Owner(c)
    <3>1. c \in ConnsOf(u) /\ \A d \in ConnsOf(u) \ {c} : job'[d].at = "idle"
      <4>1. \A d \in ConnsOf(u) \ {c} : job[d].at = "idle"
        BY <1>8, <2>1, <2>5 DEF GetRoom, ConnsOf, AloneOK, Busy
      <4>2. \A d \in ConnsOf(u) \ {c} : job'[d] = job[d]
        BY <1>8 DEF GetRoom, Return, NoJob, ConnsOf, TypeOK
      <4>3. QED
        BY <2>5, <4>1, <4>2 DEF ConnsOf
    <3> DEFINE ch == job[c].chan
    <3>2. /\ Reached(u)
          /\ \A r \in Room \ orphaned : members[r][u] # None =>
               /\ rooms[Chan(r)] = r
               /\ Chan(r) = ch \/ (userRooms[u] = Chan(r) /\ ConnsOf(u) \cap conn # {})
      BY <1>8, <2>1, <2>2, <2>5, <2>4 DEF GetRoom, PlaceAt
    <3>3. UNCHANGED <<conn, rooms, userRooms, members, orphaned>> /\ ch \in Channel
      BY <1>8, <2>1, <2>2, <2>5 DEF GetRoom, JobOK
    <3>4. Reached(u)'
      BY <3>2, <3>3 DEF Reached
    <3>5. CASE rooms[ch] = None
      <4>1. job'[c].at = "idle"
        BY <1>8, <2>1, <2>2, <2>5, <3>5 DEF GetRoom, Return, NoJob, TypeOK
      <4>2. Home(u)' /\ PlaceAt(u, c)'
        BY <3>2, <3>3, <3>5, <4>1 DEF Home, PlaceAt, ConnsOf
      <4>3. QED
        BY <3>1, <3>4, <4>2, OwnPlace
    <3>6. CASE rooms[ch] # None
      <4>1. job'[c].at = "take" /\ job'[c].chan = ch /\ job'[c].room = rooms[ch]
        BY <1>8, <2>1, <2>2, <2>5, <3>6 DEF GetRoom, TypeOK, Job
      <4>2. rooms[ch] \notin orphaned
        BY <3>3, <3>6 DEF RoomsOK
      <4>3. PlaceAt(u, c)'
        BY <3>2, <3>3, <3>4, <4>1, <4>2 DEF PlaceAt, ConnsOf
      <4>4. QED
        BY <3>1, <4>1, <4>3, OwnPlace
    <3>7. QED
      BY <3>5, <3>6
  <2>6. QED
    BY <2>3, <2>5
<1>9. ASSUME NEW c \in Conn, TakeOut(c) PROVE PlaceOK(u)'
  <2>1. u \in User /\ u \notin raced /\ PlaceOK(u)
    BY <1>9 DEF PlacesOK, TakeOut
  <2>2. CASE u # Owner(c)
    <3>1. \A r \in Room : members'[r][u] = members[r][u]
      BY <1>9, <2>2 DEF TakeOut, TypeOK
    <3>2. Kept(u) /\ \A d \in ConnsOf(u) : job'[d] = job[d]
      BY <1>9, <2>2, <3>1 DEF TakeOut, Kept, ConnsOf, TypeOK
    <3>3. QED
      BY <2>1, <3>2, KeptPlace
  <2>4. PlaceAt(u, c) \/ u # Owner(c)
    BY <2>1 DEF PlaceOK, ConnsOf
  <2>5. CASE u = Owner(c)
    <3>1. c \in ConnsOf(u) /\ \A d \in ConnsOf(u) \ {c} : job'[d].at = "idle"
      <4>1. \A d \in ConnsOf(u) \ {c} : job[d].at = "idle"
        BY <1>9, <2>1, <2>5 DEF TakeOut, ConnsOf, AloneOK, Busy
      <4>2. \A d \in ConnsOf(u) \ {c} : job'[d] = job[d]
        BY <1>9 DEF TakeOut, ConnsOf, TypeOK
      <4>3. QED
        BY <2>5, <4>1, <4>2 DEF ConnsOf
    <3> DEFINE rm == job[c].room
               ch == job[c].chan
    <3>2. /\ userRooms[u] # ch => Reached(u)
          /\ members[rm][u] # None => rm \notin orphaned /\ rooms[ch] = rm
          /\ \A r \in Room \ (orphaned \cup {rm}) : members[r][u] # None =>
               /\ rooms[Chan(r)] = r
               /\ Chan(r) # ch /\ userRooms[u] = Chan(r) /\ ConnsOf(u) \cap conn # {}
      BY <1>9, <2>1, <2>5, <2>4 DEF TakeOut, PlaceAt
    <3>3. /\ UNCHANGED <<conn, rooms, userRooms, orphaned>>
          /\ rm \in Room /\ Chan(rm) = ch
      BY <1>9, <2>1, <2>5 DEF TakeOut, JobOK
    <3>4. job'[c].at \in {"close", "forget"} /\ job'[c].chan = ch
      BY <1>9, <2>1, <2>5 DEF TakeOut, TypeOK, Job
    <3>5. /\ members'[rm][u] = None
          /\ \A r \in Room : r # rm => members'[r][u] = members[r][u]
      BY <1>9, <2>1, <2>5, <3>3 DEF TakeOut, TypeOK
    <3>6. HomeBut(u, ch)'
      BY <3>2, <3>3, <3>4, <3>5 DEF HomeBut, ConnsOf
    <3>7. userRooms[u] # ch => Reached(u)'
      <4> SUFFICES ASSUME userRooms[u] # ch, userRooms[u] # None PROVE Reached(u)'
        BY <3>3 DEF Reached
      <4>1. CASE rooms[userRooms[u]] # None /\ members[rooms[userRooms[u]]][u] # None
        BY <4>1, <3>3, <3>5 DEF Reached, RoomsOK, TypeOK
      <4>2. CASE \E r \in orphaned : members[r][u] # None
        BY <4>2, <3>2, <3>3, <3>5 DEF Reached, TypeOK
      <4>3. QED
        BY <3>2, <4>1, <4>2 DEF Reached
    <3>8. PlaceAt(u, c)'
      BY <3>3, <3>4, <3>6, <3>7 DEF PlaceAt
    <3>9. QED
      BY <2>1, <3>1, <3>2, <3>3, <3>4, <3>5, <3>6, <3>7, <3>8, OwnPlace
  <2>6. QED
    BY <2>2, <2>5
<1>10. ASSUME NEW c \in Conn, Close(c) PROVE PlaceOK(u)'
  <2>1. u \in User /\ u \notin raced /\ PlaceOK(u)
    BY <1>10 DEF PlacesOK, Close
  <2>2. Kept(u)
    BY <1>10 DEF Close, Kept
  <2>3. CASE u # Owner(c)
    <3>1. \A d \in ConnsOf(u) : job'[d] = job[d]
      BY <1>10, <2>3 DEF Close, Closed, ConnsOf, TypeOK
    <3>2. QED
      BY <2>1, <2>2, <3>1, KeptPlace
  <2>4. PlaceAt(u, c) \/ u # Owner(c)
    BY <2>1 DEF PlaceOK, ConnsOf
  <2>5. CASE u = Owner(c)
    <3>1. c \in ConnsOf(u) /\ \A d \in ConnsOf(u) \ {c} : job'[d].at = "idle"
      <4>1. \A d \in ConnsOf(u) \ {c} : job[d].at = "idle"
        BY <1>10, <2>1, <2>5 DEF Close, ConnsOf, AloneOK, Busy
      <4>2. \A d \in ConnsOf(u) \ {c} : job'[d] = job[d]
        BY <1>10 DEF Close, Closed, ConnsOf, TypeOK
      <4>3. QED
        BY <2>5, <4>1, <4>2 DEF ConnsOf
    <3>2. HomeBut(u, job[c].chan)' /\ (userRooms'[u] # job[c].chan => Reached(u)')
      BY <1>10, <2>1, <2>2, <2>5, <2>4, KeptHome DEF Close, PlaceAt, Kept, TypeOK, Job
    <3>3. job'[c].at = "forget" /\ job'[c].chan = job[c].chan
      BY <1>10, <2>1, <2>2, <2>5 DEF Close, TypeOK, Job
    <3>4. PlaceAt(u, c)'
      BY <3>2, <3>3 DEF PlaceAt
    <3>5. QED
      BY <2>1, <3>1, <3>2, <3>3, <3>4, OwnPlace
  <2>6. QED
    BY <2>3, <2>5
<1>11. ASSUME NEW c \in Conn, Forget(c) PROVE PlaceOK(u)'
  <2>1. u \in User /\ u \notin raced /\ PlaceOK(u)
    BY <1>11 DEF PlacesOK, Forget
  <2>2. CASE u # Owner(c)
    <3>1. Kept(u) /\ \A d \in ConnsOf(u) : job'[d] = job[d]
      BY <1>11, <2>2 DEF Forget, Forgotten, Kept, ConnsOf, TypeOK
    <3>2. QED
      BY <2>1, <3>1, KeptPlace
  <2>4. PlaceAt(u, c) \/ u # Owner(c)
    BY <2>1 DEF PlaceOK, ConnsOf
  <2>5. CASE u = Owner(c)
    <3>1. c \in ConnsOf(u) /\ \A d \in ConnsOf(u) \ {c} : job'[d].at = "idle"
      <4>1. \A d \in ConnsOf(u) \ {c} : job[d].at = "idle"
        BY <1>11, <2>1, <2>5 DEF Forget, ConnsOf, AloneOK, Busy
      <4>2. \A d \in ConnsOf(u) \ {c} : job'[d] = job[d]
        BY <1>11 DEF Forget, Forgotten, ConnsOf, TypeOK
      <4>3. QED
        BY <2>5, <4>1, <4>2 DEF ConnsOf
    <3> DEFINE ch == job[c].chan
    <3>2. HomeBut(u, ch) /\ (userRooms[u] # ch => Reached(u))
      BY <1>11, <2>1, <2>5, <2>4 DEF Forget, PlaceAt
    <3>3. /\ userRooms'[u] = IF userRooms[u] = ch THEN None ELSE userRooms[u]
          /\ job'[c].at = "drop" /\ UNCHANGED <<conn, rooms, members, orphaned>>
      BY <1>11, <2>1, <2>5 DEF Forget, Forgotten, TypeOK, Job
    <3>4. Home(u)' /\ Reached(u)'
      BY <3>2, <3>3 DEF HomeBut, Home, Reached, ConnsOf
    <3>5. PlaceAt(u, c)'
      BY <3>3, <3>4 DEF PlaceAt
    <3>6. QED
      BY <2>1, <3>1, <3>2, <3>3, <3>4, <3>5, OwnPlace
  <2>6. QED
    BY <2>2, <2>5
<1>12. ASSUME NEW c \in Conn, DropRoomIfEmpty(c) PROVE PlaceOK(u)'
  <2>1. u \in User /\ u \notin raced /\ PlaceOK(u)
    BY <1>12 DEF PlacesOK, DropRoomIfEmpty
  <2>2. Kept(u)
    <3>1. \A x \in Room : members[x][u] # None =>
            /\ x \in orphaned' <=> x \in orphaned
            /\ rooms[Chan(x)] = x => rooms'[Chan(x)] = x
      BY <1>12, <2>1, ChanType DEF DropRoomIfEmpty, Droppable, InRoom, TypeOK
    <3>2. QED
      BY <1>12, <3>1 DEF Kept, DropRoomIfEmpty
  <2>3. CASE u # Owner(c)
    <3>1. \A d \in ConnsOf(u) : job'[d] = job[d]
      BY <1>12, <2>3 DEF DropRoomIfEmpty, Return, NoJob, Droppable, InRoom, ConnsOf, TypeOK
    <3>2. QED
      BY <2>1, <2>2, <3>1, KeptPlace
  <2>4. PlaceAt(u, c) \/ u # Owner(c)
    BY <2>1 DEF PlaceOK, ConnsOf
  <2>5. CASE u = Owner(c)
    <3>1. c \in ConnsOf(u) /\ \A d \in ConnsOf(u) \ {c} : job'[d].at = "idle"
      <4>1. \A d \in ConnsOf(u) \ {c} : job[d].at = "idle"
        BY <1>12, <2>1, <2>5 DEF DropRoomIfEmpty, ConnsOf, AloneOK, Busy
      <4>2. \A d \in ConnsOf(u) \ {c} : job'[d] = job[d]
        BY <1>12 DEF DropRoomIfEmpty, Return, NoJob, Droppable, InRoom, ConnsOf, TypeOK
      <4>3. QED
        BY <2>5, <4>1, <4>2 DEF ConnsOf
    <3>2. Home(u)' /\ Reached(u)'
      BY <1>12, <2>1, <2>2, <2>5, <2>4, KeptHome DEF DropRoomIfEmpty, PlaceAt
    <3>3. job'[c].at = "idle"
      BY <1>12, <2>1, <2>2, <2>5 DEF DropRoomIfEmpty, Return, NoJob, TypeOK
    <3>4. PlaceAt(u, c)'
      BY <3>3 DEF PlaceAt
    <3>5. QED
      BY <2>1, <3>1, <3>2, <3>3, <3>4, OwnPlace
  <2>6. QED
    BY <2>3, <2>5
<1>13. ASSUME NEW c \in Conn, Connect(c) PROVE PlaceOK(u)'
  <2>1. u \in User /\ u \notin raced /\ PlaceOK(u)
    BY <1>13 DEF PlacesOK, Connect
  <2>2. Kept(u) /\ \A d \in ConnsOf(u) : job'[d] = job[d]
    BY <1>13 DEF Connect, Kept, ConnsOf
  <2>3. QED
    BY <2>1, <2>2, KeptPlace
<1>14. ASSUME NEW c \in Conn, Disconnect(c) PROVE PlaceOK(u)'
  <2>1. u \in User /\ u \notin raced /\ PlaceOK(u)
    BY <1>14 DEF PlacesOK, Disconnect, Begin
  <2>2. CASE u # Owner(c) \/ ~WasLast(c)
    <3>1. Kept(u)
      BY <1>14, <2>2 DEF Disconnect, Kept, ConnsOf, WasLast, Begin, TypeOK
    <3>2. \A d \in ConnsOf(u) : job'[d] = job[d]
      BY <1>14, <2>2 DEF Disconnect, ConnsOf, Begin, TypeOK
    <3>3. QED
      BY <2>1, <3>1, <3>2, KeptPlace
  <2>3. CASE u = Owner(c) /\ WasLast(c)
    <3>1. Begin(c, "remove", None)
      BY <1>14, <2>3 DEF Disconnect
    <3>2. Quiet(u) /\ c \in ConnsOf(u)
      BY <2>3, <3>1 DEF Begin, ConnsOf
    <3>3. \A d \in ConnsOf(u) \ {c} : job'[d].at = "idle"
      BY <3>1, <3>2 DEF Begin, Quiet, Busy, TypeOK, ConnsOf
    <3>4. job' = [job EXCEPT ![c] = [NoJob EXCEPT !.at = "remove", !.chan = None]]
      BY <3>1 DEF Begin
    <3>5. job'[c] = [NoJob EXCEPT !.at = "remove", !.chan = None]
      BY <3>4 DEF TypeOK
    <3>6. job'[c].at = "remove"
      BY <3>5 DEF NoJob
    <3>7. Home(u) /\ Reached(u) /\ UNCHANGED <<rooms, userRooms, members, orphaned>>
      BY <1>14, <2>1, <3>2 DEF PlaceOK, Disconnect
    <3>8. PlaceAt(u, c)'
      BY <3>6, <3>7 DEF PlaceAt, Home, Reached
    <3>9. QED
      BY <2>1, <3>2, <3>3, <3>6, <3>8, OwnPlace
  <2>4. QED
    BY <2>2, <2>3
<1>15. ASSUME NEW c \in Conn, RemoveUser(c) PROVE PlaceOK(u)'
  <2>1. u \in User /\ u \notin raced /\ PlaceOK(u)
    BY <1>15 DEF PlacesOK, RemoveUser
  <2>2. CASE u # Owner(c)
    <3>1. Kept(u) /\ \A d \in ConnsOf(u) : job'[d] = job[d]
      BY <1>15, <2>2 DEF RemoveUser, NoJob, Kept, ConnsOf, TypeOK
    <3>2. QED
      BY <2>1, <3>1, KeptPlace
  <2>4. PlaceAt(u, c) \/ u # Owner(c)
    BY <2>1 DEF PlaceOK, ConnsOf
  <2>5. CASE u = Owner(c)
    <3>1. c \in ConnsOf(u) /\ \A d \in ConnsOf(u) \ {c} : job'[d].at = "idle"
      <4>1. \A d \in ConnsOf(u) \ {c} : job[d].at = "idle"
        BY <1>15, <2>1, <2>5 DEF RemoveUser, ConnsOf, AloneOK, Busy
      <4>2. \A d \in ConnsOf(u) \ {c} : job'[d] = job[d]
        BY <1>15 DEF RemoveUser, NoJob, ConnsOf, TypeOK
      <4>3. QED
        BY <2>5, <4>1, <4>2 DEF ConnsOf
    <3>2. /\ userRooms'[u] = None /\ UNCHANGED <<conn, rooms, members, orphaned>>
          /\ IF userRooms[u] = None THEN job'[c].at = "idle"
             ELSE job'[c].at = "seek" /\ job'[c].chan = userRooms[u]
      BY <1>15, <2>1, <2>5 DEF RemoveUser, NoJob, TypeOK
    <3>3. \A r \in Room \ orphaned : members[r][u] # None =>
             rooms[Chan(r)] = r /\ userRooms[u] = Chan(r)
      BY <1>15, <2>1, <2>5, <2>4 DEF RemoveUser, PlaceAt
    <3>4. Reached(u)'
      BY <3>2 DEF Reached
    <3>5. job'[c].at = "idle" => Home(u)'
      BY <3>2, <3>3, ChanType DEF Home
    <3>6. PlaceAt(u, c)'
      BY <3>2, <3>3, <3>4 DEF PlaceAt
    <3>7. QED
      BY <2>1, <3>1, <3>2, <3>3, <3>4, <3>5, <3>6, OwnPlace
  <2>6. QED
    BY <2>2, <2>5
<1>16. CASE UNCHANGED vars
  <2>1. PlaceOK(u) /\ Kept(u) /\ \A d \in ConnsOf(u) : job'[d] = job[d]
    BY <1>16 DEF vars, Kept, PlacesOK, ConnsOf
  <2>2. QED
    BY <2>1, KeptPlace
<1>17. QED
  BY <1>1, <1>2, <1>3, <1>4, <1>5, <1>6, <1>7, <1>8,
     <1>9, <1>10, <1>11, <1>12, <1>13, <1>14, <1>15, <1>16
  DEF Next, HandleJoin, HandleLeave, Session

-----------------------------------------------------------------------------
(* Participants that are open *)

LEMMA LeakStep ==
  TypeOK /\ JobOK /\ PlacesOK /\ LeaksOnlyFromRaces /\ [Next]_vars => LeaksOnlyFromRaces'
<1> SUFFICES ASSUME TypeOK, JobOK, PlacesOK, LeaksOnlyFromRaces, [Next]_vars
             PROVE  LeaksOnlyFromRaces'
  OBVIOUS
<1> USE OwnerType, ChanType DEF TypeOK, JobOK, LeaksOnlyFromRaces, Job, Step, Busy
<1>1. ASSUME NEW c \in Conn, NEW ch \in Channel, Join(c, ch) PROVE LeaksOnlyFromRaces'
  BY <1>1 DEF Join, Begin, NoJob
<1>2. ASSUME NEW c \in Conn, GetOrCreateRoom(c) PROVE LeaksOnlyFromRaces'
  <2>1. \A d \in Conn : job'[d].part = job[d].part
    BY <1>2 DEF GetOrCreateRoom
  <2>2. UNCHANGED <<pcs, members, raced>>
    BY <1>2 DEF GetOrCreateRoom
  <2>3. QED
    BY <2>1, <2>2
<1>3. ASSUME NEW c \in Conn, CheckSize(c) PROVE LeaksOnlyFromRaces'
  BY <1>3 DEF CheckSize, Goto, Return, NoJob
<1>4. ASSUME NEW c \in Conn, AddParticipant(c) PROVE LeaksOnlyFromRaces'
  BY <1>4 DEF AddParticipant, Goto, PlacesOK, PlaceOK, PlaceAt, ConnsOf
<1>5. ASSUME NEW c \in Conn, FailToAdd(c) PROVE LeaksOnlyFromRaces'
  BY <1>5 DEF FailToAdd, Return, NoJob
<1>6. ASSUME NEW c \in Conn, RecordJoin(c) PROVE LeaksOnlyFromRaces'
  BY <1>6 DEF RecordJoin, Return, NoJob, Recorded
<1>7. ASSUME NEW c \in Conn, NEW ch \in Channel, Leave(c, ch) PROVE LeaksOnlyFromRaces'
  BY <1>7 DEF Leave, Begin, NoJob
<1>8. ASSUME NEW c \in Conn, GetRoom(c) PROVE LeaksOnlyFromRaces'
  BY <1>8 DEF GetRoom, Return, NoJob
<1>9. ASSUME NEW c \in Conn, TakeOut(c) PROVE LeaksOnlyFromRaces'
  <2>1. ASSUME NEW p \in Part, pcs[p] \notin raced \cup {None}
        PROVE  \/ \E r \in Room : members'[r][pcs[p]] = p
               \/ \E d \in Conn : job'[d].part = p
    <3>1. CASE \E d \in Conn : job[d].part = p
      BY <1>9, <3>1 DEF TakeOut
    <3>2. ASSUME NEW r \in Room, members[r][pcs[p]] = p
          PROVE  \/ \E x \in Room : members'[x][pcs[p]] = p
                 \/ \E d \in Conn : job'[d].part = p
      <4>1. CASE r = job[c].room /\ pcs[p] = Owner(c)
        BY <1>9, <3>2, <4>1 DEF TakeOut
      <4>2. CASE ~(r = job[c].room /\ pcs[p] = Owner(c))
        BY <1>9, <3>2, <4>2, <2>1 DEF TakeOut
      <4>3. QED
        BY <4>1, <4>2
    <3>3. QED
      BY <2>1, <3>1, <3>2
  <2>2. UNCHANGED <<pcs, raced>>
    BY <1>9 DEF TakeOut
  <2>3. QED
    BY <2>1, <2>2
<1>10. ASSUME NEW c \in Conn, Close(c) PROVE LeaksOnlyFromRaces'
  BY <1>10 DEF Close, Closed
<1>11. ASSUME NEW c \in Conn, Forget(c) PROVE LeaksOnlyFromRaces'
  BY <1>11 DEF Forget, Forgotten
<1>12. ASSUME NEW c \in Conn, DropRoomIfEmpty(c) PROVE LeaksOnlyFromRaces'
  BY <1>12 DEF DropRoomIfEmpty, Return, NoJob, Droppable, InRoom
<1>13. ASSUME NEW c \in Conn, Connect(c) PROVE LeaksOnlyFromRaces'
  BY <1>13 DEF Connect
<1>14. ASSUME NEW c \in Conn, Disconnect(c) PROVE LeaksOnlyFromRaces'
  BY <1>14 DEF Disconnect, Begin, NoJob
<1>15. ASSUME NEW c \in Conn, RemoveUser(c) PROVE LeaksOnlyFromRaces'
  BY <1>15 DEF RemoveUser, NoJob
<1>16. CASE UNCHANGED vars
  BY <1>16 DEF vars
<1>17. QED
  BY <1>1, <1>2, <1>3, <1>4, <1>5, <1>6, <1>7, <1>8,
     <1>9, <1>10, <1>11, <1>12, <1>13, <1>14, <1>15, <1>16
  DEF Next, HandleJoin, HandleLeave, Session

-----------------------------------------------------------------------------
IInv == TypeOK /\ RoomsOK /\ JobOK /\ AloneOK /\ PlacesOK

LEMMA IInvCorrect == Spec => []IInv
<1>1. Init => IInv
  BY InitOK DEF IInv
<1>2. IInv /\ [Next]_vars => IInv'
  BY TypeStep, RoomsStep, JobStep, AloneStep, PlacesStep DEF IInv
<1>3. QED
  BY <1>1, <1>2, PTL DEF Spec

\* Every variable of the registry keeps its type, whatever handlers overlap.
THEOREM TypeCorrect == Spec => []TypeOK
<1>1. IInv => TypeOK
  BY DEF IInv
<1>2. QED
  BY <1>1, IInvCorrect, PTL

\* A user whom the manager has in a call is in the room that the signals of its
\* channel reach, unless two of its handlers overlapped or the room was dropped under
\* its join, for any number of users, connections and channels.
THEOREM ReachCorrect == Spec => []CallIsReachable
<1>1. IInv => CallIsReachable
  <2> SUFFICES ASSUME IInv, NEW u \in User, userRooms[u] # None, Quiet(u), u \notin raced
               PROVE  \/ \E r \in Room : r = rooms[userRooms[u]] /\ u \in InRoom(r)
                      \/ \E r \in orphaned : u \in InRoom(r)
    BY DEF CallIsReachable
  <2>1. Reached(u) /\ rooms[userRooms[u]] \in Room \cup {None}
    BY DEF IInv, PlacesOK, PlaceOK, TypeOK
  <2>2. QED
    BY <2>1 DEF Reached, InRoom
<1>2. QED
  BY <1>1, IInvCorrect, PTL

\* Whoever is in a room is connected and known to the manager, but for the two races.
THEOREM GhostsCorrect == Spec => []GhostsOnlyFromRaces
<1>1. IInv => GhostsOnlyFromRaces
  BY DEF IInv, PlacesOK, PlaceOK, GhostsOnlyFromRaces, InRoom, Home
<1>2. QED
  BY <1>1, IInvCorrect, PTL

\* No participant object is left open, however joins, leaves and disconnects of
\* different users interleave.
THEOREM LeaksCorrect == Spec => []LeaksOnlyFromRaces
<1>1. Init => LeaksOnlyFromRaces
  BY InitOK
<1>2. IInv /\ LeaksOnlyFromRaces /\ [Next]_vars => LeaksOnlyFromRaces'
  BY LeakStep DEF IInv
<1>3. QED
  BY <1>1, <1>2, IInvCorrect, PTL DEF Spec

\* Nobody stays in a call he has left, and nothing of his stays open there, but after a race
\* of his own handlers.
THEOREM LeavingCorrect == Spec => []CallsAreLeft
<1>1. GhostsOnlyFromRaces /\ LeaksOnlyFromRaces => CallsAreLeft
  BY DEF CallsAreLeft
<1>2. QED
  BY <1>1, GhostsCorrect, LeaksCorrect, PTL
=============================================================================
