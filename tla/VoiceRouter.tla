---------------------------- MODULE VoiceRouter ----------------------------
(***************************************************************************)
(* The UDP voice router of the server, backend/internal/voice/router.go.   *)
(*                                                                         *)
(* Control packets (Register, Join, Leave) are handled one after the other *)
(* by the read loop; every audio packet gets a goroutine; RemoveUser is    *)
(* called by the WebSocket goroutine of a user whose last connection went  *)
(* away.  They share addrMap, userMap and active under one mutex, which    *)
(* Join, Leave, Audio and the state notification release between reading   *)
(* and writing: that is where one action below ends and the next begins.   *)
(*                                                                         *)
(* A packet needs a token that is valid, or an address that was registered *)
(* with one, and no connection: a user may speak, and be in a session,     *)
(* whether connected or not.                                               *)
(***************************************************************************)
EXTENDS Naturals, FiniteSets

CONSTANTS Speaker,              \* the users, who may all register for voice
          Addr, Channel,
          NoUser, NoAddr,       \* absent map entries
          Idle,                 \* the read loop waits for a packet
          Loop,                 \* the read loop, as a process that announces
          Removal,              \* the goroutines that call RemoveUser; bound: so many at a time
          MaxStreams            \* bound: audio packets handled at a time

ASSUME NoUserAssumption == NoUser \notin Speaker
ASSUME NoAddrAssumption == NoAddr \notin Addr
ASSUME LoopAssumption   == Loop \notin Removal

VARIABLES
  addrMap,    \* user -> its registered address
  userMap,    \* address -> the user registered there
  active,     \* channel -> the users in its voice session
  record,     \* channel -> who has a record of membership in the store: a member, or
              \* one who left or was kicked
  been,       \* channel -> everyone who has ever had one (history)
  loop,       \* the control packet the read loop is in the middle of
  leaving,    \* goroutine -> the user for whom RemoveUser is due, or NoUser
  spoken,     \* users with a control packet handled, or begun, since RemoveUser (history)
  unheard,    \* users whose address was claimed by another, or who were removed in the
              \* middle of a join, and have not registered since (history)
  due,        \* process -> channels it has yet to announce
  held,       \* process -> the roster it has read and not yet announced
  audio,      \* audio packets in the middle of being handled
  told        \* channel -> its present session has been announced (history)

maps        == <<addrMap, userMap>>
world       == <<record, been>>
past        == <<spoken, unheard>>
announce    == <<due, held, told>>
routerVars  == <<maps, active, world, loop, leaving, past, announce, audio>>

Proc        == Removal \cup {Loop}
Packet      == [op : {"check", "admit", "leave"}, user : Speaker, chan : Channel]
               \cup [op : {"claim"}, user : Speaker, addr : Addr]
Notice      == [chan : Channel, users : SUBSET Speaker]
Datagram    == [for : Speaker, to : Addr]
\* Before and after the targets have been read. to: those not written to yet; moved:
\* addresses that have changed hands since (history).
AudioStream == [from : Speaker, chan : Channel, at : {"lookup", "write"},
                to : SUBSET Datagram, moved : SUBSET Addr]

RouterTypeOK ==
  /\ addrMap \in [Speaker -> Addr \cup {NoAddr}]
  /\ userMap \in [Addr -> Speaker \cup {NoUser}]
  /\ active \in [Channel -> SUBSET Speaker]
  /\ record \in [Channel -> SUBSET Speaker]
  /\ been \in [Channel -> SUBSET Speaker]
  /\ loop \in Packet \cup {Idle}
  /\ leaving \in [Removal -> Speaker \cup {NoUser}]
  /\ spoken \in SUBSET Speaker
  /\ unheard \in SUBSET Speaker
  /\ due \in [Proc -> SUBSET Channel]
  /\ held \in [Proc -> SUBSET Notice]
  /\ audio \in SUBSET AudioStream
  /\ told \in [Channel -> BOOLEAN]

RouterInit ==
  /\ addrMap = [u \in Speaker |-> NoAddr]
  /\ userMap = [a \in Addr |-> NoUser]
  /\ active = [c \in Channel |-> {}]
  /\ record \in [Channel -> SUBSET Speaker]
  /\ been = record
  /\ loop = Idle
  /\ leaving = [r \in Removal |-> NoUser]
  /\ spoken = {}
  /\ unheard = {}
  /\ due = [p \in Proc |-> {}]
  /\ held = [p \in Proc |-> {}]
  /\ audio = {}
  /\ told = [c \in Channel |-> TRUE]

-----------------------------------------------------------------------------
(* The world around the router: connections and records of membership. *)

\* The last connection of u is unregistered; its goroutine will call RemoveUser. The user
\* may be connected anew by then, and lose that connection as well.
Disconnect(u, r) ==
  /\ leaving[r] = NoUser /\ due[r] = {}
  /\ leaving' = [leaving EXCEPT ![r] = u]
  /\ UNCHANGED <<maps, active, world, loop, past, announce, audio>>

\* A record is made when a user is added and deleted with its channel. Who leaves or is
\* kicked keeps it.
ChangeRecord(u, c) ==
  /\ record' = [record EXCEPT ![c] = IF u \in @ THEN @ \ {u} ELSE @ \cup {u}]
  /\ been' = [been EXCEPT ![c] = @ \cup {u}]
  /\ UNCHANGED <<maps, active, loop, leaving, past, announce, audio>>

-----------------------------------------------------------------------------
(* Control packets. The loop takes the next packet when it is done with    *)
(* the last one, its announcement included.                                *)

Take(p) ==
  /\ loop = Idle
  /\ due[Loop] = {}
  /\ loop' = p
  /\ spoken' = spoken \cup {p.user}
  /\ UNCHANGED <<maps, active, world, leaving, unheard, announce, audio>>

\* Register: the token is valid and says who sends.
TakeRegister(u, a) == Take([op |-> "claim", user |-> u, addr |-> a])

\* Join, Leave: the sender is the user registered at the packet's address.
TakeJoin(a, c) ==
  userMap[a] # NoUser /\ Take([op |-> "check", user |-> userMap[a], chan |-> c])
TakeLeave(a, c) ==
  userMap[a] # NoUser /\ Take([op |-> "leave", user |-> userMap[a], chan |-> c])

\* A session that changes is not announced any more.
StillTold == [c \in Channel |-> told[c] /\ active'[c] = active[c]]

Doing(op) == loop # Idle /\ loop.op = op

\* The addresses that change hands are noted for the packets under way.
Moved == {a \in Addr : userMap'[a] # userMap[a]}
StreamsNote == audio' = {[s EXCEPT !.moved = IF s.at = "write" THEN @ \cup Moved ELSE @] : s \in audio}

\* userMap once u is registered at a: u's old address is freed.
ClaimedUserMap(u, a) ==
  [x \in Addr |-> IF x = a THEN u
                  ELSE IF x = addrMap[u] THEN NoUser ELSE userMap[x]]

\* Mutant: the user who held the address before keeps it.
ClaimedAddrMapOnly(u, a) == [addrMap EXCEPT ![u] = a]

\* addrMap once u is registered at a: a user still mapped to a is unmapped.
ClaimedAddrMap(u, a) ==
  [v \in Speaker |-> IF v = u THEN a
                  ELSE IF v = userMap[a] /\ addrMap[v] = a THEN NoAddr
                  ELSE addrMap[v]]

HandleRegister ==
  /\ Doing("claim")
  /\ addrMap' = ClaimedAddrMap(loop.user, loop.addr)
  /\ userMap' = ClaimedUserMap(loop.user, loop.addr)
  /\ loop' = Idle
  /\ unheard' = (unheard \ {loop.user}) \cup ({userMap[loop.addr]} \ {loop.user, NoUser})
  /\ StreamsNote
  /\ UNCHANGED <<active, world, leaving, spoken, announce>>

\* Mutant: the result of the membership lookup is ignored.
AfterNoCheck(p) == [p EXCEPT !.op = "admit"]

\* GetUserChannel: the join of a user without a record is dropped. What the record says,
\* that the user has left or was kicked, is not looked at.
AfterCheck(p) == IF p.user \in record[p.chan] THEN [p EXCEPT !.op = "admit"] ELSE Idle

CheckMember ==
  /\ Doing("check")
  /\ loop' = AfterCheck(loop)
  /\ UNCHANGED <<maps, active, world, leaving, past, announce, audio>>

HandleJoinPacket ==
  /\ Doing("admit")
  /\ active' = [active EXCEPT ![loop.chan] = @ \cup {loop.user}]
  /\ told' = StillTold
  /\ due' = [due EXCEPT ![Loop] = {loop.chan}]
  /\ loop' = Idle
  /\ UNCHANGED <<maps, world, leaving, past, held, audio>>

\* Mutant: the end of a session is not announced.
LeaveNoticeIfShared(c) == IF active[c] \subseteq {loop.user} THEN {} ELSE {c}

\* What a Leave announces.
LeaveNotice(c) == {c}

HandleLeavePacket ==
  /\ Doing("leave")
  /\ active' = [active EXCEPT ![loop.chan] = @ \ {loop.user}]
  /\ told' = StillTold
  /\ due' = [due EXCEPT ![Loop] = LeaveNotice(loop.chan)]
  /\ loop' = Idle
  /\ UNCHANGED <<maps, world, leaving, past, held, audio>>

-----------------------------------------------------------------------------
(* Disconnection. *)

\* userMap without the address of u.
ForgottenUserMap(u) ==
  [x \in Addr |-> IF x = addrMap[u] THEN NoUser ELSE userMap[x]]

\* Mutant: a user without a registered address is not looked for.
SessionsOfRegistered(u) == {c \in Channel : addrMap[u] # NoAddr /\ u \in active[c]}

SessionsOf(u) == {c \in Channel : u \in active[c]}

RemoveUser(r) ==
  LET u == leaving[r] IN
  /\ u # NoUser
  /\ leaving' = [leaving EXCEPT ![r] = NoUser]
  /\ addrMap' = [addrMap EXCEPT ![u] = NoAddr]
  /\ userMap' = ForgottenUserMap(u)
  /\ active' = [c \in Channel |-> IF c \in SessionsOf(u) THEN active[c] \ {u} ELSE active[c]]
  /\ told' = StillTold
  /\ due' = [due EXCEPT ![r] = SessionsOf(u)]
  /\ spoken' = IF loop # Idle /\ loop.user = u THEN spoken ELSE spoken \ {u}
  /\ unheard' = IF (Doing("check") \/ Doing("admit")) /\ loop.user = u THEN unheard \cup {u}
             ELSE unheard \ {u}
  /\ StreamsNote
  /\ UNCHANGED <<world, loop, held>>

-----------------------------------------------------------------------------
(* notifyVoiceUpdate: the roster is read under the lock, announced after. *)

ReadRoster(p, c) ==
  /\ c \in due[p]
  /\ held[p] = {}
  /\ held' = [held EXCEPT ![p] = {[chan |-> c, users |-> active[c]]}]
  /\ UNCHANGED <<maps, active, world, loop, leaving, past, due, told, audio>>

Announce(p) ==
  \E n \in held[p] :
    /\ told' = [told EXCEPT ![n.chan] = @ \/ n.users = active[n.chan]]
    /\ due' = [due EXCEPT ![p] = @ \ {n.chan}]
    /\ held' = [held EXCEPT ![p] = {}]
    /\ UNCHANGED <<maps, active, world, loop, leaving, past, audio>>

-----------------------------------------------------------------------------
(* Audio. *)

\* First read lock: who sends from a.
ReadSender(a, c) ==
  /\ userMap[a] # NoUser
  /\ Cardinality(audio) < MaxStreams
  /\ audio' = audio \cup {[from |-> userMap[a], chan |-> c, at |-> "lookup",
                            to |-> {}, moved |-> {}]}
  /\ UNCHANGED <<maps, active, world, loop, leaving, past, announce>>

Listeners(s) == {v \in active[s.chan] \ {s.from} : addrMap[v] # NoAddr}

\* Second read lock: the other participants' addresses.
CollectTargets(s) ==
  /\ s.at = "lookup"
  /\ audio' = (audio \ {s}) \cup
       {[from |-> s.from, chan |-> s.chan, at |-> "write", moved |-> {},
         to |-> {[for |-> v, to |-> addrMap[v]] : v \in Listeners(s)}]}
  /\ UNCHANGED <<maps, active, world, loop, leaving, past, announce>>

\* After the unlock the packet is written to one target after the other.
WriteToUDP(s, d) ==
  /\ s.at = "write" /\ d \in s.to
  /\ audio' = (audio \ {s}) \cup {[s EXCEPT !.to = @ \ {d}]}
  /\ UNCHANGED <<maps, active, world, loop, leaving, past, announce>>

Done(s) ==
  /\ s.at = "write" /\ s.to = {}
  /\ audio' = audio \ {s}
  /\ UNCHANGED <<maps, active, world, loop, leaving, past, announce>>

-----------------------------------------------------------------------------
Environment ==
  \/ \E u \in Speaker, r \in Removal : Disconnect(u, r)
  \/ \E u \in Speaker, c \in Channel : ChangeRecord(u, c)
  \/ \E u \in Speaker, a \in Addr : TakeRegister(u, a)
  \/ \E a \in Addr, c \in Channel : TakeJoin(a, c) \/ TakeLeave(a, c) \/ ReadSender(a, c)

Handle == HandleRegister \/ CheckMember \/ HandleJoinPacket \/ HandleLeavePacket
Notify(p) == Announce(p) \/ \E c \in Channel : ReadRoster(p, c)
HandleAudio(s) == CollectTargets(s) \/ Done(s) \/ \E d \in s.to : WriteToUDP(s, d)

RouterNext ==
  \/ Environment
  \/ Handle
  \/ \E p \in Proc : Notify(p)
  \/ \E r \in Removal : RemoveUser(r)
  \/ \E s \in audio : HandleAudio(s)

RouterSpec == RouterInit /\ [][RouterNext]_routerVars

-----------------------------------------------------------------------------
(* Safety. *)

\* The forward and the reverse address map agree, whoever re-registers, takes
\* over an address or is removed: what a datagram is sent to and who a datagram
\* comes from never contradict each other (handleRegister, RemoveUser).
MapsInverse ==
  \A u \in Speaker, a \in Addr : addrMap[u] = a <=> userMap[a] = u

\* Nobody is in a voice session, or about to be, who never had a record of membership
\* in the channel, whatever happens between the check and the admission. That the user
\* still is a member, as the comment of NewRouter has it, does not hold: a record is
\* enough, and those who left or were kicked keep theirs.
OnlyRecordedAdmitted ==
  /\ \A c \in Channel : active[c] \subseteq been[c]
  /\ Doing("admit") => loop.user \in been[loop.chan]

\* RemoveUser leaves nothing of a user but for what a packet brings back that the loop is
\* in the middle of, or takes later. And whoever is in a session has an address to be
\* heard and reached at, unless it was claimed by another or the removal overtook the
\* join: those two are the only sources of participants nobody can hear.
GhostsOnlyFromRaces ==
  /\ \A u \in Speaker \ spoken :
       /\ addrMap[u] = NoAddr
       /\ \A c \in Channel : u \notin active[c]
       /\ loop # Idle => loop.user # u
  /\ \A u \in Speaker \ unheard : addrMap[u] = NoAddr => \A c \in Channel : u \notin active[c]

\* A session is made of those who were let in and can be reached, but for those races.
SessionsAreTrue == OnlyRecordedAdmitted /\ GhostsOnlyFromRaces

\* Audio is written to an address that is registered to the listener it is meant for,
\* unless the address has changed hands since the targets were collected; never to its
\* sender, and only for people who had a record of membership in the channel.
AudioReachesItsListener ==
  \A s \in audio : \A d \in s.to :
    /\ userMap[d.to] = d.for \/ d.to \in s.moved
    /\ d.for # s.from
    /\ d.for \in been[s.chan]

\* No change of a session stays unannounced: while the present session is not
\* announced, some process has it on its list and will read the roster again, or
\* has read it as it is. An announcement under way with an older roster, by the
\* loop or by another removal, never counts (notifyVoiceUpdate after each change).
ChangesAreAnnounced ==
  \A c \in Channel :
    told[c] \/ \E p \in Proc : /\ c \in due[p]
                               /\ \A n \in held[p] : n.chan = c => n.users = active[c]
=============================================================================
