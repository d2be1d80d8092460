--------------------------- MODULE WhisperClient ---------------------------
(***************************************************************************)
(* The whisper store of one client (whisperStore.ts) with its IndexedDB    *)
(* (whisperDb.ts) and the components that drive it.                        *)
(*                                                                         *)
(* Every handler is an async function. What it does up to its first await  *)
(* and between two awaits is one step; in between, every other handler may *)
(* run. A handler reads the active session once, before it awaits, and     *)
(* writes back a copy of what it read. A call in flight is a record: where *)
(* it is, the session it works for, the copy, and its message.             *)
(*                                                                         *)
(* IndexedDB works off its requests in order, so a request takes effect    *)
(* when it is made; the code after its await comes later. The hub and the  *)
(* peers (detailed in WhisperRelay) are reduced to what they may deliver   *)
(* for a session, and when.                                                *)
(***************************************************************************)
EXTENDS Integers, FiniteSets

CONSTANTS Session,     \* session ids; each is used once
          Peer, PeerOf,\* the friend a session is with
          Mine,        \* sessions this user initiates
          Stored,      \* sessions whose expiry mode is not 'session_only'
          Msg,         \* messages and files, sent or received
          Timed,       \* those in a session with a timer
          MaxCalls,    \* bound: calls in flight
          MaxFailures, \* bound: requests that IndexedDB refuses
          None

ASSUME SessionAssumption ==
  /\ PeerOf \in [Session -> Peer]
  /\ Mine \subseteq Session /\ Stored \subseteq Session /\ Timed \subseteq Msg
ASSUME NoneAssumption == None \notin Session \cup Peer \cup Msg
ASSUME BoundAssumption == MaxCalls \in Nat /\ MaxFailures \in Nat

VARIABLES
  active,     \* activeSession, or None
  invite,     \* session of incomingInvite, or None
  pending,    \* pendingPrivateKeys: sessions with a private key
  connecting, \* isConnecting
  modal,      \* peer of the open start modal, or None
  shown,      \* whisperPeerId while isWhisperModeActive, or None
  rows,       \* sessions in the database
  disk,       \* messages in the database
  calls,      \* calls in flight
  hub,        \* session -> what the hub knows of it
  owed,       \* sessions with a whisper_error on its way
  of,         \* message -> the session it was encrypted in, or None
  expired,    \* timed messages whose time is over
  failures,   \* refused requests so far
  ended,      \* sessions whose end this client was told or caused (history)
  burnt,      \* sessions burned, here or by the peer (history)
  overlap,    \* sessions that had two calls in flight at once, or got a message
              \* written in another one (history)
  unburned,   \* sessions burned that the database refused to delete (history)
  stuck       \* sessions whose accept was passed over, or that the hub forgot, while
              \* their private key was pending (history)

ui      == <<active, invite, pending, connecting, modal, shown>>
db      == <<rows, disk>>
network == <<hub, owed>>
ends    == <<ended, burnt, unburned, stuck>>
history == <<ends, overlap>>
vars    == <<ui, db, calls, network, of, expired, failures, history>>

\* A session on the screen: with its sessionKey or not yet, its status 'active' or
\* over, its messages. The verified flag is left out; what toggles it is not.
View == [sid : Session, keyed : BOOLEAN, live : BOOLEAN, msgs : SUBSET Msg]

Op == {"initiate", "accept", "accepted", "derive", "derived", "write", "encrypt", "sent",
       "decrypt", "received", "verify", "burn", "burnByPeer", "load", "messages", "sweep"}

Call(op, s, snap, m) == [op |-> op, sid |-> s, snap |-> snap, msg |-> m]

TypeOK ==
  /\ active \in View \cup {None}
  /\ invite \in Session \cup {None}
  /\ pending \subseteq Mine
  /\ connecting \in BOOLEAN
  /\ modal \in Peer \cup {None} /\ shown \in Peer \cup {None}
  /\ rows \subseteq Session
  /\ disk \subseteq Msg
  /\ calls \subseteq [op : Op, sid : Session, snap : View \cup {None}, msg : Msg \cup {None}]
  /\ hub \in [Session -> {"none", "invited", "open", "closing", "ended"}]
  /\ owed \subseteq Session
  /\ of \in [Msg -> Session \cup {None}]
  /\ expired \subseteq Timed
  /\ failures \in 0 .. MaxFailures
  /\ ended \subseteq Session /\ burnt \subseteq Session /\ overlap \subseteq Session
  /\ unburned \subseteq Session /\ stuck \subseteq Session

Init ==
  /\ active = None /\ invite = None /\ pending = {} /\ connecting = FALSE
  /\ modal = None /\ shown = None
  /\ rows = {} /\ disk = {}
  /\ calls = {}
  /\ hub = [s \in Session |-> "none"] /\ owed = {}
  /\ of = [m \in Msg |-> None]
  /\ expired = {} /\ failures = 0
  /\ ended = {} /\ burnt = {} /\ overlap = {} /\ unburned = {} /\ stuck = {}

-----------------------------------------------------------------------------
(* Calls in flight *)

Overlapping(c) == overlap \cup ({c.sid} \cap {d.sid : d \in calls})

Begin(c) ==
  /\ Cardinality(calls) < MaxCalls
  /\ calls' = calls \cup {c}
  /\ overlap' = Overlapping(c)

Continue(c, op) == calls' = (calls \ {c}) \cup {Call(op, c.sid, c.snap, c.msg)}

Finish(c) == calls' = calls \ {c}

Is(s)   == active # None /\ active.sid = s

Fresh(s, keyed) == [sid |-> s, keyed |-> keyed, live |-> TRUE, msgs |-> {}]

\* The session that a handler has read, with message m: it replaces the active one.
WithMessage(snap, m) == [snap EXCEPT !.msgs = @ \cup {m}]

Refused == failures < MaxFailures /\ failures' = failures + 1

-----------------------------------------------------------------------------
(* The Whisper button of a chat (ChatTopbar) and the start modal *)

\* Neither an invite nor a session of this peer: the newest stored one is opened.
OpenStored(p) ==
  /\ shown # p
  /\ invite # None => PeerOf[invite] # p
  /\ active # None => PeerOf[active.sid] # p
  /\ \E s \in Session :
       /\ PeerOf[s] = p /\ s \in rows
       /\ Begin(Call("load", s, Fresh(s, TRUE), None))
  /\ UNCHANGED <<ui, db, network, of, expired, failures, ends>>

OpenStartModal(p) ==
  /\ shown # p
  /\ invite # None => PeerOf[invite] # p
  /\ active # None => PeerOf[active.sid] # p
  /\ \A s \in rows : PeerOf[s] # p
  /\ modal' = p
  /\ UNCHANGED <<active, invite, pending, connecting, shown, db, calls, network, of, expired,
                 failures, history>>

CloseStartModal ==
  /\ modal # None /\ modal' = None
  /\ UNCHANGED <<active, invite, pending, connecting, shown, db, calls, network, of, expired,
                 failures, history>>

EnterWhisperMode(p) ==
  /\ shown # p
  /\ active # None /\ PeerOf[active.sid] = p
  /\ shown' = p
  /\ UNCHANGED <<active, invite, pending, connecting, modal, db, calls, network, of, expired,
                 failures, history>>

ExitWhisperMode ==
  /\ shown # None /\ shown' = None
  /\ UNCHANGED <<active, invite, pending, connecting, modal, db, calls, network, of, expired,
                 failures, history>>

\* loadSessionForPeer between its two reads.
ReadMessages(c) ==
  /\ c.op = "load"
  /\ LET read == [c.snap EXCEPT !.msgs = {m \in disk : of[m] = c.sid}]
     IN  calls' = (calls \ {c}) \cup {Call("messages", c.sid, read, None)}
  /\ UNCHANGED <<ui, db, network, of, expired, failures, history>>

Loaded(c) ==
  /\ c.op = "messages" /\ Finish(c)
  /\ active' = c.snap
  /\ shown' = PeerOf[c.sid]
  /\ UNCHANGED <<invite, pending, connecting, modal, db, network, of, expired, failures, history>>

-----------------------------------------------------------------------------
(* The handshake of the initiator *)

\* The button of the start modal is disabled while connecting.
Initiate(s) ==
  /\ s \in Mine /\ hub[s] = "none" /\ \A c \in calls : c.sid # s
  /\ modal = PeerOf[s] /\ ~connecting
  /\ connecting' = TRUE
  /\ Begin(Call("initiate", s, None, None))
  /\ UNCHANGED <<active, invite, pending, modal, shown, db, network, of, expired, failures,
                 ends>>

\* The hub registers the session, or answers with an error.
Initiated(c) ==
  /\ c.op = "initiate" /\ Finish(c)
  /\ pending' = pending \cup {c.sid}
  /\ modal' = None /\ shown' = PeerOf[c.sid]
  /\ active' = Fresh(c.sid, FALSE)
  /\ \/ hub' = [hub EXCEPT ![c.sid] = "invited"] /\ UNCHANGED owed
     \/ hub' = [hub EXCEPT ![c.sid] = "ended"] /\ owed' = owed \cup {c.sid}
  /\ UNCHANGED <<invite, connecting, db, of, expired, failures, history>>

KeyTaken(s) == pending \ {s}

\* Nothing will take the key of s from pendingPrivateKeys but an end that is yet to come.
LeftBehind(s) == stuck \cup ({s} \cap pending)

\* whisper_accept: nothing is done unless the session is the active one and its
\* private key is still there.
HandleAccept(s) ==
  /\ s \in Mine /\ hub[s] = "invited"
  /\ hub' = [hub EXCEPT ![s] = "open"]
  /\ IF Is(s) /\ s \in pending
     THEN pending' = KeyTaken(s) /\ Begin(Call("derive", s, active, None)) /\ UNCHANGED stuck
     ELSE stuck' = LeftBehind(s) /\ UNCHANGED <<pending, calls, overlap>>
  /\ UNCHANGED <<active, invite, connecting, modal, shown, db, owed, of, expired, failures,
                 ended, burnt, unburned>>

Established(c) ==
  /\ Finish(c)
  /\ connecting' = FALSE
  /\ shown' = PeerOf[c.sid]
  /\ active' = [c.snap EXCEPT !.keyed = TRUE, !.live = TRUE]

\* The secrets are derived; a stored session is saved first.
Derived(c) ==
  /\ c.op = "derive"
  /\ IF c.sid \in Stored
     THEN \/ /\ rows' = rows \cup {c.sid}
             /\ Continue(c, "derived")
             /\ UNCHANGED <<connecting, shown, active, failures>>
          \/ /\ Refused
             /\ connecting' = FALSE
             /\ Finish(c) /\ UNCHANGED <<rows, shown, active>>
     ELSE Established(c) /\ UNCHANGED <<rows, failures>>
  /\ UNCHANGED <<invite, pending, modal, disk, network, of, expired, history>>

DerivedSaved(c) ==
  /\ c.op = "derived"
  /\ Established(c)
  /\ UNCHANGED <<invite, pending, modal, db, network, of, expired, failures, history>>

-----------------------------------------------------------------------------
(* The handshake of the responder *)

\* whisper_init: a second invite takes the place of the first.
HandleInit(s) ==
  /\ s \notin Mine /\ hub[s] = "none"
  /\ hub' = [hub EXCEPT ![s] = "invited"]
  /\ invite' = s
  /\ UNCHANGED <<active, pending, connecting, modal, shown, db, calls, owed, of, expired,
                 failures, history>>

\* The button in the toast is disabled while connecting, the one in the topbar is not.
AcceptInvite(s) ==
  /\ invite = s /\ invite' = None
  /\ connecting' = TRUE
  /\ Begin(Call("accept", s, None, None))
  /\ UNCHANGED <<active, pending, modal, shown, db, network, of, expired, failures, ends>>

RejectInvite(s) ==
  /\ invite = s /\ invite' = None
  /\ ~connecting
  /\ hub' = [hub EXCEPT ![s] = "ended"]
  /\ ended' = ended \cup {s}
  /\ UNCHANGED <<active, pending, connecting, modal, shown, db, calls, owed, of, expired,
                 failures, burnt, unburned, stuck, overlap>>

DismissInvite ==
  /\ invite # None /\ invite' = None
  /\ UNCHANGED <<active, pending, connecting, modal, shown, db, calls, network, of, expired,
                 failures, history>>

Accepted(c) ==
  /\ Finish(c)
  /\ connecting' = FALSE
  /\ shown' = PeerOf[c.sid]
  /\ active' = Fresh(c.sid, TRUE)

\* Mutant: the accepting side does not save the session.
RowForgotten(s) == rows

SavedRow(s) == rows \cup {s}

\* The accept goes out before the session is saved; the hub may no longer have the
\* session, or not reach the initiator.
SendAccept(c) ==
  /\ c.op = "accept"
  /\ \/ hub[c.sid] = "invited" /\ hub' = [hub EXCEPT ![c.sid] = "open"] /\ UNCHANGED owed
     \/ hub' = [hub EXCEPT ![c.sid] = "ended"] /\ owed' = owed \cup {c.sid}
  /\ IF c.sid \in Stored
     THEN \/ /\ rows' = SavedRow(c.sid)
             /\ Continue(c, "accepted")
             /\ UNCHANGED <<connecting, shown, active, failures>>
          \/ /\ Refused
             /\ connecting' = FALSE
             /\ Finish(c) /\ UNCHANGED <<rows, shown, active>>
     ELSE Accepted(c) /\ UNCHANGED <<rows, failures>>
  /\ UNCHANGED <<invite, pending, modal, disk, of, expired, history>>

AcceptSaved(c) ==
  /\ c.op = "accepted"
  /\ Accepted(c)
  /\ UNCHANGED <<invite, pending, modal, db, network, of, expired, failures, history>>

-----------------------------------------------------------------------------
(* Messages *)

Unused(m) == of[m] = None /\ \A c \in calls : c.msg # m

\* The user sends in the session on the screen. A voice message is first decoded,
\* a queued file waits for the files before it.
Write(m) ==
  /\ Unused(m)
  /\ shown # None /\ active # None /\ active.keyed /\ active.live
  /\ Begin(Call("write", active.sid, None, m))
  /\ UNCHANGED <<ui, db, network, of, expired, failures, ends>>

\* The store reads the session that is active now; encoding and encryption follow.
StartSend(c) ==
  /\ c.op = "write"
  /\ IF active # None /\ active.keyed
     THEN /\ calls' = (calls \ {c}) \cup {Call("encrypt", active.sid, active, c.msg)}
          /\ overlap' = IF active.sid = c.sid /\ \A d \in calls \ {c} : d.sid # c.sid
                         THEN overlap ELSE overlap \cup {active.sid}
     ELSE Finish(c) /\ UNCHANGED overlap
  /\ UNCHANGED <<ui, db, network, of, expired, failures, ends>>

\* Mutant: only the message is kept over the await; the session is read again after it.
ReadAgain(c, m) == IF active = None THEN active ELSE WithMessage(active, m)

\* What a handler shows at its end: the session as it read it, and its message.
Appended(c, m) == WithMessage(c.snap, m)

\* saveMessage, and where the handler goes on; or the request is refused.
Save(c, op) ==
  IF c.sid \in Stored
  THEN \/ disk' = disk \cup {c.msg} /\ Continue(c, op) /\ UNCHANGED <<active, failures>>
       \/ Refused /\ Finish(c) /\ UNCHANGED <<active, disk>>
  ELSE active' = Appended(c, c.msg) /\ Finish(c) /\ UNCHANGED <<disk, failures>>

SendEncrypted(c) ==
  /\ c.op = "encrypt"
  /\ of' = [of EXCEPT ![c.msg] = c.sid]
  /\ owed' = IF hub[c.sid] = "open" THEN owed ELSE owed \cup {c.sid}
  /\ Save(c, "sent")
  /\ UNCHANGED <<invite, pending, connecting, modal, shown, rows, hub, expired, history>>

Show(c) ==
  /\ c.op \in {"sent", "received"}
  /\ active' = Appended(c, c.msg)
  /\ Finish(c)
  /\ UNCHANGED <<invite, pending, connecting, modal, shown, db, network, of, expired, failures,
                 history>>

\* whisper_msg of a session that is not the active one is passed over.
HandleMsg(s, m) ==
  /\ hub[s] \in {"open", "closing"} /\ Unused(m)
  /\ Is(s) /\ active.keyed
  /\ Begin(Call("decrypt", s, active, m))
  /\ UNCHANGED <<ui, db, network, of, expired, failures, ends>>

Decrypted(c) ==
  /\ c.op = "decrypt"
  /\ of' = [of EXCEPT ![c.msg] = c.sid]
  /\ Save(c, "received")
  /\ UNCHANGED <<invite, pending, connecting, modal, shown, rows, network, expired, history>>

\* The button of the safety number modal, which stays open when the session changes. A
\* setSessionVerified that is refused changes nothing, nor does a purge below.
ToggleVerified ==
  /\ active # None /\ active.sid \in Stored
  /\ Begin(Call("verify", active.sid, active, None))
  /\ UNCHANGED <<ui, db, network, of, expired, failures, ends>>

-----------------------------------------------------------------------------
(* Ends *)

\* Mutant: the private key of a session that ended before it began stays.
KeyKept(s) == pending

WithoutKey(s) == pending \ {s}

\* Mutant: the row of the session goes, its messages stay.
OnlyRow(s) == rows' = rows \ {s} /\ UNCHANGED disk

\* deleteSession
DeleteSession(s) ==
  /\ rows' = rows \ {s}
  /\ disk' = {m \in disk : of[m] # s}

\* The session is burned; the call goes on when it is deleted. If that is refused, the
\* handler is over and the session stays as it is, on the screen too.
Erase(s, c) ==
  /\ burnt' = burnt \cup {s}
  /\ \/ DeleteSession(s) /\ Begin(c) /\ unburned' = unburned \ {s} /\ UNCHANGED failures
     \/ Refused /\ unburned' = unburned \cup {s} /\ UNCHANGED <<db, calls, overlap>>

Burn ==
  /\ active # None /\ shown # None
  /\ LET s == active.sid IN
       /\ pending' = WithoutKey(s)
       /\ hub' = [hub EXCEPT ![s] = IF @ \in {"invited", "open"} THEN "closing" ELSE @]
       /\ ended' = ended \cup {s}
       /\ Erase(s, Call("burn", s, None, None))
  /\ UNCHANGED <<active, invite, connecting, modal, shown, owed, of, expired, stuck>>

\* Whatever session is active by now goes with it.
Burned(c) ==
  /\ c.op = "burn" /\ Finish(c)
  /\ active' = None /\ shown' = None
  /\ UNCHANGED <<invite, pending, connecting, modal, db, network, of, expired, failures, history>>

Closed(s) == IF Is(s) THEN [active EXCEPT !.live = FALSE] ELSE active

HandleReject(s) ==
  /\ s \in Mine
  /\ hub[s] = "invited" \/ (hub[s] = "closing" /\ Is(s) /\ ~active.keyed)
  /\ hub' = [hub EXCEPT ![s] = "ended"]
  /\ pending' = WithoutKey(s)
  /\ connecting' = (connecting /\ ~Is(s))
  /\ active' = Closed(s)
  /\ ended' = ended \cup {s}
  /\ UNCHANGED <<invite, modal, shown, db, calls, owed, of, expired, failures, burnt, unburned,
                 stuck, overlap>>

CanBeClosed(s) == hub[s] \in {"open", "closing"} \/ (hub[s] = "invited" /\ s \notin Mine)

HandleClose(s) ==
  /\ CanBeClosed(s)
  /\ hub' = [hub EXCEPT ![s] = "ended"]
  /\ pending' = WithoutKey(s)
  /\ active' = Closed(s)
  /\ ended' = ended \cup {s}
  /\ UNCHANGED <<invite, connecting, modal, shown, db, calls, owed, of, expired, failures, burnt,
                 unburned, stuck, overlap>>

\* A session that is not on the screen is not deleted, whatever the peer was promised.
HandleBurn(s) ==
  /\ CanBeClosed(s)
  /\ hub' = [hub EXCEPT ![s] = "ended"]
  /\ pending' = WithoutKey(s)
  /\ ended' = ended \cup {s}
  /\ IF Is(s)
     THEN Erase(s, Call("burnByPeer", s, active, None))
     ELSE UNCHANGED <<db, calls, overlap, burnt, unburned, failures>>
  /\ UNCHANGED <<active, invite, connecting, modal, shown, owed, of, expired, stuck>>

BurnedByPeer(c) ==
  /\ c.op = "burnByPeer" /\ Finish(c)
  /\ active' = [c.snap EXCEPT !.live = FALSE, !.msgs = {}]
  /\ UNCHANGED <<invite, pending, connecting, modal, shown, db, network, of, expired, failures,
                 history>>

HandleError(s) ==
  /\ s \in owed /\ owed' = owed \ {s}
  /\ pending' = WithoutKey(s)
  /\ connecting' = FALSE
  /\ active' = Closed(s)
  /\ ended' = ended \cup {s}
  /\ UNCHANGED <<invite, modal, shown, db, calls, hub, of, expired, failures, burnt, unburned,
                 stuck, overlap>>

\* The hub lets go of a session without a word to this client: its own connection was
\* lost, or the invite is too old.
HubForgets(s) ==
  /\ hub[s] \in {"invited", "open", "closing"}
  /\ hub' = [hub EXCEPT ![s] = "ended"]
  /\ stuck' = LeftBehind(s)
  /\ UNCHANGED <<ui, db, calls, owed, of, expired, failures, ended, burnt, unburned, overlap>>

-----------------------------------------------------------------------------
(* Timers *)

Expire(m) ==
  /\ m \in Timed \ expired
  /\ of[m] \in Stored
  /\ expired' = expired \cup {m}
  /\ UNCHANGED <<ui, db, calls, network, of, failures, history>>

Purged == disk \ expired

\* Every three seconds. The active session is read before the database is purged.
Sweep ==
  /\ \A c \in calls : c.op # "sweep"
  /\ LET seen == active # None /\ active.msgs \cap expired # {} IN
       /\ seen \/ disk \cap expired # {}
       /\ disk' = Purged
       /\ calls' = IF seen
                   THEN calls \cup {Call("sweep", active.sid, [active EXCEPT !.msgs = @ \ expired], None)}
                   ELSE calls
       /\ overlap' = IF seen THEN overlap \cup ({active.sid} \cap {d.sid : d \in calls}) ELSE overlap
  /\ UNCHANGED <<ui, rows, network, of, expired, failures, ends>>

\* The end of a sweep, and of toggleVerified.
WriteBack(c) ==
  /\ c.op \in {"sweep", "verify"} /\ Finish(c)
  /\ active' = c.snap
  /\ UNCHANGED <<invite, pending, connecting, modal, shown, db, network, of, expired, failures,
                 history>>

-----------------------------------------------------------------------------
Continuing(c) ==
  \/ ReadMessages(c) \/ Loaded(c)
  \/ Initiated(c) \/ Derived(c) \/ DerivedSaved(c)
  \/ SendAccept(c) \/ AcceptSaved(c)
  \/ StartSend(c) \/ SendEncrypted(c) \/ Decrypted(c) \/ Show(c)
  \/ Burned(c) \/ BurnedByPeer(c) \/ WriteBack(c)

User ==
  \/ \E p \in Peer : OpenStored(p) \/ OpenStartModal(p) \/ EnterWhisperMode(p)
  \/ CloseStartModal \/ ExitWhisperMode \/ DismissInvite
  \/ \E s \in Session : Initiate(s) \/ AcceptInvite(s) \/ RejectInvite(s)
  \/ \E m \in Msg : Write(m)
  \/ ToggleVerified \/ Burn

Network ==
  \E s \in Session :
    \/ HandleInit(s) \/ HandleAccept(s) \/ HandleReject(s)
    \/ HandleClose(s) \/ HandleBurn(s) \/ HandleError(s) \/ HubForgets(s)
    \/ \E m \in Msg : HandleMsg(s, m)

Next ==
  \/ \E c \in calls : Continuing(c)
  \/ User
  \/ Network
  \/ Sweep
  \/ \E m \in Msg : Expire(m)

Spec == Init /\ [][Next]_vars

-----------------------------------------------------------------------------
(* Properties *)

\* The private key of an invite is there as long as the invite can be accepted, and goes
\* with whatever comes first: the accept, or an end this client is told of or causes
\* (whisperStore.ts:602-606, 766, 818-820, 899-901, 941). It waits beyond that for an error
\* that is on its way, and stays for good in two cases: the accept was passed over as
\* another session is on the screen (:762), or the hub forgot the session without a word.
KeysFollowTheHub ==
  /\ \A s \in Mine : hub[s] = "invited" => s \in pending
  /\ \A s \in pending \ stuck : hub[s] = "invited" \/ s \in owed
  /\ pending \cap ended = {}

\* However the handlers overlap and whichever session they find when they are done, a
\* message is shown in the session it was encrypted in and in no other.
NoStrangers == active # None => \A m \in active.msgs : of[m] = active.sid

\* A message in the database can be read again: the key of its session is there too,
\* unless the session was burned.
NoOrphans == \A m \in disk : of[m] \in rows \/ of[m] \in burnt

\* A session that was burned, here or by the peer while it was on the screen, has left the
\* database for good, unless the database refused to delete it (whisperStore.ts:643, :910,
\* where nobody is told and nothing tries again) or two of its handlers overlapped.
BurnedUnlessRaced ==
  \A s \in burnt \ (overlap \cup unburned) : s \notin rows /\ \A m \in disk : of[m] # s

\* A message belongs to one session: it is shown in no other, and can be read as long as
\* that one was not burned.
MessagesStayInSession == NoStrangers /\ NoOrphans
=============================================================================
