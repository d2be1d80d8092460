------------------------ MODULE WhisperClient_proofs ------------------------
(***************************************************************************)
(* Proofs about WhisperClient for any sessions, friends, messages and      *)
(* number of handlers in flight.  What a handler will write when it is     *)
(* done is in its call: the invariants say of the calls in flight what the *)
(* properties say of the store, and of the hub what can still come.        *)
(***************************************************************************)
EXTENDS WhisperClient, TLAPS

USE SessionAssumption, NoneAssumption, BoundAssumption

\* Calls that hold no copy of a session, and calls that hold a message.
Bare == {"initiate", "accept", "accepted", "write", "burn"}
OfMessage == {"write", "encrypt", "sent", "decrypt", "received"}

CallsOK ==
  \A c \in calls :
    /\ IF c.op \in Bare THEN c.snap = None ELSE c.snap \in View /\ c.snap.sid = c.sid
    /\ IF c.op \in OfMessage THEN c.msg \in Msg ELSE c.msg = None
    /\ c.op = "initiate" => c.sid \in Mine

\* Of a session the hub has not heard of there is no more than the call that
\* initiates it; of one the user is invited to there is only the invite.
HubInv ==
  /\ \A s \in Session : hub[s] = "none" =>
       s \notin ended \cup owed \cup pending \cup rows /\ ~Is(s) /\ s # invite
  /\ \A c \in calls : (hub[c.sid] = "none") <=> (c.op = "initiate")
  /\ invite \notin Mine /\ invite \notin rows /\ (invite # None => ~Is(invite))
  /\ \A c \in calls : c.sid # invite
  /\ pending \cap ended = {}

\* While the accept of an invite is still to come there is nothing of the session but its
\* key: no secrets, no row, no error, and no call that could make any.
KeyInv ==
  /\ KeysFollowTheHub
  /\ \A c \in calls : c.op \in {"accept", "accepted"} => c.sid \notin Mine
  /\ \A s \in Mine : hub[s] = "invited" => s \notin owed \cup rows /\ (Is(s) => ~active.keyed)
  /\ \A c \in calls : c.sid \in Mine /\ hub[c.sid] = "invited" =>
       c.op \in {"verify", "sweep"} /\ ~c.snap.keyed

\* A copy holds messages of its session only, and a message that is not encrypted
\* yet is in one call only.
MsgInv ==
  /\ \A c \in calls :
       /\ c.op \notin Bare => \A m \in c.snap.msgs : of[m] = c.sid
       /\ c.op \in {"write", "encrypt", "decrypt"} => of[c.msg] = None
       /\ c.op \in {"sent", "received"} => of[c.msg] = c.sid
  /\ \A c, d \in calls : c.op \in OfMessage /\ c.msg = d.msg => c = d
  /\ NoStrangers
  /\ \A m \in disk : of[m] # None

\* Whoever may save a message of a stored session has the session saved before.
Kept == rows \cup burnt

RowInv ==
  /\ \A c \in calls :
       /\ c.op \in {"derived", "accepted", "encrypt", "decrypt"} /\ c.sid \in Stored => c.sid \in Kept
       /\ c.op \notin Bare /\ c.snap.keyed /\ c.sid \in Stored => c.sid \in Kept
  /\ active # None /\ active.keyed /\ active.sid \in Stored => active.sid \in Kept
  /\ NoOrphans

Burning(s) == \E c \in calls : c.sid = s /\ c.op \in {"burn", "burnByPeer"}

\* What a burned session has left behind: on the screen it may be as long as it is
\* being burned, or as a session that is over; nothing can come for it.
Cleared(s) ==
  /\ s \notin rows /\ \A m \in disk : of[m] # s
  /\ s # invite /\ s \notin pending /\ hub[s] \notin {"none", "invited"}
  /\ \A c \in calls : c.sid = s =>
       /\ c.op \in {"burn", "burnByPeer", "verify", "sweep"}
       /\ c.op \in {"verify", "sweep"} => ~c.snap.live
       /\ c.op # "burn" => hub[s] = "ended"
  /\ Is(s) => /\ ~active.live \/ Burning(s)
              /\ hub[s] = "ended" \/ \E c \in calls : c.sid = s /\ c.op = "burn"

BurnInv ==
  /\ \A c, d \in calls : c.sid = d.sid /\ c # d => c.sid \in overlap
  /\ \A s \in burnt \ (overlap \cup unburned) : Cleared(s)

LEMMA InitOK == Init => TypeOK /\ CallsOK /\ HubInv /\ KeyInv /\ MsgInv /\ RowInv /\ BurnInv
<1> SUFFICES ASSUME Init PROVE TypeOK /\ CallsOK /\ HubInv /\ KeyInv /\ MsgInv /\ RowInv /\ BurnInv
  OBVIOUS
<1>1. TypeOK
  <2>1. /\ hub \in [Session -> {"none", "invited", "open", "closing", "ended"}]
        /\ of \in [Msg -> Session \cup {None}]
    BY DEF Init
  <2>2. failures \in 0 .. MaxFailures
    BY DEF Init
  <2>3. connecting \in BOOLEAN
    BY Zenon DEF Init
  <2>4. QED
    BY <2>1, <2>2, <2>3 DEF Init, TypeOK
<1>2. CallsOK /\ MsgInv /\ RowInv /\ BurnInv
  BY DEF Init, CallsOK, MsgInv, NoStrangers, RowInv, NoOrphans, BurnInv
<1>3. HubInv /\ KeyInv
  BY DEF Init, HubInv, KeyInv, KeysFollowTheHub, Is
<1>4. QED
  BY <1>1, <1>2, <1>3

\* OpenStored, ReadMessages and Derived build a record from a record; the lemmas
\* say which.
LEMMA OpenStoredDoes ==
  ASSUME TypeOK, NEW p \in Peer, OpenStored(p)
  PROVE  /\ UNCHANGED <<ui, db, network, of, expired, failures, ends>>
         /\ \E s \in rows, v \in View :
              /\ v.sid = s /\ v.msgs = {} /\ v.keyed
              /\ calls' = calls \cup {[op |-> "load", sid |-> s, snap |-> v, msg |-> None]}
              /\ overlap' = overlap \cup ({s} \cap {d.sid : d \in calls})
<1>1. PICK s \in Session : s \in rows /\ Begin(Call("load", s, Fresh(s, TRUE), None))
  BY DEF OpenStored
<1> DEFINE v == Fresh(s, TRUE)
<1>2. v \in View /\ v.sid = s /\ v.msgs = {} /\ v.keyed
  BY DEF Fresh, View
<1>3. calls' = calls \cup {[op |-> "load", sid |-> s, snap |-> v, msg |-> None]}
  BY <1>1 DEF Begin, Call
<1>4. overlap' = overlap \cup ({s} \cap {d.sid : d \in calls})
  BY <1>1 DEF Begin, Call, Overlapping
<1> HIDE DEF v
<1>5. UNCHANGED <<ui, db, network, of, expired, failures, ends>>
  BY DEF OpenStored, ends
<1>6. QED
  BY <1>1, <1>2, <1>3, <1>4, <1>5

LEMMA ReadMessagesDoes ==
  ASSUME TypeOK, CallsOK, NEW c \in calls, ReadMessages(c)
  PROVE  /\ UNCHANGED <<ui, db, network, of, expired, failures, history>>
         /\ c.op = "load" /\ c.snap \in View /\ c.snap.sid = c.sid /\ c.sid \in Session
         /\ \E v \in View :
              /\ v.sid = c.sid /\ v.keyed = c.snap.keyed
              /\ v.msgs = {m \in disk : of[m] = c.sid}
              /\ calls' = (calls \ {c}) \cup {[op |-> "messages", sid |-> c.sid, snap |-> v, msg |-> None]}
<1> DEFINE v == [c.snap EXCEPT !.msgs = {m \in disk : of[m] = c.sid}]
<1>1. c.op = "load" /\ c.snap \in View /\ c.snap.sid = c.sid /\ c.sid \in Session
  BY DEF ReadMessages, TypeOK, CallsOK, Bare
<1>2. v \in View /\ v.sid = c.sid /\ v.keyed = c.snap.keyed /\ v.msgs = {m \in disk : of[m] = c.sid}
  BY <1>1 DEF View, TypeOK
<1>3. calls' = (calls \ {c}) \cup {[op |-> "messages", sid |-> c.sid, snap |-> v, msg |-> None]}
  BY DEF ReadMessages, Call
<1> HIDE DEF v
<1>4. UNCHANGED <<ui, db, network, of, expired, failures, history>>
  BY DEF ReadMessages
<1>5. QED
  BY <1>1, <1>2, <1>3, <1>4

LEMMA DerivedDoes ==
  ASSUME TypeOK, CallsOK, NEW c \in calls, Derived(c)
  PROVE  /\ UNCHANGED <<invite, pending, modal, disk, hub, owed, of, expired, ends, overlap>>
         /\ connecting' \in BOOLEAN
         /\ shown' \in Peer \cup {None} /\ failures' \in 0 .. MaxFailures
         /\ c.op = "derive" /\ c.snap \in View /\ c.snap.sid = c.sid /\ c.sid \in Session
         /\ \E v \in View, n \in [op : Op, sid : Session, snap : View \cup {None}, msg : Msg \cup {None}] :
              /\ v.sid = c.sid /\ v.msgs = c.snap.msgs
              /\ n.op = "derived" /\ n.sid = c.sid /\ n.snap = c.snap /\ n.msg = c.msg
              /\ \/ /\ c.sid \in Stored /\ rows' = rows \cup {c.sid}
                    /\ calls' = (calls \ {c}) \cup {n} /\ active' = active
                 \/ rows' = rows /\ calls' = calls \ {c} /\ active' = active
                 \/ c.sid \notin Stored /\ rows' = rows /\ calls' = calls \ {c} /\ active' = v
<1> DEFINE n == Call("derived", c.sid, c.snap, c.msg)
           v == [c.snap EXCEPT !.keyed = TRUE, !.live = TRUE]
<1>1. c.op = "derive" /\ c.snap \in View /\ c.snap.sid = c.sid /\ c.sid \in Session
  BY DEF Derived, TypeOK, CallsOK, Bare
<1>2. /\ n \in [op : Op, sid : Session, snap : View \cup {None}, msg : Msg \cup {None}]
      /\ n.op = "derived" /\ n.sid = c.sid /\ n.snap = c.snap /\ n.msg = c.msg
  BY <1>1 DEF Call, TypeOK, Op
<1>3. v \in View /\ v.sid = c.sid /\ v.msgs = c.snap.msgs
  BY <1>1 DEF View
<1>4. UNCHANGED <<invite, pending, modal, disk, hub, owed, of, expired, ends, overlap>>
  BY DEF Derived, network, history, ends
<1>5. connecting' = FALSE \/ UNCHANGED connecting
  BY DEF Derived, Established
<1>6. connecting' \in BOOLEAN
  BY <1>5 DEF TypeOK
<1>7. shown' \in Peer \cup {None}
  <2>1. PeerOf[c.sid] \in Peer
    BY <1>1
  <2>2. shown' = PeerOf[c.sid] \/ shown' = shown
    BY DEF Derived, Established
  <2>3. QED
    BY <2>1, <2>2 DEF TypeOK
<1>8. failures' \in 0 .. MaxFailures
  BY DEF Derived, Refused, TypeOK
<1>9. \/ /\ c.sid \in Stored /\ rows' = rows \cup {c.sid}
         /\ calls' = (calls \ {c}) \cup {n} /\ active' = active
      \/ rows' = rows /\ calls' = calls \ {c} /\ active' = active
      \/ c.sid \notin Stored /\ rows' = rows /\ calls' = calls \ {c} /\ active' = v
  BY DEF Derived, Continue, Finish, Established
<1> HIDE DEF n, v
<1>10. QED
  BY <1>1, <1>2, <1>3, <1>4, <1>6, <1>7, <1>8, <1>9

-----------------------------------------------------------------------------
(* Types and the calls in flight *)

LEMMA TypeStep == TypeOK /\ CallsOK /\ [Next]_vars => TypeOK'
<1> SUFFICES ASSUME TypeOK, CallsOK, [Next]_vars PROVE TypeOK'
  OBVIOUS
<1> USE DEF TypeOK, CallsOK, View, Bare, OfMessage, Op
\* Only what is on the screen changes.
<1>1. ASSUME UNCHANGED <<active, pending, connecting, db, calls, network>>,
             UNCHANGED <<of, expired, failures, history>>,
             modal' \in Peer \cup {None}, shown' \in Peer \cup {None}, invite' \in {invite, None}
      PROVE  TypeOK'
  BY <1>1 DEF ui, db, network, history, ends
<1>2. ASSUME NEW p \in Peer, OpenStored(p) PROVE TypeOK'
  <2>1. UNCHANGED <<ui, db, network, of, expired, failures, ends>>
    BY <1>2, OpenStoredDoes
  <2>2. PICK s \in rows, v \in View :
          /\ v.sid = s /\ v.msgs = {} /\ v.keyed
          /\ calls' = calls \cup {[op |-> "load", sid |-> s, snap |-> v, msg |-> None]}
          /\ overlap' = overlap \cup ({s} \cap {d.sid : d \in calls})
    BY <1>2, OpenStoredDoes
  <2>3. QED
    BY <2>1, <2>2 DEF ui, db, network, ends
<1>3. ASSUME NEW c \in calls, ReadMessages(c) PROVE TypeOK'
  <2>1. UNCHANGED <<ui, db, network, of, expired, failures, history>>
    BY <1>3, ReadMessagesDoes
  <2>2. c.op = "load" /\ c.snap.sid = c.sid /\ c.sid \in Session
    BY <1>3, ReadMessagesDoes
  <2>3. PICK v \in View :
          /\ v.sid = c.sid /\ v.keyed = c.snap.keyed
          /\ v.msgs = {m \in disk : of[m] = c.sid}
          /\ calls' = (calls \ {c}) \cup {[op |-> "messages", sid |-> c.sid, snap |-> v, msg |-> None]}
    BY <1>3, ReadMessagesDoes
  <2>4. QED
    BY <2>1, <2>2, <2>3 DEF ui, db, network, history, ends
<1>4. ASSUME NEW c \in calls, Loaded(c) \/ WriteBack(c) PROVE TypeOK'
  BY <1>4 DEF Loaded, Finish, WriteBack, ui, db, network, history, ends
<1>5. ASSUME NEW s \in Session, Initiate(s) PROVE TypeOK'
  BY <1>5 DEF Initiate, Begin, Overlapping, Call, ui, db, network, history, ends
<1>6. ASSUME NEW c \in calls, Initiated(c) PROVE TypeOK'
  BY <1>6 DEF Initiated, Finish, Fresh, ui, db, network, history, ends
<1>7. ASSUME NEW s \in Session, HandleAccept(s) PROVE TypeOK'
  BY <1>7 DEF HandleAccept, LeftBehind, KeyTaken, Begin, Overlapping, Call, Is, ui, db, network, history, ends
<1>8. ASSUME NEW c \in calls, Derived(c) PROVE TypeOK'
  <2>1. /\ UNCHANGED <<invite, pending, modal, disk, hub, owed, of, expired, ends, overlap>>
        /\ connecting' \in BOOLEAN
        /\ shown' \in Peer \cup {None} /\ failures' \in 0 .. MaxFailures
        /\ c.op = "derive" /\ c.snap.sid = c.sid /\ c.sid \in Session
    BY <1>8, DerivedDoes
  <2>2. PICK v \in View, n \in [op : Op, sid : Session, snap : View \cup {None}, msg : Msg \cup {None}] :
          /\ v.sid = c.sid /\ v.msgs = c.snap.msgs
          /\ n.op = "derived" /\ n.sid = c.sid /\ n.snap = c.snap /\ n.msg = c.msg
          /\ \/ /\ c.sid \in Stored /\ rows' = rows \cup {c.sid}
                /\ calls' = (calls \ {c}) \cup {n} /\ active' = active
             \/ rows' = rows /\ calls' = calls \ {c} /\ active' = active
             \/ c.sid \notin Stored /\ rows' = rows /\ calls' = calls \ {c} /\ active' = v
    BY <1>8, DerivedDoes
  <2>3. QED
    BY <2>1, <2>2 DEF ends
<1>9. ASSUME NEW c \in calls, DerivedSaved(c) PROVE TypeOK'
  <2>1. c.snap \in View /\ c.sid \in Session
    BY <1>9 DEF DerivedSaved
  <2>2. [c.snap EXCEPT !.keyed = TRUE, !.live = TRUE] \in View
    BY <2>1
  <2>3. QED
    BY <1>9, <2>1, <2>2 DEF DerivedSaved, Established, Finish, ui, db, network, history, ends
<1>10. ASSUME NEW s \in Session, HandleInit(s) PROVE TypeOK'
  BY <1>10 DEF HandleInit, ui, db, network, history, ends
<1>11. ASSUME NEW s \in Session, AcceptInvite(s) PROVE TypeOK'
  BY <1>11 DEF AcceptInvite, Begin, Overlapping, Call, ui, db, network, history, ends
<1>12. ASSUME NEW s \in Session, RejectInvite(s) PROVE TypeOK'
  BY <1>12 DEF RejectInvite, ui, db, network, history, ends
<1>13. ASSUME NEW c \in calls, SendAccept(c) PROVE TypeOK'
  <2> DEFINE n == Call("accepted", c.sid, c.snap, c.msg)
             v == Fresh(c.sid, TRUE)
  <2>1. c.sid \in Session /\ v \in View
    BY DEF Fresh
  <2>2. n \in [op : Op, sid : Session, snap : View \cup {None}, msg : Msg \cup {None}]
    BY DEF Call
  <2>3. hub' \in [Session -> {"none", "invited", "open", "closing", "ended"}] /\ owed' \subseteq Session
    BY <1>13, <2>1 DEF SendAccept
  <2>4. rows' \subseteq Session /\ failures' \in 0 .. MaxFailures
    BY <1>13, <2>1 DEF SendAccept, SavedRow, Refused
  <2>5. calls' = (calls \ {c}) \cup {n} \/ calls' = calls \ {c}
    BY <1>13 DEF SendAccept, Continue, Finish, Accepted
  <2>6. active' = active \/ active' = v
    BY <1>13 DEF SendAccept, Accepted
  <2>7. connecting' \in BOOLEAN /\ shown' \in Peer \cup {None}
    <3>1. connecting' = FALSE \/ connecting' = connecting
      BY <1>13 DEF SendAccept, Accepted
    <3>2. shown' = PeerOf[c.sid] \/ shown' = shown
      BY <1>13 DEF SendAccept, Accepted
    <3>3. PeerOf[c.sid] \in Peer
      BY <2>1
    <3>4. QED
      BY <3>1, <3>2, <3>3
  <2>8. UNCHANGED <<invite, pending, modal, disk, of, expired, history>>
    BY <1>13 DEF SendAccept
  <2> HIDE DEF n, v
  <2>9. QED
    BY <2>1, <2>2, <2>3, <2>4, <2>5, <2>6, <2>7, <2>8 DEF history, ends
<1>14. ASSUME NEW c \in calls, AcceptSaved(c) PROVE TypeOK'
  BY <1>14 DEF AcceptSaved, Accepted, Finish, Fresh, ui, db, network, history, ends
<1>15. ASSUME NEW m \in Msg, Write(m) PROVE TypeOK'
  BY <1>15 DEF Write, Unused, Begin, Overlapping, Call, ui, db, network, history, ends
<1>16. ASSUME NEW c \in calls, StartSend(c) PROVE TypeOK'
  BY <1>16 DEF StartSend, Finish, Call, ui, db, network, history, ends
<1>17. ASSUME NEW c \in calls, SendEncrypted(c) PROVE TypeOK'
  BY <1>17
     DEF SendEncrypted, Save, Continue, Call, Refused, Finish, Appended, WithMessage, ui,
         db, network, history, ends
<1>18. ASSUME NEW c \in calls, Decrypted(c) PROVE TypeOK'
  BY <1>18
     DEF Decrypted, Save, Continue, Call, Refused, Finish, Appended, WithMessage, ui, db,
         network, history, ends
<1>19. ASSUME NEW c \in calls, Show(c) PROVE TypeOK'
  BY <1>19 DEF Show, Appended, WithMessage, Finish, ui, db, network, history, ends
<1>20. ASSUME NEW s \in Session, NEW m \in Msg, HandleMsg(s, m) PROVE TypeOK'
  BY <1>20 DEF HandleMsg, Unused, Is, Begin, Overlapping, Call, ui, db, network, history, ends
<1>21. ASSUME ToggleVerified PROVE TypeOK'
  BY <1>21 DEF ToggleVerified, Begin, Overlapping, Call, ui, db, network, history, ends
<1>22. ASSUME Burn PROVE TypeOK'
  BY <1>22 DEF Burn, Erase, Refused, WithoutKey, DeleteSession, Begin, Overlapping, Call, ui, db, network, history, ends
<1>23. ASSUME NEW c \in calls, Burned(c) PROVE TypeOK'
  BY <1>23 DEF Burned, Finish, ui, db, network, history, ends
<1>24. ASSUME NEW s \in Session, HandleReject(s) PROVE TypeOK'
  BY <1>24 DEF HandleReject, WithoutKey, Closed, Is, ui, db, network, history, ends
<1>25. ASSUME NEW s \in Session, HandleClose(s) PROVE TypeOK'
  BY <1>25 DEF HandleClose, CanBeClosed, WithoutKey, Closed, Is, ui, db, network, history, ends
<1>26. ASSUME NEW s \in Session, HandleError(s) PROVE TypeOK'
  BY <1>26 DEF HandleError, WithoutKey, Closed, Is, ui, db, network, history, ends
<1>27. ASSUME NEW s \in Session, HubForgets(s) PROVE TypeOK'
  BY <1>27 DEF HubForgets, LeftBehind, ui, db, network, history, ends
<1>28. ASSUME NEW s \in Session, HandleBurn(s) PROVE TypeOK'
  BY <1>28
     DEF HandleBurn, Erase, Refused, CanBeClosed, WithoutKey, Is, DeleteSession, Begin, Overlapping, Call,
         ui, db, network, history, ends
<1>29. ASSUME NEW c \in calls, BurnedByPeer(c) PROVE TypeOK'
  <2>1. c.snap \in View
    BY <1>29 DEF BurnedByPeer
  <2>2. [c.snap EXCEPT !.live = FALSE, !.msgs = {}] \in View
    BY <2>1
  <2>3. QED
    BY <1>29, <2>2 DEF BurnedByPeer, Finish, ui, db, network, history, ends
<1>30. ASSUME NEW m \in Msg, Expire(m) PROVE TypeOK'
  BY <1>30 DEF Expire, ui, db, network, history, ends
<1>31. ASSUME Sweep PROVE TypeOK'
  BY <1>31 DEF Sweep, Call, Purged, ui, db, network, history, ends
<1>32. ASSUME UNCHANGED vars PROVE TypeOK'
  BY <1>32 DEF vars, ui, db, network, history, ends
<1>33. ASSUME NEW p \in Peer, OpenStartModal(p) \/ EnterWhisperMode(p) PROVE TypeOK'
  BY <1>1, <1>33 DEF OpenStartModal, EnterWhisperMode
<1>34. ASSUME CloseStartModal \/ ExitWhisperMode \/ DismissInvite PROVE TypeOK'
  BY <1>1, <1>34 DEF CloseStartModal, ExitWhisperMode, DismissInvite
<1>35. QED
  BY <1>2, <1>3, <1>4, <1>5, <1>6, <1>7, <1>8, <1>9, <1>10, <1>11, <1>12,
     <1>13, <1>14, <1>15, <1>16, <1>17, <1>18, <1>19, <1>20, <1>21, <1>22,
     <1>23, <1>24, <1>25, <1>26, <1>27, <1>28, <1>29, <1>30, <1>31, <1>32,
     <1>33, <1>34
  DEF Next, Continuing, User, Network

LEMMA CallsStep == TypeOK /\ CallsOK /\ [Next]_vars => CallsOK'
<1> SUFFICES ASSUME TypeOK, CallsOK, [Next]_vars PROVE CallsOK'
  OBVIOUS
<1> USE DEF TypeOK, CallsOK, View, Bare, OfMessage
\* Only what is on the screen changes.
<1>1. ASSUME UNCHANGED <<active, pending, connecting, db, calls, network>>,
             UNCHANGED <<of, expired, failures, history>>,
             modal' \in Peer \cup {None}, shown' \in Peer \cup {None}, invite' \in {invite, None}
      PROVE  CallsOK'
  BY <1>1 DEF ui, db, network, history, ends
<1>2. ASSUME NEW p \in Peer, OpenStored(p) PROVE CallsOK'
  <2>1. UNCHANGED <<ui, db, network, of, expired, failures, ends>>
    BY <1>2, OpenStoredDoes
  <2>2. PICK s \in rows, v \in View :
          /\ v.sid = s /\ v.msgs = {} /\ v.keyed
          /\ calls' = calls \cup {[op |-> "load", sid |-> s, snap |-> v, msg |-> None]}
          /\ overlap' = overlap \cup ({s} \cap {d.sid : d \in calls})
    BY <1>2, OpenStoredDoes
  <2>3. QED
    BY <2>1, <2>2 DEF ui, db, network, ends
<1>3. ASSUME NEW c \in calls, ReadMessages(c) PROVE CallsOK'
  <2>1. UNCHANGED <<ui, db, network, of, expired, failures, history>>
    BY <1>3, ReadMessagesDoes
  <2>2. c.op = "load" /\ c.snap.sid = c.sid /\ c.sid \in Session
    BY <1>3, ReadMessagesDoes
  <2>3. PICK v \in View :
          /\ v.sid = c.sid /\ v.keyed = c.snap.keyed
          /\ v.msgs = {m \in disk : of[m] = c.sid}
          /\ calls' = (calls \ {c}) \cup {[op |-> "messages", sid |-> c.sid, snap |-> v, msg |-> None]}
    BY <1>3, ReadMessagesDoes
  <2>4. QED
    BY <2>1, <2>2, <2>3 DEF ui, db, network, history, ends
<1>4. ASSUME NEW c \in calls, Loaded(c) \/ WriteBack(c) PROVE CallsOK'
  BY <1>4 DEF Loaded, Finish, WriteBack, ui, db, network, history, ends
<1>5. ASSUME NEW s \in Session, Initiate(s) PROVE CallsOK'
  BY <1>5 DEF Initiate, Begin, Overlapping, Call, ui, db, network, history, ends
<1>6. ASSUME NEW c \in calls, Initiated(c) PROVE CallsOK'
  BY <1>6 DEF Initiated, Finish, Fresh, ui, db, network, history, ends
<1>7. ASSUME NEW s \in Session, HandleAccept(s) PROVE CallsOK'
  BY <1>7 DEF HandleAccept, LeftBehind, KeyTaken, Begin, Overlapping, Call, Is, ui, db, network, history, ends
<1>8. ASSUME NEW c \in calls, Derived(c) PROVE CallsOK'
  <2>1. /\ UNCHANGED <<invite, pending, modal, disk, hub, owed, of, expired, ends, overlap>>
        /\ connecting' \in BOOLEAN
        /\ shown' \in Peer \cup {None} /\ failures' \in 0 .. MaxFailures
        /\ c.op = "derive" /\ c.snap.sid = c.sid /\ c.sid \in Session
    BY <1>8, DerivedDoes
  <2>2. PICK v \in View, n \in [op : Op, sid : Session, snap : View \cup {None}, msg : Msg \cup {None}] :
          /\ v.sid = c.sid /\ v.msgs = c.snap.msgs
          /\ n.op = "derived" /\ n.sid = c.sid /\ n.snap = c.snap /\ n.msg = c.msg
          /\ \/ /\ c.sid \in Stored /\ rows' = rows \cup {c.sid}
                /\ calls' = (calls \ {c}) \cup {n} /\ active' = active
             \/ rows' = rows /\ calls' = calls \ {c} /\ active' = active
             \/ c.sid \notin Stored /\ rows' = rows /\ calls' = calls \ {c} /\ active' = v
    BY <1>8, DerivedDoes
  <2>3. QED
    BY <2>1, <2>2 DEF ends
<1>9. ASSUME NEW c \in calls, DerivedSaved(c) PROVE CallsOK'
  BY <1>9 DEF DerivedSaved, Established, Finish, ui, db, network, history, ends
<1>10. ASSUME NEW s \in Session, HandleInit(s) PROVE CallsOK'
  BY <1>10 DEF HandleInit, ui, db, network, history, ends
<1>11. ASSUME NEW s \in Session, AcceptInvite(s) PROVE CallsOK'
  BY <1>11 DEF AcceptInvite, Begin, Overlapping, Call, ui, db, network, history, ends
<1>12. ASSUME NEW s \in Session, RejectInvite(s) PROVE CallsOK'
  BY <1>12 DEF RejectInvite, ui, db, network, history, ends
<1>13. ASSUME NEW c \in calls, SendAccept(c) PROVE CallsOK'
  BY <1>13
     DEF SendAccept, SavedRow, Continue, Call, Refused, Finish, Accepted, Fresh, ui, db,
         network, history, ends
<1>14. ASSUME NEW c \in calls, AcceptSaved(c) PROVE CallsOK'
  BY <1>14 DEF AcceptSaved, Accepted, Finish, Fresh, ui, db, network, history, ends
<1>15. ASSUME NEW m \in Msg, Write(m) PROVE CallsOK'
  BY <1>15 DEF Write, Unused, Begin, Overlapping, Call, ui, db, network, history, ends
<1>16. ASSUME NEW c \in calls, StartSend(c) PROVE CallsOK'
  BY <1>16 DEF StartSend, Finish, Call, ui, db, network, history, ends
<1>17. ASSUME NEW c \in calls, SendEncrypted(c) PROVE CallsOK'
  BY <1>17
     DEF SendEncrypted, Save, Continue, Call, Refused, Finish, Appended, WithMessage, ui,
         db, network, history, ends
<1>18. ASSUME NEW c \in calls, Decrypted(c) PROVE CallsOK'
  BY <1>18
     DEF Decrypted, Save, Continue, Call, Refused, Finish, Appended, WithMessage, ui, db,
         network, history, ends
<1>19. ASSUME NEW c \in calls, Show(c) PROVE CallsOK'
  BY <1>19 DEF Show, Appended, WithMessage, Finish, ui, db, network, history, ends
<1>20. ASSUME NEW s \in Session, NEW m \in Msg, HandleMsg(s, m) PROVE CallsOK'
  BY <1>20 DEF HandleMsg, Unused, Is, Begin, Overlapping, Call, ui, db, network, history, ends
<1>21. ASSUME ToggleVerified PROVE CallsOK'
  BY <1>21 DEF ToggleVerified, Begin, Overlapping, Call, ui, db, network, history, ends
<1>22. ASSUME Burn PROVE CallsOK'
  BY <1>22 DEF Burn, Erase, Refused, WithoutKey, DeleteSession, Begin, Overlapping, Call, ui, db, network, history, ends
<1>23. ASSUME NEW c \in calls, Burned(c) PROVE CallsOK'
  BY <1>23 DEF Burned, Finish, ui, db, network, history, ends
<1>24. ASSUME NEW s \in Session, HandleReject(s) \/ HandleClose(s) \/ HandleError(s)
              \/ HubForgets(s)
       PROVE  CallsOK'
  BY <1>24
     DEF HandleReject, WithoutKey, Closed, Is, HandleClose, CanBeClosed, HandleError,
         HubForgets, LeftBehind, ui, db, network, history, ends
<1>25. ASSUME NEW s \in Session, HandleBurn(s) PROVE CallsOK'
  BY <1>25
     DEF HandleBurn, Erase, Refused, CanBeClosed, WithoutKey, Is, DeleteSession, Begin, Overlapping, Call,
         ui, db, network, history, ends
<1>26. ASSUME NEW c \in calls, BurnedByPeer(c) PROVE CallsOK'
  BY <1>26 DEF BurnedByPeer, Finish, ui, db, network, history, ends
<1>27. ASSUME NEW m \in Msg, Expire(m) PROVE CallsOK'
  BY <1>27 DEF Expire, ui, db, network, history, ends
<1>28. ASSUME Sweep PROVE CallsOK'
  BY <1>28 DEF Sweep, Call, Purged, ui, db, network, history, ends
<1>29. ASSUME UNCHANGED vars PROVE CallsOK'
  BY <1>29 DEF vars, ui, db, network, history, ends
<1>30. ASSUME NEW p \in Peer, OpenStartModal(p) \/ EnterWhisperMode(p) PROVE CallsOK'
  BY <1>1, <1>30 DEF OpenStartModal, EnterWhisperMode
<1>31. ASSUME CloseStartModal \/ ExitWhisperMode \/ DismissInvite PROVE CallsOK'
  BY <1>1, <1>31 DEF CloseStartModal, ExitWhisperMode, DismissInvite
<1>32. QED
  BY <1>2, <1>3, <1>4, <1>5, <1>6, <1>7, <1>8, <1>9, <1>10, <1>11, <1>12,
     <1>13, <1>14, <1>15, <1>16, <1>17, <1>18, <1>19, <1>20, <1>21, <1>22,
     <1>23, <1>24, <1>25, <1>26, <1>27, <1>28, <1>29, <1>30, <1>31
  DEF Next, Continuing, User, Network

-----------------------------------------------------------------------------
(* Private keys: what the hub may still say *)

LEMMA HubStep == TypeOK /\ CallsOK /\ HubInv /\ [Next]_vars => HubInv'
<1> SUFFICES ASSUME TypeOK, CallsOK, HubInv, [Next]_vars PROVE HubInv'
  OBVIOUS
<1> USE DEF TypeOK, CallsOK, View, Bare, OfMessage, HubInv, Is
\* Only what is on the screen changes.
<1>1. ASSUME UNCHANGED <<active, pending, connecting, db, calls, network>>,
             UNCHANGED <<of, expired, failures, history>>,
             modal' \in Peer \cup {None}, shown' \in Peer \cup {None}, invite' \in {invite, None}
      PROVE  HubInv'
  BY <1>1 DEF ui, db, network, history, ends
<1>2. ASSUME NEW p \in Peer, OpenStored(p) PROVE HubInv'
  <2>1. UNCHANGED <<ui, db, network, of, expired, failures, ends>>
    BY <1>2, OpenStoredDoes
  <2>2. PICK s \in rows, v \in View :
          /\ v.sid = s /\ v.msgs = {} /\ v.keyed
          /\ calls' = calls \cup {[op |-> "load", sid |-> s, snap |-> v, msg |-> None]}
          /\ overlap' = overlap \cup ({s} \cap {d.sid : d \in calls})
    BY <1>2, OpenStoredDoes
  <2>3. QED
    BY <2>1, <2>2 DEF ui, db, network, ends
<1>3. ASSUME NEW c \in calls, ReadMessages(c) PROVE HubInv'
  <2>1. UNCHANGED <<ui, db, network, of, expired, failures, history>>
    BY <1>3, ReadMessagesDoes
  <2>2. c.op = "load" /\ c.snap.sid = c.sid /\ c.sid \in Session
    BY <1>3, ReadMessagesDoes
  <2>3. PICK v \in View :
          /\ v.sid = c.sid /\ v.keyed = c.snap.keyed
          /\ v.msgs = {m \in disk : of[m] = c.sid}
          /\ calls' = (calls \ {c}) \cup {[op |-> "messages", sid |-> c.sid, snap |-> v, msg |-> None]}
    BY <1>3, ReadMessagesDoes
  <2>4. QED
    BY <2>1, <2>2, <2>3 DEF ui, db, network, history, ends
<1>4. ASSUME NEW c \in calls, Loaded(c) \/ WriteBack(c) PROVE HubInv'
  BY <1>4 DEF Loaded, Finish, WriteBack, ui, db, network, history, ends
<1>5. ASSUME NEW s \in Session, Initiate(s) PROVE HubInv'
  BY <1>5 DEF Initiate, Begin, Overlapping, Call, ui, db, network, history, ends
<1>6. ASSUME NEW c \in calls, Initiated(c) PROVE HubInv'
  BY <1>6 DEF Initiated, Finish, Fresh, ui, db, network, history, ends
<1>7. ASSUME NEW s \in Session, HandleAccept(s) PROVE HubInv'
  BY <1>7 DEF HandleAccept, LeftBehind, KeyTaken, Begin, Overlapping, Call, ui, db, network, history, ends
<1>8. ASSUME NEW c \in calls, Derived(c) PROVE HubInv'
  <2>1. /\ UNCHANGED <<invite, pending, modal, disk, hub, owed, of, expired, ends, overlap>>
        /\ connecting' \in BOOLEAN
        /\ shown' \in Peer \cup {None} /\ failures' \in 0 .. MaxFailures
        /\ c.op = "derive" /\ c.snap.sid = c.sid /\ c.sid \in Session
    BY <1>8, DerivedDoes
  <2>2. PICK v \in View, n \in [op : Op, sid : Session, snap : View \cup {None}, msg : Msg \cup {None}] :
          /\ v.sid = c.sid /\ v.msgs = c.snap.msgs
          /\ n.op = "derived" /\ n.sid = c.sid /\ n.snap = c.snap /\ n.msg = c.msg
          /\ \/ /\ c.sid \in Stored /\ rows' = rows \cup {c.sid}
                /\ calls' = (calls \ {c}) \cup {n} /\ active' = active
             \/ rows' = rows /\ calls' = calls \ {c} /\ active' = active
             \/ c.sid \notin Stored /\ rows' = rows /\ calls' = calls \ {c} /\ active' = v
    BY <1>8, DerivedDoes
  <2>3. QED
    BY <2>1, <2>2 DEF ends
<1>9. ASSUME NEW c \in calls, DerivedSaved(c) PROVE HubInv'
  BY <1>9 DEF DerivedSaved, Established, Finish, ui, db, network, history, ends
<1>10. ASSUME NEW s \in Session, HandleInit(s) PROVE HubInv'
  BY <1>10 DEF HandleInit, ui, db, network, history, ends
<1>11. ASSUME NEW s \in Session, AcceptInvite(s) PROVE HubInv'
  BY <1>11 DEF AcceptInvite, Begin, Overlapping, Call, ui, db, network, history, ends
<1>12. ASSUME NEW s \in Session, RejectInvite(s) PROVE HubInv'
  BY <1>12 DEF RejectInvite, ui, db, network, history, ends
<1>13. ASSUME NEW c \in calls, SendAccept(c) PROVE HubInv'
  BY <1>13
     DEF SendAccept, SavedRow, Continue, Call, Refused, Finish, Accepted, Fresh, ui, db,
         network, history, ends
<1>14. ASSUME NEW c \in calls, AcceptSaved(c) PROVE HubInv'
  BY <1>14 DEF AcceptSaved, Accepted, Finish, Fresh, ui, db, network, history, ends
<1>15. ASSUME NEW m \in Msg, Write(m) PROVE HubInv'
  BY <1>15 DEF Write, Unused, Begin, Overlapping, Call, ui, db, network, history, ends
<1>16. ASSUME NEW c \in calls, StartSend(c) PROVE HubInv'
  BY <1>16 DEF StartSend, Finish, Call, ui, db, network, history, ends
<1>17. ASSUME NEW c \in calls, SendEncrypted(c) PROVE HubInv'
  BY <1>17
     DEF SendEncrypted, Save, Continue, Call, Refused, Finish, Appended, WithMessage, ui,
         db, network, history, ends
<1>18. ASSUME NEW c \in calls, Decrypted(c) PROVE HubInv'
  BY <1>18
     DEF Decrypted, Save, Continue, Call, Refused, Finish, Appended, WithMessage, ui, db,
         network, history, ends
<1>19. ASSUME NEW c \in calls, Show(c) PROVE HubInv'
  BY <1>19 DEF Show, Appended, WithMessage, Finish, ui, db, network, history, ends
<1>20. ASSUME NEW s \in Session, NEW m \in Msg, HandleMsg(s, m) PROVE HubInv'
  BY <1>20 DEF HandleMsg, Unused, Begin, Overlapping, Call, ui, db, network, history, ends
<1>21. ASSUME ToggleVerified PROVE HubInv'
  BY <1>21 DEF ToggleVerified, Begin, Overlapping, Call, ui, db, network, history, ends
<1>22. ASSUME Burn PROVE HubInv'
  BY <1>22 DEF Burn, Erase, Refused, WithoutKey, DeleteSession, Begin, Overlapping, Call, ui, db, network, history, ends
<1>23. ASSUME NEW c \in calls, Burned(c) PROVE HubInv'
  BY <1>23 DEF Burned, Finish, ui, db, network, history, ends
<1>24. ASSUME NEW s \in Session, HandleReject(s) \/ HandleClose(s) \/ HandleError(s)
              \/ HubForgets(s)
       PROVE  HubInv'
  BY <1>24
     DEF HandleReject, WithoutKey, Closed, HandleClose, CanBeClosed, HandleError,
         HubForgets, LeftBehind, ui, db, network, history, ends
<1>25. ASSUME NEW s \in Session, HandleBurn(s) PROVE HubInv'
  BY <1>25
     DEF HandleBurn, Erase, Refused, CanBeClosed, WithoutKey, DeleteSession, Begin, Overlapping, Call, ui,
         db, network, history, ends
<1>26. ASSUME NEW c \in calls, BurnedByPeer(c) PROVE HubInv'
  BY <1>26 DEF BurnedByPeer, Finish, ui, db, network, history, ends
<1>27. ASSUME NEW m \in Msg, Expire(m) PROVE HubInv'
  BY <1>27 DEF Expire, ui, db, network, history, ends
<1>28. ASSUME Sweep PROVE HubInv'
  BY <1>28 DEF Sweep, Call, Purged, ui, db, network, history, ends
<1>29. ASSUME UNCHANGED vars PROVE HubInv'
  BY <1>29 DEF vars, ui, db, network, history, ends
<1>30. ASSUME NEW p \in Peer, OpenStartModal(p) \/ EnterWhisperMode(p) PROVE HubInv'
  BY <1>1, <1>30 DEF OpenStartModal, EnterWhisperMode
<1>31. ASSUME CloseStartModal \/ ExitWhisperMode \/ DismissInvite PROVE HubInv'
  BY <1>1, <1>31 DEF CloseStartModal, ExitWhisperMode, DismissInvite
<1>32. QED
  BY <1>2, <1>3, <1>4, <1>5, <1>6, <1>7, <1>8, <1>9, <1>10, <1>11, <1>12,
     <1>13, <1>14, <1>15, <1>16, <1>17, <1>18, <1>19, <1>20, <1>21, <1>22,
     <1>23, <1>24, <1>25, <1>26, <1>27, <1>28, <1>29, <1>30, <1>31
  DEF Next, Continuing, User, Network

-----------------------------------------------------------------------------
(* The private keys *)

LEMMA KeyStep == TypeOK /\ CallsOK /\ HubInv /\ KeyInv /\ [Next]_vars => KeyInv'
<1> SUFFICES ASSUME TypeOK, CallsOK, HubInv, KeyInv, [Next]_vars PROVE KeyInv'
  OBVIOUS
<1> USE DEF TypeOK, CallsOK, View, Bare, OfMessage, HubInv, KeyInv, KeysFollowTheHub, Is
\* Only what is on the screen changes.
<1>1. ASSUME UNCHANGED <<active, pending, connecting, db, calls, network>>,
             UNCHANGED <<of, expired, failures, history>>,
             modal' \in Peer \cup {None}, shown' \in Peer \cup {None}, invite' \in {invite, None}
      PROVE  KeyInv'
  BY <1>1 DEF ui, db, network, history, ends
<1>2. ASSUME NEW p \in Peer, OpenStored(p) PROVE KeyInv'
  <2>1. UNCHANGED <<ui, db, network, of, expired, failures, ends>>
    BY <1>2, OpenStoredDoes
  <2>2. PICK s \in rows, v \in View :
          /\ v.sid = s /\ v.msgs = {} /\ v.keyed
          /\ calls' = calls \cup {[op |-> "load", sid |-> s, snap |-> v, msg |-> None]}
          /\ overlap' = overlap \cup ({s} \cap {d.sid : d \in calls})
    BY <1>2, OpenStoredDoes
  <2>3. QED
    BY <2>1, <2>2 DEF ui, db, network, ends
<1>3. ASSUME NEW c \in calls, ReadMessages(c) PROVE KeyInv'
  <2>1. UNCHANGED <<ui, db, network, of, expired, failures, history>>
    BY <1>3, ReadMessagesDoes
  <2>2. c.op = "load" /\ c.snap.sid = c.sid /\ c.sid \in Session
    BY <1>3, ReadMessagesDoes
  <2>3. PICK v \in View :
          /\ v.sid = c.sid /\ v.keyed = c.snap.keyed
          /\ v.msgs = {m \in disk : of[m] = c.sid}
          /\ calls' = (calls \ {c}) \cup {[op |-> "messages", sid |-> c.sid, snap |-> v, msg |-> None]}
    BY <1>3, ReadMessagesDoes
  <2>4. QED
    BY <2>1, <2>2, <2>3 DEF ui, db, network, history, ends
<1>4. ASSUME NEW c \in calls, Loaded(c) \/ WriteBack(c) PROVE KeyInv'
  BY <1>4 DEF Loaded, Finish, WriteBack, ui, db, network, history, ends
<1>5. ASSUME NEW s \in Session, Initiate(s) PROVE KeyInv'
  BY <1>5 DEF Initiate, Begin, Overlapping, Call, ui, db, network, history, ends
<1>6. ASSUME NEW c \in calls, Initiated(c) PROVE KeyInv'
  BY <1>6 DEF Initiated, Finish, Fresh, ui, db, network, history, ends
<1>7. ASSUME NEW s \in Session, HandleAccept(s) PROVE KeyInv'
  BY <1>7 DEF HandleAccept, LeftBehind, KeyTaken, Begin, Overlapping, Call, ui, db, network, history, ends
<1>8. ASSUME NEW c \in calls, Derived(c) PROVE KeyInv'
  <2>1. /\ UNCHANGED <<invite, pending, modal, disk, hub, owed, of, expired, ends, overlap>>
        /\ connecting' \in BOOLEAN
        /\ shown' \in Peer \cup {None} /\ failures' \in 0 .. MaxFailures
        /\ c.op = "derive" /\ c.snap.sid = c.sid /\ c.sid \in Session
    BY <1>8, DerivedDoes
  <2>2. PICK v \in View, n \in [op : Op, sid : Session, snap : View \cup {None}, msg : Msg \cup {None}] :
          /\ v.sid = c.sid /\ v.msgs = c.snap.msgs
          /\ n.op = "derived" /\ n.sid = c.sid /\ n.snap = c.snap /\ n.msg = c.msg
          /\ \/ /\ c.sid \in Stored /\ rows' = rows \cup {c.sid}
                /\ calls' = (calls \ {c}) \cup {n} /\ active' = active
             \/ rows' = rows /\ calls' = calls \ {c} /\ active' = active
             \/ c.sid \notin Stored /\ rows' = rows /\ calls' = calls \ {c} /\ active' = v
    BY <1>8, DerivedDoes
  <2>3. QED
    BY <2>1, <2>2 DEF ends
<1>9. ASSUME NEW c \in calls, DerivedSaved(c) PROVE KeyInv'
  BY <1>9 DEF DerivedSaved, Established, Finish, ui, db, network, history, ends
<1>10. ASSUME NEW s \in Session, HandleInit(s) PROVE KeyInv'
  BY <1>10 DEF HandleInit, ui, db, network, history, ends
<1>11. ASSUME NEW s \in Session, AcceptInvite(s) PROVE KeyInv'
  BY <1>11 DEF AcceptInvite, Begin, Overlapping, Call, ui, db, network, history, ends
<1>12. ASSUME NEW s \in Session, RejectInvite(s) PROVE KeyInv'
  BY <1>12 DEF RejectInvite, ui, db, network, history, ends
<1>13. ASSUME NEW c \in calls, SendAccept(c) PROVE KeyInv'
  BY <1>13
     DEF SendAccept, SavedRow, Continue, Call, Refused, Finish, Accepted, Fresh, ui, db,
         network, history, ends
<1>14. ASSUME NEW c \in calls, AcceptSaved(c) PROVE KeyInv'
  BY <1>14 DEF AcceptSaved, Accepted, Finish, Fresh, ui, db, network, history, ends
<1>15. ASSUME NEW m \in Msg, Write(m) PROVE KeyInv'
  BY <1>15 DEF Write, Unused, Begin, Overlapping, Call, ui, db, network, history, ends
<1>16. ASSUME NEW c \in calls, StartSend(c) PROVE KeyInv'
  BY <1>16 DEF StartSend, Finish, Call, ui, db, network, history, ends
<1>17. ASSUME NEW c \in calls, SendEncrypted(c) PROVE KeyInv'
  BY <1>17
     DEF SendEncrypted, Save, Continue, Call, Refused, Finish, Appended, WithMessage, ui,
         db, network, history, ends
<1>18. ASSUME NEW c \in calls, Decrypted(c) PROVE KeyInv'
  BY <1>18
     DEF Decrypted, Save, Continue, Call, Refused, Finish, Appended, WithMessage, ui, db,
         network, history, ends
<1>19. ASSUME NEW c \in calls, Show(c) PROVE KeyInv'
  BY <1>19 DEF Show, Appended, WithMessage, Finish, ui, db, network, history, ends
<1>20. ASSUME NEW s \in Session, NEW m \in Msg, HandleMsg(s, m) PROVE KeyInv'
  BY <1>20 DEF HandleMsg, Unused, Begin, Overlapping, Call, ui, db, network, history, ends
<1>21. ASSUME ToggleVerified PROVE KeyInv'
  BY <1>21 DEF ToggleVerified, Begin, Overlapping, Call, ui, db, network, history, ends
<1>22. ASSUME Burn PROVE KeyInv'
  BY <1>22 DEF Burn, Erase, Refused, WithoutKey, DeleteSession, Begin, Overlapping, Call, ui, db, network, history, ends
<1>23. ASSUME NEW c \in calls, Burned(c) PROVE KeyInv'
  BY <1>23 DEF Burned, Finish, ui, db, network, history, ends
<1>24. ASSUME NEW s \in Session, HandleReject(s) \/ HandleClose(s) \/ HandleError(s)
              \/ HubForgets(s)
       PROVE  KeyInv'
  BY <1>24
     DEF HandleReject, WithoutKey, Closed, HandleClose, CanBeClosed, HandleError,
         HubForgets, LeftBehind, ui, db, network, history, ends
<1>25. ASSUME NEW s \in Session, HandleBurn(s) PROVE KeyInv'
  BY <1>25
     DEF HandleBurn, Erase, Refused, CanBeClosed, WithoutKey, DeleteSession, Begin, Overlapping, Call, ui,
         db, network, history, ends
<1>26. ASSUME NEW c \in calls, BurnedByPeer(c) PROVE KeyInv'
  BY <1>26 DEF BurnedByPeer, Finish, ui, db, network, history, ends
<1>27. ASSUME NEW m \in Msg, Expire(m) PROVE KeyInv'
  BY <1>27 DEF Expire, ui, db, network, history, ends
<1>28. ASSUME Sweep PROVE KeyInv'
  BY <1>28 DEF Sweep, Call, Purged, ui, db, network, history, ends
<1>29. ASSUME UNCHANGED vars PROVE KeyInv'
  BY <1>29 DEF vars, ui, db, network, history, ends
<1>30. ASSUME NEW p \in Peer, OpenStartModal(p) \/ EnterWhisperMode(p) PROVE KeyInv'
  BY <1>1, <1>30 DEF OpenStartModal, EnterWhisperMode
<1>31. ASSUME CloseStartModal \/ ExitWhisperMode \/ DismissInvite PROVE KeyInv'
  BY <1>1, <1>31 DEF CloseStartModal, ExitWhisperMode, DismissInvite
<1>32. QED
  BY <1>2, <1>3, <1>4, <1>5, <1>6, <1>7, <1>8, <1>9, <1>10, <1>11, <1>12,
     <1>13, <1>14, <1>15, <1>16, <1>17, <1>18, <1>19, <1>20, <1>21, <1>22,
     <1>23, <1>24, <1>25, <1>26, <1>27, <1>28, <1>29, <1>30, <1>31
  DEF Next, Continuing, User, Network

-----------------------------------------------------------------------------
(* Messages: what a handler has read and will write *)

LEMMA MsgStep == TypeOK /\ CallsOK /\ MsgInv /\ [Next]_vars => MsgInv'
<1> SUFFICES ASSUME TypeOK, CallsOK, MsgInv, [Next]_vars PROVE MsgInv'
  OBVIOUS
<1> USE DEF TypeOK, CallsOK, View, Bare, OfMessage, MsgInv, NoStrangers
\* Only what is on the screen changes.
<1>1. ASSUME UNCHANGED <<active, pending, connecting, db, calls, network>>,
             UNCHANGED <<of, expired, failures, history>>,
             modal' \in Peer \cup {None}, shown' \in Peer \cup {None}, invite' \in {invite, None}
      PROVE  MsgInv'
  BY <1>1 DEF ui, db, network, history, ends
<1>2. ASSUME NEW p \in Peer, OpenStored(p) PROVE MsgInv'
  <2>1. UNCHANGED <<ui, db, network, of, expired, failures, ends>>
    BY <1>2, OpenStoredDoes
  <2>2. PICK s \in rows, v \in View :
          /\ v.sid = s /\ v.msgs = {} /\ v.keyed
          /\ calls' = calls \cup {[op |-> "load", sid |-> s, snap |-> v, msg |-> None]}
          /\ overlap' = overlap \cup ({s} \cap {d.sid : d \in calls})
    BY <1>2, OpenStoredDoes
  <2>3. QED
    BY <2>1, <2>2 DEF ui, db, network, ends
<1>3. ASSUME NEW c \in calls, ReadMessages(c) PROVE MsgInv'
  <2>1. UNCHANGED <<ui, db, network, of, expired, failures, history>>
    BY <1>3, ReadMessagesDoes
  <2>2. c.op = "load" /\ c.snap.sid = c.sid /\ c.sid \in Session
    BY <1>3, ReadMessagesDoes
  <2>3. PICK v \in View :
          /\ v.sid = c.sid /\ v.keyed = c.snap.keyed
          /\ v.msgs = {m \in disk : of[m] = c.sid}
          /\ calls' = (calls \ {c}) \cup {[op |-> "messages", sid |-> c.sid, snap |-> v, msg |-> None]}
    BY <1>3, ReadMessagesDoes
  <2>4. QED
    BY <2>1, <2>2, <2>3 DEF ui, db, network, history, ends
<1>4. ASSUME NEW c \in calls, Loaded(c) \/ WriteBack(c) PROVE MsgInv'
  BY <1>4 DEF Loaded, Finish, WriteBack, ui, db, network, history, ends
<1>5. ASSUME NEW s \in Session, Initiate(s) PROVE MsgInv'
  BY <1>5 DEF Initiate, Begin, Overlapping, Call, ui, db, network, history, ends
<1>6. ASSUME NEW c \in calls, Initiated(c) PROVE MsgInv'
  BY <1>6 DEF Initiated, Finish, Fresh, ui, db, network, history, ends
<1>7. ASSUME NEW s \in Session, HandleAccept(s) PROVE MsgInv'
  BY <1>7 DEF HandleAccept, LeftBehind, KeyTaken, Begin, Overlapping, Call, Is, ui, db, network, history, ends
<1>8. ASSUME NEW c \in calls, Derived(c) PROVE MsgInv'
  <2>1. /\ UNCHANGED <<invite, pending, modal, disk, hub, owed, of, expired, ends, overlap>>
        /\ connecting' \in BOOLEAN
        /\ shown' \in Peer \cup {None} /\ failures' \in 0 .. MaxFailures
        /\ c.op = "derive" /\ c.snap.sid = c.sid /\ c.sid \in Session
    BY <1>8, DerivedDoes
  <2>2. PICK v \in View, n \in [op : Op, sid : Session, snap : View \cup {None}, msg : Msg \cup {None}] :
          /\ v.sid = c.sid /\ v.msgs = c.snap.msgs
          /\ n.op = "derived" /\ n.sid = c.sid /\ n.snap = c.snap /\ n.msg = c.msg
          /\ \/ /\ c.sid \in Stored /\ rows' = rows \cup {c.sid}
                /\ calls' = (calls \ {c}) \cup {n} /\ active' = active
             \/ rows' = rows /\ calls' = calls \ {c} /\ active' = active
             \/ c.sid \notin Stored /\ rows' = rows /\ calls' = calls \ {c} /\ active' = v
    BY <1>8, DerivedDoes
  <2>3. QED
    BY <2>1, <2>2 DEF ends
<1>9. ASSUME NEW c \in calls, DerivedSaved(c) PROVE MsgInv'
  BY <1>9 DEF DerivedSaved, Established, Finish, ui, db, network, history, ends
<1>10. ASSUME NEW s \in Session, HandleInit(s) PROVE MsgInv'
  BY <1>10 DEF HandleInit, ui, db, network, history, ends
<1>11. ASSUME NEW s \in Session, AcceptInvite(s) PROVE MsgInv'
  BY <1>11 DEF AcceptInvite, Begin, Overlapping, Call, ui, db, network, history, ends
<1>12. ASSUME NEW s \in Session, RejectInvite(s) PROVE MsgInv'
  BY <1>12 DEF RejectInvite, ui, db, network, history, ends
<1>13. ASSUME NEW c \in calls, SendAccept(c) PROVE MsgInv'
  BY <1>13
     DEF SendAccept, SavedRow, Continue, Call, Refused, Finish, Accepted, Fresh, ui, db,
         network, history, ends
<1>14. ASSUME NEW c \in calls, AcceptSaved(c) PROVE MsgInv'
  BY <1>14 DEF AcceptSaved, Accepted, Finish, Fresh, ui, db, network, history, ends
<1>15. ASSUME NEW m \in Msg, Write(m) PROVE MsgInv'
  BY <1>15 DEF Write, Unused, Begin, Overlapping, Call, ui, db, network, history, ends
<1>16. ASSUME NEW c \in calls, StartSend(c) PROVE MsgInv'
  BY <1>16 DEF StartSend, Finish, Call, ui, db, network, history, ends
<1>17. ASSUME NEW c \in calls, SendEncrypted(c) PROVE MsgInv'
  BY <1>17
     DEF SendEncrypted, Save, Continue, Call, Refused, Finish, Appended, WithMessage, ui,
         db, network, history, ends
<1>18. ASSUME NEW c \in calls, Decrypted(c) PROVE MsgInv'
  BY <1>18
     DEF Decrypted, Save, Continue, Call, Refused, Finish, Appended, WithMessage, ui, db,
         network, history, ends
<1>19. ASSUME NEW c \in calls, Show(c) PROVE MsgInv'
  BY <1>19 DEF Show, Appended, WithMessage, Finish, ui, db, network, history, ends
<1>20. ASSUME NEW s \in Session, NEW m \in Msg, HandleMsg(s, m) PROVE MsgInv'
  BY <1>20 DEF HandleMsg, Unused, Is, Begin, Overlapping, Call, ui, db, network, history, ends
<1>21. ASSUME ToggleVerified PROVE MsgInv'
  BY <1>21 DEF ToggleVerified, Begin, Overlapping, Call, ui, db, network, history, ends
<1>22. ASSUME Burn PROVE MsgInv'
  BY <1>22 DEF Burn, Erase, Refused, WithoutKey, DeleteSession, Begin, Overlapping, Call, ui, db, network, history, ends
<1>23. ASSUME NEW c \in calls, Burned(c) PROVE MsgInv'
  BY <1>23 DEF Burned, Finish, ui, db, network, history, ends
<1>24. ASSUME NEW s \in Session, HandleReject(s) \/ HandleClose(s) \/ HandleError(s)
              \/ HubForgets(s)
       PROVE  MsgInv'
  BY <1>24
     DEF HandleReject, WithoutKey, Closed, Is, HandleClose, CanBeClosed, HandleError,
         HubForgets, LeftBehind, ui, db, network, history, ends
<1>25. ASSUME NEW s \in Session, HandleBurn(s) PROVE MsgInv'
  BY <1>25
     DEF HandleBurn, Erase, Refused, CanBeClosed, WithoutKey, Is, DeleteSession, Begin, Overlapping, Call,
         ui, db, network, history, ends
<1>26. ASSUME NEW c \in calls, BurnedByPeer(c) PROVE MsgInv'
  BY <1>26 DEF BurnedByPeer, Finish, ui, db, network, history, ends
<1>27. ASSUME NEW m \in Msg, Expire(m) PROVE MsgInv'
  BY <1>27 DEF Expire, ui, db, network, history, ends
<1>28. ASSUME Sweep PROVE MsgInv'
  BY <1>28 DEF Sweep, Call, Purged, ui, db, network, history, ends
<1>29. ASSUME UNCHANGED vars PROVE MsgInv'
  BY <1>29 DEF vars, ui, db, network, history, ends
<1>30. ASSUME NEW p \in Peer, OpenStartModal(p) \/ EnterWhisperMode(p) PROVE MsgInv'
  BY <1>1, <1>30 DEF OpenStartModal, EnterWhisperMode
<1>31. ASSUME CloseStartModal \/ ExitWhisperMode \/ DismissInvite PROVE MsgInv'
  BY <1>1, <1>31 DEF CloseStartModal, ExitWhisperMode, DismissInvite
<1>32. QED
  BY <1>2, <1>3, <1>4, <1>5, <1>6, <1>7, <1>8, <1>9, <1>10, <1>11, <1>12,
     <1>13, <1>14, <1>15, <1>16, <1>17, <1>18, <1>19, <1>20, <1>21, <1>22,
     <1>23, <1>24, <1>25, <1>26, <1>27, <1>28, <1>29, <1>30, <1>31
  DEF Next, Continuing, User, Network

-----------------------------------------------------------------------------
(* The database: a session is saved before its messages *)

LEMMA RowStep == TypeOK /\ CallsOK /\ MsgInv /\ RowInv /\ [Next]_vars => RowInv'
<1> SUFFICES ASSUME TypeOK, CallsOK, MsgInv, RowInv, [Next]_vars PROVE RowInv'
  OBVIOUS
<1> USE DEF TypeOK, CallsOK, View, Bare, OfMessage, MsgInv, RowInv, Kept, NoOrphans
\* Only what is on the screen changes.
<1>1. ASSUME UNCHANGED <<active, pending, connecting, db, calls, network>>,
             UNCHANGED <<of, expired, failures, history>>,
             modal' \in Peer \cup {None}, shown' \in Peer \cup {None}, invite' \in {invite, None}
      PROVE  RowInv'
  BY <1>1 DEF ui, db, network, history, ends
<1>2. ASSUME NEW p \in Peer, OpenStored(p) PROVE RowInv'
  <2>1. UNCHANGED <<ui, db, network, of, expired, failures, ends>>
    BY <1>2, OpenStoredDoes
  <2>2. PICK s \in rows, v \in View :
          /\ v.sid = s /\ v.msgs = {} /\ v.keyed
          /\ calls' = calls \cup {[op |-> "load", sid |-> s, snap |-> v, msg |-> None]}
          /\ overlap' = overlap \cup ({s} \cap {d.sid : d \in calls})
    BY <1>2, OpenStoredDoes
  <2>3. QED
    BY <2>1, <2>2 DEF ui, db, network, ends
<1>3. ASSUME NEW c \in calls, ReadMessages(c) PROVE RowInv'
  <2>1. UNCHANGED <<ui, db, network, of, expired, failures, history>>
    BY <1>3, ReadMessagesDoes
  <2>2. c.op = "load" /\ c.snap.sid = c.sid /\ c.sid \in Session
    BY <1>3, ReadMessagesDoes
  <2>3. PICK v \in View :
          /\ v.sid = c.sid /\ v.keyed = c.snap.keyed
          /\ v.msgs = {m \in disk : of[m] = c.sid}
          /\ calls' = (calls \ {c}) \cup {[op |-> "messages", sid |-> c.sid, snap |-> v, msg |-> None]}
    BY <1>3, ReadMessagesDoes
  <2>4. QED
    BY <2>1, <2>2, <2>3 DEF ui, db, network, history, ends
<1>4. ASSUME NEW c \in calls, Loaded(c) \/ WriteBack(c) PROVE RowInv'
  BY <1>4 DEF Loaded, Finish, WriteBack, ui, db, network, history, ends
<1>5. ASSUME NEW s \in Session, Initiate(s) PROVE RowInv'
  BY <1>5 DEF Initiate, Begin, Overlapping, Call, ui, db, network, history, ends
<1>6. ASSUME NEW c \in calls, Initiated(c) PROVE RowInv'
  BY <1>6 DEF Initiated, Finish, Fresh, ui, db, network, history, ends
<1>7. ASSUME NEW s \in Session, HandleAccept(s) PROVE RowInv'
  BY <1>7 DEF HandleAccept, LeftBehind, KeyTaken, Begin, Overlapping, Call, Is, ui, db, network, history, ends
<1>8. ASSUME NEW c \in calls, Derived(c) PROVE RowInv'
  <2>1. /\ UNCHANGED <<invite, pending, modal, disk, hub, owed, of, expired, ends, overlap>>
        /\ connecting' \in BOOLEAN
        /\ shown' \in Peer \cup {None} /\ failures' \in 0 .. MaxFailures
        /\ c.op = "derive" /\ c.snap.sid = c.sid /\ c.sid \in Session
    BY <1>8, DerivedDoes
  <2>2. PICK v \in View, n \in [op : Op, sid : Session, snap : View \cup {None}, msg : Msg \cup {None}] :
          /\ v.sid = c.sid /\ v.msgs = c.snap.msgs
          /\ n.op = "derived" /\ n.sid = c.sid /\ n.snap = c.snap /\ n.msg = c.msg
          /\ \/ /\ c.sid \in Stored /\ rows' = rows \cup {c.sid}
                /\ calls' = (calls \ {c}) \cup {n} /\ active' = active
             \/ rows' = rows /\ calls' = calls \ {c} /\ active' = active
             \/ c.sid \notin Stored /\ rows' = rows /\ calls' = calls \ {c} /\ active' = v
    BY <1>8, DerivedDoes
  <2>3. QED
    BY <2>1, <2>2 DEF ends
<1>9. ASSUME NEW c \in calls, DerivedSaved(c) PROVE RowInv'
  BY <1>9 DEF DerivedSaved, Established, Finish, ui, db, network, history, ends
<1>10. ASSUME NEW s \in Session, HandleInit(s) PROVE RowInv'
  BY <1>10 DEF HandleInit, ui, db, network, history, ends
<1>11. ASSUME NEW s \in Session, AcceptInvite(s) PROVE RowInv'
  BY <1>11 DEF AcceptInvite, Begin, Overlapping, Call, ui, db, network, history, ends
<1>12. ASSUME NEW s \in Session, RejectInvite(s) PROVE RowInv'
  BY <1>12 DEF RejectInvite, ui, db, network, history, ends
<1>13. ASSUME NEW c \in calls, SendAccept(c) PROVE RowInv'
  BY <1>13
     DEF SendAccept, SavedRow, Continue, Call, Refused, Finish, Accepted, Fresh, ui, db,
         network, history, ends
<1>14. ASSUME NEW c \in calls, AcceptSaved(c) PROVE RowInv'
  BY <1>14 DEF AcceptSaved, Accepted, Finish, Fresh, ui, db, network, history, ends
<1>15. ASSUME NEW m \in Msg, Write(m) PROVE RowInv'
  BY <1>15 DEF Write, Unused, Begin, Overlapping, Call, ui, db, network, history, ends
<1>16. ASSUME NEW c \in calls, StartSend(c) PROVE RowInv'
  BY <1>16 DEF StartSend, Finish, Call, ui, db, network, history, ends
<1>17. ASSUME NEW c \in calls, SendEncrypted(c) PROVE RowInv'
  BY <1>17
     DEF SendEncrypted, Save, Continue, Call, Refused, Finish, Appended, WithMessage, ui,
         db, network, history, ends
<1>18. ASSUME NEW c \in calls, Decrypted(c) PROVE RowInv'
  BY <1>18
     DEF Decrypted, Save, Continue, Call, Refused, Finish, Appended, WithMessage, ui, db,
         network, history, ends
<1>19. ASSUME NEW c \in calls, Show(c) PROVE RowInv'
  BY <1>19 DEF Show, Appended, WithMessage, Finish, ui, db, network, history, ends
<1>20. ASSUME NEW s \in Session, NEW m \in Msg, HandleMsg(s, m) PROVE RowInv'
  BY <1>20 DEF HandleMsg, Unused, Is, Begin, Overlapping, Call, ui, db, network, history, ends
<1>21. ASSUME ToggleVerified PROVE RowInv'
  BY <1>21 DEF ToggleVerified, Begin, Overlapping, Call, ui, db, network, history, ends
<1>22. ASSUME Burn PROVE RowInv'
  BY <1>22 DEF Burn, Erase, Refused, WithoutKey, DeleteSession, Begin, Overlapping, Call, ui, db, network, history, ends
<1>23. ASSUME NEW c \in calls, Burned(c) PROVE RowInv'
  BY <1>23 DEF Burned, Finish, ui, db, network, history, ends
<1>24. ASSUME NEW s \in Session, HandleReject(s) \/ HandleClose(s) \/ HandleError(s)
              \/ HubForgets(s)
       PROVE  RowInv'
  BY <1>24
     DEF HandleReject, WithoutKey, Closed, Is, HandleClose, CanBeClosed, HandleError,
         HubForgets, LeftBehind, ui, db, network, history, ends
<1>25. ASSUME NEW s \in Session, HandleBurn(s) PROVE RowInv'
  BY <1>25
     DEF HandleBurn, Erase, Refused, CanBeClosed, WithoutKey, Is, DeleteSession, Begin, Overlapping, Call,
         ui, db, network, history, ends
<1>26. ASSUME NEW c \in calls, BurnedByPeer(c) PROVE RowInv'
  BY <1>26 DEF BurnedByPeer, Finish, ui, db, network, history, ends
<1>27. ASSUME NEW m \in Msg, Expire(m) PROVE RowInv'
  BY <1>27 DEF Expire, ui, db, network, history, ends
<1>28. ASSUME Sweep PROVE RowInv'
  BY <1>28 DEF Sweep, Call, Purged, ui, db, network, history, ends
<1>29. ASSUME UNCHANGED vars PROVE RowInv'
  BY <1>29 DEF vars, ui, db, network, history, ends
<1>30. ASSUME NEW p \in Peer, OpenStartModal(p) \/ EnterWhisperMode(p) PROVE RowInv'
  BY <1>1, <1>30 DEF OpenStartModal, EnterWhisperMode
<1>31. ASSUME CloseStartModal \/ ExitWhisperMode \/ DismissInvite PROVE RowInv'
  BY <1>1, <1>31 DEF CloseStartModal, ExitWhisperMode, DismissInvite
<1>32. QED
  BY <1>2, <1>3, <1>4, <1>5, <1>6, <1>7, <1>8, <1>9, <1>10, <1>11, <1>12,
     <1>13, <1>14, <1>15, <1>16, <1>17, <1>18, <1>19, <1>20, <1>21, <1>22,
     <1>23, <1>24, <1>25, <1>26, <1>27, <1>28, <1>29, <1>30, <1>31
  DEF Next, Continuing, User, Network

-----------------------------------------------------------------------------
(* Burning: what can still come for a burned session *)

LEMMA BurnStep == TypeOK /\ CallsOK /\ HubInv /\ MsgInv /\ BurnInv /\ [Next]_vars => BurnInv'
<1> SUFFICES ASSUME TypeOK, CallsOK, HubInv, MsgInv, BurnInv, [Next]_vars PROVE BurnInv'
  OBVIOUS
<1> USE DEF TypeOK, CallsOK, View, Bare, OfMessage, HubInv, MsgInv, BurnInv, Cleared, Burning, Is
\* Only what is on the screen changes.
<1>1. ASSUME UNCHANGED <<active, pending, connecting, db, calls, network>>,
             UNCHANGED <<of, expired, failures, history>>,
             modal' \in Peer \cup {None}, shown' \in Peer \cup {None}, invite' \in {invite, None}
      PROVE  BurnInv'
  BY <1>1 DEF ui, db, network, history, ends
<1>2. ASSUME NEW p \in Peer, OpenStored(p) PROVE BurnInv'
  <2>1. UNCHANGED <<ui, db, network, of, expired, failures, ends>>
    BY <1>2, OpenStoredDoes
  <2>2. PICK s \in rows, v \in View :
          /\ v.sid = s /\ v.msgs = {} /\ v.keyed
          /\ calls' = calls \cup {[op |-> "load", sid |-> s, snap |-> v, msg |-> None]}
          /\ overlap' = overlap \cup ({s} \cap {d.sid : d \in calls})
    BY <1>2, OpenStoredDoes
  <2>3. QED
    BY <2>1, <2>2 DEF ui, db, network, ends
<1>3. ASSUME NEW c \in calls, ReadMessages(c) PROVE BurnInv'
  <2>1. UNCHANGED <<ui, db, network, of, expired, failures, history>>
    BY <1>3, ReadMessagesDoes
  <2>2. c.op = "load" /\ c.snap.sid = c.sid /\ c.sid \in Session
    BY <1>3, ReadMessagesDoes
  <2>3. PICK v \in View :
          /\ v.sid = c.sid /\ v.keyed = c.snap.keyed
          /\ v.msgs = {m \in disk : of[m] = c.sid}
          /\ calls' = (calls \ {c}) \cup {[op |-> "messages", sid |-> c.sid, snap |-> v, msg |-> None]}
    BY <1>3, ReadMessagesDoes
  <2>4. QED
    BY <2>1, <2>2, <2>3 DEF ui, db, network, history, ends
<1>4. ASSUME NEW c \in calls, Loaded(c) \/ WriteBack(c) PROVE BurnInv'
  BY <1>4 DEF Loaded, Finish, WriteBack, ui, db, network, history, ends
<1>5. ASSUME NEW s \in Session, Initiate(s) PROVE BurnInv'
  BY <1>5 DEF Initiate, Begin, Overlapping, Call, ui, db, network, history, ends
<1>6. ASSUME NEW c \in calls, Initiated(c) PROVE BurnInv'
  BY <1>6 DEF Initiated, Finish, Fresh, ui, db, network, history, ends
<1>7. ASSUME NEW s \in Session, HandleAccept(s) PROVE BurnInv'
  BY <1>7 DEF HandleAccept, LeftBehind, KeyTaken, Begin, Overlapping, Call, ui, db, network, history, ends
<1>8. ASSUME NEW c \in calls, Derived(c) PROVE BurnInv'
  <2>1. /\ UNCHANGED <<invite, pending, modal, disk, hub, owed, of, expired, ends, overlap>>
        /\ connecting' \in BOOLEAN
        /\ shown' \in Peer \cup {None} /\ failures' \in 0 .. MaxFailures
        /\ c.op = "derive" /\ c.snap.sid = c.sid /\ c.sid \in Session
    BY <1>8, DerivedDoes
  <2>2. PICK v \in View, n \in [op : Op, sid : Session, snap : View \cup {None}, msg : Msg \cup {None}] :
          /\ v.sid = c.sid /\ v.msgs = c.snap.msgs
          /\ n.op = "derived" /\ n.sid = c.sid /\ n.snap = c.snap /\ n.msg = c.msg
          /\ \/ /\ c.sid \in Stored /\ rows' = rows \cup {c.sid}
                /\ calls' = (calls \ {c}) \cup {n} /\ active' = active
             \/ rows' = rows /\ calls' = calls \ {c} /\ active' = active
             \/ c.sid \notin Stored /\ rows' = rows /\ calls' = calls \ {c} /\ active' = v
    BY <1>8, DerivedDoes
  <2>3. QED
    BY <2>1, <2>2 DEF ends
<1>9. ASSUME NEW c \in calls, DerivedSaved(c) PROVE BurnInv'
  BY <1>9 DEF DerivedSaved, Established, Finish, ui, db, network, history, ends
<1>10. ASSUME NEW s \in Session, HandleInit(s) PROVE BurnInv'
  BY <1>10 DEF HandleInit, ui, db, network, history, ends
<1>11. ASSUME NEW s \in Session, AcceptInvite(s) PROVE BurnInv'
  BY <1>11 DEF AcceptInvite, Begin, Overlapping, Call, ui, db, network, history, ends
<1>12. ASSUME NEW s \in Session, RejectInvite(s) PROVE BurnInv'
  BY <1>12 DEF RejectInvite, ui, db, network, history, ends
<1>13. ASSUME NEW c \in calls, SendAccept(c) PROVE BurnInv'
  BY <1>13
     DEF SendAccept, SavedRow, Continue, Call, Refused, Finish, Accepted, Fresh, ui, db,
         network, history, ends
<1>14. ASSUME NEW c \in calls, AcceptSaved(c) PROVE BurnInv'
  BY <1>14 DEF AcceptSaved, Accepted, Finish, Fresh, ui, db, network, history, ends
<1>15. ASSUME NEW m \in Msg, Write(m) PROVE BurnInv'
  BY <1>15 DEF Write, Unused, Begin, Overlapping, Call, ui, db, network, history, ends
<1>16. ASSUME NEW c \in calls, StartSend(c) PROVE BurnInv'
  BY <1>16 DEF StartSend, Finish, Call, ui, db, network, history, ends
<1>17. ASSUME NEW c \in calls, SendEncrypted(c) PROVE BurnInv'
  BY <1>17
     DEF SendEncrypted, Save, Continue, Call, Refused, Finish, Appended, WithMessage, ui,
         db, network, history, ends
<1>18. ASSUME NEW c \in calls, Decrypted(c) PROVE BurnInv'
  BY <1>18
     DEF Decrypted, Save, Continue, Call, Refused, Finish, Appended, WithMessage, ui, db,
         network, history, ends
<1>19. ASSUME NEW c \in calls, Show(c) PROVE BurnInv'
  BY <1>19 DEF Show, Appended, WithMessage, Finish, ui, db, network, history, ends
<1>20. ASSUME NEW s \in Session, NEW m \in Msg, HandleMsg(s, m) PROVE BurnInv'
  BY <1>20 DEF HandleMsg, Unused, Begin, Overlapping, Call, ui, db, network, history, ends
<1>21. ASSUME ToggleVerified PROVE BurnInv'
  BY <1>21 DEF ToggleVerified, Begin, Overlapping, Call, ui, db, network, history, ends
<1>22. ASSUME Burn PROVE BurnInv'
  <2>0. CASE failures' # failures
    <3>1. PICK s \in Session : s = active.sid /\ Is(s) /\ active' = active
      BY <1>22 DEF Burn
    <3>2. /\ pending' = pending \ {s} /\ invite' = invite
          /\ hub' = [hub EXCEPT ![s] = IF @ \in {"invited", "open"} THEN "closing" ELSE @]
          /\ unburned' = unburned \cup {s} /\ burnt' = burnt \cup {s}
          /\ UNCHANGED <<rows, disk, of, calls, overlap>>
      BY <1>22, <2>0, <3>1 DEF Burn, Erase, WithoutKey, db
    <3>3. \A t \in burnt' \ (overlap' \cup unburned') :
            t # s /\ t \in burnt \ (overlap \cup unburned) /\ hub'[t] = hub[t]
      BY <3>1, <3>2
    <3>4. QED
      BY <3>1, <3>2, <3>3
  <2> SUFFICES ASSUME failures' = failures PROVE BurnInv'
    BY <2>0
  <2>1. PICK s \in Session : s = active.sid /\ Is(s) /\ active' = active
    BY <1>22 DEF Burn
  <2> DEFINE n == [op |-> "burn", sid |-> s, snap |-> None, msg |-> None]
  <2>2. /\ pending' = pending \ {s} /\ invite' = invite
        /\ hub' = [hub EXCEPT ![s] = IF @ \in {"invited", "open"} THEN "closing" ELSE @]
        /\ rows' = rows \ {s} /\ disk' = {m \in disk : of[m] # s} /\ of' = of
        /\ calls' = calls \cup {n} /\ burnt' = burnt \cup {s}
        /\ overlap' = overlap \cup ({s} \cap {d.sid : d \in calls})
        /\ unburned' = unburned \ {s}
    BY <1>22, <2>1 DEF Burn, Erase, Refused, TypeOK, WithoutKey, DeleteSession, Begin, Overlapping, Call
  <2>3. \A d, e \in calls' : d.sid = e.sid /\ d # e => d.sid \in overlap'
    BY <2>1, <2>2
  <2>4. s \notin overlap' => \A d \in calls' : d.sid = s => d = n
    BY <2>1, <2>2
  <2>5. s # invite /\ hub[s] # "none"
    BY <2>1
  <2>6. \A t \in burnt' \ (overlap' \cup unburned') : t # s => t \in burnt \ (overlap \cup unburned) /\ hub'[t] = hub[t] /\ ~Is(t)
    BY <2>1, <2>2
  <2>7. ASSUME NEW t \in burnt' \ (overlap' \cup unburned'), t = s PROVE Cleared(t)'
    <3>1. n \in calls' /\ n.sid = s /\ n.op = "burn"
      BY <2>2
    <3>2. Burning(s)' /\ \E c \in calls' : c.sid = s /\ c.op = "burn"
      BY <3>1
    <3>3. \A c \in calls' : c.sid = s => c.op = "burn"
      BY <2>4, <2>7, <3>1
    <3>4. hub'[s] = IF hub[s] \in {"invited", "open"} THEN "closing" ELSE hub[s]
      BY <2>1, <2>2
    <3>5. hub'[s] \notin {"none", "invited"}
      BY <2>5, <3>4
    <3>6. QED
      BY <2>2, <2>5, <2>7, <3>2, <3>3, <3>5 DEF Cleared
  <2>8. ASSUME NEW t \in burnt' \ (overlap' \cup unburned'), t # s PROVE Cleared(t)'
    <3>1. Cleared(t) /\ hub'[t] = hub[t] /\ ~Is(t) /\ t # s
      BY <2>6, <2>8
    <3>2. \A d \in calls' : d.sid = t => d \in calls
      BY <2>2, <3>1
    <3>3. QED
      BY <2>1, <2>2, <3>1, <3>2 DEF Cleared
  <2>9. QED
    BY <2>3, <2>7, <2>8
<1>23. ASSUME NEW c \in calls, Burned(c) PROVE BurnInv'
  BY <1>23 DEF Burned, Finish, ui, db, network, history, ends
<1>24. ASSUME NEW s \in Session, HandleReject(s) \/ HandleClose(s) \/ HandleError(s)
              \/ HubForgets(s)
       PROVE  BurnInv'
  BY <1>24
     DEF HandleReject, WithoutKey, Closed, HandleClose, CanBeClosed, HandleError,
         HubForgets, LeftBehind, ui, db, network, history, ends
<1>25. ASSUME NEW s \in Session, HandleBurn(s) PROVE BurnInv'
  <2>1. CASE ~Is(s)
    BY <1>25, <2>1 DEF HandleBurn, Erase, Refused, CanBeClosed, WithoutKey, db
  <2>2. CASE Is(s) /\ failures' # failures
    <3>1. /\ active' = active /\ pending' = pending \ {s} /\ invite' = invite
          /\ hub' = [hub EXCEPT ![s] = "ended"]
          /\ unburned' = unburned \cup {s} /\ burnt' = burnt \cup {s}
          /\ UNCHANGED <<rows, disk, of, calls, overlap>>
      BY <1>25, <2>2 DEF HandleBurn, Erase, WithoutKey, db
    <3>2. \A t \in burnt' \ (overlap' \cup unburned') :
            t # s /\ t \in burnt \ (overlap \cup unburned) /\ hub'[t] = hub[t]
      BY <3>1
    <3>3. QED
      BY <3>1, <3>2
  <2>3. CASE Is(s) /\ failures' = failures
    <3> DEFINE n == [op |-> "burnByPeer", sid |-> s, snap |-> active, msg |-> None]
    <3>1. s \in Session /\ active' = active /\ active \in View
      BY <1>25, <2>3 DEF HandleBurn
    <3>2. /\ pending' = pending \ {s} /\ invite' = invite
          /\ hub' = [hub EXCEPT ![s] = "ended"]
          /\ rows' = rows \ {s} /\ disk' = {m \in disk : of[m] # s} /\ of' = of
          /\ calls' = calls \cup {n} /\ burnt' = burnt \cup {s}
          /\ overlap' = overlap \cup ({s} \cap {d.sid : d \in calls})
          /\ unburned' = unburned \ {s}
      BY <1>25, <2>3 DEF HandleBurn, Erase, Refused, WithoutKey, DeleteSession, Begin, Overlapping, Call
    <3>3. \A d, e \in calls' : d.sid = e.sid /\ d # e => d.sid \in overlap'
      BY <3>1, <3>2
    <3>4. s \notin overlap' => \A d \in calls' : d.sid = s => d = n
      BY <3>1, <3>2
    <3>5. s # invite
      BY <2>3, <3>1
    <3>6. \A t \in burnt' \ (overlap' \cup unburned') : t # s => t \in burnt \ (overlap \cup unburned) /\ hub'[t] = hub[t] /\ ~Is(t)
      BY <2>3, <3>1, <3>2
    <3>7. ASSUME NEW t \in burnt' \ (overlap' \cup unburned'), t = s PROVE Cleared(t)'
      <4>1. n \in calls' /\ n.sid = s /\ n.op = "burnByPeer"
        BY <3>2
      <4>2. Burning(s)'
        BY <4>1
      <4>3. \A c \in calls' : c.sid = s => c.op = "burnByPeer"
        BY <3>4, <3>7, <4>1
      <4>4. hub'[s] = "ended"
        BY <3>1, <3>2
      <4>5. QED
        BY <3>2, <3>5, <3>7, <4>2, <4>3, <4>4 DEF Cleared
    <3>8. ASSUME NEW t \in burnt' \ (overlap' \cup unburned'), t # s PROVE Cleared(t)'
      <4>1. Cleared(t) /\ hub'[t] = hub[t] /\ ~Is(t) /\ t # s
        BY <3>6, <3>8
      <4>2. \A d \in calls' : d.sid = t => d \in calls
        BY <3>2, <4>1
      <4>3. QED
        BY <3>1, <3>2, <4>1, <4>2 DEF Cleared
    <3>9. QED
      BY <3>3, <3>7, <3>8
  <2>4. QED
    BY <2>1, <2>2, <2>3
<1>26. ASSUME NEW c \in calls, BurnedByPeer(c) PROVE BurnInv'
  BY <1>26 DEF BurnedByPeer, Finish, ui, db, network, history, ends
<1>27. ASSUME NEW m \in Msg, Expire(m) PROVE BurnInv'
  BY <1>27 DEF Expire, ui, db, network, history, ends
<1>28. ASSUME Sweep PROVE BurnInv'
  <2> DEFINE seen == active # None /\ active.msgs \cap expired # {}
             v == [active EXCEPT !.msgs = @ \ expired]
             n == [op |-> "sweep", sid |-> active.sid, snap |-> v, msg |-> None]
  <2>1. UNCHANGED <<active, invite, pending, rows, hub, of, burnt, unburned>> /\ disk' \subseteq disk
    BY <1>28 DEF Sweep, Purged, ui, network, ends
  <2>2. CASE ~seen
    BY <1>28, <2>1, <2>2 DEF Sweep
  <2>3. CASE seen
    <3>1. active \in View /\ active.sid \in Session
      BY <2>3
    <3>2. v \in View /\ v.sid = active.sid /\ v.live = active.live
      BY <3>1
    <3>3. calls' = calls \cup {n} /\ overlap' = overlap \cup ({active.sid} \cap {d.sid : d \in calls})
      BY <1>28, <2>3 DEF Sweep, Call
    <3>4. n.op = "sweep" /\ n.sid = active.sid /\ n.snap = v
      OBVIOUS
    <3> HIDE DEF v, n
    <3>5. \A d, e \in calls' : d.sid = e.sid /\ d # e => d.sid \in overlap'
      BY <3>1, <3>3, <3>4
    <3>6. ASSUME NEW t \in burnt' \ (overlap' \cup unburned') PROVE Cleared(t)'
      <4>1. Cleared(t)
        BY <2>1, <3>3, <3>6
      <4>2. \A d \in calls' : d.sid = t => d \in calls \/ (d = n /\ t = active.sid)
        BY <3>3, <3>4
      <4>3. t = active.sid => ~active.live /\ hub[t] = "ended"
        <5>1. t = active.sid => \A d \in calls : d.sid # t
          BY <3>1, <3>3, <3>6
        <5>2. QED
          BY <2>3, <4>1, <5>1 DEF Cleared
      <4>4. QED
        BY <2>1, <3>2, <3>3, <3>4, <4>1, <4>2, <4>3 DEF Cleared
    <3>7. QED
      BY <3>5, <3>6
  <2>4. QED
    BY <2>2, <2>3
<1>29. ASSUME UNCHANGED vars PROVE BurnInv'
  BY <1>29 DEF vars, ui, db, network, history, ends
<1>30. ASSUME NEW p \in Peer, OpenStartModal(p) \/ EnterWhisperMode(p) PROVE BurnInv'
  BY <1>1, <1>30 DEF OpenStartModal, EnterWhisperMode
<1>31. ASSUME CloseStartModal \/ ExitWhisperMode \/ DismissInvite PROVE BurnInv'
  BY <1>1, <1>31 DEF CloseStartModal, ExitWhisperMode, DismissInvite
<1>32. QED
  BY <1>2, <1>3, <1>4, <1>5, <1>6, <1>7, <1>8, <1>9, <1>10, <1>11, <1>12,
     <1>13, <1>14, <1>15, <1>16, <1>17, <1>18, <1>19, <1>20, <1>21, <1>22,
     <1>23, <1>24, <1>25, <1>26, <1>27, <1>28, <1>29, <1>30, <1>31
  DEF Next, Continuing, User, Network

-----------------------------------------------------------------------------
\* The store is well typed whatever handlers overlap.
THEOREM TypeCorrect == Spec => []TypeOK
<1>1. TypeOK /\ CallsOK /\ [Next]_vars => (TypeOK /\ CallsOK)'
  BY TypeStep, CallsStep
<1>2. QED
  BY InitOK, <1>1, PTL DEF Spec

\* The private key of an invite is there as long as the invite can be accepted, and goes
\* with the accept or the end, but for the two cases in which it stays for good, for any
\* number of sessions and however the hub's frames meet the handlers in flight.
THEOREM KeysCorrect == Spec => []KeysFollowTheHub
<1>1. TypeOK /\ CallsOK /\ HubInv /\ KeyInv /\ [Next]_vars
        => (TypeOK /\ CallsOK /\ HubInv /\ KeyInv)'
  BY TypeStep, CallsStep, HubStep, KeyStep
<1>2. KeyInv => KeysFollowTheHub
  BY DEF KeyInv
<1>3. QED
  BY InitOK, <1>1, <1>2, PTL DEF Spec

\* A message is shown in the session it was encrypted in, however many handlers
\* write back the copy they read before their await.
THEOREM StrangersCorrect == Spec => []NoStrangers
<1>1. TypeOK /\ CallsOK /\ MsgInv /\ [Next]_vars => (TypeOK /\ CallsOK /\ MsgInv)'
  BY TypeStep, CallsStep, MsgStep
<1>2. MsgInv => NoStrangers
  BY DEF MsgInv
<1>3. QED
  BY InitOK, <1>1, <1>2, PTL DEF Spec

\* Every message in the database has its session there, or the session was burned,
\* wherever a request to the database fails.
THEOREM OrphansCorrect == Spec => []NoOrphans
<1>1. TypeOK /\ CallsOK /\ MsgInv /\ RowInv /\ [Next]_vars
        => (TypeOK /\ CallsOK /\ MsgInv /\ RowInv)'
  BY TypeStep, CallsStep, MsgStep, RowStep
<1>2. RowInv => NoOrphans
  BY DEF RowInv
<1>3. QED
  BY InitOK, <1>1, <1>2, PTL DEF Spec

\* Nothing of a burned session is left in the database, or comes back to it, unless the
\* database refused to delete it or two of its handlers overlapped.
THEOREM BurnCorrect == Spec => []BurnedUnlessRaced
<1>1. TypeOK /\ CallsOK /\ HubInv /\ MsgInv /\ BurnInv /\ [Next]_vars
        => (TypeOK /\ CallsOK /\ HubInv /\ MsgInv /\ BurnInv)'
  BY TypeStep, CallsStep, HubStep, MsgStep, BurnStep
<1>2. BurnInv => BurnedUnlessRaced
  BY DEF BurnInv, Cleared, BurnedUnlessRaced
<1>3. QED
  BY InitOK, <1>1, <1>2, PTL DEF Spec

\* What this client keeps of whispers belongs to a session it had and still has.
THEOREM SessionCorrect == Spec => []MessagesStayInSession
<1>1. NoStrangers /\ NoOrphans => MessagesStayInSession
  BY DEF MessagesStayInSession
<1>2. QED
  BY <1>1, StrangersCorrect, OrphansCorrect, PTL
=============================================================================
