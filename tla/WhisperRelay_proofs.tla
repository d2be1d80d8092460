------------------------ MODULE WhisperRelay_proofs ------------------------
(***************************************************************************)
(* Proofs about WhisperRelay for any set of users, connections, sessions   *)
(* and any friendships. InviteComes and EndComes strengthen InviteNotLost  *)
(* and PeerHearsTheEnd by whom the frame on its way is for.                *)
(***************************************************************************)
EXTENDS WhisperRelay, TLAPS

USE NoneAssumption, ConnAssumption

LEMMA OwnerType == ASSUME NEW c \in Conn PROVE Owner(c) \in User
  BY DEF Owner

LEMMA FrameType ==
  ASSUME NEW kind \in Kind, NEW s \in Session, NEW u \in User, NEW c \in Conn
  PROVE  ToUser(kind, s, u) \in Frame /\ ToSelf(kind, s, c) \in Frame
  BY OwnerType DEF ToUser, ToSelf, Frame

LEMMA RemoveType ==
  ASSUME TypeOK, NEW D \in SUBSET Session, NEW u \in User, Remove(D, u)
  PROVE  /\ sess' \in [Session -> Record \cup {None}]
         /\ ender' \in [Session -> User \cup {None}]
  BY DEF TypeOK, Remove

LEMMA ConnectionType ==
  ASSUME TypeOK, NEW c \in Conn, Connection(c)
  PROVE  TypeOK'
<1> USE OwnerType DEF TypeOK
<1>1. CASE Register(c)
  BY <1>1 DEF Register
<1>2. CASE Replay(c)
  <2>1. \A s \in Session : ToSelf("init", s, c) \in Frame
    BY FrameType DEF Kind
  <2>2. {ToSelf("init", s, c) : s \in Replayable(c)} \in SUBSET Frame
    BY <2>1 DEF Replayable
  <2>3. QED
    BY <1>2, <2>2 DEF Replay, Then
<1>3. CASE Unregister(c)
  BY <1>3 DEF Unregister
<1>4. CASE Cleanup(c)
  <2>1. ASSUME NEW s \in SessionsOf(Owner(c))
        PROVE  ToUser("end", s, PeerOf(s, Owner(c))) \in Frame
    <3>1. s \in Session /\ PeerOf(s, Owner(c)) \in User
      BY DEF SessionsOf, Live, PeerOf, Record
    <3>2. QED
      BY <3>1, FrameType DEF Kind
  <2>2. {ToUser("end", s, PeerOf(s, Owner(c))) : s \in SessionsOf(Owner(c))} \in SUBSET Frame
    BY <2>1
  <2>3. /\ sess' \in [Session -> Record \cup {None}]
        /\ ender' \in [Session -> User \cup {None}]
    <3>1. SessionsOf(Owner(c)) \in SUBSET Session
      BY DEF SessionsOf
    <3>2. QED
      BY <1>4, <3>1, RemoveType DEF Cleanup
  <2>4. QED
    BY <1>4, <2>2, <2>3 DEF Cleanup, Then
<1>5. QED
  BY <1>1, <1>2, <1>3, <1>4 DEF Connection

LEMMA HandleTypes ==
  ASSUME TypeOK, NEW c \in Conn, NEW s \in Session, Handle(c, s)
  PROVE  TypeOK'
<1> USE OwnerType DEF TypeOK
<1>1. ASSUME NEW v \in User, HandleWhisperInit(c, s, v) PROVE TypeOK'
  <2>1. ToUser("init", s, v) \in Frame
    BY FrameType DEF Kind
  <2>2. [init |-> Owner(c), target |-> v, pending |-> TRUE, old |-> FALSE] \in Record
    BY <1>1 DEF HandleWhisperInit, MayWhisper, Record
  <2>3. QED
    BY <1>1, <2>1, <2>2 DEF HandleWhisperInit, Then, Party
<1>2. CASE HandleWhisperAccept(c, s)
  <2>1. sess[s] \in Record
    BY <1>2 DEF HandleWhisperAccept, Live
  <2>2. [sess[s] EXCEPT !.pending = FALSE] \in Record
    BY <2>1 DEF Record
  <2>3. ToUser("accept", s, sess[s].init) \in Frame
    BY <2>1, FrameType DEF Kind, Record
  <2>4. QED
    BY <1>2, <2>2, <2>3 DEF HandleWhisperAccept, Then
<1>3. CASE HandleWhisperEnd(c, s)
  <2>1. PeerOf(s, Owner(c)) \in User
    BY <1>3 DEF HandleWhisperEnd, Live, PeerOf, Record
  <2>2. ToUser("end", s, PeerOf(s, Owner(c))) \in Frame
    BY <2>1, FrameType DEF Kind
  <2>3. QED
    BY <1>3, <2>2, RemoveType DEF HandleWhisperEnd, Then
<1>4. QED
  BY <1>1, <1>2, <1>3 DEF Handle

LEMMA SendType ==
  ASSUME TypeOK, NEW c \in Conn, NEW f \in todo[c], Send(c, f)
  PROVE  TypeOK'
<1> USE OwnerType DEF TypeOK
<1>1. f \in Frame
  OBVIOUS
<1>2. heard' \in [Conn -> [Session -> SUBSET Kind]]
  BY <1>1 DEF Send, Hear, Frame, Kind
<1>3. /\ sess' \in [Session -> Record \cup {None}]
      /\ ender' \in [Session -> User \cup {None}]
  BY <1>1, RemoveType DEF Send, Frame
<1>4. QED
  BY <1>2, <1>3 DEF Send, Then

LEMMA AgeType == ASSUME TypeOK, NEW s \in Session, Age(s) PROVE TypeOK'
<1>1. [sess[s] EXCEPT !.old = TRUE] \in Record
  BY DEF TypeOK, Age, Pending, Live, Record
<1>2. QED
  BY <1>1 DEF TypeOK, Age

\* Every variable keeps its type; in particular every session in the hub is
\* between two different users, and every frame has a user to go to.
THEOREM TypeCorrect == Spec => []TypeOK
<1>1. Init => TypeOK
  BY DEF Init, TypeOK
<1>2. TypeOK /\ [Next]_vars => TypeOK'
  BY ConnectionType, HandleTypes, SendType, AgeType DEF Next, TypeOK, vars
<1>3. QED
  BY <1>1, <1>2, PTL DEF Spec

-----------------------------------------------------------------------------
(* No session is orphaned. *)

\* The record of a session in the hub is the one it was created with.
PartiesKept ==
  \A s \in Session : Live(s) =>
    /\ party[s] # None
    /\ sess[s].init = party[s].init
    /\ sess[s].target = party[s].target

\* Whoever is served by a connection, or about to be cleaned up after, is present.
Present(u) == IsUserOnline(u) \/ Closing(u)

LEMMA PresenceKept ==
  ASSUME TypeOK, NEW u \in User, Present(u), [Next]_vars
  PROVE  Present(u)' \/ \E c \in Conn : Owner(c) = u /\ Cleanup(c)
<1> USE DEF TypeOK, Present, IsUserOnline, Closing, Registered
<1>1. CASE conn' = conn
  BY <1>1
<1>2. ASSUME NEW c \in Conn, Register(c) \/ Replay(c) PROVE Present(u)'
  BY <1>2 DEF Register, Replay
<1>3. ASSUME NEW c \in Conn, Unregister(c) PROVE Present(u)'
  <2>1. CASE Owner(c) # u
    BY <1>3, <2>1 DEF Unregister
  <2>2. CASE Owner(c) = u /\ \E d \in OtherConns(c) : Registered(d)
    BY <1>3, <2>2 DEF Unregister, OtherConns
  <2>3. CASE Owner(c) = u /\ ~\E d \in OtherConns(c) : Registered(d)
    BY <1>3, <2>3 DEF Unregister
  <2>4. QED
    BY <2>1, <2>2, <2>3
<1>4. ASSUME NEW c \in Conn, Cleanup(c), Owner(c) # u PROVE Present(u)'
  BY <1>4 DEF Cleanup
<1>5. QED
  BY <1>1, <1>2, <1>3, <1>4 DEF Next, vars, Connection, Handle, Send, Age,
     HandleWhisperInit, HandleWhisperAccept, HandleWhisperEnd

\* How a session of the next state comes about: it was there, unchanged or aged,
\* or it has just been accepted by its target or opened by its initiator.
\* A step that at most removes sessions.
Kept(s) == Live(s) /\ sess'[s] = sess[s] /\ party'[s] = party[s]

LEMMA RemoveKeeps ==
  ASSUME NEW s \in Session, NEW D, NEW u, Remove(D, u), party' = party, sess'[s] # None
  PROVE  Kept(s)
  BY DEF Remove, Kept, Live

LEMMA InitKeeps ==
  ASSUME TypeOK, NEW s \in Session, sess'[s] # None,
         NEW c \in Conn, NEW t \in Session, NEW v \in User, HandleWhisperInit(c, t, v)
  PROVE  \/ Kept(s)
         \/ /\ IsUserOnline(Owner(c))
            /\ party'[s] = [init |-> Owner(c), target |-> v, by |-> c]
            /\ sess'[s] = [init |-> Owner(c), target |-> v, pending |-> TRUE, old |-> FALSE]
            /\ conn' = conn
<1>1. IsUserOnline(Owner(c)) /\ conn' = conn
  BY DEF HandleWhisperInit, Reading, IsUserOnline, Registered
<1>2. CASE s = t
  BY <1>1, <1>2 DEF HandleWhisperInit, TypeOK
<1>3. CASE s # t
  <2>1. sess'[s] = sess[s] /\ party'[s] = party[s]
    BY <1>3 DEF HandleWhisperInit, TypeOK
  <2>2. QED
    BY <2>1 DEF Kept, Live
<1>4. QED
  BY <1>2, <1>3

LEMMA AcceptKeeps ==
  ASSUME TypeOK, PartiesKept, NEW s \in Session, sess'[s] # None,
         NEW c \in Conn, NEW t \in Session, HandleWhisperAccept(c, t)
  PROVE  \/ Kept(s)
         \/ /\ Live(s)
            /\ party'[s] = party[s]
            /\ sess'[s].init = sess[s].init
            /\ sess'[s].target = sess[s].target
            /\ IsUserOnline(sess[s].target) /\ conn' = conn
<1>1. IsUserOnline(Owner(c)) /\ conn' = conn /\ party' = party
  BY DEF HandleWhisperAccept, Reading, IsUserOnline, Registered
<1>2. CASE s = t
  <2>1. Live(s) /\ sess[s] \in Record /\ sess'[s] = [sess[s] EXCEPT !.pending = FALSE]
    BY <1>2 DEF HandleWhisperAccept, TypeOK, Live
  <2>2. sess[s].target = Owner(c)
    BY <1>2, <2>1 DEF HandleWhisperAccept, Invited, PartiesKept
  <2>3. sess'[s].init = sess[s].init /\ sess'[s].target = sess[s].target
    BY <2>1 DEF Record
  <2>4. QED
    BY <1>1, <2>1, <2>2, <2>3
<1>3. CASE s # t
  BY <1>1, <1>3 DEF HandleWhisperAccept, TypeOK, Kept, Live
<1>4. QED
  BY <1>2, <1>3

LEMMA AgeKeeps ==
  ASSUME TypeOK, NEW s \in Session, sess'[s] # None, NEW t \in Session, Age(t)
  PROVE  /\ Live(s)
         /\ party'[s] = party[s]
         /\ sess'[s].init = sess[s].init
         /\ sess'[s].target = sess[s].target
         /\ sess'[s].pending = sess[s].pending
<1>1. CASE s = t
  <2>1. Live(s) /\ sess[s] \in Record /\ sess'[s] = [sess[s] EXCEPT !.old = TRUE]
    BY <1>1 DEF Age, Pending, TypeOK, Live
  <2>2. QED
    BY <2>1 DEF Age, Record
<1>2. CASE s # t
  BY <1>2 DEF Age, TypeOK, Live
<1>3. QED
  BY <1>1, <1>2

LEMMA ConnectionKeeps ==
  ASSUME NEW s \in Session, sess'[s] # None, NEW c \in Conn, Connection(c)
  PROVE  Kept(s)
<1>1. CASE Register(c) \/ Unregister(c)
  BY <1>1 DEF Register, Unregister, Kept, Live
<1>2. CASE Replay(c)
  BY <1>2 DEF Replay, Kept, Live
<1>3. CASE Cleanup(c)
  BY <1>3, RemoveKeeps DEF Cleanup
<1>4. QED
  BY <1>1, <1>2, <1>3 DEF Connection

LEMMA SendKeeps ==
  ASSUME NEW s \in Session, sess'[s] # None, NEW c \in Conn, NEW f, Send(c, f)
  PROVE  Kept(s)
<1>1. CASE UNCHANGED <<sess, ender>>
  BY <1>1 DEF Send, Kept, Live
<1>2. CASE Remove({f.s}, Owner(c))
  BY <1>2, RemoveKeeps DEF Send
<1>3. QED
  BY <1>1, <1>2 DEF Send

LEMMA EndKeeps ==
  ASSUME NEW s \in Session, sess'[s] # None, NEW c \in Conn, NEW t \in Session,
         HandleWhisperEnd(c, t)
  PROVE  Kept(s)
  BY RemoveKeeps DEF HandleWhisperEnd

\* How a session of the next state comes about: it was there, unchanged or aged,
\* or it has just been accepted by its target or opened by its initiator.
LEMMA SessionSource ==
  ASSUME TypeOK, PartiesKept, [Next]_vars, NEW s \in Session, sess'[s] # None
  PROVE  \/ /\ Live(s)
            /\ party'[s] = party[s]
            /\ sess'[s].init = sess[s].init
            /\ sess'[s].target = sess[s].target
            /\ \/ sess'[s].pending = sess[s].pending
               \/ IsUserOnline(sess[s].target) /\ conn' = conn
         \/ /\ party'[s] # None
            /\ sess'[s].init = party'[s].init
            /\ sess'[s].target = party'[s].target
            /\ sess'[s].pending
            /\ IsUserOnline(sess'[s].init)
            /\ conn' = conn
<1> DEFINE Was == /\ Live(s)
                  /\ party'[s] = party[s]
                  /\ sess'[s].init = sess[s].init
                  /\ sess'[s].target = sess[s].target
                  /\ \/ sess'[s].pending = sess[s].pending
                     \/ IsUserOnline(sess[s].target) /\ conn' = conn
           New == /\ party'[s] # None
                  /\ sess'[s].init = party'[s].init
                  /\ sess'[s].target = party'[s].target
                  /\ sess'[s].pending
                  /\ IsUserOnline(sess'[s].init)
                  /\ conn' = conn
<1>1. ASSUME UNCHANGED vars PROVE Was
  BY <1>1 DEF vars, Live
<1>2. Kept(s) => Was
  BY DEF Kept
<1>3. ASSUME NEW c \in Conn, NEW t \in Session, NEW v \in User, HandleWhisperInit(c, t, v)
      PROVE  Was \/ New
  <2>1. \/ Kept(s)
        \/ /\ IsUserOnline(Owner(c))
           /\ party'[s] = [init |-> Owner(c), target |-> v, by |-> c]
           /\ sess'[s] = [init |-> Owner(c), target |-> v, pending |-> TRUE, old |-> FALSE]
           /\ conn' = conn
    <3> HIDE DEF Was, New
    <3> QED
      BY <1>3, InitKeeps
  <2>2. CASE /\ IsUserOnline(Owner(c))
             /\ party'[s] = [init |-> Owner(c), target |-> v, by |-> c]
             /\ sess'[s] = [init |-> Owner(c), target |-> v, pending |-> TRUE, old |-> FALSE]
             /\ conn' = conn
    <3>1. party'[s] # None
      BY <2>2, OwnerType DEF Party
    <3>2. New
      BY <2>2, <3>1
    <3>3. QED
      BY <3>2
  <2>3. QED
    BY <1>2, <2>1, <2>2
<1>4. ASSUME NEW c \in Conn, NEW t \in Session, HandleWhisperAccept(c, t) PROVE Was
  BY <1>2, <1>4, AcceptKeeps
<1>5. ASSUME NEW t \in Session, Age(t) PROVE Was
  BY <1>5, AgeKeeps
<1> HIDE DEF Was, New
<1>6. ASSUME NEW c \in Conn, Connection(c) PROVE Was
  BY <1>2, <1>6, ConnectionKeeps
<1>7. ASSUME NEW c \in Conn, NEW f \in todo[c], Send(c, f) PROVE Was
  BY <1>2, <1>7, SendKeeps
<1>8. ASSUME NEW c \in Conn, NEW t \in Session, HandleWhisperEnd(c, t) PROVE Was
  BY <1>2, <1>8, EndKeeps
<1>9. Was \/ New
  <2>1. CASE \E c \in Conn : Connection(c) \/ \E f \in todo[c] : Send(c, f)
    BY <1>6, <1>7, <2>1
  <2>2. CASE \E c \in Conn, t \in Session : Handle(c, t)
    BY <1>3, <1>4, <1>8, <2>2 DEF Handle
  <2>3. CASE \E t \in Session : Age(t)
    BY <1>5, <2>3
  <2>4. \/ \E c \in Conn : Connection(c) \/ \E f \in todo[c] : Send(c, f)
        \/ \E c \in Conn, t \in Session : Handle(c, t)
        \/ \E t \in Session : Age(t)
        \/ UNCHANGED vars
    BY DEF Next
  <2>5. QED
    BY <1>1, <2>1, <2>2, <2>3, <2>4
<1>10. QED
  BY <1>9 DEF Was, New

\* The hub leaks no session: as long as a session is there, its initiator is
\* connected or its cleanup is still to come, and so is the target once it has
\* accepted. A cleanup takes every session its user would leave orphaned, and
\* a handler acts for a user who is connected until the handler returns.
THEOREM SessionsAreOwned == Spec => []NoOrphanedSession
<1> DEFINE Owned(s) == /\ Present(sess[s].init)
                       /\ sess[s].pending \/ Present(sess[s].target)
<1>a. NoOrphanedSession <=> \A s \in Session : Live(s) => Owned(s)
  BY DEF NoOrphanedSession, Present
<1>1. Init => PartiesKept /\ NoOrphanedSession
  BY DEF Init, PartiesKept, NoOrphanedSession, Live
<1>2. ASSUME TypeOK, PartiesKept, NoOrphanedSession, [Next]_vars
      PROVE  PartiesKept'
  BY <1>2, SessionSource DEF PartiesKept, Live
<1>3. ASSUME TypeOK, PartiesKept, NoOrphanedSession, [Next]_vars
      PROVE  NoOrphanedSession'
  <2> SUFFICES ASSUME NEW s \in Session, sess'[s] # None
               PROVE  Owned(s)'
    BY <1>a DEF NoOrphanedSession, Present, Live
  <2>1. CASE sess'[s].pending /\ conn' = conn /\ IsUserOnline(sess'[s].init)
    BY <2>1 DEF Present, IsUserOnline, Closing, Registered
  <2>2. CASE /\ Live(s)
             /\ sess'[s].init = sess[s].init
             /\ sess'[s].target = sess[s].target
             /\ \/ sess'[s].pending = sess[s].pending
                \/ IsUserOnline(sess[s].target) /\ conn' = conn
    <3> DEFINE u == sess[s].init
               v == sess[s].target
    <3>1. Owned(s) /\ u \in User /\ v \in User
      BY <1>3, <2>2 DEF NoOrphanedSession, Present, TypeOK, Live, Record
    <3>2. ASSUME NEW c \in Conn, Cleanup(c)
          PROVE  Owner(c) # u /\ (Owner(c) = v => sess[s].pending)
      BY <2>2, <3>2 DEF Cleanup, Remove, SessionsOf, Live
    <3>3. \A w \in User : w = u \/ (w = v /\ ~sess[s].pending) =>
            \/ ~Present(w)
            \/ (\E c \in Conn : Owner(c) = w /\ conn'[c] \in {"joining", "up", "closing"})
      <4>1. ASSUME NEW w \in User, w = u \/ (w = v /\ ~sess[s].pending), Present(w)
            PROVE  Present(w)'
        BY <1>3, <3>2, <4>1, PresenceKept
      <4>2. QED
        BY <4>1 DEF Present, IsUserOnline, Closing, Registered
    <3>4. \E c \in Conn : Owner(c) = u /\ conn'[c] \in {"joining", "up", "closing"}
      BY <3>1, <3>3
    <3>5. \/ sess'[s].pending
          \/ \E c \in Conn : Owner(c) = v /\ conn'[c] \in {"joining", "up", "closing"}
      <4>1. CASE IsUserOnline(v) /\ conn' = conn
        BY <4>1 DEF IsUserOnline, Registered
      <4>2. CASE sess'[s].pending = sess[s].pending
        BY <4>2, <3>1, <3>3
      <4>3. QED
        BY <2>2, <4>1, <4>2
    <3>6. QED
      BY <2>2, <3>4, <3>5 DEF Present, IsUserOnline, Closing, Registered
  <2>3. QED
    BY <1>3, <2>1, <2>2, SessionSource
<1>4. QED
  BY <1>1, <1>2, <1>3, TypeCorrect, PTL DEF Spec

-----------------------------------------------------------------------------
(* The order of frames and registrations *)

\* A goroutine about to replay or to clean up has nothing left to send.
TodoOK == \A c \in Conn : conn[c] \in {"joining", "closing"} => todo[c] = {}

\* Each session is used once, and ends once.
EndedOK == \A s \in Session : ender[s] # None => party[s] # None /\ ~Live(s)

\* An accept goes from the target to the initiator.
AcceptOK ==
  \A d \in Conn : \A f \in todo[d] : f.kind = "accept" =>
    /\ party[f.s] # None /\ ~f.self
    /\ f.to = party[f.s].init /\ Owner(d) = party[f.s].target

\* A frame that d has yet to send will be queued to c, if c is there then.
Aimed(d, f, c) == IF f.self THEN c = d ELSE f.to = Owner(c)

Coming(kind, s, c) == \E d \in Conn : \E f \in todo[d] : f.kind = kind /\ f.s = s /\ Aimed(d, f, c)

InviteComes ==
  \A s \in Session, c \in Conn :
    Pending(s) /\ sess[s].target = Owner(c) /\ conn[c] = "up" =>
      "init" \in heard[c][s] \/ Coming("init", s, c)

\* The same as PeerHearsTheEnd, of connections that still wait for their replay as
\* well, and of a frame that goes to them.
EndComes ==
  \A s \in Session, c \in Conn :
    /\ Registered(c)
    /\ Knows(c, s)
    /\ ender[s] \notin {None, Owner(c)}
    /\ heard[c][s] \cap {"init", "accept"} # {}
    => "end" \in heard[c][s] \/ Coming("end", s, c)

-----------------------------------------------------------------------------
(* What goroutines have yet to send *)

LEMMA TodoStep ==
  TypeOK /\ TodoOK /\ [Next]_vars => TodoOK'
<1> SUFFICES ASSUME TypeOK, TodoOK, [Next]_vars PROVE TodoOK'
  OBVIOUS
<1> USE DEF TypeOK, TodoOK
<1>1. ASSUME NEW c \in Conn, Register(c) PROVE TodoOK'
  BY <1>1 DEF Register
<1>2. ASSUME NEW c \in Conn, Replay(c) PROVE TodoOK'
  BY <1>2 DEF Replay, Then, ToSelf
<1>3. ASSUME NEW c \in Conn, Unregister(c) PROVE TodoOK'
  BY <1>3 DEF Unregister, Reading
<1>4. ASSUME NEW c \in Conn, Cleanup(c) PROVE TodoOK'
  BY <1>4 DEF Cleanup, Then, ToUser, Remove
<1>5. ASSUME NEW c \in Conn, NEW t \in Session, NEW v \in User, HandleWhisperInit(c, t, v)
      PROVE  TodoOK'
  BY <1>5 DEF HandleWhisperInit, Then, ToUser, Reading
<1>6. ASSUME NEW c \in Conn, NEW t \in Session, HandleWhisperAccept(c, t) PROVE TodoOK'
  BY <1>6 DEF HandleWhisperAccept, Then, ToUser, Reading
<1>7. ASSUME NEW c \in Conn, NEW t \in Session, HandleWhisperEnd(c, t) PROVE TodoOK'
  BY <1>7 DEF HandleWhisperEnd, Then, ToUser, Remove, Reading
<1>8. ASSUME NEW c \in Conn, NEW f \in todo[c], Send(c, f) PROVE TodoOK'
  BY <1>8 DEF Send, Then, Hear, Remove
<1>9. ASSUME NEW t \in Session, Age(t) PROVE TodoOK'
  BY <1>9 DEF Age
<1>10. CASE UNCHANGED vars
  BY <1>10 DEF vars
<1>11. QED
  BY <1>1, <1>2, <1>3, <1>4, <1>5, <1>6, <1>7, <1>8, <1>9, <1>10 DEF Next, Connection, Handle

LEMMA EndedStep ==
  TypeOK /\ PartiesKept /\ EndedOK /\ [Next]_vars => EndedOK'
<1> SUFFICES ASSUME TypeOK, PartiesKept, EndedOK, [Next]_vars PROVE EndedOK'
  OBVIOUS
<1> USE DEF TypeOK, PartiesKept, EndedOK, Live
<1>1. ASSUME NEW c \in Conn, Register(c) PROVE EndedOK'
  BY <1>1 DEF Register
<1>2. ASSUME NEW c \in Conn, Replay(c) PROVE EndedOK'
  BY <1>2 DEF Replay, Then, ToSelf, Frame
<1>3. ASSUME NEW c \in Conn, Unregister(c) PROVE EndedOK'
  BY <1>3 DEF Unregister, Reading
<1>4. ASSUME NEW c \in Conn, Cleanup(c) PROVE EndedOK'
  BY <1>4 DEF Cleanup, Then, ToUser, Remove, SessionsOf
<1>5. ASSUME NEW c \in Conn, NEW t \in Session, NEW v \in User, HandleWhisperInit(c, t, v)
      PROVE  EndedOK'
  BY <1>5 DEF HandleWhisperInit, Then, ToUser, Reading
<1>6. ASSUME NEW c \in Conn, NEW t \in Session, HandleWhisperAccept(c, t) PROVE EndedOK'
  BY <1>6 DEF HandleWhisperAccept, Then, ToUser, Reading
<1>7. ASSUME NEW c \in Conn, NEW t \in Session, HandleWhisperEnd(c, t) PROVE EndedOK'
  BY <1>7 DEF HandleWhisperEnd, Then, ToUser, Remove, Reading
<1>8. ASSUME NEW c \in Conn, NEW f \in todo[c], Send(c, f) PROVE EndedOK'
  BY <1>8 DEF Send, Then, Hear, Remove, Frame
<1>9. ASSUME NEW t \in Session, Age(t) PROVE EndedOK'
  BY <1>9 DEF Age, Pending
<1>10. CASE UNCHANGED vars
  BY <1>10 DEF vars
<1>11. QED
  BY <1>1, <1>2, <1>3, <1>4, <1>5, <1>6, <1>7, <1>8, <1>9, <1>10 DEF Next, Connection, Handle

LEMMA AcceptStep ==
  TypeOK /\ PartiesKept /\ TodoOK /\ AcceptOK /\ [Next]_vars => AcceptOK'
<1> SUFFICES ASSUME TypeOK, PartiesKept, TodoOK, AcceptOK, [Next]_vars PROVE AcceptOK'
  OBVIOUS
<1> USE DEF TypeOK, PartiesKept, AcceptOK
<1>1. ASSUME NEW c \in Conn, Register(c) PROVE AcceptOK'
  BY <1>1 DEF Register
<1>2. ASSUME NEW c \in Conn, Replay(c) PROVE AcceptOK'
  BY <1>2 DEF Replay, Then, ToSelf
<1>3. ASSUME NEW c \in Conn, Unregister(c) PROVE AcceptOK'
  BY <1>3 DEF Unregister, Reading
<1>4. ASSUME NEW c \in Conn, Cleanup(c) PROVE AcceptOK'
  BY <1>4 DEF Cleanup, Then, ToUser, Remove
<1>5. ASSUME NEW c \in Conn, NEW t \in Session, NEW v \in User, HandleWhisperInit(c, t, v)
      PROVE  AcceptOK'
  BY <1>5 DEF HandleWhisperInit, Then, ToUser, Reading
<1>6. ASSUME NEW c \in Conn, NEW t \in Session, HandleWhisperAccept(c, t) PROVE AcceptOK'
  BY <1>6 DEF HandleWhisperAccept, Then, ToUser, Reading, Invited, Live
<1>7. ASSUME NEW c \in Conn, NEW t \in Session, HandleWhisperEnd(c, t) PROVE AcceptOK'
  BY <1>7 DEF HandleWhisperEnd, Then, ToUser, Remove, Reading
<1>8. ASSUME NEW c \in Conn, NEW f \in todo[c], Send(c, f) PROVE AcceptOK'
  BY <1>8 DEF Send, Then, Hear, Remove
<1>9. ASSUME NEW t \in Session, Age(t) PROVE AcceptOK'
  BY <1>9 DEF Age
<1>10. CASE UNCHANGED vars
  BY <1>10 DEF vars
<1>11. QED
  BY <1>1, <1>2, <1>3, <1>4, <1>5, <1>6, <1>7, <1>8, <1>9, <1>10 DEF Next, Connection, Handle

\* What is to be sent stays so until it is sent.
LEMMA TodoStays ==
  ASSUME TypeOK, TodoOK, [Next]_vars, NEW d \in Conn, NEW f \in todo[d]
  PROVE  f \in todo'[d] \/ Send(d, f)
<1> USE DEF TypeOK, TodoOK
<1>1. ASSUME NEW c \in Conn, Register(c) PROVE f \in todo'[d]
  BY <1>1 DEF Register, Then, Reading
<1>2. ASSUME NEW c \in Conn, Replay(c) PROVE f \in todo'[d]
  BY <1>2 DEF Replay, Then, Reading
<1>3. ASSUME NEW c \in Conn, Unregister(c) PROVE f \in todo'[d]
  BY <1>3 DEF Unregister, Then, Reading
<1>4. ASSUME NEW c \in Conn, Cleanup(c) PROVE f \in todo'[d]
  BY <1>4 DEF Cleanup, Then, Reading
<1>5. ASSUME NEW c \in Conn, NEW t \in Session, NEW v \in User, HandleWhisperInit(c, t, v)
      PROVE  f \in todo'[d]
  BY <1>5 DEF HandleWhisperInit, Then, Reading
<1>6. ASSUME NEW c \in Conn, NEW t \in Session, HandleWhisperAccept(c, t) PROVE f \in todo'[d]
  BY <1>6 DEF HandleWhisperAccept, Then, Reading
<1>7. ASSUME NEW c \in Conn, NEW t \in Session, HandleWhisperEnd(c, t) PROVE f \in todo'[d]
  BY <1>7 DEF HandleWhisperEnd, Then, Reading
<1>8. ASSUME NEW c \in Conn, NEW g \in todo[c], Send(c, g) PROVE f \in todo'[d] \/ Send(d, f)
  <2>1. CASE c = d /\ g = f
    BY <1>8, <2>1
  <2>2. CASE ~(c = d /\ g = f)
    BY <1>8, <2>2 DEF Send, Then
  <2>3. QED
    BY <2>1, <2>2
<1>9. ASSUME NEW t \in Session, Age(t) PROVE f \in todo'[d]
  BY <1>9 DEF Age, Then, Reading
<1>10. CASE UNCHANGED vars
  BY <1>10 DEF vars
<1>11. QED
  BY <1>1, <1>2, <1>3, <1>4, <1>5, <1>6, <1>7, <1>8, <1>9, <1>10 DEF Next, Connection, Handle

LEMMA ComingStays ==
  ASSUME TypeOK, TodoOK, [Next]_vars, NEW kind, NEW s \in Session, NEW x \in Conn,
         Coming(kind, s, x)
  PROVE  \/ Coming(kind, s, x)'
         \/ \E d \in Conn : \E f \in todo[d] :
              Send(d, f) /\ f.kind = kind /\ f.s = s /\ Aimed(d, f, x)
<1>1. PICK d \in Conn : \E f \in todo[d] : f.kind = kind /\ f.s = s /\ Aimed(d, f, x)
  BY DEF Coming
<1>2. PICK f \in todo[d] : f.kind = kind /\ f.s = s /\ Aimed(d, f, x)
  BY <1>1
<1>3. f \in todo'[d] \/ Send(d, f)
  BY TodoStays
<1>4. QED
  BY <1>2, <1>3 DEF Coming, Aimed

\* Whoever is there when a frame for it is sent hears it.
LEMMA SentIsHeard ==
  ASSUME TypeOK, NEW d \in Conn, NEW f \in todo[d], Send(d, f), NEW x \in Conn,
         Registered(x), Aimed(d, f, x), f.kind \in {"init", "accept"} => Live(f.s)
  PROVE  f.kind \in heard'[x][f.s]
<1>1. x \in Receivers(d, f)
  BY DEF Receivers, Aimed
<1>2. f.s \in Session
  BY DEF TypeOK, Frame
<1>3. QED
  BY <1>1, <1>2 DEF Send, Hear, TypeOK

\* What was heard stays heard while the connection lasts.
LEMMA HeardStays ==
  ASSUME TypeOK, [Next]_vars, NEW x \in Conn, NEW s \in Session, Registered(x)
  PROVE  heard[x][s] \subseteq heard'[x][s]
<1> USE DEF TypeOK, Registered
<1>1. ASSUME NEW c \in Conn, Register(c) PROVE heard[x][s] \subseteq heard'[x][s]
  BY <1>1 DEF Register
<1>2. ASSUME NEW c \in Conn, Replay(c) PROVE heard[x][s] \subseteq heard'[x][s]
  BY <1>2 DEF Replay
<1>3. ASSUME NEW c \in Conn, Unregister(c) PROVE heard[x][s] \subseteq heard'[x][s]
  BY <1>3 DEF Unregister
<1>4. ASSUME NEW c \in Conn, Cleanup(c) PROVE heard[x][s] \subseteq heard'[x][s]
  BY <1>4 DEF Cleanup
<1>5. ASSUME NEW c \in Conn, NEW t \in Session, NEW v \in User, HandleWhisperInit(c, t, v)
      PROVE  heard[x][s] \subseteq heard'[x][s]
  BY <1>5 DEF HandleWhisperInit
<1>6. ASSUME NEW c \in Conn, NEW t \in Session, HandleWhisperAccept(c, t)
      PROVE  heard[x][s] \subseteq heard'[x][s]
  BY <1>6 DEF HandleWhisperAccept
<1>7. ASSUME NEW c \in Conn, NEW t \in Session, HandleWhisperEnd(c, t)
      PROVE  heard[x][s] \subseteq heard'[x][s]
  BY <1>7 DEF HandleWhisperEnd
<1>8. ASSUME NEW c \in Conn, NEW f \in todo[c], Send(c, f)
      PROVE  heard[x][s] \subseteq heard'[x][s]
  BY <1>8 DEF Send, Hear
<1>9. ASSUME NEW t \in Session, Age(t) PROVE heard[x][s] \subseteq heard'[x][s]
  BY <1>9 DEF Age
<1>10. CASE UNCHANGED vars
  BY <1>10 DEF vars
<1>11. QED
  BY <1>1, <1>2, <1>3, <1>4, <1>5, <1>6, <1>7, <1>8, <1>9, <1>10 DEF Next, Connection, Handle

-----------------------------------------------------------------------------
(* Invites and ends reach those they are for. *)

LEMMA InviteStep ==
  TypeOK /\ TodoOK /\ InviteComes /\ [Next]_vars => InviteComes'
<1> SUFFICES ASSUME TypeOK, TodoOK, InviteComes, [Next]_vars,
                    NEW s \in Session, NEW x \in Conn,
                    Pending(s)', sess'[s].target = Owner(x), conn'[x] = "up"
             PROVE  "init" \in heard'[x][s] \/ Coming("init", s, x)'
  BY DEF InviteComes
<1> DEFINE Same == Pending(s) /\ sess[s].target = Owner(x) /\ conn[x] = "up"
           Goal == "init" \in heard'[x][s] \/ Coming("init", s, x)'
<1>1. ASSUME Same PROVE Goal
  <2>1. CASE "init" \in heard[x][s]
    BY <1>1, <2>1, HeardStays DEF Registered
  <2>2. CASE Coming("init", s, x)
    <3>1. ASSUME NEW d \in Conn, NEW f \in todo[d], Send(d, f), f.kind = "init", f.s = s,
                 Aimed(d, f, x)
          PROVE  "init" \in heard'[x][s]
      BY <1>1, <3>1, SentIsHeard DEF Registered, Pending
    <3>2. QED
      BY <2>2, <3>1, ComingStays
  <2>3. QED
    BY <1>1, <2>1, <2>2 DEF InviteComes
<1> USE DEF TypeOK
<1>2. ASSUME NEW c \in Conn, Replay(c) PROVE Goal
  <2>1. Pending(s) /\ sess[s].target = Owner(x) /\ s \notin Unreplayable(c)
    BY <1>2 DEF Replay, Pending, Live
  <2>2. CASE c # x
    BY <1>1, <1>2, <2>1, <2>2 DEF Replay
  <2>3. CASE c = x
    <3>1. ToSelf("init", s, x) \in todo'[x]
      BY <1>2, <2>1, <2>3 DEF Replay, Replayable, Then
    <3>2. QED
      BY <3>1 DEF Coming, Aimed, ToSelf
  <2>4. QED
    BY <2>2, <2>3
<1>3. ASSUME NEW c \in Conn, NEW t \in Session, NEW v \in User, HandleWhisperInit(c, t, v)
      PROVE  Goal
  <2>1. CASE t # s
    BY <1>1, <1>3, <2>1 DEF HandleWhisperInit, Pending, Live
  <2>2. CASE t = s
    <3>1. ToUser("init", s, v) \in todo'[c] /\ v = Owner(x)
      BY <1>3, <2>2 DEF HandleWhisperInit, Then
    <3>2. QED
      BY <3>1 DEF Coming, Aimed, ToUser
  <2>3. QED
    BY <2>1, <2>2
<1>4. ASSUME NEW c \in Conn, Register(c) PROVE Goal
  BY <1>1, <1>4 DEF Register, Pending, Live
<1>5. ASSUME NEW c \in Conn, Unregister(c) PROVE Goal
  BY <1>1, <1>5 DEF Unregister, Pending, Live
<1>6. ASSUME NEW c \in Conn, Cleanup(c) PROVE Goal
  BY <1>1, <1>6 DEF Cleanup, Remove, Pending, Live
<1>7. ASSUME NEW c \in Conn, NEW t \in Session, HandleWhisperAccept(c, t) PROVE Goal
  <2>1. CASE t # s
    BY <1>1, <1>7, <2>1 DEF HandleWhisperAccept, Pending, Live
  <2>2. CASE t = s
    <3>1. sess'[s] = [sess[s] EXCEPT !.pending = FALSE] /\ sess[s] \in Record
      BY <1>7, <2>2 DEF HandleWhisperAccept, Live
    <3>2. ~sess'[s].pending
      BY <3>1 DEF Record
    <3>3. QED
      BY <3>2 DEF Pending
  <2>3. QED
    BY <2>1, <2>2
<1>8. ASSUME NEW c \in Conn, NEW t \in Session, HandleWhisperEnd(c, t) PROVE Goal
  BY <1>1, <1>8 DEF HandleWhisperEnd, Remove, Pending, Live
<1>9. ASSUME NEW c \in Conn, NEW f \in todo[c], Send(c, f) PROVE Goal
  BY <1>1, <1>9 DEF Send, Remove, Pending, Live
<1>10. ASSUME NEW t \in Session, Age(t) PROVE Goal
  <2>1. CASE t # s
    BY <1>1, <1>10, <2>1 DEF Age, Pending, Live
  <2>2. CASE t = s
    <3>1. sess'[s] = [sess[s] EXCEPT !.old = TRUE] /\ sess[s] \in Record /\ Pending(s)
      BY <1>10, <2>2 DEF Age, Pending, Live
    <3>2. sess'[s].target = sess[s].target
      BY <3>1 DEF Record
    <3>3. QED
      BY <1>1, <1>10, <3>1, <3>2 DEF Age
  <2>3. QED
    BY <2>1, <2>2
<1>11. CASE UNCHANGED vars
  BY <1>1, <1>11 DEF vars, Pending, Live
<1>12. QED
  BY <1>2, <1>3, <1>4, <1>5, <1>6, <1>7, <1>8, <1>9, <1>10, <1>11
  DEF Next, Connection, Handle

LEMMA EndStep ==
  TypeOK /\ TodoOK /\ PartiesKept /\ EndedOK /\ AcceptOK /\ EndComes /\ [Next]_vars => EndComes'
<1> SUFFICES ASSUME TypeOK, TodoOK, PartiesKept, EndedOK, AcceptOK, EndComes, [Next]_vars,
                    NEW s \in Session, NEW x \in Conn,
                    Registered(x)', Knows(x, s)', ender'[s] \notin {None, Owner(x)},
                    heard'[x][s] \cap {"init", "accept"} # {}
             PROVE  "end" \in heard'[x][s] \/ Coming("end", s, x)'
  BY DEF EndComes
<1> DEFINE Same == /\ Registered(x) /\ Knows(x, s) /\ ender[s] = ender'[s]
                   /\ heard[x][s] \cap {"init", "accept"} # {}
           Goal == "end" \in heard'[x][s] \/ Coming("end", s, x)'
<1>1. ASSUME Same PROVE Goal
  <2>1. CASE "end" \in heard[x][s]
    BY <1>1, <2>1, HeardStays
  <2>2. CASE Coming("end", s, x)
    <3>1. ASSUME NEW d \in Conn, NEW f \in todo[d], Send(d, f), f.kind = "end", f.s = s,
                 Aimed(d, f, x)
          PROVE  "end" \in heard'[x][s]
      BY <1>1, <3>1, SentIsHeard
    <3>2. QED
      BY <2>2, <3>1, ComingStays
  <2>3. QED
    BY <1>1, <2>1, <2>2 DEF EndComes
\* Whoever ends a session that is there has a frame for the other party.
<1>2. ASSUME NEW c \in Conn, Live(s), Knows(x, s), ender'[s] = Owner(c),
             Owner(c) \in {sess[s].init, sess[s].target},
             ToUser("end", s, PeerOf(s, Owner(c))) \in todo'[c]
      PROVE  Goal
  <2>1. PeerOf(s, Owner(c)) = Owner(x)
    BY <1>2 DEF PeerOf, PartiesKept, Knows
  <2>2. QED
    BY <1>2, <2>1 DEF Coming, Aimed, ToUser
<1> USE DEF TypeOK, Knows, Registered
<1>3. ASSUME NEW c \in Conn, Register(c) PROVE Goal
  <2>1. CASE c = x
    BY <1>3, <2>1 DEF Register
  <2>2. CASE c # x
    BY <1>1, <1>3, <2>2 DEF Register
  <2>3. QED
    BY <2>1, <2>2
<1>4. ASSUME NEW c \in Conn, Replay(c) PROVE Goal
  BY <1>1, <1>4 DEF Replay
<1>5. ASSUME NEW c \in Conn, Unregister(c) PROVE Goal
  BY <1>1, <1>5 DEF Unregister
<1>6. ASSUME NEW c \in Conn, Cleanup(c) PROVE Goal
  <2>1. c # x /\ Registered(x) /\ Knows(x, s)
    BY <1>6 DEF Cleanup
  <2>2. CASE s \in SessionsOf(Owner(c))
    <3>1. ToUser("end", s, PeerOf(s, Owner(c))) \in todo'[c]
      BY <1>6, <2>2 DEF Cleanup, Then
    <3>2. ender'[s] = Owner(c)
      BY <1>6, <2>2 DEF Cleanup, Remove
    <3>3. QED
      BY <1>2, <2>1, <2>2, <3>1, <3>2 DEF SessionsOf
  <2>3. CASE s \notin SessionsOf(Owner(c))
    BY <1>1, <1>6, <2>1, <2>3 DEF Cleanup, Remove
  <2>4. QED
    BY <2>2, <2>3
<1>7. ASSUME NEW c \in Conn, NEW t \in Session, NEW v \in User, HandleWhisperInit(c, t, v)
      PROVE  Goal
  <2>1. t # s
    BY <1>7 DEF HandleWhisperInit, EndedOK
  <2>2. QED
    BY <1>1, <1>7, <2>1 DEF HandleWhisperInit
<1>8. ASSUME NEW c \in Conn, NEW t \in Session, HandleWhisperAccept(c, t) PROVE Goal
  BY <1>1, <1>8 DEF HandleWhisperAccept
<1>9. ASSUME NEW c \in Conn, NEW t \in Session, HandleWhisperEnd(c, t) PROVE Goal
  <2>1. Registered(x) /\ Knows(x, s)
    BY <1>9 DEF HandleWhisperEnd
  <2>2. CASE t = s
    <3>1. ToUser("end", s, PeerOf(s, Owner(c))) \in todo'[c] /\ ender'[s] = Owner(c) /\ Live(s)
      BY <1>9, <2>2 DEF HandleWhisperEnd, Then, Remove
    <3>2. Owner(c) \in {sess[s].init, sess[s].target}
      BY <1>9, <2>2, <3>1 DEF HandleWhisperEnd, PartiesKept
    <3>3. QED
      BY <1>2, <2>1, <3>1, <3>2
  <2>3. CASE t # s
    BY <1>1, <1>9, <2>1, <2>3 DEF HandleWhisperEnd, Remove
  <2>4. QED
    BY <2>2, <2>3
<1>10. ASSUME NEW c \in Conn, NEW f \in todo[c], Send(c, f) PROVE Goal
  <2>1. Registered(x) /\ Knows(x, s)
    BY <1>10 DEF Send
  <2>2. CASE ender'[s] # ender[s]
    <3>1. f.kind = "accept" /\ Receivers(c, f) = {} /\ f.s = s /\ ender'[s] = Owner(c)
      BY <1>10, <2>2 DEF Send, Remove
    <3>2. ~f.self /\ f.to = Owner(x)
      BY <2>1, <3>1 DEF AcceptOK
    <3>3. x \in Receivers(c, f)
      BY <2>1, <3>2 DEF Receivers
    <3>4. QED
      BY <3>1, <3>3
  <2>3. CASE ender'[s] = ender[s]
    <3>1. ~Live(s)
      BY <2>3 DEF EndedOK
    <3>2. heard[x][s] \cap {"init", "accept"} # {}
      BY <1>10, <3>1 DEF Send, Hear
    <3>3. QED
      BY <1>1, <2>1, <2>3, <3>2
  <2>4. QED
    BY <2>2, <2>3
<1>11. ASSUME NEW t \in Session, Age(t) PROVE Goal
  BY <1>1, <1>11 DEF Age
<1>12. CASE UNCHANGED vars
  BY <1>1, <1>12 DEF vars
<1>13. QED
  BY <1>3, <1>4, <1>5, <1>6, <1>7, <1>8, <1>9, <1>10, <1>11, <1>12
  DEF Next, Connection, Handle

RelayInv == TypeOK /\ PartiesKept /\ TodoOK /\ EndedOK /\ AcceptOK

LEMMA RelayInit == Init => RelayInv /\ InviteComes /\ EndComes
<1> SUFFICES ASSUME Init PROVE RelayInv /\ InviteComes /\ EndComes
  OBVIOUS
<1> USE DEF Init
<1>1. TypeOK
  BY DEF TypeOK
<1>2. PartiesKept /\ EndedOK /\ InviteComes
  BY DEF PartiesKept, EndedOK, InviteComes, Pending, Live
<1>3. TodoOK /\ AcceptOK /\ EndComes
  BY DEF TodoOK, AcceptOK, EndComes, Registered
<1>4. QED
  BY <1>1, <1>2, <1>3 DEF RelayInv

LEMMA RelayCorrect == Spec => []RelayInv
<1>1. Init => RelayInv
  BY RelayInit
<1>2. RelayInv /\ TypeOK' /\ [Next]_vars => RelayInv'
  <2>1. TypeOK /\ PartiesKept /\ [Next]_vars => PartiesKept'
    BY SessionSource DEF PartiesKept, Live
  <2>2. QED
    BY <2>1, TodoStep, EndedStep, AcceptStep DEF RelayInv
<1>3. QED
  BY <1>1, <1>2, TypeCorrect, PTL DEF Spec

\* A pending invite reaches every connection of its target, by the frame of the
\* initiator or by the replay, in whatever order the two sides register and look.
THEOREM InviteCorrect == Spec => []InviteNotLost
<1>1. RelayInv /\ InviteComes /\ [Next]_vars => InviteComes'
  BY InviteStep DEF RelayInv
<1>2. InviteComes => InviteNotLost
  BY DEF InviteComes, InviteNotLost, Coming, Sending
<1>3. QED
  BY <1>1, <1>2, RelayInit, RelayCorrect, PTL DEF Spec

\* Whoever was invited or accepted hears of the end that somebody else made, from
\* the handler or the cleanup that ended the session.
THEOREM EndCorrect == Spec => []PeerHearsTheEnd
<1>1. RelayInv /\ EndComes /\ [Next]_vars => EndComes'
  BY EndStep DEF RelayInv
<1>2. EndComes => PeerHearsTheEnd
  BY DEF EndComes, PeerHearsTheEnd, Coming, Sending, Registered
<1>3. QED
  BY <1>1, <1>2, RelayInit, RelayCorrect, PTL DEF Spec
=============================================================================
