---------------------------- MODULE Client_proofs ----------------------------
(***************************************************************************)
(* Proofs about three parts of the system that share no state.             *)
(*                                                                         *)
(* CallClient, for any set of channels and any bounds: what is captured    *)
(* and open is in the hands of the manager, the call is on the screen, and *)
(* who is called hears it. Together the three are inductive on what        *)
(* ShapeInv says of the manager's own state.                               *)
(*                                                                         *)
(* SocketManager, for any number of tabs, URLs and sockets: its types and  *)
(* its three safety properties. What makes them inductive is that a        *)
(* manager which was told to disconnect has no current socket.             *)
(*                                                                         *)
(* Chat, for any number of users, devices and messages and any capacities: *)
(* its types, and the order of what goes to a device, which is inductive   *)
(* once it says what handlers, queue, dispatch, buffers and the client     *)
(* hold of a message, and what was made of it by then (MadeInv, OrderInv). *)
(* On top of that, that the page a settled client shows is true: at any    *)
(* moment what the client has, opens and is to receive leads there         *)
(* (MemberInv, LastInv, PageInv).                                          *)
(***************************************************************************)
EXTENDS CallClient, SocketManager, Chat, FiniteSetTheorems, TLAPS

USE ChannelAssumption, KindAssumption, BoundAssumption

\* A connection belongs to a call; isConnecting is set as long as the call is not left.
ShapeInv ==
  /\ connecting \in BOOLEAN /\ (connecting <=> chan # None) /\ chan \in Channel \cup {None}
  /\ pc # 0 => chan # None
  /\ 0 \notin open /\ pcs \in Nat
  /\ held \in [Kind -> Track \cup {0}] /\ live \subseteq Track
  /\ inbox \in Seq(Channel)
  /\ roster \in [Direct -> Users]
  /\ incoming \in Direct \cup {None}
  /\ gone \subseteq Channel /\ loaded \in BOOLEAN

LEMMA ShapeInit == Init => ShapeInv
<1> SUFFICES ASSUME Init PROVE ShapeInv
  OBVIOUS
<1>1. held \in [Kind -> Track \cup {0}] /\ roster \in [Direct -> Users]
  BY DEF Init, Users
<1>2. inbox \in Seq(Channel)
  BY DEF Init
<1>3. QED
  BY <1>1, <1>2 DEF Init, ShapeInv

\* What a join does, where it does anything.
LEMMA JoinCases ==
  ASSUME ShapeInv, NEW ch \in Channel, Join(ch)
  PROVE  \/ /\ UNCHANGED <<manager, active, status, roster, inbox, joins>>
         \/ /\ chan = None /\ pc = 0 /\ chan' = ch /\ connecting' = TRUE /\ active' = ch
            /\ roster' = [c \in Direct |-> IF c = ch /\ roster[c] = "nobody" THEN "me" ELSE roster[c]]
            /\ inbox' = Append(inbox, ch)
            /\ UNCHANGED <<pc, open, vad>>
  BY DEF Join, ShapeInv

LEMMA ShapeJoin ==
  ASSUME ShapeInv, NEW ch \in Channel, Join(ch),
         UNCHANGED <<tracks, gone, loaded, pcs>>, incoming' \in {incoming, None}
  PROVE  ShapeInv'
<1>1. CASE UNCHANGED <<manager, active, status, roster, inbox, joins>>
  BY <1>1 DEF ShapeInv, manager, tracks
<1>2. CASE /\ chan = None /\ pc = 0 /\ chan' = ch /\ connecting' = TRUE /\ active' = ch
           /\ roster' = [c \in Direct |-> IF c = ch /\ roster[c] = "nobody" THEN "me" ELSE roster[c]]
           /\ inbox' = Append(inbox, ch)
           /\ UNCHANGED <<pc, open, vad>>
  <2>1. roster' \in [Direct -> Users]
    BY <1>2 DEF ShapeInv, Users
  <2>2. inbox' \in Seq(Channel)
    BY <1>2 DEF ShapeInv
  <2>3. QED
    BY <1>2, <2>1, <2>2 DEF ShapeInv, tracks
<1>3. QED
  BY <1>1, <1>2, JoinCases

LEMMA ShapeLeave ==
  ASSUME ShapeInv, Leave, inbox' \in Seq(Channel)
  PROVE  ShapeInv'
<1>1. held' \in [Kind -> Track \cup {0}] /\ live' \subseteq Track
  BY DEF Leave, Released, Stopped, ShapeInv
<1>2. roster' \in [Direct -> Users]
  BY DEF Leave, LeaveVoice, ShapeInv, Users
<1>3. QED
  BY <1>1, <1>2 DEF Leave, LeaveVoice, ShapeInv, bounds

LEMMA ShapeStep == ShapeInv /\ [Next]_vars => ShapeInv'
<1> SUFFICES ASSUME ShapeInv, [Next]_vars PROVE ShapeInv'
  OBVIOUS
<1>1. ASSUME NEW ch \in Channel, StartVoice(ch) PROVE ShapeInv'
  BY <1>1, ShapeJoin DEF StartVoice
<1>2. ASSUME NEW ch \in Channel, ChannelDelete(ch) PROVE ShapeInv'
  <2>1. CASE active = ch
    <3>1. roster' \in [Direct -> Users]
      BY <1>2, <2>1 DEF ChannelDelete, LeaveVoice, ShapeInv, Users
    <3>2. QED
      BY <1>2, <2>1, <3>1 DEF ChannelDelete, LeaveVoice, ShapeInv, manager, tracks, bounds
  <2>2. CASE active # ch
    <3>1. incoming' \in Direct \cup {None}
      BY <1>2, <2>2 DEF ChannelDelete, RingAgain, Ringing, Called, ShapeInv
    <3>2. QED
      BY <1>2, <2>2, <3>1 DEF ChannelDelete, ShapeInv, manager, tracks, bounds
  <2>3. QED
    BY <2>1, <2>2
<1>3. CASE HangUp
  BY <1>3, ShapeLeave DEF HangUp, ShapeInv
<1>4. CASE Ignore
  BY <1>4 DEF Ignore, Receives, ShapeInv, manager, tracks, ring, bounds
<1>5. CASE HandleCallError
  <2>1. inbox' \in Seq(Channel)
    BY <1>5 DEF HandleCallError, Receives, ShapeInv
  <2>2. QED
    BY <1>5, <2>1, ShapeLeave DEF HandleCallError
<1>6. CASE HandleCallJoined
  <2>1. Head(inbox) \in Channel /\ Tail(inbox) \in Seq(Channel)
    BY <1>6 DEF HandleCallJoined, Receives, ShapeInv
  <2>2. QED
    BY <1>6, <2>1 DEF HandleCallJoined, Receives, ShapeInv, tracks, ring, bounds
<1>7. ASSUME NEW w \in flight, MicGranted(w) PROVE ShapeInv'
  BY <1>7 DEF MicGranted, Capture, Free, ShapeInv, ring, bounds
<1>8. ASSUME NEW w \in flight, MicDenied(w) PROVE ShapeInv'
  BY <1>8 DEF MicDenied, ShapeInv, tracks, ring, bounds
<1>9. ASSUME NEW w \in flight, OfferSent(w) \/ Denied(w) PROVE ShapeInv'
  BY <1>9 DEF OfferSent, Denied, ShapeInv, manager, tracks, ring, bounds
<1>10. ASSUME NEW w \in flight, Granted(w) PROVE ShapeInv'
  <2>1. held' \in [Kind -> Track \cup {0}] /\ live' \subseteq Track
    BY <1>10 DEF Granted, Capture, Free, ShapeInv
  <2>2. QED
    BY <1>10, <2>1 DEF Granted, ShapeInv, manager, ring, bounds
<1>11. CASE ToggleMute
  BY <1>11 DEF ToggleMute, ShapeInv, manager, ring, bounds
<1>12. ASSUME NEW k \in Kind, ToggleOff(k) PROVE ShapeInv'
  <2>1. held' \in [Kind -> Track \cup {0}] /\ live' \subseteq Track
    BY <1>12 DEF ToggleOff, ShapeInv
  <2>2. QED
    BY <1>12, <2>1 DEF ToggleOff, ShapeInv, manager, ring, bounds
<1>13. ASSUME NEW k \in Kind, Ask(k) PROVE ShapeInv'
  BY <1>13 DEF Ask, ShapeInv, manager, tracks, ring, bounds
<1>14. ASSUME NEW ch \in Direct, NEW users \in Users, VoiceUpdate(ch, users) PROVE ShapeInv'
  <2>1. roster' \in [Direct -> Users] /\ incoming' \in Direct \cup {None}
    BY <1>14 DEF VoiceUpdate, Dismissed, ShapeInv
  <2>2. QED
    BY <1>14, <2>1 DEF VoiceUpdate, ShapeInv, manager, tracks, bounds
<1>15. CASE ChannelsChanged
  <2>1. incoming' \in Direct \cup {None}
    BY <1>15 DEF ChannelsChanged, RingAgain, Ringing, Called, ShapeInv
  <2>2. QED
    BY <1>15, <2>1 DEF ChannelsChanged, ShapeInv, manager, tracks, bounds
<1>16. CASE Decline
  BY <1>16 DEF Decline, DismissIncomingCall, ShapeInv, manager, tracks, bounds
<1>17. CASE Accept
  <2>1. incoming \in Channel /\ incoming' = None
    BY <1>17 DEF Accept, DismissIncomingCall, ShapeInv
  <2>2. QED
    BY <1>17, <2>1, ShapeJoin DEF Accept
<1>18. CASE UNCHANGED vars
  BY <1>18 DEF vars, ShapeInv, manager, tracks, ring, bounds
<1>19. QED
  BY <1>1, <1>2, <1>3, <1>4, <1>5, <1>6, <1>7, <1>8, <1>9, <1>10, <1>11, <1>12, <1>13, <1>14,
     <1>15, <1>16, <1>17, <1>18 DEF Next

-----------------------------------------------------------------------------
(* What is captured and open *)

LEMMA HeldInit == Init => CapturesAreHeld
  BY DEF Init, CapturesAreHeld

LEMMA HeldStep == ShapeInv /\ CapturesAreHeld /\ [Next]_vars => CapturesAreHeld'
<1> SUFFICES ASSUME ShapeInv, CapturesAreHeld, [Next]_vars PROVE CapturesAreHeld'
  OBVIOUS
<1> USE DEF CapturesAreHeld
<1>1. ASSUME UNCHANGED <<mic, held, live, pc, open, stray, replaced>> PROVE CapturesAreHeld'
  BY <1>1
<1>2. ASSUME NEW ch \in Channel, Join(ch), UNCHANGED <<tracks, stray, replaced>> PROVE CapturesAreHeld'
  <2>1. UNCHANGED <<pc, open>>
    BY <1>2 DEF Join, manager
  <2>2. QED
    BY <1>1, <1>2, <2>1 DEF tracks
<1>3. ASSUME NEW ch \in Channel, StartVoice(ch) PROVE CapturesAreHeld'
  BY <1>2, <1>3 DEF StartVoice, history
<1>4. CASE Accept
  <2>1. incoming \in Channel
    BY <1>4 DEF Accept, DismissIncomingCall, ShapeInv
  <2>2. QED
    BY <1>2, <1>4, <2>1 DEF Accept, history
<1>5. CASE Leave
  <2>1. live' \ stray' \subseteq {} /\ open' \ replaced' \subseteq {}
    BY <1>5 DEF Leave, Stopped
  <2>2. QED
    BY <2>1
<1>6. CASE HandleCallJoined
  <2>1. UNCHANGED <<mic, held, live, stray>>
    BY <1>6 DEF HandleCallJoined, tracks
  <2>2. open' \ replaced' \subseteq {pc'}
    BY <1>6 DEF HandleCallJoined, ShapeInv
  <2>3. QED
    BY <2>1, <2>2
<1>7. ASSUME NEW w \in flight, MicGranted(w) PROVE CapturesAreHeld'
  <2> PICK t \in Track : Capture(w, t, mic) /\ mic' = t
    BY <1>7 DEF MicGranted
  <2>1. UNCHANGED <<held, pc, open, replaced>>
    BY <1>7 DEF MicGranted
  <2>2. QED
    BY <2>1, <1>7 DEF Capture, Free, Track, ShapeInv
<1>8. ASSUME NEW w \in flight, Granted(w) PROVE CapturesAreHeld'
  <2> PICK t \in Track : Capture(w, t, held[w.op]) /\ held' = [held EXCEPT ![w.op] = t]
    BY <1>8 DEF Granted
  <2>1. UNCHANGED <<mic, pc, open, replaced>> /\ w.op \in Kind
    BY <1>8 DEF Granted, manager
  <2>2. t \in Nat /\ t # 0 /\ 0 \notin live
    BY DEF Track, ShapeInv
  <2>3. live' = live \cup {t} /\ stray \cup ({held[w.op]} \ {0}) \subseteq stray'
    BY DEF Capture
  <2>4. held'[w.op] = t /\ \A k \in Kind \ {w.op} : held'[k] = held[k]
    BY <2>1 DEF ShapeInv
  <2>5. live' \ stray' \subseteq {mic'} \cup {held'[k] : k \in Kind}
    <3> SUFFICES ASSUME NEW x \in live', x \notin stray'
                 PROVE  x \in {mic'} \cup {held'[k] : k \in Kind}
      OBVIOUS
    <3>1. CASE x = t
      BY <2>1, <2>4, <3>1
    <3>2. CASE x # t
      <4>1. x \in live \ stray /\ x # held[w.op]
        BY <2>2, <2>3, <3>2
      <4>2. x = mic \/ \E k \in Kind \ {w.op} : x = held[k]
        BY <4>1
      <4>3. QED
        BY <2>1, <2>4, <4>2
    <3>3. QED
      BY <3>1, <3>2
  <2>6. QED
    BY <2>1, <2>5
<1>9. ASSUME NEW k \in Kind, ToggleOff(k) PROVE CapturesAreHeld'
  <2>1. UNCHANGED <<mic, pc, open, replaced>>
    BY <1>9 DEF ToggleOff, manager
  <2>2. held'[k] = 0 /\ \A j \in Kind \ {k} : held'[j] = held[j]
    BY <1>9 DEF ToggleOff, ShapeInv
  <2>3. live' = live \ {held[k]} /\ stray' = stray \ {held[k]}
    BY <1>9 DEF ToggleOff
  <2>4. ASSUME NEW x \in live' \ stray' PROVE x \in {mic'} \cup {held'[j] : j \in Kind}
    <3>1. x \in live \ stray /\ x # held[k]
      BY <2>3
    <3>2. x = mic \/ \E j \in Kind \ {k} : x = held[j]
      BY <3>1
    <3>3. QED
      BY <2>1, <2>2, <3>2
  <2>5. open' \ replaced' \subseteq {pc'}
    BY <2>1
  <2>6. QED
    BY <2>4, <2>5
<1>10. ASSUME NEW ch \in Channel, ChannelDelete(ch) PROVE CapturesAreHeld'
  BY <1>1, <1>10 DEF ChannelDelete, manager, tracks, history
<1>11. CASE HangUp \/ HandleCallError
  BY <1>5, <1>11 DEF HangUp, HandleCallError
<1>12. CASE Ignore \/ ChannelsChanged \/ Decline
  BY <1>1, <1>12 DEF Ignore, ChannelsChanged, Decline, manager, tracks, history
<1>13. ASSUME NEW w \in flight, MicDenied(w) PROVE CapturesAreHeld'
  BY <1>1, <1>13 DEF MicDenied, tracks
<1>14. ASSUME NEW w \in flight, OfferSent(w) \/ Denied(w) PROVE CapturesAreHeld'
  BY <1>1, <1>14 DEF OfferSent, Denied, manager, tracks, history
<1>15. CASE ToggleMute
  BY <1>1, <1>15 DEF ToggleMute, manager
<1>16. ASSUME NEW k \in Kind, Ask(k) PROVE CapturesAreHeld'
  BY <1>1, <1>16 DEF Ask, manager, tracks, history
<1>17. ASSUME NEW ch \in Direct, NEW users \in Users, VoiceUpdate(ch, users) PROVE CapturesAreHeld'
  BY <1>1, <1>17 DEF VoiceUpdate, manager, tracks, history
<1>18. CASE UNCHANGED vars
  BY <1>1, <1>18 DEF vars, manager, tracks, history
<1>19. QED
  BY <1>3, <1>4, <1>6, <1>7, <1>8, <1>9, <1>10, <1>11, <1>12, <1>13, <1>14, <1>15, <1>16, <1>17,
     <1>18 DEF Next

\* Every captured device and every open connection can be released by hanging up, however joins, answers,
\* grants and hang-ups interleave, apart from those that went astray.
THEOREM HeldCorrect == Spec => []CapturesAreHeld
<1>1. QED
  BY ShapeInit, ShapeStep, HeldInit, HeldStep, PTL DEF Spec

-----------------------------------------------------------------------------
(* The call on the screen *)

LEMMA ScreenInit == Init => CallIsOnScreen
  BY DEF Init, CallIsOnScreen

LEMMA ScreenStep == ShapeInv /\ CallIsOnScreen /\ [Next]_vars => CallIsOnScreen'
<1> SUFFICES ASSUME ShapeInv, CallIsOnScreen, [Next]_vars PROVE CallIsOnScreen'
  OBVIOUS
<1> USE DEF CallIsOnScreen
<1>1. ASSUME NEW ch \in Channel, Join(ch), UNCHANGED <<gone, on>> PROVE CallIsOnScreen'
  <2>1. \/ UNCHANGED <<manager, active>>
        \/ chan' = ch /\ active' = ch /\ ch # None
    BY <1>1, JoinCases
  <2>2. QED
    BY <1>1, <2>1 DEF manager
<1>2. ASSUME NEW ch \in Channel, StartVoice(ch) PROVE CallIsOnScreen'
  BY <1>1, <1>2 DEF StartVoice
<1>3. CASE Accept
  <2>1. incoming \in Channel
    BY <1>3 DEF Accept, DismissIncomingCall, ShapeInv
  <2>2. QED
    BY <1>1, <1>3, <2>1 DEF Accept
<1>4. CASE HangUp \/ HandleCallError
  BY <1>4 DEF HangUp, HandleCallError, Leave, LeaveVoice
<1>5. ASSUME NEW ch \in Channel, ChannelDelete(ch) PROVE CallIsOnScreen'
  <2>1. CASE active = ch
    BY <1>5, <2>1 DEF ChannelDelete, LeaveVoice, manager
  <2>2. CASE active # ch
    BY <1>5, <2>2 DEF ChannelDelete, manager, store
  <2>3. QED
    BY <2>1, <2>2
<1>6. ASSUME NEW w \in flight, Granted(w) PROVE CallIsOnScreen'
  <2>1. UNCHANGED <<chan, pc, active, gone>> /\ (pc = 0 => on' = on)
    BY <1>6 DEF Granted, manager, ring
  <2>2. QED
    BY <2>1 DEF ShapeInv
<1>7. ASSUME NEW k \in Kind, ToggleOff(k) PROVE CallIsOnScreen'
  BY <1>7 DEF ToggleOff, manager, ring
<1>8. CASE HandleCallJoined \/ ToggleMute
  BY <1>8 DEF HandleCallJoined, ToggleMute, manager, store, ring
<1>9. CASE Ignore \/ ChannelsChanged \/ Decline
  BY <1>9 DEF Ignore, ChannelsChanged, Decline, manager, store, ring
<1>10. ASSUME NEW w \in flight, MicGranted(w) \/ MicDenied(w) PROVE CallIsOnScreen'
  BY <1>10 DEF MicGranted, MicDenied, ring
<1>11. ASSUME NEW w \in flight, OfferSent(w) \/ Denied(w) PROVE CallIsOnScreen'
  BY <1>11 DEF OfferSent, Denied, manager, store, ring
<1>12. ASSUME NEW k \in Kind, Ask(k) PROVE CallIsOnScreen'
  BY <1>12 DEF Ask, manager, store, ring
<1>13. ASSUME NEW ch \in Direct, NEW users \in Users, VoiceUpdate(ch, users) PROVE CallIsOnScreen'
  BY <1>13 DEF VoiceUpdate, manager, store
<1>14. CASE UNCHANGED vars
  BY <1>14 DEF vars, manager, store, ring
<1>15. QED
  BY <1>2, <1>3, <1>4, <1>5, <1>6, <1>7, <1>8, <1>9, <1>10, <1>11, <1>12, <1>13, <1>14 DEF Next

\* The call the manager is in is the one the screen shows, whatever answers, refusals and joins come in
\* which order, until its channel is deleted.
THEOREM ScreenCorrect == Spec => []CallIsOnScreen
<1>1. QED
  BY ShapeInit, ShapeStep, ScreenInit, ScreenStep, PTL DEF Spec

-----------------------------------------------------------------------------
(* Ringing *)

\* What the client itself goes by: a call that is not remembered as handled rings.
RingsUnhandled ==
  \A ch \in Direct :
    /\ Rings(ch, roster[ch], Listed) /\ ch \notin silenced => incoming = ch
    /\ incoming = ch => roster[ch] # "nobody"

LEMMA RingInit == Init => RingsUnhandled
  BY DEF Init, RingsUnhandled, Rings, Listed

\* A join takes its channel from those that may ring and adds none.
LEMMA RingJoin ==
  ASSUME ShapeInv, CallIsOnScreen, RingsUnhandled, NEW ch \in Channel, Join(ch),
         UNCHANGED <<incoming, handled, silenced, loaded, gone>>
  PROVE  RingsUnhandled'
<1>1. CASE UNCHANGED <<manager, active, status, roster, inbox, joins>>
  BY <1>1 DEF RingsUnhandled, Rings, Listed
<1>2. CASE /\ chan = None /\ active' = ch
           /\ roster' = [c \in Direct |-> IF c = ch /\ roster[c] = "nobody" THEN "me" ELSE roster[c]]
  <2>1. active = None /\ Listed' = Listed
    BY <1>2 DEF CallIsOnScreen, ShapeInv, Listed
  <2>2. \A c \in Direct : Rings(c, roster[c], Listed)' => Rings(c, roster[c], Listed)
    BY <1>2, <2>1 DEF Rings, ShapeInv
  <2>3. \A c \in Direct : roster'[c] = "nobody" => roster[c] = "nobody"
    BY <1>2
  <2>4. QED
    BY <2>2, <2>3 DEF RingsUnhandled
<1>3. QED
  BY <1>1, <1>2, JoinCases

\* Looking at every roster leaves one ring, and the others silenced.
LEMMA RingAgainRings ==
  ASSUME ShapeInv, RingsUnhandled, NEW listed, RingAgain(listed), Listed' = listed,
         UNCHANGED <<roster, active, handled>>
  PROVE  RingsUnhandled'
<1>1. \A c \in Direct : Rings(c, roster[c], Listed)' <=> c \in Called(listed)
  BY DEF Rings, Called
<1>2. CASE Called(listed) = {}
  BY <1>1, <1>2 DEF RingAgain, Ringing, RingsUnhandled
<1>3. CASE Called(listed) # {}
  <2>1. incoming' \in Called(listed) /\ silenced' = Called(listed) \ {incoming'}
    BY <1>3 DEF RingAgain, Ringing
  <2>2. roster[incoming'] = "caller"
    BY <2>1 DEF Called, Rings
  <2>3. QED
    BY <1>1, <2>1, <2>2 DEF RingsUnhandled
<1>4. QED
  BY <1>2, <1>3

\* The end of a call silences whatever rings.
LEMMA RingLeave ==
  ASSUME ShapeInv, RingsUnhandled, NEW ringing, LeaveVoice(ringing), Listed' \subseteq Listed,
         incoming \in ringing
  PROVE  RingsUnhandled'
<1>1. ASSUME NEW c \in Direct, Rings(c, roster[c], Listed)' PROVE c \in silenced'
  <2>1. c # active /\ c \notin handled
    BY <1>1 DEF Rings, LeaveVoice
  <2>2. roster'[c] = roster[c]
    BY <2>1 DEF LeaveVoice
  <2>3. Rings(c, roster[c], Listed)
    BY <1>1, <2>1, <2>2 DEF Rings
  <2>4. c \in silenced \/ c = incoming
    BY <2>3 DEF RingsUnhandled
  <2>5. c # None
    OBVIOUS
  <2>6. QED
    BY <2>1, <2>4, <2>5 DEF LeaveVoice
<1>2. \A c \in Direct : incoming' # c
  BY DEF LeaveVoice
<1>3. QED
  BY <1>1, <1>2 DEF RingsUnhandled

LEMMA RingStep == ShapeInv /\ CallIsOnScreen /\ RingsUnhandled /\ [Next]_vars => RingsUnhandled'
<1> SUFFICES ASSUME ShapeInv, CallIsOnScreen, RingsUnhandled, [Next]_vars PROVE RingsUnhandled'
  OBVIOUS
<1>1. ASSUME UNCHANGED <<incoming, roster, active, handled, silenced, loaded, gone>>
      PROVE  RingsUnhandled'
  BY <1>1 DEF RingsUnhandled, Rings, Listed
<1>2. ASSUME NEW ch \in Channel, StartVoice(ch) PROVE RingsUnhandled'
  BY <1>2, RingJoin DEF StartVoice
<1>3. CASE Accept
  <2>1. incoming \in Channel /\ incoming \in Direct
    BY <1>3 DEF Accept, DismissIncomingCall, ShapeInv
  <2>2. incoming' = None /\ handled' = handled \cup {incoming} /\ Join(incoming)
        /\ UNCHANGED <<loaded, gone, silenced>>
    BY <1>3 DEF Accept, DismissIncomingCall
  <2>3. Listed' = Listed
    BY <2>2 DEF Listed
  <2>4. \A c \in Direct : Rings(c, roster[c], Listed)' => Rings(c, roster[c], Listed) /\ c # incoming
    <3>1. CASE UNCHANGED <<manager, active, status, roster, inbox, joins>>
      BY <2>2, <2>3, <3>1 DEF Rings
    <3>2. CASE /\ chan = None /\ active' = incoming
               /\ roster' = [c \in Direct |-> IF c = incoming /\ roster[c] = "nobody" THEN "me"
                                              ELSE roster[c]]
      <4>1. active = None
        BY <3>2 DEF CallIsOnScreen, ShapeInv
      <4>2. QED
        BY <2>2, <2>3, <3>2, <4>1 DEF Rings
    <3>3. QED
      BY <2>1, <2>2, <3>1, <3>2, JoinCases
  <2>5. QED
    BY <2>2, <2>4 DEF RingsUnhandled
<1>4. CASE HangUp \/ HandleCallError
  <2>1. LeaveVoice({incoming}) /\ UNCHANGED <<loaded, gone>>
    BY <1>4 DEF HangUp, HandleCallError, Leave
  <2>2. Listed' \subseteq Listed
    BY <2>1 DEF Listed
  <2>3. QED
    BY <2>1, <2>2, RingLeave
<1>5. ASSUME NEW ch \in Channel, ChannelDelete(ch) PROVE RingsUnhandled'
  <2>1. Listed' = Listed \ {ch}
    BY <1>5 DEF ChannelDelete, Listed
  <2>2. CASE active = ch
    BY <1>5, <2>1, <2>2, RingLeave DEF ChannelDelete
  <2>3. CASE active # ch
    BY <1>5, <2>1, <2>3, RingAgainRings DEF ChannelDelete, store
  <2>4. QED
    BY <2>2, <2>3
<1>6. CASE ChannelsChanged
  <2>1. Listed' = Channel \ gone
    BY <1>6 DEF ChannelsChanged, Listed
  <2>2. QED
    BY <1>6, <2>1, RingAgainRings DEF ChannelsChanged, store
<1>7. CASE Decline
  <2>1. \A c \in Direct : Rings(c, roster[c], Listed)' => Rings(c, roster[c], Listed) /\ c # incoming
    BY <1>7 DEF Decline, DismissIncomingCall, store, Rings, Listed
  <2>2. QED
    BY <1>7, <2>1 DEF Decline, DismissIncomingCall, RingsUnhandled
<1>8. ASSUME NEW ch \in Direct, NEW users \in Users, VoiceUpdate(ch, users) PROVE RingsUnhandled'
  <2>1. /\ roster' = [roster EXCEPT ![ch] = users] /\ Listed' = Listed /\ active' = active
        /\ silenced' = (silenced \cup {incoming}) \ {incoming', ch, None}
    BY <1>8 DEF VoiceUpdate, store, Listed
  <2>2. ASSUME NEW c \in Direct \ {ch}
        PROVE  /\ Rings(c, roster[c], Listed)' /\ c \notin silenced' => incoming' = c
               /\ incoming' = c => roster'[c] # "nobody"
    <3>1. roster'[c] = roster[c] /\ (c \in handled' <=> c \in handled)
      BY <1>8, <2>1, <2>2 DEF VoiceUpdate, ResetHandled, Ended, ShapeInv
    <3>2. Rings(c, roster[c], Listed)' => Rings(c, roster[c], Listed)
      BY <2>1, <3>1 DEF Rings
    <3>3. c # None /\ (incoming' = c => incoming = c)
      BY <1>8, <2>2 DEF VoiceUpdate, Dismissed
    <3>4. QED
      BY <2>1, <2>2, <3>1, <3>2, <3>3 DEF RingsUnhandled
  <2>3. /\ Rings(ch, roster[ch], Listed)' => incoming' = ch
        /\ incoming' = ch => roster'[ch] # "nobody"
    <3>1. roster'[ch] = users
      BY <2>1 DEF ShapeInv
    <3>2. CASE users = "nobody"
      BY <1>8, <3>1, <3>2 DEF VoiceUpdate, Dismissed, Rings
    <3>3. CASE users # "nobody"
      BY <1>8, <2>1, <3>1, <3>3 DEF VoiceUpdate, Rings
    <3>4. QED
      BY <3>2, <3>3
  <2>4. QED
    BY <2>2, <2>3 DEF RingsUnhandled
<1>9. CASE HandleCallJoined \/ ToggleMute \/ Ignore
  BY <1>1, <1>9 DEF HandleCallJoined, ToggleMute, Ignore, store, ring
<1>10. ASSUME NEW w \in flight, MicGranted(w) \/ MicDenied(w) \/ Granted(w) PROVE RingsUnhandled'
  BY <1>1, <1>10 DEF MicGranted, MicDenied, Granted, ring
<1>11. ASSUME NEW w \in flight, OfferSent(w) \/ Denied(w) PROVE RingsUnhandled'
  BY <1>1, <1>11 DEF OfferSent, Denied, store, ring
<1>12. ASSUME NEW k \in Kind, ToggleOff(k) \/ Ask(k) PROVE RingsUnhandled'
  BY <1>1, <1>12 DEF ToggleOff, Ask, store, ring
<1>13. CASE UNCHANGED vars
  BY <1>1, <1>13 DEF vars, store, ring
<1>14. QED
  BY <1>2, <1>3, <1>4, <1>5, <1>6, <1>7, <1>8, <1>9, <1>10, <1>11, <1>12, <1>13 DEF Next

\* What is remembered was dealt with or missed.
Remembered == \A ch \in Direct : ch \in handled => ch \in answered \cup missed

LEMMA RememberInit == Init => Remembered
  BY DEF Init, Remembered

LEMMA RememberStep == ShapeInv /\ Remembered /\ [Next]_vars => Remembered'
<1> SUFFICES ASSUME ShapeInv, Remembered, [Next]_vars PROVE Remembered'
  OBVIOUS
<1>1. ASSUME UNCHANGED <<handled, calls>> PROVE Remembered'
  BY <1>1 DEF Remembered, calls
<1>2. ASSUME NEW ringing, LeaveVoice(ringing) PROVE Remembered'
  BY <1>2 DEF LeaveVoice, Remembered
<1>3. ASSUME DismissIncomingCall PROVE Remembered'
  BY <1>3 DEF DismissIncomingCall, Remembered
<1>4. ASSUME NEW ch \in Channel, StartVoice(ch) PROVE Remembered'
  BY <1>1, <1>4 DEF StartVoice
<1>5. CASE HangUp \/ HandleCallError
  BY <1>2, <1>5 DEF HangUp, HandleCallError, Leave
<1>6. ASSUME NEW ch \in Channel, ChannelDelete(ch) PROVE Remembered'
  BY <1>1, <1>2, <1>6 DEF ChannelDelete
<1>7. CASE Decline \/ Accept
  BY <1>3, <1>7 DEF Decline, Accept
<1>8. ASSUME NEW ch \in Direct, NEW users \in Users, VoiceUpdate(ch, users) PROVE Remembered'
  <2>1. CASE users = "nobody"
    BY <1>8, <2>1 DEF VoiceUpdate, ResetHandled, Ended, Remembered
  <2>2. CASE users # "nobody"
    BY <1>1, <1>8, <2>2 DEF VoiceUpdate
  <2>3. QED
    BY <2>1, <2>2
<1>9. CASE HandleCallJoined \/ ToggleMute \/ Ignore \/ ChannelsChanged
  BY <1>1, <1>9 DEF HandleCallJoined, ToggleMute, Ignore, ChannelsChanged, ring
<1>10. ASSUME NEW w \in flight, MicGranted(w) \/ MicDenied(w) \/ Granted(w) PROVE Remembered'
  BY <1>1, <1>10 DEF MicGranted, MicDenied, Granted, ring
<1>11. ASSUME NEW w \in flight, OfferSent(w) \/ Denied(w) PROVE Remembered'
  BY <1>1, <1>11 DEF OfferSent, Denied, ring
<1>12. ASSUME NEW k \in Kind, ToggleOff(k) \/ Ask(k) PROVE Remembered'
  BY <1>1, <1>12 DEF ToggleOff, Ask, ring
<1>13. CASE UNCHANGED vars
  BY <1>1, <1>13 DEF vars, ring
<1>14. QED
  BY <1>4, <1>5, <1>6, <1>7, <1>8, <1>9, <1>10, <1>11, <1>12, <1>13 DEF Next

\* With any number of direct conversations, a call that was not answered, declined or silenced by another
\* rings, unless the one before it was missed, in whatever order rosters, the channel list and the user's own
\* calls come; what is remembered of a call is forgotten when it ends, and none rings with nobody in it.
THEOREM RingCorrect == Spec => []RingsWhileCalled
<1>1. RingsUnhandled /\ Remembered => RingsWhileCalled
  BY DEF RingsUnhandled, Remembered, RingsWhileCalled, Rings
<1>2. QED
  BY <1>1, ShapeInit, ShapeStep, ScreenInit, ScreenStep, RingInit, RingStep, RememberInit, RememberStep,
     PTL DEF Spec

-----------------------------------------------------------------------------
(* What the screen says of the microphone *)

\* A track outside the fields of the manager other than mic, or a second connection: from
\* then on the screen need not be right.
Astray == replaced # {} \/ \E x \in stray : \A k \in Kind : held[k] # x

\* The fields hold live tracks, the microphone none of the others. Outside a call it is
\* a stray one.
FieldsOK ==
  /\ mic \in live \cup {0} /\ enabled \subseteq live /\ stray \subseteq live
  /\ \A k \in Kind :
       /\ held[k] \in (live \ enabled) \cup {0}
       /\ held[k] # 0 => held[k] # mic /\ \A j \in Kind \ {k} : held[j] # held[k]
  /\ pc \in 0 .. pcs
  /\ pc = 0 /\ mic # 0 => mic \in stray

\* One handler at most waits for the microphone of a connection; while none was granted
\* isMuted stays as that handler read it.
MicOK ==
  \A w \in flight : w.op = "mic" =>
    /\ w.of \in 1 .. pcs
    /\ \A v \in flight : v.op = "mic" /\ v.of = w.of => v = w
    /\ w.of = pc => IF mic = 0 THEN w.muted = muted ELSE mic \in stray \/ replaced # {}

\* The first offer tells isMuted as it is.
OfferOK ==
  \A w \in flight : w.op = "offer" => stale \/ Astray \/ w.muted = muted

ToldOK ==
  mic # 0 /\ pc # 0 =>
    Astray \/ ((mic \in enabled <=> ~muted) /\ (stale \/ (toldOn <=> ~muted)))

FlightOK == \A w \in flight : w.op \in {"mic", "offer"} => w.muted \in BOOLEAN

FlagsOK == muted \in BOOLEAN /\ toldOn \in BOOLEAN /\ stale \in BOOLEAN

MuteInv == FieldsOK /\ FlightOK /\ FlagsOK /\ MicOK /\ OfferOK /\ ToldOK

LEMMA MuteInit == Init => MuteInv
<1> SUFFICES ASSUME Init PROVE MuteInv
  OBVIOUS
<1>1. FieldsOK
  BY DEF Init, FieldsOK
<1>2. FlightOK /\ FlagsOK /\ MicOK /\ OfferOK /\ ToldOK
  BY DEF Init, FlightOK, FlagsOK, MicOK, OfferOK, ToldOK
<1>3. QED
  BY <1>1, <1>2 DEF MuteInv

\* Nothing it speaks of changes, but a device that is asked for or refused.
LEMMA MuteFrame ==
  ASSUME MuteInv, UNCHANGED <<pc, pcs, tracks, muted, toldOn, stray, replaced, stale>>,
         \A w \in flight' : w \in flight \/ w.op \in Kind
  PROVE  MuteInv'
<1>1. UNCHANGED <<pc, pcs, mic, held, live, enabled, muted, toldOn, stray, replaced, stale>>
  BY DEF tracks
<1>2. FieldsOK' /\ FlagsOK' /\ ToldOK' /\ Astray' = Astray
  BY <1>1 DEF MuteInv, FieldsOK, FlagsOK, ToldOK, Astray
<1>3. FlightOK' /\ MicOK' /\ OfferOK'
  BY <1>1, <1>2 DEF MuteInv, FlightOK, MicOK, OfferOK
<1>4. QED
  BY <1>2, <1>3 DEF MuteInv

LEMMA MuteJoin ==
  ASSUME MuteInv, NEW ch \in Channel, Join(ch), UNCHANGED <<tracks, flight, muted, pcs, toldOn, history>>
  PROVE  MuteInv'
<1>1. UNCHANGED pc
  BY DEF Join, manager
<1>2. QED
  BY <1>1, MuteFrame DEF history

\* Leaving stops the microphone; an offer under way is stale.
LEMMA MuteLeave == ASSUME ShapeInv, MuteInv, Leave PROVE MuteInv'
<1>1. /\ mic' = 0 /\ pc' = 0 /\ held' = [k \in Kind |-> 0] /\ live' \subseteq live
      /\ enabled' = enabled \cap live' /\ stray' = stray \cap live'
      /\ stale' = (stale \/ \E w \in flight : w.op = "offer")
      /\ UNCHANGED <<flight, muted, toldOn, replaced, pcs>>
  BY DEF Leave, LeaveVoice, Stopped, Released, bounds
<1>2. FieldsOK'
  BY <1>1 DEF MuteInv, FieldsOK, ShapeInv
<1>3. FlightOK' /\ ToldOK'
  BY <1>1 DEF MuteInv, FlightOK, ToldOK
<1>4. FlagsOK'
  BY <1>1 DEF MuteInv, FlagsOK
<1>5. MicOK'
  BY <1>1 DEF MuteInv, MicOK
<1>6. OfferOK'
  BY <1>1 DEF OfferOK
<1>7. QED
  BY <1>2, <1>3, <1>4, <1>5, <1>6 DEF MuteInv

LEMMA MuteJoined == ASSUME ShapeInv, MuteInv, HandleCallJoined PROVE MuteInv'
<1> DEFINE n == [op |-> "mic", muted |-> muted, of |-> pcs + 1]
<1>1. /\ pcs' = pcs + 1 /\ pc' = pcs + 1
      /\ replaced' = replaced \cup ({pc} \ {0})
      /\ flight' = flight \cup {n}
      /\ UNCHANGED <<mic, held, live, enabled, muted, toldOn, stray, stale>>
  BY DEF HandleCallJoined, tracks, store
<1>2. pcs \in Nat /\ pc \in 0 .. pcs /\ (pc = 0 /\ mic # 0 => mic \in stray)
  BY DEF ShapeInv, MuteInv, FieldsOK
<1>3. FieldsOK'
  BY <1>1, <1>2 DEF MuteInv, FieldsOK
<1>4. FlightOK' /\ FlagsOK'
  BY <1>1 DEF MuteInv, FlightOK, FlagsOK
<1>5. Astray => Astray'
  BY <1>1 DEF Astray
<1>6. OfferOK'
  BY <1>1, <1>5 DEF MuteInv, OfferOK
<1>7. mic # 0 => mic \in stray' \/ replaced' # {}
  BY <1>1, <1>2
<1>8. MicOK'
  <2>1. \A w \in flight : w.op = "mic" => w.of \in 1 .. pcs /\ w.of # pcs + 1
    BY <1>2 DEF MuteInv, MicOK
  <2>2. \A w \in flight' : w.op = "mic" => w.of \in 1 .. pcs + 1
    BY <1>1, <1>2, <2>1
  <2>3. ASSUME NEW w \in flight', w.op = "mic", NEW v \in flight', v.op = "mic", v.of = w.of
        PROVE  v = w
    BY <1>1, <2>1, <2>3 DEF MuteInv, MicOK
  <2>4. ASSUME NEW w \in flight', w.op = "mic", w.of = pc'
        PROVE  IF mic' = 0 THEN w.muted = muted' ELSE mic' \in stray' \/ replaced' # {}
    <3>1. w = n
      BY <1>1, <2>1, <2>4
    <3>2. QED
      BY <1>1, <1>7, <3>1
  <2>5. QED
    BY <1>1, <2>2, <2>3, <2>4 DEF MicOK
<1>9. ToldOK'
  <2> SUFFICES ASSUME mic # 0 PROVE Astray'
    BY <1>1 DEF ToldOK
  <2>1. CASE replaced' # {}
    BY <2>1 DEF Astray
  <2>2. CASE replaced' = {}
    <3>1. mic \in stray
      BY <1>1, <1>7, <2>2
    <3>2. QED
      BY <1>1, <3>1 DEF Astray, MuteInv, FieldsOK
  <2>3. QED
    BY <2>1, <2>2
<1>10. QED
  BY <1>3, <1>4, <1>6, <1>8, <1>9 DEF MuteInv

LEMMA MuteGranted ==
  ASSUME ShapeInv, MuteInv, NEW w \in flight, MicGranted(w)
  PROVE  MuteInv'
<1> DEFINE n == [op |-> "offer", muted |-> w.muted]
<1>1. PICK t \in Track : Capture(w, t, mic) /\ mic' = t /\ enabled' = Enabled(w, t)
  BY DEF MicGranted
<1>2. /\ t \notin live /\ t # 0 /\ live' = live \cup {t}
      /\ stray' = stray \cup ({mic} \ {0}) \cup (IF w.of = pc THEN {} ELSE {t})
  BY <1>1 DEF Capture, Free, Track
<1>3. /\ w.op = "mic" /\ UNCHANGED <<pc, pcs, held, muted, replaced>>
      /\ stale' = (stale \/ w.of # pc)
      /\ flight' = (flight \ {w}) \cup {n}
      /\ toldOn' = IF pc # 0 THEN ~w.muted ELSE toldOn
  BY DEF MicGranted, Begun, bounds
<1>4. /\ pcs \in Nat /\ pc \in 0 .. pcs /\ w.of \in 1 .. pcs /\ w.muted \in BOOLEAN
      /\ \A v \in flight : v.op = "mic" /\ v.of = w.of => v = w
      /\ w.of = pc => IF mic = 0 THEN w.muted = muted ELSE mic \in stray \/ replaced # {}
  BY <1>3 DEF ShapeInv, MuteInv, FieldsOK, MicOK, FlightOK
<1>5. FieldsOK'
  <2>1. enabled' \subseteq live'
    BY <1>1, <1>2 DEF Enabled, MuteInv, FieldsOK
  <2>2. stray' \subseteq live'
    BY <1>2 DEF MuteInv, FieldsOK
  <2>3. \A k \in Kind : /\ held'[k] \in (live' \ enabled') \cup {0}
                        /\ held'[k] # 0 => held'[k] # mic' /\ \A j \in Kind \ {k} : held'[j] # held'[k]
    BY <1>1, <1>2, <1>3 DEF Enabled, MuteInv, FieldsOK
  <2>4. pc = 0 => mic' \in stray'
    BY <1>1, <1>2, <1>4
  <2>5. mic' \in live' \cup {0} /\ pc' \in 0 .. pcs' /\ (pc' = 0 => mic' \in stray')
    BY <1>1, <1>2, <1>3, <1>4, <2>4
  <2>6. QED
    BY <2>1, <2>2, <2>3, <2>5 DEF FieldsOK
<1>6. FlightOK'
  BY <1>3, <1>4 DEF MuteInv, FlightOK
<1>7. FlagsOK'
  BY <1>3, <1>4 DEF MuteInv, FlagsOK
<1>8. Astray => Astray'
  BY <1>2, <1>3 DEF Astray
<1>9. mic # 0 \/ w.of # pc => Astray'
  <2>1. CASE w.of # pc
    BY <1>1, <1>2, <1>3, <1>5, <2>1 DEF Astray, FieldsOK
  <2>2. CASE mic # 0
    <3>1. mic \in stray' /\ \A k \in Kind : held[k] # mic
      BY <1>2, <2>2 DEF MuteInv, FieldsOK
    <3>2. QED
      BY <1>3, <3>1 DEF Astray
  <2>3. QED
    BY <2>1, <2>2
<1>10. MicOK'
  <2>1. \A v \in flight' : v.op = "mic" => v \in flight /\ v # w
    BY <1>3
  <2>2. \A v \in flight' : v.op = "mic" /\ v.of = pc => mic' \in stray'
    BY <1>1, <1>2, <1>4, <2>1
  <2>3. QED
    BY <1>1, <1>2, <1>3, <2>1, <2>2 DEF MuteInv, MicOK
<1>11. OfferOK'
  <2>1. stale' \/ Astray' \/ n.muted = muted
    BY <1>3, <1>4, <1>9
  <2>2. stale => stale'
    BY <1>3
  <2>3. QED
    BY <1>3, <1>8, <2>1, <2>2 DEF MuteInv, OfferOK
<1>12. ToldOK'
  <2> SUFFICES ASSUME pc # 0, ~Astray'
               PROVE  (mic' \in enabled' <=> ~muted) /\ (toldOn' <=> ~muted)
    BY <1>3 DEF ToldOK
  <2>1. mic = 0 /\ w.of = pc /\ w.muted = muted
    BY <1>4, <1>9
  <2>2. t \notin enabled
    BY <1>2 DEF MuteInv, FieldsOK
  <2>3. mic' \in enabled' <=> ~w.muted
    BY <1>1, <2>2 DEF Enabled
  <2>4. toldOn' = ~w.muted
    BY <1>3
  <2>5. QED
    BY <2>1, <2>3, <2>4
<1>13. QED
  BY <1>5, <1>6, <1>7, <1>10, <1>11, <1>12 DEF MuteInv

LEMMA MuteDenied ==
  ASSUME ShapeInv, MuteInv, NEW w \in flight, MicDenied(w)
  PROVE  MuteInv'
<1> DEFINE n == [op |-> "offer", muted |-> w.muted]
<1>1. /\ w.op = "mic" /\ UNCHANGED <<pc, pcs, mic, held, live, enabled, muted, toldOn, stray, replaced>>
      /\ stale' = (stale \/ w.of # pc)
      /\ flight' = (flight \ {w}) \cup {n}
  BY DEF MicDenied, Begun, tracks, bounds
<1>2. Astray' = Astray /\ FieldsOK'
  BY <1>1 DEF Astray, MuteInv, FieldsOK
<1>3. FlightOK' /\ FlagsOK'
  BY <1>1 DEF MuteInv, FlightOK, FlagsOK
<1>4. MicOK'
  <2>1. \A v \in flight' : v.op = "mic" => v \in flight
    BY <1>1
  <2>2. QED
    BY <1>1, <2>1 DEF MuteInv, MicOK
<1>5. OfferOK'
  <2>1. w.of = pc => IF mic = 0 THEN w.muted = muted ELSE mic \in stray \/ replaced # {}
    BY <1>1 DEF MuteInv, MicOK
  <2>2. mic # 0 /\ mic \in stray => Astray
    BY DEF Astray, MuteInv, FieldsOK
  <2>3. stale' \/ Astray \/ n.muted = muted
    BY <1>1, <2>1, <2>2 DEF Astray
  <2>4. stale => stale'
    BY <1>1
  <2>5. QED
    BY <1>1, <1>2, <2>3, <2>4 DEF MuteInv, OfferOK
<1>6. ToldOK'
  <2>1. stale => stale'
    BY <1>1
  <2>2. QED
    BY <1>1, <1>2, <2>1 DEF MuteInv, ToldOK
<1>7. QED
  BY <1>2, <1>3, <1>4, <1>5, <1>6 DEF MuteInv

LEMMA MuteOffer ==
  ASSUME ShapeInv, MuteInv, NEW w \in flight, OfferSent(w)
  PROVE  MuteInv'
<1>1. /\ w.op = "offer" /\ UNCHANGED <<pc, pcs, mic, held, live, enabled, muted, stray, replaced, stale>>
      /\ flight' = flight \ {w} /\ toldOn' = ~w.muted
  BY DEF OfferSent, manager, tracks, store, bounds, history
<1>2. w.muted \in BOOLEAN /\ (stale \/ Astray \/ w.muted = muted)
  BY <1>1 DEF MuteInv, FlightOK, OfferOK
<1>3. Astray' = Astray /\ FieldsOK'
  BY <1>1 DEF Astray, MuteInv, FieldsOK
<1>4. FlightOK' /\ FlagsOK'
  BY <1>1, <1>2 DEF MuteInv, FlightOK, FlagsOK
<1>5. MicOK' /\ OfferOK'
  BY <1>1, <1>3 DEF MuteInv, MicOK, OfferOK
<1>6. ToldOK'
  BY <1>1, <1>2, <1>3 DEF MuteInv, ToldOK
<1>7. QED
  BY <1>3, <1>4, <1>5, <1>6 DEF MuteInv

LEMMA MuteToggle == ASSUME ShapeInv, MuteInv, ToggleMute PROVE MuteInv'
<1>1. /\ mic # 0 /\ muted' = ~muted
      /\ enabled' = IF muted THEN enabled \cup {mic} ELSE enabled \ {mic}
      /\ toldOn' = IF chan # None THEN muted ELSE toldOn
      /\ stale' = (stale \/ \E w \in flight : w.op = "offer")
      /\ UNCHANGED <<pc, pcs, mic, held, live, flight, stray, replaced>>
  BY DEF ToggleMute, Told, manager, bounds
<1>2. Astray' = Astray /\ FieldsOK'
  BY <1>1 DEF Astray, MuteInv, FieldsOK
<1>3. FlightOK' /\ FlagsOK'
  BY <1>1 DEF MuteInv, FlightOK, FlagsOK
<1>4. MicOK' /\ OfferOK'
  BY <1>1 DEF MuteInv, MicOK, OfferOK
<1>5. ToldOK'
  <2>1. pc # 0 => chan # None
    BY DEF ShapeInv
  <2>2. mic \in enabled' <=> muted
    BY <1>1
  <2>3. QED
    BY <1>1, <2>1, <2>2 DEF ToldOK
<1>6. QED
  BY <1>2, <1>3, <1>4, <1>5 DEF MuteInv

\* A track that was granted, or stopped, for something else.
LEMMA MuteOther ==
  ASSUME ShapeInv, MuteInv, NEW k \in Kind, ToggleOff(k) \/ \E w \in flight : w.op = k /\ Granted(w)
  PROVE  MuteInv'
<1>1. /\ UNCHANGED <<pc, pcs, mic, enabled, muted, toldOn, replaced, stale>>
      /\ \A w \in flight' : w \in flight
  BY DEF ToggleOff, Granted, manager, bounds
<1>2. /\ \A x \in stray : (\A j \in Kind : held[j] # x) => x \in stray' /\ \A j \in Kind : held'[j] # x
      /\ FieldsOK'
  <2>1. CASE ToggleOff(k)
    <3>1. live' = live \ {held[k]} /\ stray' = stray \ {held[k]} /\ held' = [held EXCEPT ![k] = 0]
      BY <2>1 DEF ToggleOff
    <3>2. 0 \notin live /\ stray \subseteq live
      BY DEF MuteInv, FieldsOK, ShapeInv, Track
    <3>3. held'[k] = 0 /\ \A j \in Kind \ {k} : held'[j] = held[j]
      BY <3>1 DEF ShapeInv
    <3>4. ASSUME NEW j \in Kind
          PROVE  /\ held'[j] \in (live' \ enabled) \cup {0}
                 /\ held'[j] # 0 => held'[j] # mic /\ \A i \in Kind \ {j} : held'[i] # held'[j]
      BY <3>1, <3>3 DEF MuteInv, FieldsOK
    <3>5. mic \in live' \cup {0} /\ (mic \in stray => mic \in stray')
      BY <3>1, <3>2 DEF MuteInv, FieldsOK
    <3>6. enabled \subseteq live' /\ stray' \subseteq live'
      BY <3>1, <3>2 DEF MuteInv, FieldsOK
    <3>7. FieldsOK'
      BY <1>1, <3>4, <3>5, <3>6 DEF MuteInv, FieldsOK
    <3>8. QED
      BY <3>1, <3>2, <3>3, <3>7
  <2>2. ASSUME NEW w \in flight, w.op = k, Granted(w)
        PROVE  /\ \A x \in stray : (\A j \in Kind : held[j] # x) => x \in stray' /\ \A j \in Kind : held'[j] # x
               /\ FieldsOK'
    <3>1. PICK t \in Track : Capture(w, t, held[k]) /\ held' = [held EXCEPT ![k] = t]
      BY <2>2 DEF Granted
    <3>2. /\ t \notin live /\ t # 0 /\ live' = live \cup {t}
          /\ stray' = stray \cup ({held[k]} \ {0}) \cup (IF w.of = pc THEN {} ELSE {t})
      BY <3>1 DEF Capture, Free, Track
    <3>3. QED
      BY <1>1, <3>1, <3>2 DEF MuteInv, FieldsOK, ShapeInv
  <2>3. QED
    BY <2>1, <2>2
<1>3. Astray => Astray'
  BY <1>1, <1>2 DEF Astray
<1>4. mic # 0 /\ mic \in stray => mic \in stray'
  BY <1>2 DEF MuteInv, FieldsOK
<1>5. FlightOK' /\ FlagsOK'
  BY <1>1 DEF MuteInv, FlightOK, FlagsOK
<1>6. MicOK' /\ OfferOK'
  BY <1>1, <1>3, <1>4 DEF MuteInv, MicOK, OfferOK
<1>7. ToldOK'
  BY <1>1, <1>3 DEF MuteInv, ToldOK
<1>8. QED
  BY <1>2, <1>5, <1>6, <1>7 DEF MuteInv

LEMMA MuteStep == ShapeInv /\ MuteInv /\ [Next]_vars => MuteInv'
<1> SUFFICES ASSUME ShapeInv, MuteInv, [Next]_vars PROVE MuteInv'
  OBVIOUS
<1>1. ASSUME NEW ch \in Channel, StartVoice(ch) PROVE MuteInv'
  BY <1>1, MuteJoin DEF StartVoice
<1>2. ASSUME NEW ch \in Channel, ChannelDelete(ch) PROVE MuteInv'
  <2>1. UNCHANGED <<pc, pcs, tracks, muted, toldOn, stray, replaced, stale, flight>>
    BY <1>2 DEF ChannelDelete, LeaveVoice, manager, store, bounds, history
  <2>2. QED
    BY <2>1, MuteFrame
<1>3. CASE HangUp
  BY <1>3, MuteLeave DEF HangUp
<1>4. CASE Ignore \/ ChannelsChanged \/ Decline
  BY <1>4, MuteFrame DEF Ignore, ChannelsChanged, Decline, manager, store, bounds, history
<1>5. CASE HandleCallError
  BY <1>5, MuteLeave DEF HandleCallError
<1>6. CASE HandleCallJoined
  BY <1>6, MuteJoined
<1>7. ASSUME NEW w \in flight, MicGranted(w) \/ MicDenied(w) \/ OfferSent(w) PROVE MuteInv'
  BY <1>7, MuteGranted, MuteDenied, MuteOffer
<1>8. ASSUME NEW w \in flight, Granted(w) PROVE MuteInv'
  BY <1>8, MuteOther DEF Granted
<1>9. ASSUME NEW w \in flight, Denied(w) PROVE MuteInv'
  BY <1>9, MuteFrame DEF Denied, manager, store, bounds, history
<1>10. CASE ToggleMute
  BY <1>10, MuteToggle
<1>11. ASSUME NEW k \in Kind, ToggleOff(k) PROVE MuteInv'
  BY <1>11, MuteOther
<1>12. ASSUME NEW k \in Kind, Ask(k) PROVE MuteInv'
  <2>1. \A w \in flight' : w \in flight \/ w.op \in Kind
    BY <1>12 DEF Ask
  <2>2. QED
    BY <1>12, <2>1, MuteFrame DEF Ask, manager, store, bounds, history
<1>13. ASSUME NEW ch \in Direct, NEW users \in Users, VoiceUpdate(ch, users) PROVE MuteInv'
  BY <1>13, MuteFrame DEF VoiceUpdate, manager, store, bounds, history
<1>14. CASE Accept
  <2>1. incoming \in Channel
    BY <1>14 DEF Accept, DismissIncomingCall, ShapeInv
  <2>2. QED
    BY <1>14, <2>1, MuteJoin DEF Accept
<1>15. CASE UNCHANGED vars
  BY <1>15, MuteFrame DEF vars, manager, store, bounds, history
<1>16. QED
  BY <1>1, <1>2, <1>3, <1>4, <1>5, <1>6, <1>7, <1>8, <1>9, <1>10, <1>11, <1>12, <1>13, <1>14, <1>15
     DEF Next

LEMMA MuteImplies == MuteInv => MuteIsHonest
<1> SUFFICES ASSUME MuteInv, mic # 0, pc # 0, stray = {}, replaced = {}
             PROVE  (mic \in enabled) = ~muted /\ (stale \/ toldOn = ~muted)
  BY DEF MuteIsHonest
<1>1. ~Astray
  BY DEF Astray
<1>2. (mic \in enabled <=> ~muted) /\ (stale \/ (toldOn <=> ~muted))
  BY <1>1 DEF MuteInv, ToldOK
<1>3. QED
  BY <1>2 DEF MuteInv, FlagsOK

\* While no capture went astray the screen says muted exactly when the microphone
\* carries no sound, and the others are told so, with any devices and any bounds.
THEOREM MuteCorrect == Spec => []MuteIsHonest
<1>1. QED
  BY ShapeInit, ShapeStep, MuteInit, MuteStep, MuteImplies, PTL DEF Spec

-----------------------------------------------------------------------------
(* The socket *)

USE SocketBounds, UnsetAssumption

LEMMA SocketTypeInit == SocketInit => SocketTypeOK
<1> SUFFICES ASSUME SocketInit PROVE SocketTypeOK
  OBVIOUS
<1>1. /\ state \in [Socket -> {"none", "connecting", "open", "silent", "closing"}]
      /\ code \in [Socket -> {"normal", "abnormal"}]
  BY DEF SocketInit, AllNone
<1>2. /\ worker \in [Tab -> BOOLEAN] /\ started \in [Tab -> BOOLEAN] /\ user \in [Tab -> BOOLEAN]
      /\ \A t \in Tab : ~worker[t] /\ ~started[t] /\ ~user[t]
  BY DEF SocketInit
<1>3. /\ ports \in [Tab -> 0 .. MaxPorts]
      /\ wsState \in [Tab -> {"connected", "connecting", "disconnected"}]
  BY DEF SocketInit
<1>4. fails \in 0 .. MaxFails
  BY DEF SocketInit
<1>5. QED
  BY <1>1, <1>2, <1>3, <1>4 DEF SocketInit, SocketTypeOK

\* What opening a socket does to the types.
LEMMA OpenType ==
  ASSUME SocketTypeOK, NEW n \in Socket, NEW old, Open(n, old)
  PROVE  /\ state' \in [Socket -> {"none", "connecting", "open", "silent", "closing"}]
         /\ code' \in [Socket -> {"normal", "abnormal"}]
         /\ socket' \in Socket \cup {Unset}
<1>1. state' \in [Socket -> {"none", "connecting", "open", "silent", "closing"}]
  BY DEF Open, SocketTypeOK
<1>2. code' \in [Socket -> {"normal", "abnormal"}]
  BY DEF Open, SocketTypeOK
<1>3. QED
  BY <1>1, <1>2 DEF Open

LEMMA ConnectType ==
  ASSUME SocketTypeOK, NEW u \in Url, Connect(u)
  PROVE  /\ state' \in [Socket -> {"none", "connecting", "open", "silent", "closing"}]
         /\ code' \in [Socket -> {"normal", "abnormal"}]
         /\ socket' \in Socket \cup {Unset}
         /\ lastUrl' \in Url \cup {Unset}
         /\ disconnected' \in BOOLEAN /\ heart' \in BOOLEAN /\ retry' \in BOOLEAN
<1>1. CASE Keeps(u)
  BY <1>1 DEF Connect, SocketTypeOK
<1>2. CASE ~Keeps(u)
  <2>1. PICK n \in Socket : Open(n, Replaced)
    BY <1>2 DEF Connect
  <2>2. QED
    BY <1>2, <2>1, OpenType DEF Connect, SocketTypeOK
<1>3. QED
  BY <1>1, <1>2

LEMMA ConnectWSType ==
  ASSUME SocketTypeOK, NEW t \in Tab, ConnectWS(t), UNCHANGED <<base, fails, late>>,
         user' \in [Tab -> BOOLEAN],
         \A o \in Tab \ {t} : user'[o] = user[o]
  PROVE  SocketTypeOK'
<1>1. Connect(base) /\ base \in Url /\ asked'
  BY DEF ConnectWS, SocketTypeOK
<1>2. /\ worker' \in [Tab -> BOOLEAN] /\ started' \in [Tab -> BOOLEAN]
      /\ wsState' \in [Tab -> {"connected", "connecting", "disconnected"}]
      /\ ports' \in [Tab -> 0 .. MaxPorts]
  BY DEF ConnectWS, SocketTypeOK
<1>3. \A o \in Tab : /\ user'[o] => worker'[o]
                     /\ worker'[o] => started'[o]
                     /\ started'[o] => ports'[o] > 0
  BY DEF ConnectWS, SocketTypeOK
<1>4. QED
  BY <1>1, <1>2, <1>3, ConnectType DEF SocketTypeOK

LEMMA SocketTypeStep == SocketTypeOK /\ [SocketNext]_socketVars => SocketTypeOK'
<1> SUFFICES ASSUME SocketTypeOK, [SocketNext]_socketVars PROVE SocketTypeOK'
  OBVIOUS
<1>1. ASSUME NEW t \in Tab, Login(t) PROVE SocketTypeOK'
  BY <1>1, ConnectWSType DEF Login, SocketTypeOK
<1>2. ASSUME NEW t \in Tab, ReconnectIfNeeded(t) PROVE SocketTypeOK'
  BY <1>2, ConnectWSType DEF ReconnectIfNeeded, SocketTypeOK
<1>3. ASSUME NEW t \in Tab, Logout(t) PROVE SocketTypeOK'
  BY <1>3 DEF Logout, RetryAfterDisconnect, Closing, SocketTypeOK
<1>4. ASSUME NEW t \in Tab, CloseTab(t) PROVE SocketTypeOK'
  <2>1. CASE \E o \in Tab \ {t} : started[o]
    <3>1. UNCHANGED <<state, code, socket, lastUrl, disconnected, heart, retry, late, asked, base, fails>>
      BY <1>4, <2>1 DEF CloseTab, connection, socketHistory
    <3>2. \A o \in Tab : started'[o] \/ user'[o] \/ worker'[o] => o # t
      BY <1>4 DEF CloseTab, SocketTypeOK
    <3>3. /\ worker' \in [Tab -> BOOLEAN] /\ started' \in [Tab -> BOOLEAN] /\ user' \in [Tab -> BOOLEAN]
          /\ wsState' \in [Tab -> {"connected", "connecting", "disconnected"}]
      BY <1>4 DEF CloseTab, SocketTypeOK
    <3>4. ports' = [ports EXCEPT ![t] = @ - 1] /\ ports[t] > 0 /\ ports \in [Tab -> 0 .. MaxPorts]
      BY <1>4, <2>1 DEF CloseTab, SocketTypeOK
    <3>5. ports' \in [Tab -> 0 .. MaxPorts]
      BY <3>4, SocketBounds
    <3>6. \A o \in Tab : /\ user'[o] => worker'[o]
                         /\ worker'[o] => started'[o]
                         /\ started'[o] => ports'[o] > 0
      BY <1>4, <3>2, <3>4 DEF CloseTab, SocketTypeOK
    <3>7. QED
      BY <3>1, <3>3, <3>5, <3>6 DEF SocketTypeOK
  <2>2. CASE ~\E o \in Tab \ {t} : started[o]
    <3>1. /\ state' \in [Socket -> {"none", "connecting", "open", "silent", "closing"}]
          /\ code' \in [Socket -> {"normal", "abnormal"}]
          /\ socket' = Unset /\ lastUrl' = Unset
          /\ ~disconnected' /\ ~heart' /\ ~retry' /\ ~late' /\ ~asked'
      BY <1>4, <2>2 DEF CloseTab, AllNone
    <3>2. ports' \in [Tab -> 0 .. MaxPorts]
      BY <1>4, <2>2 DEF CloseTab
    <3>3. /\ worker' \in [Tab -> BOOLEAN] /\ started' \in [Tab -> BOOLEAN] /\ user' \in [Tab -> BOOLEAN]
          /\ wsState' \in [Tab -> {"connected", "connecting", "disconnected"}]
      BY <1>4 DEF CloseTab, SocketTypeOK
    <3>4. \A o \in Tab : ~started'[o] /\ ~worker'[o] /\ ~user'[o]
      BY <1>4, <2>2 DEF CloseTab, SocketTypeOK
    <3>5. QED
      BY <1>4, <3>1, <3>2, <3>3, <3>4 DEF CloseTab, SocketTypeOK
  <2>3. QED
    BY <2>1, <2>2
<1>5. ASSUME NEW u \in Url, SetBaseUrl(u) PROVE SocketTypeOK'
  BY <1>5 DEF SetBaseUrl, connection, tabs, socketHistory, SocketTypeOK
<1>6. ASSUME NEW s \in Socket, OnOpen(s) PROVE SocketTypeOK'
  BY <1>6 DEF OnOpen, Broadcast, StartHeartbeat, socketHistory, SocketTypeOK
<1>7. ASSUME NEW s \in Socket, OnClose(s) PROVE SocketTypeOK'
  BY <1>7 DEF OnClose, Broadcast, Retries, SocketTypeOK
<1>8. ASSUME NEW s \in Socket, GoSilent(s) PROVE SocketTypeOK'
  BY <1>8 DEF GoSilent, tabs, socketHistory, SocketTypeOK
<1>9. ASSUME NEW s \in Socket, NEW how \in {"normal", "abnormal"}, Fail(s, how) PROVE SocketTypeOK'
  BY <1>9 DEF Fail, tabs, socketHistory, SocketTypeOK
<1>10. CASE ReconnectTimer
  <2>1. /\ state' \in [Socket -> {"none", "connecting", "open", "silent", "closing"}]
        /\ code' \in [Socket -> {"normal", "abnormal"}]
        /\ socket' \in Socket \cup {Unset}
    BY <1>10, OpenType DEF ReconnectTimer, SocketTypeOK
  <2>2. QED
    BY <1>10, <2>1 DEF ReconnectTimer, tabs, socketHistory, SocketTypeOK
<1>11. CASE LivenessTimer
  BY <1>11 DEF LivenessTimer, tabs, socketHistory, SocketTypeOK
<1>12. CASE UNCHANGED socketVars
  BY <1>12 DEF socketVars, connection, tabs, socketHistory, SocketTypeOK
<1>13. QED
  BY <1>1, <1>2, <1>3, <1>4, <1>5, <1>6, <1>7, <1>8, <1>9, <1>10, <1>11, <1>12 DEF SocketNext, Timers

\* Every reachable state is well typed: a tab where somebody is logged in has a port, and
\* one that was started is in the worker's registry.
THEOREM SocketTypeCorrect == SocketSpec => []SocketTypeOK
  BY SocketTypeInit, SocketTypeStep, PTL DEF SocketSpec

-----------------------------------------------------------------------------
\* A manager that was told to disconnect has let go of its socket, and where no tab has
\* asked for a connection it was told so or has had no socket at all.
SafeInv ==
  /\ OneConnection
  /\ disconnected => socket = Unset
  /\ ~asked => disconnected \/ \A s \in Socket : state[s] = "none"
  /\ ConnectedAsAsked
  /\ OpenIsWatched

LEMMA SocketSafeInit == SocketInit => SafeInv
  BY DEF SocketInit, SafeInv, OneConnection, InUse, ConnectedAsAsked, OpenIsWatched, IsOpen, AllNone

\* A new socket is the only one in use, and is not open yet.
LEMMA SafeOpen ==
  ASSUME SocketTypeOK, SafeInv, NEW n \in Socket, NEW old \in SUBSET Socket, Open(n, old), n \notin old,
         state[n] = "none",
         socket # Unset /\ InUse(socket) => socket \in old,
         ~disconnected', asked',
         \A t \in Tab : started'[t] /\ wsState'[t] = "connected" =>
                          IsOpen \/ (started[t] /\ wsState[t] = "connected")
  PROVE  SafeInv'
<1>1. socket' = n /\ state'[n] = "connecting"
  BY DEF Open
<1>2. \A s \in Socket \ {n} : state'[s] = IF s \in old THEN "closing" ELSE state[s]
  BY DEF Open
<1>3. OneConnection'
  BY <1>1, <1>2 DEF SafeInv, OneConnection, InUse
<1>4. ~IsOpen'
  BY <1>1 DEF IsOpen
<1>5. ASSUME NEW t \in Tab, started'[t], wsState'[t] = "connected"
      PROVE  \E s \in Socket : state'[s] \in {"open", "silent", "closing"}
  <2>1. PICK s \in Socket : state[s] \in {"open", "silent", "closing"}
    BY <1>5 DEF SafeInv, ConnectedAsAsked, IsOpen, SocketTypeOK
  <2>2. s # n
    BY <2>1
  <2>3. state'[s] \in {"open", "silent", "closing"}
    BY <1>2, <2>1, <2>2
  <2>4. QED
    BY <2>3
<1>6. QED
  BY <1>3, <1>4, <1>5 DEF SafeInv, ConnectedAsAsked, OpenIsWatched

LEMMA SafeConnect ==
  ASSUME SocketTypeOK, SafeInv, NEW t \in Tab, ConnectWS(t), UNCHANGED late
  PROVE  SafeInv'
<1>1. /\ Connect(base) /\ asked'
      /\ \A o \in Tab : started'[o] /\ wsState'[o] = "connected" =>
                          IsOpen \/ (started[o] /\ wsState[o] = "connected")
  BY DEF ConnectWS, SocketTypeOK
<1>2. CASE Keeps(base)
  <2>1. UNCHANGED <<state, socket, heart>> /\ ~disconnected'
    BY <1>1, <1>2 DEF Connect
  <2>2. ConnectedAsAsked'
    BY <1>1, <2>1 DEF SafeInv, ConnectedAsAsked, IsOpen, SocketTypeOK
  <2>3. QED
    BY <1>1, <2>1, <2>2 DEF SafeInv, OneConnection, InUse, OpenIsWatched, IsOpen
<1>3. CASE ~Keeps(base)
  <2>1. PICK n \in Socket : state[n] = "none" /\ Open(n, Replaced)
    BY <1>1, <1>3 DEF Connect
  <2>2. n \notin Replaced /\ Replaced \in SUBSET Socket
    BY <2>1 DEF Replaced, InUse
  <2>3. socket # Unset /\ InUse(socket) => socket \in Replaced
    BY DEF Replaced, SocketTypeOK
  <2>4. ~disconnected'
    BY <1>1 DEF Connect
  <2>5. QED
    BY <1>1, <2>1, <2>2, <2>3, <2>4, SafeOpen
<1>4. QED
  BY <1>2, <1>3

LEMMA SocketSafeStep == SocketTypeOK /\ SafeInv /\ [SocketNext]_socketVars => SafeInv'
<1> SUFFICES ASSUME SocketTypeOK, SafeInv, [SocketNext]_socketVars PROVE SafeInv'
  OBVIOUS
<1> USE DEF SafeInv, OneConnection, InUse, ConnectedAsAsked, OpenIsWatched, IsOpen
<1>1. ASSUME NEW t \in Tab, Login(t) \/ ReconnectIfNeeded(t) PROVE SafeInv'
  <2>1. ConnectWS(t) /\ UNCHANGED late
    BY <1>1 DEF Login, ReconnectIfNeeded
  <2> HIDE DEF SafeInv
  <2>2. QED
    BY <2>1, SafeConnect
<1>2. ASSUME NEW t \in Tab, Logout(t) PROVE SafeInv'
  <2>1. /\ disconnected' /\ ~retry' /\ ~heart' /\ socket' = Unset
        /\ started' = started
    BY <1>2 DEF Logout, RetryAfterDisconnect
  <2>2. \A s \in Socket : \/ state'[s] = state[s] /\ ~InUse(s)
                          \/ state'[s] = "closing" /\ InUse(s)
    BY <1>2 DEF Logout, Closing, SocketTypeOK
  <2>3. \A o \in Tab : wsState'[o] = "connected" => wsState[o] = "connected"
    BY <1>2 DEF Logout, SocketTypeOK
  <2>4. \A s \in Socket : ~InUse(s)'
    BY <2>2
  <2>5. ASSUME NEW o \in Tab, started'[o], wsState'[o] = "connected"
        PROVE  \E s \in Socket : state'[s] \in {"open", "silent", "closing"}
    <3>1. PICK s \in Socket : state[s] \in {"open", "silent", "closing"}
      BY <2>1, <2>3, <2>5
    <3>2. state'[s] \in {"open", "silent", "closing"}
      BY <2>2, <3>1
    <3>3. QED
      BY <3>2
  <2>6. ConnectedAsAsked'
    BY <2>1, <2>4, <2>5
  <2>7. OneConnection'
    BY <2>4
  <2>8. QED
    BY <2>1, <2>6, <2>7
<1>3. ASSUME NEW t \in Tab, CloseTab(t) PROVE SafeInv'
  <2>1. \A o \in Tab : started'[o] => started[o] /\ o # t
    BY <1>3 DEF CloseTab, SocketTypeOK
  <2>2. CASE \E o \in Tab \ {t} : started[o]
    <3>1. UNCHANGED <<state, socket, disconnected, heart, retry, late, asked>>
      BY <1>3, <2>2 DEF CloseTab, connection, socketHistory
    <3>2. \A o \in Tab : started'[o] => wsState'[o] = wsState[o]
      BY <1>3, <2>1 DEF CloseTab
    <3>3. QED
      BY <2>1, <3>1, <3>2
  <2>3. CASE ~\E o \in Tab \ {t} : started[o]
    <3>1. \A s \in Socket : state'[s] = "none"
      BY <1>3, <2>3 DEF CloseTab, AllNone
    <3>2. socket' = Unset /\ ~heart' /\ ~retry' /\ ~disconnected'
      BY <1>3, <2>3 DEF CloseTab
    <3>3. \A o \in Tab : ~started'[o]
      BY <2>1, <2>3
    <3>4. QED
      BY <3>1, <3>2, <3>3
  <2>4. QED
    BY <2>2, <2>3
<1>4. ASSUME NEW u \in Url, SetBaseUrl(u) PROVE SafeInv'
  BY <1>4 DEF SetBaseUrl, connection, tabs, socketHistory
<1>5. ASSUME NEW s \in Socket, OnOpen(s) PROVE SafeInv'
  BY <1>5 DEF OnOpen, StartHeartbeat, Broadcast, socketHistory, SocketTypeOK
<1>6. ASSUME NEW s \in Socket, OnClose(s) PROVE SafeInv'
  <2>1. \A o \in Tab : started'[o] => wsState'[o] = "disconnected"
    BY <1>6 DEF OnClose, Broadcast, SocketTypeOK
  <2>2. /\ \A x \in Socket : state'[x] = IF x = s THEN "none" ELSE state[x]
        /\ state[s] = "closing" /\ ~heart' /\ socket' = socket
        /\ disconnected' = disconnected /\ asked' = asked
        /\ late' = (late \/ (socket # Unset /\ s # socket))
    BY <1>6 DEF OnClose, SocketTypeOK
  <2>3. ~asked => disconnected
    BY <2>2
  <2>4. ~asked => ~retry'
    BY <1>6, <2>3 DEF OnClose, Retries
  <2>5. ConnectedAsAsked'
    BY <2>1, <2>2, <2>4
  <2>6. OneConnection' /\ OpenIsWatched'
    BY <2>2
  <2>7. QED
    BY <2>2, <2>3, <2>5, <2>6
<1>7. ASSUME NEW s \in Socket, GoSilent(s) PROVE SafeInv'
  BY <1>7 DEF GoSilent, tabs, socketHistory, SocketTypeOK
<1>8. ASSUME NEW s \in Socket, NEW how \in {"normal", "abnormal"}, Fail(s, how) PROVE SafeInv'
  BY <1>8 DEF Fail, tabs, socketHistory, SocketTypeOK
<1>9. CASE ReconnectTimer
  <2>1. asked' /\ ~disconnected' /\ UNCHANGED <<started, wsState, heart, late>>
    BY <1>9 DEF ReconnectTimer, tabs, socketHistory
  <2>2. CASE InUse(socket)
    BY <1>9, <2>1, <2>2 DEF ReconnectTimer
  <2>3. CASE ~InUse(socket)
    <3>1. PICK n \in Socket : state[n] = "none" /\ Open(n, {})
      BY <1>9, <2>3 DEF ReconnectTimer
    <3> HIDE DEF SafeInv, InUse
    <3>2. QED
      BY <2>1, <2>3, <3>1, SafeOpen
  <2>4. QED
    BY <2>2, <2>3
<1>10. CASE LivenessTimer
  BY <1>10 DEF LivenessTimer, tabs, socketHistory, SocketTypeOK
<1>11. CASE UNCHANGED socketVars
  BY <1>11 DEF socketVars, connection, tabs, socketHistory
<1>12. QED
  BY <1>1, <1>2, <1>3, <1>4, <1>5, <1>6, <1>7, <1>8, <1>9, <1>10, <1>11 DEF SocketNext, Timers

\* Whatever logins, polls, timers, URL changes and late close events interleave, in any number of tabs,
\* there is at most one live socket, and it is the manager's.
THEOREM OneConnectionCorrect == SocketSpec => []OneConnection
<1>1. SafeInv => OneConnection
  BY DEF SafeInv
<1>2. QED
  BY <1>1, SocketTypeInit, SocketTypeStep, SocketSafeInit, SocketSafeStep, PTL DEF SocketSpec

\* Where no tab has asked for a connection since the last logout there is no live socket and no timer,
\* whenever the end of the closed one comes, and no tab shows a connection that is gone for good.
THEOREM AskedCorrect == SocketSpec => []ConnectedAsAsked
<1>1. SafeInv => ConnectedAsAsked
  BY DEF SafeInv
<1>2. QED
  BY <1>1, SocketTypeInit, SocketTypeStep, SocketSafeInit, SocketSafeStep, PTL DEF SocketSpec

\* An open socket has its heartbeat unless a replaced one reported its end after it had opened.
THEOREM WatchedCorrect == SocketSpec => []OpenIsWatched
<1>1. SafeInv => OpenIsWatched
  BY DEF SafeInv
<1>2. QED
  BY <1>1, SocketTypeInit, SocketTypeStep, SocketSafeInit, SocketSafeStep, PTL DEF SocketSpec

-----------------------------------------------------------------------------
USE ViewerAssumption, OwnerAssumption, AuthorAssumption, VersionAssumption, SizeAssumption

-----------------------------------------------------------------------------
(* Chat: types *)

\* What is stored of a message is its last version or nothing, who changes one found it,
\* and the edits begun stay within the bound.
CountInv ==
  /\ \A m \in Message : stored[m] \in {0, written[m]}
  /\ \A m \in Message : written[m] + Cardinality(Editors(m)) <= MaxVersion
  /\ \A e \in Device : Does(e, "edit") \/ Does(e, "delete") => written[doing[e].msg] # 0

LEMMA EnvelopeFacts ==
  ASSUME NEW e \in Envelope
  PROVE  /\ e # Key /\ e.msg \in Message /\ e.kind \in {"message", "update", "delete"}
         /\ e.kind # "delete" => e.version \in 1 .. MaxVersion /\ e \in Frame
         /\ Rank(e) \in 1 .. MaxVersion + 1
         /\ e.kind = "delete" <=> Rank(e) = MaxVersion + 1
  BY DEF Envelope, Key, Frame, Version, Rank

LEMMA TaskFacts ==
  ASSUME ChatTypeOK, NEW d \in Device
  PROVE  /\ Does(d, "submit") => doing[d].env \in Envelope /\ doing[d] = [op |-> "submit", env |-> doing[d].env]
         /\ \A o \in {"edit", "delete"} : Does(d, o) => doing[d].msg \in Message /\ doing[d] = [op |-> o, msg |-> doing[d].msg]
<1>1. doing[d] \in Task \cup {Idle}
  BY DEF ChatTypeOK
<1>2. QED
  BY <1>1 DEF Does, Task

LEMMA EditorsFinite == \A m : IsFiniteSet(Editors(m)) /\ Cardinality(Editors(m)) \in Nat
<1>1. \A m : Editors(m) \subseteq Device
  BY DEF Editors
<1>2. QED
  BY <1>1, DeviceAssumption, FS_Subset, FS_CardinalityType

LEMMA CountKept ==
  ASSUME CountInv, UNCHANGED <<stored, written, doing>>
  PROVE  CountInv'
  BY DEF CountInv, Editors, Does

\* Giving a device the task of submitting something.
LEMMA SubmitTask ==
  ASSUME ChatTypeOK, NEW d \in Device, NEW x \in Envelope, Submit(d, x)
  PROVE  /\ doing' \in [Device -> Task \cup {Idle}]
         /\ \A o : Does(d, o)' <=> o = "submit"
         /\ doing'[d].env = x
         /\ \A e \in Device \ {d} : doing'[e] = doing[e]
         /\ \A m : Editors(m)' = Editors(m) \ {d}
<1> DEFINE t == [op |-> "submit", env |-> x]
<1>1. t \in Task /\ t # Idle
  BY IdleAssumption DEF Task
<1>2. doing' = [doing EXCEPT ![d] = t] /\ doing \in [Device -> Task \cup {Idle}]
  BY DEF Submit, ChatTypeOK
<1>3. doing'[d] = t /\ \A e \in Device \ {d} : doing'[e] = doing[e]
  BY <1>2
<1>4. t.op = "submit" /\ t.env = x
  OBVIOUS
<1>5. doing' \in [Device -> Task \cup {Idle}]
  BY <1>1, <1>2
<1> HIDE DEF t
<1>6. \A o : Does(d, o)' <=> o = "submit"
  BY <1>1, <1>3, <1>4 DEF Does
<1>7. \A m : Editors(m)' = Editors(m) \ {d}
  BY <1>3, <1>6 DEF Editors, Does
<1>8. QED
  BY <1>3, <1>4, <1>5, <1>6, <1>7

LEMMA TypeInit == ChatInit => ChatTypeOK /\ CountInv
<1> SUFFICES ASSUME ChatInit PROVE ChatTypeOK /\ CountInv
  OBVIOUS
<1>1. Empty \in History
  BY DEF Empty, History, Version
<1>2. \A d \in Device : doing[d] = Idle
  BY DEF ChatInit
<1>3. \A m : Editors(m) = {}
  BY <1>2 DEF Editors, Does
<1>4. CountInv
  <2>1. \A m : Cardinality(Editors(m)) = 0
    BY <1>3, FS_EmptySet
  <2>2. \A m \in Message : stored[m] = 0 /\ written[m] = 0
    BY DEF ChatInit, Empty
  <2>3. QED
    BY <1>2, <2>1, <2>2 DEF CountInv, Does
<1>5. page \in [Viewer -> [Message -> Version \cup {Unreadable}]]
  BY <1>1 DEF ChatInit, History
<1>6. reply \in [Viewer -> History \cup {NoReply, Asked}]
  BY DEF ChatInit
<1>7. queue \in Seq(Envelope) /\ Len(queue) <= QueueSize
  BY DEF ChatInit
<1>8. buffer \in [Viewer -> Seq(Envelope \cup {Key})] /\ \A d \in Viewer : Len(buffer[d]) <= BufferSize
  BY DEF ChatInit
<1>9. QED
  BY <1>1, <1>4, <1>5, <1>6, <1>7, <1>8 DEF ChatInit, ChatTypeOK

LEMMA WorldType ==
  ASSUME ChatTypeOK, CountInv,
         \/ \E u \in User : AddMember(u)
         \/ \E d \in Viewer : Register(d) \/ Disconnect(d) \/ Focus(d) \/ ListRefused(d)
  PROVE  ChatTypeOK' /\ CountInv'
<1>1. ASSUME NEW u \in User, AddMember(u) PROVE ChatTypeOK' /\ CountInv'
  BY <1>1, CountKept DEF AddMember, ChatTypeOK, database, hub, client
<1>2. ASSUME NEW d \in Viewer, Register(d) PROVE ChatTypeOK' /\ CountInv'
  BY <1>2, CountKept DEF Register, ChatTypeOK, database, hub, client
<1>3. ASSUME NEW d \in Viewer, Disconnect(d) PROVE ChatTypeOK' /\ CountInv'
  <2>1. \A e \in Viewer : buffer'[e] \in {buffer[e], <<>>}
    BY <1>3 DEF Disconnect
  <2>2. buffer' \in [Viewer -> Seq(Envelope \cup {Key})] /\ \A e \in Viewer : Len(buffer'[e]) <= BufferSize
    <3>1. buffer' = [e \in Viewer |-> IF e = d THEN <<>> ELSE buffer[e]]
      BY <1>3 DEF Disconnect
    <3>2. Len(<<>>) <= BufferSize /\ <<>> \in Seq(Envelope \cup {Key})
      OBVIOUS
    <3>3. QED
      BY <2>1, <3>1, <3>2 DEF ChatTypeOK
  <2>3. QED
    BY <1>3, <2>2, CountKept DEF Disconnect, ChatTypeOK, database, hub, client
<1>4. ASSUME NEW d \in Viewer, Focus(d) PROVE ChatTypeOK' /\ CountInv'
  BY <1>4, CountKept DEF Focus, ChatTypeOK, world, keys, database, hub
<1>5. ASSUME NEW d \in Viewer, ListRefused(d) PROVE ChatTypeOK' /\ CountInv'
  BY <1>5, CountKept DEF ListRefused, ChatTypeOK, world, keys, database, hub
<1>6. QED
  BY <1>1, <1>2, <1>3, <1>4, <1>5

LEMMA HandlerType ==
  ASSUME ChatTypeOK, CountInv, NEW d \in Device, Handle(d)
  PROVE  ChatTypeOK' /\ CountInv'
<1>0. /\ stored \in [Message -> 0 .. MaxVersion] /\ written \in [Message -> 0 .. MaxVersion]
      /\ \A m : IsFiniteSet(Editors(m)) /\ Cardinality(Editors(m)) \in Nat
      /\ 1 \in Version \ {0}
  BY EditorsFinite DEF ChatTypeOK, History, Version
<1>1. ASSUME NEW m \in Message, HandleChatMessage(d, m) PROVE ChatTypeOK' /\ CountInv'
  <2> DEFINE x == [kind |-> "message", msg |-> m, version |-> 1]
  <2>1. x \in Envelope /\ Submit(d, x)
    BY <1>0, <1>1 DEF HandleChatMessage, Envelope
  <2> HIDE DEF x
  <2>2. /\ written[m] = 0 /\ doing[d] = Idle
        /\ stored' = [stored EXCEPT ![m] = 1] /\ written' = [written EXCEPT ![m] = 1]
        /\ UNCHANGED <<world, keys, crossed, hub, buffer, client>>
    BY <1>1 DEF HandleChatMessage, Ready
  <2>3. stored' \in History /\ written' \in History
    BY <1>0, <2>2 DEF History, Version
  <2>4. ChatTypeOK'
    BY <2>1, <2>2, <2>3, SubmitTask DEF ChatTypeOK, world, keys, hub, client
  <2>5. Editors(m) = {} /\ \A n : d \notin Editors(n)
    BY <2>2 DEF Editors, CountInv, Does
  <2>6. \A n : Editors(n)' = Editors(n)
    <3>1. \A n : Editors(n)' = Editors(n) \ {d}
      BY <2>1, SubmitTask
    <3>2. QED
      BY <2>5, <3>1
  <2>7. Cardinality(Editors(m)) = 0 /\ \A n : Cardinality(Editors(n)') = Cardinality(Editors(n))
    BY <2>5, <2>6, FS_EmptySet
  <2>8. ASSUME NEW e \in Device, Does(e, "edit")' \/ Does(e, "delete")' PROVE written'[doing'[e].msg] # 0
    <3>1. e # d
      BY <2>1, <2>8, SubmitTask
    <3>2. doing'[e] = doing[e] /\ (Does(e, "edit") \/ Does(e, "delete"))
      BY <2>1, <2>8, <3>1, SubmitTask DEF Does
    <3>3. QED
      BY <1>0, <2>2, <3>2, TaskFacts DEF CountInv
  <2>9. \A n \in Message : stored'[n] \in {0, written'[n]} /\ written'[n] + Cardinality(Editors(n)') <= MaxVersion
    BY <1>0, <2>2, <2>7 DEF CountInv
  <2>10. QED
    BY <2>4, <2>8, <2>9 DEF CountInv
<1>2. ASSUME NEW m \in Message, NEW op \in {"edit", "delete"}, GetMessage(d, m, op) PROVE ChatTypeOK' /\ CountInv'
  <2> DEFINE t == [op |-> op, msg |-> m]
  <2>1. t \in Task /\ t.op = op /\ t.msg = m /\ t # Idle
    BY IdleAssumption DEF Task
  <2>2. /\ doing[d] = Idle /\ stored[m] # 0 /\ doing' = [doing EXCEPT ![d] = t]
        /\ op = "edit" => written[m] + Cardinality(Editors(m)) < MaxVersion
        /\ UNCHANGED <<world, keys, database, hub, buffer, client>>
    BY <1>2 DEF GetMessage, Ready
  <2> HIDE DEF t
  <2>3. doing \in [Device -> Task \cup {Idle}]
    BY DEF ChatTypeOK
  <2>4. ChatTypeOK'
    BY <2>1, <2>2, <2>3 DEF ChatTypeOK, world, keys, database, hub, client
  <2>5. \A n : Editors(n)' = IF op = "edit" /\ n = m THEN Editors(n) \cup {d} ELSE Editors(n)
    BY <2>1, <2>2, <2>3 DEF Editors, Does
  <2>6. \A n : d \notin Editors(n)
    BY <2>2 DEF Editors, Does
  <2>7. written[m] # 0
    BY <1>0, <2>2 DEF CountInv
  <2>8. ASSUME NEW e \in Device, Does(e, "edit")' \/ Does(e, "delete")' PROVE written'[doing'[e].msg] # 0
    BY <2>1, <2>2, <2>3, <2>7, <2>8 DEF CountInv, Does, database
  <2>9. ASSUME NEW n \in Message PROVE written'[n] + Cardinality(Editors(n)') <= MaxVersion
    <3>1. Cardinality(Editors(m) \cup {d}) = Cardinality(Editors(m)) + 1
      BY <1>0, <2>6, FS_AddElement
    <3>2. CASE op = "edit" /\ n = m
      <4>1. Cardinality(Editors(n)') = Cardinality(Editors(m)) + 1
        BY <2>5, <3>1, <3>2
      <4>2. written' = written
        BY <2>2 DEF database
      <4>3. QED
        BY <1>0, <2>2, <3>2, <4>1, <4>2
    <3>3. CASE ~(op = "edit" /\ n = m)
      BY <2>2, <2>5, <3>3 DEF CountInv, database
    <3>4. QED
      BY <3>2, <3>3
  <2>10. QED
    BY <2>2, <2>4, <2>8, <2>9 DEF CountInv, database
<1>3. CASE UpdateMessage(d)
  <2> DEFINE m == doing[d].msg
             v == written[m] + 1
             x == [kind |-> "update", msg |-> m, version |-> v]
  <2>1. m \in Message /\ d \in Editors(m) /\ \A n : n # m => d \notin Editors(n)
    BY <1>3, TaskFacts DEF UpdateMessage, Editors
  <2>2. Cardinality(Editors(m) \ {d}) = Cardinality(Editors(m)) - 1
    <3>1. IsFiniteSet(Editors(m))
      BY <1>0
    <3> HIDE DEF m
    <3>2. QED
      BY <2>1, <3>1, FS_RemoveElement
  <2>3. Cardinality(Editors(m)) >= 1 /\ v \in 1 .. MaxVersion
    <3>1. Cardinality(Editors(m) \ {d}) \in Nat
      BY <1>0, FS_Subset, FS_CardinalityType
    <3>2. QED
      BY <1>0, <2>1, <2>2, <3>1 DEF CountInv
  <2>4. /\ written' = [written EXCEPT ![m] = v] /\ stored' = [stored EXCEPT ![m] = v]
        /\ Submit(d, x) /\ crossed' \in {crossed, crossed \cup {m}}
        /\ UNCHANGED <<world, keys, hub, buffer, client>>
    BY <1>0, <1>3, <2>1 DEF UpdateMessage
  <2>5. x \in Envelope
    BY <2>1, <2>3 DEF Envelope, Version
  <2> HIDE DEF m, v, x
  <2>6. stored' \in History /\ written' \in History /\ crossed' \in SUBSET Message
    BY <1>0, <2>1, <2>3, <2>4 DEF History, Version, ChatTypeOK
  <2>7. ChatTypeOK'
    BY <2>4, <2>5, <2>6, SubmitTask DEF ChatTypeOK, world, keys, hub, client
  <2>8. \A n : Editors(n)' = Editors(n) \ {d}
    BY <2>4, <2>5, SubmitTask
  <2>9. ASSUME NEW n \in Message PROVE stored'[n] \in {0, written'[n]} /\ written'[n] + Cardinality(Editors(n)') <= MaxVersion
    <3>1. CASE n = m
      <4>1. Cardinality(Editors(n)') = Cardinality(Editors(m)) - 1
        BY <2>2, <2>8, <3>1
      <4>2. stored'[n] = v /\ written'[n] = v
        BY <1>0, <2>1, <2>4, <3>1
      <4>3. written[m] + Cardinality(Editors(m)) <= MaxVersion /\ written[m] \in Nat /\ Cardinality(Editors(m)) \in Nat
        BY <1>0, <2>1 DEF CountInv
      <4>4. QED
        BY <4>1, <4>2, <4>3 DEF v
    <3>2. CASE n # m
      <4>1. Editors(n)' = Editors(n)
        BY <2>1, <2>8, <3>2
      <4>2. QED
        BY <1>0, <2>1, <2>4, <3>2, <4>1 DEF CountInv
    <3>3. QED
      BY <3>1, <3>2
  <2>10. ASSUME NEW e \in Device, Does(e, "edit")' \/ Does(e, "delete")' PROVE written'[doing'[e].msg] # 0
    <3>1. e # d
      BY <2>4, <2>5, <2>10, SubmitTask
    <3>2. doing'[e] = doing[e] /\ (Does(e, "edit") \/ Does(e, "delete"))
      BY <2>4, <2>5, <2>10, <3>1, SubmitTask DEF Does
    <3>3. QED
      BY <1>0, <2>1, <2>3, <2>4, <3>2, TaskFacts DEF CountInv
  <2>11. QED
    BY <2>7, <2>9, <2>10 DEF CountInv
<1>4. CASE DeleteMessage(d)
  <2> DEFINE m == doing[d].msg
             x == [kind |-> "delete", msg |-> m]
  <2>1. m \in Message /\ \A n : d \notin Editors(n)
    BY <1>4, TaskFacts DEF DeleteMessage, Editors, Does
  <2>2. /\ stored' = [stored EXCEPT ![m] = 0] /\ Submit(d, x) /\ crossed' \in {crossed, crossed \cup {m}}
        /\ UNCHANGED <<world, keys, written, hub, buffer, client>>
    BY <1>4 DEF DeleteMessage
  <2>3. x \in Envelope
    BY <2>1 DEF Envelope
  <2> HIDE DEF m, x
  <2>4. stored' \in History /\ crossed' \in SUBSET Message
    BY <1>0, <2>1, <2>2 DEF History, Version, ChatTypeOK
  <2>5. ChatTypeOK'
    BY <2>2, <2>3, <2>4, SubmitTask DEF ChatTypeOK, world, keys, hub, client
  <2>6. \A n : Editors(n)' = Editors(n)
    <3>1. \A n : Editors(n)' = Editors(n) \ {d}
      BY <2>2, <2>3, SubmitTask
    <3>2. \A n : Editors(n) \ {d} = Editors(n)
      BY <2>1
    <3>3. QED
      BY <3>1, <3>2
  <2>7. \A n \in Message : stored'[n] \in {0, written'[n]} /\ written'[n] + Cardinality(Editors(n)') <= MaxVersion
    BY <1>0, <2>1, <2>2, <2>6 DEF CountInv
  <2>8. ASSUME NEW e \in Device, Does(e, "edit")' \/ Does(e, "delete")' PROVE written'[doing'[e].msg] # 0
    <3>1. e # d
      BY <2>2, <2>3, <2>8, SubmitTask
    <3>2. doing'[e] = doing[e] /\ (Does(e, "edit") \/ Does(e, "delete"))
      BY <2>2, <2>3, <2>8, <3>1, SubmitTask DEF Does
    <3>3. QED
      BY <2>2, <3>2 DEF CountInv
  <2>9. QED
    BY <2>5, <2>7, <2>8 DEF CountInv
<1>5. CASE Enqueue(d)
  <2>1. /\ doing' = [doing EXCEPT ![d] = Idle] /\ queue' = Append(queue, doing[d].env) /\ Len(queue) < QueueSize
        /\ doing[d].env \in Envelope /\ \A n : d \notin Editors(n)
        /\ UNCHANGED <<world, keys, database, fan, buffer, client>>
    BY <1>5, TaskFacts DEF Enqueue, Editors, Does
  <2>2. queue' \in Seq(Envelope) /\ Len(queue') <= QueueSize
    BY <2>1 DEF ChatTypeOK
  <2>3. ChatTypeOK'
    BY <2>1, <2>2 DEF ChatTypeOK, world, keys, database, client
  <2>4. \A e \in Device : ~Does(d, "edit")' /\ ~Does(d, "delete")' /\ (e # d => doing'[e] = doing[e])
    BY <2>1 DEF Does, ChatTypeOK
  <2>5. \A n : Editors(n)' = Editors(n)
    BY <2>1, <2>4 DEF Editors, Does
  <2>6. QED
    BY <2>1, <2>3, <2>4, <2>5 DEF CountInv, Does, database
<1>6. QED
  BY <1>1, <1>2, <1>3, <1>4, <1>5 DEF Handle

\* What a buffer becomes: cut short, or longer by a frame if there is room.
LEMMA BufferType ==
  ASSUME ChatTypeOK, DOMAIN buffer' = Viewer, buffer' = [d \in Viewer |-> buffer'[d]],
         \A d \in Viewer :
           \/ buffer'[d] = buffer[d]
           \/ buffer[d] # <<>> /\ buffer'[d] = Tail(buffer[d])
           \/ HasRoom(d) /\ \E x \in Envelope \cup {Key} : buffer'[d] = Append(buffer[d], x)
  PROVE  buffer' \in [Viewer -> Seq(Envelope \cup {Key})] /\ \A d \in Viewer : Len(buffer'[d]) <= BufferSize
<1>1. ASSUME NEW d \in Viewer PROVE buffer'[d] \in Seq(Envelope \cup {Key}) /\ Len(buffer'[d]) <= BufferSize
  <2>1. buffer[d] \in Seq(Envelope \cup {Key}) /\ Len(buffer[d]) <= BufferSize
    BY DEF ChatTypeOK
  <2>2. CASE buffer'[d] = buffer[d]
    BY <2>1, <2>2
  <2>3. CASE buffer[d] # <<>> /\ buffer'[d] = Tail(buffer[d])
    BY <2>1, <2>3
  <2>4. ASSUME HasRoom(d), NEW x \in Envelope \cup {Key}, buffer'[d] = Append(buffer[d], x)
        PROVE  buffer'[d] \in Seq(Envelope \cup {Key}) /\ Len(buffer'[d]) <= BufferSize
    BY <2>1, <2>4 DEF HasRoom
  <2>5. QED
    BY <2>2, <2>3, <2>4
<1>2. QED
  BY <1>1

LEMMA DispatchType ==
  ASSUME ChatTypeOK, CountInv, GetChannelMembers \/ Dispatch \/ \E u \in User : SendChannelKey(u)
  PROVE  ChatTypeOK' /\ CountInv'
<1>1. CASE GetChannelMembers
  <2>1. PICK i \in NextOut :
          /\ fan' = {[env |-> queue[i], for |-> member]}
          /\ queue' = [j \in 1 .. Len(queue) - 1 |-> queue[IF j < i THEN j ELSE j + 1]]
    BY <1>1 DEF GetChannelMembers
  <2>2. queue \in Seq(Envelope) /\ Len(queue) <= QueueSize /\ i = 1 /\ Len(queue) >= 1
    BY DEF ChatTypeOK, NextOut
  <2>3. \A j \in 1 .. Len(queue) - 1 : queue'[j] \in Envelope
    BY <2>1, <2>2
  <2>4. queue' \in Seq(Envelope) /\ Len(queue') <= QueueSize
    BY <2>1, <2>2, <2>3
  <2>5. fan' \in SUBSET [env : Envelope, for : SUBSET User]
    BY <2>1, <2>2 DEF ChatTypeOK
  <2>6. QED
    BY <1>1, <2>4, <2>5, CountKept DEF GetChannelMembers, ChatTypeOK, world, keys, database, client
<1>2. CASE Dispatch
  <2>1. PICK f \in fan :
          /\ fan' = {}
          /\ buffer' = [d \in Viewer |->
               IF d \in {e \in connected : OwnerOf[e] \in f.for}
                        \ {e \in {g \in connected : OwnerOf[g] \in f.for} : ~HasRoom(e)}
               THEN Append(buffer[d], f.env) ELSE buffer[d]]
          /\ since' = [d \in Viewer |->
               IF d \in {e \in {g \in connected : OwnerOf[g] \in f.for} : ~HasRoom(e)}
               THEN Missed(d, {f.env.msg}) ELSE since[d]]
          /\ overtaken' = [d \in Viewer |->
               IF d \in {e \in {g \in connected : OwnerOf[g] \in f.for} : ~HasRoom(e)}
               THEN overtaken[d] \cup {f.env.msg} ELSE overtaken[d]]
          /\ UNCHANGED <<world, keys, database, doing, queue, page, opening, reply>>
    BY <1>2 DEF Dispatch
  <2>2. f.env \in Envelope /\ f.env.msg \in Message
    BY EnvelopeFacts DEF ChatTypeOK
  <2>3. buffer' \in [Viewer -> Seq(Envelope \cup {Key})] /\ \A d \in Viewer : Len(buffer'[d]) <= BufferSize
    <3>1. \A d \in Viewer : buffer'[d] = buffer[d] \/ (HasRoom(d) /\ buffer'[d] = Append(buffer[d], f.env))
      BY <2>1 DEF ChatTypeOK
    <3>2. DOMAIN buffer' = Viewer /\ buffer' = [d \in Viewer |-> buffer'[d]]
      BY <2>1
    <3>3. QED
      BY <2>2, <3>1, <3>2, BufferType
  <2>4. since' \in [Viewer -> SUBSET Message]
    BY <2>1, <2>2 DEF ChatTypeOK, Missed
  <2>5. overtaken' \in [Viewer -> SUBSET Message]
    BY <2>1, <2>2 DEF ChatTypeOK
  <2>6. fan' \in SUBSET [env : Envelope, for : SUBSET User]
    BY <2>1
  <2>7. QED
    BY <2>1, <2>3, <2>4, <2>5, <2>6, CountKept DEF ChatTypeOK, world, keys, database
<1>3. ASSUME NEW u \in User, SendChannelKey(u) PROVE ChatTypeOK' /\ CountInv'
  <2>1. buffer' \in [Viewer -> Seq(Envelope \cup {Key})] /\ \A d \in Viewer : Len(buffer'[d]) <= BufferSize
    <3>1. \A d \in Viewer : buffer'[d] = buffer[d] \/ (HasRoom(d) /\ buffer'[d] = Append(buffer[d], Key))
      BY <1>3 DEF SendChannelKey
    <3>2. DOMAIN buffer' = Viewer /\ buffer' = [d \in Viewer |-> buffer'[d]]
      BY <1>3 DEF SendChannelKey
    <3>3. QED
      BY <3>1, <3>2, BufferType
  <2>2. granting' \in SUBSET User /\ unkeyed' \in SUBSET Viewer
    BY <1>3 DEF SendChannelKey, ChatTypeOK
  <2>3. UNCHANGED <<world, keyDue, hasKey, database, doing, hub, client>>
    BY <1>3 DEF SendChannelKey
  <2>4. QED
    BY <2>1, <2>2, <2>3, CountKept DEF ChatTypeOK, world, database, hub, client
<1>4. QED
  BY <1>1, <1>2, <1>3

\* A frame is opened as it is, or unreadable.
LEMMA DecryptedType ==
  ASSUME NEW d \in Viewer, NEW e \in Envelope, e.kind # "delete"
  PROVE  /\ Decrypted(d, e) \in Frame /\ Decrypted(d, e).msg = e.msg /\ Decrypted(d, e).kind = e.kind
         /\ IF d \in hasKey THEN Decrypted(d, e) = e ELSE Decrypted(d, e).version = Unreadable
  BY DEF Decrypted, Envelope, Frame

LEMMA ReceiveType ==
  ASSUME ChatTypeOK, CountInv, NEW d \in Viewer, Receive(d)
  PROVE  ChatTypeOK' /\ CountInv'
<1> DEFINE e == Head(buffer[d])
<1>1. buffer[d] \in Seq(Envelope \cup {Key}) /\ buffer[d] # <<>> /\ e # Key
  BY DEF ChatTypeOK, Receive
<1>2. e \in Envelope
  BY <1>1
<1>3. buffer' \in [Viewer -> Seq(Envelope \cup {Key})] /\ \A c \in Viewer : Len(buffer'[c]) <= BufferSize
  <2>1. buffer' = [buffer EXCEPT ![d] = Tail(@)]
    BY DEF Receive
  <2>2. \A c \in Viewer : buffer'[c] = buffer[c] \/ (buffer[c] # <<>> /\ buffer'[c] = Tail(buffer[c]))
    BY <1>1, <2>1 DEF ChatTypeOK
  <2>3. DOMAIN buffer' = Viewer /\ buffer' = [c \in Viewer |-> buffer'[c]]
    BY <2>1 DEF ChatTypeOK
  <2>4. QED
    BY <2>2, <2>3, BufferType
<1>4. overtaken' \in [Viewer -> SUBSET Message]
  <2>1. overtaken' \in {overtaken, [overtaken EXCEPT ![d] = @ \cup {e.msg}]}
    BY DEF Receive
  <2>2. e.msg \in Message
    BY <1>2, EnvelopeFacts
  <2>3. overtaken \in [Viewer -> SUBSET Message]
    BY DEF ChatTypeOK
  <2> HIDE DEF e
  <2>4. QED
    BY <2>1, <2>2, <2>3
<1>5. page' \in [Viewer -> [Message -> Version \cup {Unreadable}]] /\ since' \in [Viewer -> SUBSET Message]
      /\ opening' \in [Viewer -> SUBSET Frame]
  <2>1. CASE e.kind = "delete"
    <3>1. page' = [page EXCEPT ![d][e.msg] = 0] /\ Touch(d, e.msg) /\ UNCHANGED opening
      BY <2>1 DEF Receive
    <3>2. QED
      BY <1>2, <3>1, EnvelopeFacts DEF ChatTypeOK, Touch, Missed, Version
  <2>2. CASE e.kind # "delete"
    <3>1. opening' = [opening EXCEPT ![d] = @ \cup {Decrypted(d, e)}] /\ UNCHANGED <<page, since>>
      BY <2>2 DEF Receive
    <3>2. QED
      BY <1>2, <2>2, <3>1, DecryptedType DEF ChatTypeOK
  <2>3. QED
    BY <2>1, <2>2
<1>6. UNCHANGED <<world, keys, database, doing, hub, reply>>
  BY DEF Receive
<1>7. QED
  BY <1>3, <1>4, <1>5, <1>6, CountKept DEF ChatTypeOK, world, keys, database, hub

LEMMA ReceiveKeyType ==
  ASSUME ChatTypeOK, CountInv, NEW d \in Viewer, ReceiveKey(d), keyDue' \subseteq keyDue,
         buffer' \in [Viewer -> Seq(Envelope \cup {Key})] /\ \A c \in Viewer : Len(buffer'[c]) <= BufferSize
  PROVE  ChatTypeOK' /\ CountInv'
<1>1. since' \in [Viewer -> SUBSET Message] /\ reply' \in [Viewer -> History \cup {NoReply, Asked}]
  BY DEF ReceiveKey, ChatTypeOK, Invalidated
<1>2. hasKey' \in SUBSET Viewer /\ unkeyed' \in SUBSET Viewer
  BY DEF ReceiveKey, ChatTypeOK
<1>3. UNCHANGED <<world, granting, database, doing, hub, page, opening, overtaken>>
  BY DEF ReceiveKey
<1>4. QED
  BY <1>1, <1>2, <1>3, CountKept DEF ChatTypeOK, world, database, hub

LEMMA ClientType ==
  ASSUME ChatTypeOK, CountInv, NEW d \in Viewer, Show(d)
  PROVE  ChatTypeOK' /\ CountInv'
<1>1. CASE WriteChannelKeys(d)
  <2>1. buffer' = buffer /\ keyDue' = keyDue \ {d}
    BY <1>1 DEF WriteChannelKeys
  <2>2. CASE ReceiveKey(d)
    BY <2>1, <2>2, ReceiveKeyType DEF ChatTypeOK
  <2>3. CASE UNCHANGED <<world, granting, hasKey, unkeyed, database, doing, hub, client>>
    BY <2>1, <2>3, CountKept DEF ChatTypeOK, world, database, hub, client
  <2>4. QED
    BY <1>1, <2>2, <2>3 DEF WriteChannelKeys
<1>2. CASE ReceiveGrantedKey(d)
  <2>1. buffer' = [buffer EXCEPT ![d] = Tail(@)] /\ keyDue' = keyDue /\ ReceiveKey(d) /\ buffer[d] # <<>>
    BY <1>2 DEF ReceiveGrantedKey
  <2>2. \A c \in Viewer : buffer'[c] = buffer[c] \/ (buffer[c] # <<>> /\ buffer'[c] = Tail(buffer[c]))
    BY <2>1 DEF ChatTypeOK
  <2>3. DOMAIN buffer' = Viewer /\ buffer' = [c \in Viewer |-> buffer'[c]]
    BY <2>1 DEF ChatTypeOK
  <2>4. QED
    BY <2>1, <2>2, <2>3, BufferType, ReceiveKeyType
<1>3. ASSUME NEW e \in opening[d], AddOpened(d, e) PROVE ChatTypeOK' /\ CountInv'
  <2>1. e \in Frame /\ e.msg \in Message /\ e.version \in Version \cup {Unreadable}
    BY DEF ChatTypeOK, Frame
  <2>2. opening' \in [Viewer -> SUBSET Frame] /\ since' \in [Viewer -> SUBSET Message]
    BY <1>3, <2>1 DEF AddOpened, Touch, Missed, ChatTypeOK
  <2>3. page' \in [Viewer -> [Message -> Version \cup {Unreadable}]]
    <3>1. Shown(d, e) \in Version \cup {Unreadable}
      BY <2>1 DEF Shown, ChatTypeOK
    <3>2. QED
      BY <1>3, <2>1, <3>1 DEF AddOpened, ChatTypeOK
  <2>4. UNCHANGED <<world, keys, database, doing, hub, buffer, reply, overtaken>>
    BY <1>3 DEF AddOpened
  <2>5. QED
    BY <2>2, <2>3, <2>4, CountKept DEF ChatTypeOK, world, keys, database, hub
<1>4. CASE ListMessages(d)
  <2>1. reply' \in [Viewer -> History \cup {NoReply, Asked}]
    BY <1>4 DEF ListMessages, ChatTypeOK
  <2>2. QED
    BY <1>4, <2>1, CountKept DEF ListMessages, ChatTypeOK, world, keys, database, hub
<1>5. CASE ShowHistory(d)
  <2>1. reply[d] \in [Message -> Version]
    BY <1>5 DEF ShowHistory, Answered, ChatTypeOK, History
  <2>2. page' \in [Viewer -> [Message -> Version \cup {Unreadable}]]
    <3>1. page' = [page EXCEPT ![d] =
            [m \in Message |-> IF reply[d][m] = 0 \/ d \in hasKey THEN reply[d][m] ELSE Unreadable]]
      BY <1>5 DEF ShowHistory
    <3>2. [m \in Message |-> IF reply[d][m] = 0 \/ d \in hasKey THEN reply[d][m] ELSE Unreadable]
            \in [Message -> Version \cup {Unreadable}]
      BY <2>1
    <3>3. QED
      BY <3>1, <3>2 DEF ChatTypeOK
  <2>3. reply' \in [Viewer -> History \cup {NoReply, Asked}] /\ since' \in [Viewer -> SUBSET Message]
    BY <1>5 DEF ShowHistory, ChatTypeOK
  <2>4. overtaken' \in [Viewer -> SUBSET Message]
    <3>1. PICK x : x = {e.msg : e \in Range(buffer[d]) \ {Key}}
      OBVIOUS
    <3>2. overtaken' = [overtaken EXCEPT ![d] = since[d] \cup BeingOpened(d) \cup (@ \cap x)]
      BY <1>5, <3>1 DEF ShowHistory
    <3>3. BeingOpened(d) \subseteq Message
      BY DEF BeingOpened, ChatTypeOK, Frame
    <3>4. QED
      BY <3>2, <3>3 DEF ChatTypeOK
  <2>5. UNCHANGED <<world, keys, database, doing, hub, buffer, opening>>
    BY <1>5 DEF ShowHistory
  <2>6. QED
    BY <2>2, <2>3, <2>4, <2>5, CountKept DEF ChatTypeOK, world, keys, database, hub
<1>6. QED
  BY <1>1, <1>2, <1>3, <1>4, <1>5, ReceiveType, WorldType DEF Show

LEMMA TypeStep == ChatTypeOK /\ CountInv /\ [ChatNext]_chatVars => ChatTypeOK' /\ CountInv'
<1> SUFFICES ASSUME ChatTypeOK, CountInv, [ChatNext]_chatVars PROVE ChatTypeOK' /\ CountInv'
  OBVIOUS
<1>1. CASE ChatNext
  BY <1>1, WorldType, HandlerType, DispatchType, ClientType DEF ChatNext
<1>2. CASE UNCHANGED chatVars
  BY <1>2, CountKept DEF chatVars, world, keys, database, hub, client, ChatTypeOK
<1>3. QED
  BY <1>1, <1>2

\* The state of the channel's messages, of the hub and of the clients has its types.
THEOREM ChatTypeCorrect == ChatSpec => []ChatTypeOK
<1>1. ChatSpec => [](ChatTypeOK /\ CountInv)
  BY TypeInit, TypeStep, PTL DEF ChatSpec
<1>2. QED
  BY <1>1, PTL

-----------------------------------------------------------------------------
(* Chat: the order of what is under way *)

\* What is on its way: in the buffer of device d, in dispatch, in dispatch to d, in the
\* queue, and in the hands of a reader.
Buffered(d) == {buffer[d][i] : i \in DOMAIN buffer[d]} \ {Key}
Fanned      == {f.env : f \in fan}
FannedTo(d) == {f.env : f \in {g \in fan : OwnerOf[d] \in g.for}}
Queued      == {queue[i] : i \in DOMAIN queue}
Submitters  == {e \in Device : Does(e, "submit")}
Submitted   == {doing[e].env : e \in Submitters}
InHub       == Fanned \cup Queued \cup Submitted
Readable(d) == {e \in opening[d] : e.version # Unreadable}

\* x was made before y, unless both are deletions or two handlers had the message in
\* hand at once.
Precedes(x, y) ==
  x.msg = y.msg /\ x.msg \notin crossed =>
    Rank(x) < Rank(y) \/ (x.kind = "delete" /\ y.kind = "delete")

Ordered(s) == \A i, j \in DOMAIN s : i < j /\ s[i] # Key /\ s[j] # Key => Precedes(s[i], s[j])

\* An envelope tells what was made of its message.
Made(e) ==
  /\ written[e.msg] # 0
  /\ e.kind = "message" => e.version = 1
  /\ e.kind = "update" => e.version > 1
  /\ e.kind # "delete" => e.version <= written[e.msg]
  /\ e.kind = "delete" /\ e.msg \notin crossed => stored[e.msg] = 0

MadeInv ==
  /\ \A d, e \in Submitters :
       doing[d].env.msg = doing[e].env.msg /\ doing[d].env.msg \notin crossed => d = e
  /\ \A e \in InHub : Made(e)
  /\ \A d \in Viewer : \A e \in Buffered(d) \cup Readable(d) : Made(e)

OrderInv ==
  /\ \A f, g \in fan : f = g
  /\ Ordered(queue)
  /\ \A x \in Fanned, y \in Queued \cup Submitted : Precedes(x, y)
  /\ \A x \in Queued, y \in Submitted : Precedes(x, y)
  /\ \A d \in Viewer :
       /\ Ordered(buffer[d])
       /\ \A x \in Buffered(d), y \in InHub : Precedes(x, y)
       /\ \A x \in Readable(d), y \in Buffered(d) \cup InHub : Precedes(x, y)

ChatInv == ChatTypeOK /\ CountInv /\ MadeInv /\ OrderInv

LEMMA FlightTypes ==
  ASSUME ChatTypeOK
  PROVE  /\ InHub \subseteq Envelope /\ Fanned \subseteq Envelope /\ Queued \subseteq Envelope
         /\ Submitted \subseteq Envelope
         /\ \A d \in Viewer : Buffered(d) \subseteq Envelope /\ Readable(d) \subseteq Envelope
<1>1. Fanned \subseteq Envelope
  BY DEF Fanned, ChatTypeOK
<1>2. Queued \subseteq Envelope
  BY DEF Queued, ChatTypeOK
<1>3. Submitted \subseteq Envelope
  BY TaskFacts DEF Submitted, Submitters
<1>4. ASSUME NEW d \in Viewer PROVE Buffered(d) \subseteq Envelope
  BY DEF Buffered, ChatTypeOK
<1>5. ASSUME NEW d \in Viewer PROVE Readable(d) \subseteq Envelope
  BY DEF Readable, ChatTypeOK, Frame, Envelope
<1>6. QED
  BY <1>1, <1>2, <1>3, <1>4, <1>5 DEF InHub

\* t is s without its first element.
RestOf(t, s) == DOMAIN t = 1 .. Len(s) - 1 /\ \A j \in 1 .. Len(s) - 1 : t[j] = s[j + 1]

LEMMA OrderedRest ==
  ASSUME NEW s \in Seq(Envelope \cup {Key}), s # <<>>, Ordered(s), NEW t, RestOf(t, s)
  PROVE  /\ Ordered(t)
         /\ Head(s) = s[1] /\ Head(s) \in Envelope \cup {Key}
         /\ {s[i] : i \in DOMAIN s} = {t[i] : i \in DOMAIN t} \cup {Head(s)}
         /\ \A i \in DOMAIN t : Head(s) # Key /\ t[i] # Key => Precedes(Head(s), t[i])
<1>1. Head(s) = s[1] /\ Head(s) \in Envelope \cup {Key} /\ 1 \in DOMAIN s
  OBVIOUS
<1>2. \A i \in DOMAIN t : i \in Nat /\ i + 1 \in DOMAIN s /\ 1 < i + 1 /\ t[i] = s[i + 1]
  BY DEF RestOf
<1>3. \A i \in DOMAIN s : i \in Nat /\ (i # 1 => i - 1 \in DOMAIN t /\ t[i - 1] = s[i])
  BY DEF RestOf
<1>4. Ordered(t)
  BY <1>2 DEF Ordered
<1>5. \A i \in DOMAIN t : Head(s) # Key /\ t[i] # Key => Precedes(Head(s), t[i])
  BY <1>1, <1>2 DEF Ordered
<1>6. {s[i] : i \in DOMAIN s} = {t[i] : i \in DOMAIN t} \cup {Head(s)}
  <2>1. \A i \in DOMAIN s : i = 1 \/ \E j \in DOMAIN t : s[i] = t[j]
    BY <1>3
  <2>2. \A j \in DOMAIN t : \E i \in DOMAIN s : t[j] = s[i]
    BY <1>2
  <2>3. QED
    BY <1>1, <2>1, <2>2
<1>7. QED
  BY <1>1, <1>4, <1>5, <1>6

LEMMA OrderedTail ==
  ASSUME NEW s \in Seq(Envelope \cup {Key}), s # <<>>, Ordered(s)
  PROVE  /\ Ordered(Tail(s))
         /\ Head(s) \in Envelope \cup {Key}
         /\ {s[i] : i \in DOMAIN s} = {Tail(s)[i] : i \in DOMAIN Tail(s)} \cup {Head(s)}
         /\ \A i \in DOMAIN Tail(s) : Head(s) # Key /\ Tail(s)[i] # Key => Precedes(Head(s), Tail(s)[i])
<1>1. RestOf(Tail(s), s)
  BY DEF RestOf
<1>2. QED
  BY <1>1, OrderedRest

LEMMA OrderedAppend ==
  ASSUME NEW s \in Seq(Envelope \cup {Key}), Ordered(s), NEW x \in Envelope \cup {Key},
         x = Key \/ \A i \in DOMAIN s : s[i] = Key \/ Precedes(s[i], x)
  PROVE  /\ Ordered(Append(s, x))
         /\ {Append(s, x)[i] : i \in DOMAIN Append(s, x)} = {s[i] : i \in DOMAIN s} \cup {x}
<1>1. DOMAIN s = 1 .. Len(s) /\ Len(s) \in Nat /\ DOMAIN Append(s, x) = 1 .. Len(s) + 1
  OBVIOUS
<1>2. \A i \in DOMAIN s : Append(s, x)[i] = s[i]
  OBVIOUS
<1>3. Append(s, x)[Len(s) + 1] = x
  OBVIOUS
<1>4. Ordered(Append(s, x))
  <2> SUFFICES ASSUME NEW i \in DOMAIN Append(s, x), NEW j \in DOMAIN Append(s, x), i < j,
                      Append(s, x)[i] # Key, Append(s, x)[j] # Key
               PROVE  Precedes(Append(s, x)[i], Append(s, x)[j])
    BY DEF Ordered
  <2>1. i \in DOMAIN s /\ (j \in DOMAIN s \/ j = Len(s) + 1)
    BY <1>1
  <2>2. CASE j \in DOMAIN s
    BY <1>2, <2>1, <2>2 DEF Ordered
  <2>3. CASE j = Len(s) + 1
    BY <1>2, <1>3, <2>1, <2>3
  <2>4. QED
    BY <2>1, <2>2, <2>3
<1>5. QED
  BY <1>1, <1>2, <1>3, <1>4

\* What the three handlers that change m have in common.
Changes(d, x) ==
  /\ ~Does(d, "submit") /\ Submit(d, x)
  /\ stored' = [stored EXCEPT ![x.msg] = IF x.kind = "delete" THEN 0 ELSE x.version]
  /\ written' = [written EXCEPT ![x.msg] = IF x.kind = "delete" THEN @ ELSE x.version]
  /\ IF x.kind = "message" THEN written[x.msg] = 0 /\ x.version = 1 ELSE written[x.msg] # 0
  /\ x.kind = "update" => x.version = written[x.msg] + 1
  /\ crossed' \in {crossed, crossed \cup {x.msg}}
  /\ x.msg \notin crossed' => ~Contended(d, x.msg) /\ (x.kind = "update" => stored[x.msg] # 0)
  /\ UNCHANGED <<world, keys, hub, buffer, client>>

LEMMA HandlerChanges ==
  ASSUME ChatInv, NEW d \in Device,
         (\E m \in Message : HandleChatMessage(d, m)) \/ UpdateMessage(d) \/ DeleteMessage(d)
  PROVE  \E x \in Envelope : Changes(d, x)
<1>0. /\ stored \in [Message -> 0 .. MaxVersion] /\ written \in [Message -> 0 .. MaxVersion]
      /\ \A m : IsFiniteSet(Editors(m)) /\ Cardinality(Editors(m)) \in Nat
  BY EditorsFinite DEF ChatInv, ChatTypeOK, History, Version
<1>1. ASSUME NEW m \in Message, HandleChatMessage(d, m) PROVE \E x \in Envelope : Changes(d, x)
  <2> DEFINE x == [kind |-> "message", msg |-> m, version |-> 1]
  <2>1. x \in Envelope
    BY <1>0 DEF Envelope, Version
  <2>2. ASSUME NEW e \in Device \ {d}, Submitting(e, m) PROVE FALSE
    <3>1. doing[e].env \in InHub /\ doing[e].env.msg = m
      BY <2>2 DEF Submitting, InHub, Submitted, Submitters
    <3>2. written[m] # 0
      BY <3>1 DEF ChatInv, MadeInv, Made
    <3>3. QED
      BY <1>1, <3>2 DEF HandleChatMessage
  <2>3. ~Contended(d, m)
    BY <2>2 DEF Contended
  <2>4. Changes(d, x)
    BY <1>0, <1>1, <2>3 DEF HandleChatMessage, Changes, Ready, Does
  <2>5. QED
    BY <2>1, <2>4
<1>2. CASE UpdateMessage(d)
  <2> DEFINE m == doing[d].msg
             x == [kind |-> "update", msg |-> m, version |-> written[m] + 1]
  <2>1. m \in Message /\ d \in Editors(m) /\ written[m] # 0
    BY <1>2, TaskFacts DEF UpdateMessage, Editors, ChatInv, CountInv
  <2>2. written[m] + 1 \in 1 .. MaxVersion
    <3>1. Cardinality(Editors(m)) # 0
      BY <1>0, <2>1, FS_EmptySet
    <3>2. QED
      BY <1>0, <2>1, <3>1 DEF ChatInv, CountInv
  <2>3. x \in Envelope
    BY <2>1, <2>2 DEF Envelope, Version
  <2>4. Changes(d, x)
    BY <1>0, <1>2, <2>1 DEF UpdateMessage, Changes, Does
  <2>5. QED
    BY <2>3, <2>4
<1>3. CASE DeleteMessage(d)
  <2> DEFINE m == doing[d].msg
             x == [kind |-> "delete", msg |-> m]
  <2>1. m \in Message /\ written[m] # 0
    BY <1>3, TaskFacts DEF DeleteMessage, ChatInv, CountInv
  <2>2. x \in Envelope
    BY <2>1 DEF Envelope
  <2>3. written = [written EXCEPT ![m] = @]
    BY <1>0
  <2>4. Changes(d, x)
    BY <1>0, <1>3, <2>1, <2>3 DEF DeleteMessage, Changes, Does
  <2>5. QED
    BY <2>2, <2>4
<1>4. QED
  BY <1>1, <1>2, <1>3

\* What a change does to the facts about envelopes.
LEMMA ChangeFacts ==
  ASSUME ChatInv, NEW d \in Device, NEW x \in Envelope, Changes(d, x)
  PROVE  /\ Submitters' = Submitters \cup {d} /\ d \notin Submitters /\ Submitted' = Submitted \cup {x}
         /\ \A e \in Submitters : doing'[e] = doing[e]
         /\ doing'[d].env = x
         /\ Made(x)'
         /\ \A y \in Envelope : Made(y) => Made(y)'
         /\ \A y \in Envelope : Made(y) => Precedes(y, x)'
         /\ \A y, z : Precedes(y, z) => Precedes(y, z)'
<1>1. Submit(d, x) /\ ~Does(d, "submit") /\ ChatTypeOK
  BY DEF Changes, ChatInv
<1>2. /\ stored \in [Message -> 0 .. MaxVersion] /\ written \in [Message -> 0 .. MaxVersion]
      /\ \A m \in Message : stored[m] \in {0, written[m]}
  BY DEF ChatInv, ChatTypeOK, CountInv, History, Version
<1>3. x.msg \in Message /\ (x.kind # "delete" => x.version \in 1 .. MaxVersion) /\ x.kind \in {"message", "update", "delete"}
  BY EnvelopeFacts
<1>4. /\ doing'[d].env = x /\ Does(d, "submit")' /\ \A e \in Device \ {d} : doing'[e] = doing[e]
  BY <1>1, SubmitTask
<1>5. Submitters' = Submitters \cup {d} /\ d \notin Submitters
  BY <1>1, <1>4 DEF Submitters, Does
<1>6. \A e \in Submitters : doing'[e] = doing[e]
  BY <1>4, <1>5 DEF Submitters
<1>7. Submitted' = Submitted \cup {x}
  BY <1>4, <1>5, <1>6 DEF Submitted
<1>8. Made(x)'
  BY <1>2, <1>3 DEF Made, Changes
<1>9. ASSUME NEW y \in Envelope, Made(y) PROVE Made(y)' /\ Precedes(y, x)'
  <2>1. y.msg \in Message /\ (y.kind # "delete" => y.version \in 1 .. MaxVersion) /\ y.kind \in {"message", "update", "delete"}
    BY EnvelopeFacts
  <2>2. CASE y.msg # x.msg
    <3>1. written'[y.msg] = written[y.msg] /\ stored'[y.msg] = stored[y.msg] /\ (y.msg \in crossed <=> y.msg \in crossed')
      BY <1>2, <1>3, <2>1, <2>2 DEF Changes
    <3>2. QED
      BY <1>9, <2>2, <3>1 DEF Made, Precedes
  <2>3. CASE y.msg = x.msg
    <3>1. written[y.msg] # 0 /\ x.kind # "message"
      BY <1>9, <2>3 DEF Made, Changes
    <3>2. CASE x.kind = "update"
      <4>1. written'[y.msg] = written[y.msg] + 1 /\ x.version = written[y.msg] + 1
        BY <1>2, <1>3, <2>3, <3>2 DEF Changes
      <4>2. y.kind = "delete" => y.msg \in crossed'
        BY <1>9, <2>3, <3>2 DEF Made, Changes
      <4>3. Made(y)'
        BY <1>2, <1>9, <2>1, <4>1, <4>2 DEF Made
      <4>4. Precedes(y, x)'
        BY <1>2, <1>9, <2>1, <3>2, <4>1, <4>2 DEF Made, Precedes, Rank
      <4>5. QED
        BY <4>3, <4>4
    <3>3. CASE x.kind = "delete"
      <4>1. written'[y.msg] = written[y.msg] /\ stored'[y.msg] = 0
        BY <1>2, <1>3, <2>3, <3>3 DEF Changes
      <4>2. Made(y)'
        BY <1>9, <4>1 DEF Made
      <4>3. Precedes(y, x)'
        BY <2>1, <3>3 DEF Precedes, Rank
      <4>4. QED
        BY <4>2, <4>3
    <3>4. QED
      BY <1>3, <3>1, <3>2, <3>3
  <2>4. QED
    BY <2>2, <2>3
<1>10. crossed \subseteq crossed'
  BY DEF Changes
<1>11. \A y, z : Precedes(y, z) => Precedes(y, z)'
  BY <1>10 DEF Precedes
<1>12. QED
  BY <1>4, <1>5, <1>6, <1>7, <1>8, <1>9, <1>11
\* What stays as it is, when an action leaves the hub and the clients alone.
LEMMA SameFlight ==
  /\ UNCHANGED <<hub, buffer>> =>
       Fanned' = Fanned /\ Queued' = Queued /\ \A d : Buffered(d)' = Buffered(d) /\ FannedTo(d)' = FannedTo(d)
  /\ UNCHANGED opening => \A d : Readable(d)' = Readable(d) /\ BeingOpened(d)' = BeingOpened(d)
  /\ UNCHANGED doing => Submitters' = Submitters /\ Submitted' = Submitted
<1>1. ASSUME UNCHANGED <<hub, buffer>>
      PROVE  Fanned' = Fanned /\ Queued' = Queued /\ \A d : Buffered(d)' = Buffered(d) /\ FannedTo(d)' = FannedTo(d)
  BY <1>1 DEF hub, Fanned, Queued, Buffered, FannedTo
<1>2. ASSUME UNCHANGED opening PROVE \A d : Readable(d)' = Readable(d) /\ BeingOpened(d)' = BeingOpened(d)
  BY <1>2 DEF Readable, BeingOpened
<1>3. ASSUME UNCHANGED doing PROVE Submitters' = Submitters /\ Submitted' = Submitted
  BY <1>3 DEF Submitters, Submitted, Does
<1>4. QED
  BY <1>1, <1>2, <1>3

LEMMA SameFacts ==
  ASSUME UNCHANGED database
  PROVE  /\ \A e : Made(e)' <=> Made(e)
         /\ \A x, y : Precedes(x, y)' <=> Precedes(x, y)
         /\ \A s : Ordered(s)' <=> Ordered(s)
<1>1. \A e : Made(e)' <=> Made(e)
  BY DEF Made, database
<1>2. \A x, y : Precedes(x, y)' <=> Precedes(x, y)
  BY DEF Precedes, database
<1>3. \A s : Ordered(s)' <=> Ordered(s)
  BY <1>2 DEF Ordered
<1>4. QED
  BY <1>1, <1>2, <1>3

LEMMA ChangeOrder ==
  ASSUME ChatInv, NEW d \in Device, NEW x \in Envelope, Changes(d, x)
  PROVE  MadeInv' /\ OrderInv'
<1>1. /\ Submitters' = Submitters \cup {d} /\ d \notin Submitters /\ Submitted' = Submitted \cup {x}
      /\ \A e \in Submitters : doing'[e] = doing[e]
      /\ doing'[d].env = x /\ Made(x)'
      /\ \A y \in Envelope : Made(y) => Made(y)' /\ Precedes(y, x)'
      /\ \A y, z : Precedes(y, z) => Precedes(y, z)'
  BY ChangeFacts
<1>2. /\ Fanned' = Fanned /\ Queued' = Queued /\ fan' = fan /\ queue' = queue /\ buffer' = buffer
      /\ \A c \in Viewer : Buffered(c)' = Buffered(c) /\ Readable(c)' = Readable(c)
      /\ InHub' = InHub \cup {x}
  <2>1. UNCHANGED <<hub, buffer>> /\ UNCHANGED opening /\ fan' = fan /\ queue' = queue /\ buffer' = buffer
    BY DEF Changes, client, hub
  <2>2. QED
    BY <1>1, <2>1, SameFlight DEF InHub
<1>3. /\ \A e \in InHub : e \in Envelope /\ Made(e)
      /\ \A c \in Viewer : \A e \in Buffered(c) \cup Readable(c) : e \in Envelope /\ Made(e)
  BY FlightTypes DEF ChatInv, MadeInv
<1>4. ASSUME NEW e \in Submitters', NEW g \in Submitters',
             doing'[e].env.msg = doing'[g].env.msg, doing'[e].env.msg \notin crossed'
      PROVE  e = g
  <2>1. crossed \subseteq crossed' /\ (x.msg \notin crossed' => ~Contended(d, x.msg))
    BY DEF Changes
  <2>2. CASE e \in Submitters /\ g \in Submitters
    BY <1>1, <1>4, <2>1, <2>2 DEF ChatInv, MadeInv
  <2>3. ASSUME NEW a \in Submitters, doing[a].env.msg = x.msg, x.msg \notin crossed' PROVE FALSE
    BY <1>1, <2>1, <2>3 DEF Contended, Submitting, Submitters
  <2>4. QED
    BY <1>1, <1>4, <2>2, <2>3
<1>5. MadeInv'
  BY <1>1, <1>2, <1>3, <1>4 DEF MadeInv
<1>6. ASSUME NEW s, Ordered(s) PROVE Ordered(s)'
  BY <1>1, <1>6 DEF Ordered
<1>7. Ordered(queue)' /\ \A c \in Viewer : Ordered(buffer[c])'
  BY <1>2, <1>6 DEF ChatInv, OrderInv
<1>8. /\ \A y \in Fanned', z \in (Queued \cup Submitted)' : Precedes(y, z)'
      /\ \A y \in Queued', z \in Submitted' : Precedes(y, z)'
  BY <1>1, <1>2, <1>3 DEF ChatInv, OrderInv, InHub
<1>9. ASSUME NEW c \in Viewer
      PROVE  /\ \A y \in Buffered(c)', z \in InHub' : Precedes(y, z)'
             /\ \A y \in Readable(c)', z \in (Buffered(c) \cup InHub)' : Precedes(y, z)'
  BY <1>1, <1>2, <1>3 DEF ChatInv, OrderInv
<1>10. QED
  BY <1>2, <1>5, <1>7, <1>8, <1>9 DEF OrderInv, ChatInv

\* The reader hands its envelope to the queue.
LEMMA EnqueueFacts ==
  ASSUME ChatInv, NEW d \in Device, Enqueue(d)
  PROVE  /\ d \in Submitters /\ doing[d].env \in Submitted /\ doing[d].env \in Envelope
         /\ Submitters' = Submitters \ {d}
         /\ \A e \in Submitters' : doing'[e] = doing[e]
         /\ Submitted' \subseteq Submitted /\ Submitted = Submitted' \cup {doing[d].env}
         /\ queue' = Append(queue, doing[d].env) /\ Queued' = Queued \cup {doing[d].env}
         /\ UNCHANGED <<world, keys, database, fan, buffer, client>>
<1>1. /\ d \in Submitters /\ doing[d].env \in Submitted /\ doing[d].env \in Envelope /\ queue' = Append(queue, doing[d].env)
      /\ doing' = [doing EXCEPT ![d] = Idle] /\ doing \in [Device -> Task \cup {Idle}]
      /\ UNCHANGED <<world, keys, database, fan, buffer, client>>
  BY TaskFacts DEF Enqueue, Submitters, Submitted, ChatInv, ChatTypeOK
<1>2. Submitters' = Submitters \ {d} /\ \A e \in Submitters' : doing'[e] = doing[e]
  BY <1>1 DEF Submitters, Does
<1>3. Submitted' \subseteq Submitted /\ Submitted = Submitted' \cup {doing[d].env}
  BY <1>1, <1>2 DEF Submitted
<1>4. Queued' = Queued \cup {doing[d].env}
  <2>1. queue \in Seq(Envelope)
    BY DEF ChatInv, ChatTypeOK
  <2>2. DOMAIN queue' = 1 .. Len(queue) + 1 /\ queue'[Len(queue) + 1] = doing[d].env
        /\ \A i \in 1 .. Len(queue) : queue'[i] = queue[i]
    BY <1>1, <2>1
  <2>3. DOMAIN queue = 1 .. Len(queue) /\ 1 .. Len(queue) + 1 = (1 .. Len(queue)) \cup {Len(queue) + 1}
    BY <2>1
  <2>4. QED
    BY <2>2, <2>3 DEF Queued
<1>5. QED
  BY <1>1, <1>2, <1>3, <1>4

LEMMA EnqueueOrder ==
  ASSUME ChatInv, NEW d \in Device, Enqueue(d)
  PROVE  MadeInv' /\ OrderInv'
<1> DEFINE x == doing[d].env
<1>1. /\ d \in Submitters /\ x \in Submitted /\ x \in Envelope
      /\ Submitters' = Submitters \ {d}
      /\ \A e \in Submitters' : doing'[e] = doing[e]
      /\ Submitted' \subseteq Submitted /\ Submitted = Submitted' \cup {x}
      /\ queue' = Append(queue, x) /\ Queued' = Queued \cup {x}
      /\ UNCHANGED <<world, keys, database, fan, buffer, client>>
  BY EnqueueFacts
<1>2. /\ \A e : Made(e)' <=> Made(e)
      /\ \A y, z : Precedes(y, z)' <=> Precedes(y, z)
      /\ \A s : Ordered(s)' <=> Ordered(s)
  BY <1>1, SameFacts
<1>3. /\ Fanned' = Fanned /\ fan' = fan /\ buffer' = buffer /\ crossed' = crossed
      /\ \A c \in Viewer : Buffered(c)' = Buffered(c) /\ Readable(c)' = Readable(c)
  BY <1>1, SameFlight DEF client, database, Fanned, Buffered
<1>4. InHub' = InHub
  BY <1>1, <1>3 DEF InHub
<1>5. MadeInv'
  BY <1>1, <1>2, <1>3, <1>4 DEF ChatInv, MadeInv
<1>6. ASSUME NEW y \in Submitted' PROVE Precedes(x, y)
  <2>1. PICK e \in Submitters \ {d} : y = doing[e].env
    BY <1>1 DEF Submitted
  <2>2. x.msg # y.msg \/ x.msg \in crossed
    BY <1>1, <2>1 DEF ChatInv, MadeInv
  <2>3. QED
    BY <2>2 DEF Precedes
<1>7. Ordered(queue)'
  <2>1. queue \in Seq(Envelope \cup {Key}) /\ Ordered(queue)
    <3>1. queue \in Seq(Envelope)
      BY DEF ChatInv, ChatTypeOK
    <3>2. QED
      BY <3>1 DEF ChatInv, OrderInv
  <2>2. \A i \in DOMAIN queue : Precedes(queue[i], x)
    BY <1>1 DEF ChatInv, OrderInv, Queued
  <2>3. Ordered(Append(queue, x))
    BY <1>1, <2>1, <2>2, OrderedAppend
  <2>4. QED
    BY <1>1, <1>2, <2>3
<1>8. /\ \A c \in Viewer : Ordered(buffer[c])'
      /\ \A f, g \in fan' : f = g
  BY <1>2, <1>3 DEF ChatInv, OrderInv
<1>9. /\ \A y \in Fanned', z \in (Queued \cup Submitted)' : Precedes(y, z)'
      /\ \A y \in Queued', z \in Submitted' : Precedes(y, z)'
  <2> HIDE DEF x
  <2>1. QED
    BY <1>1, <1>2, <1>3, <1>6 DEF ChatInv, OrderInv
<1>10. ASSUME NEW c \in Viewer
      PROVE  /\ \A y \in Buffered(c)', z \in InHub' : Precedes(y, z)'
             /\ \A y \in Readable(c)', z \in (Buffered(c) \cup InHub)' : Precedes(y, z)'
  BY <1>2, <1>3, <1>4 DEF ChatInv, OrderInv
<1>11. QED
  BY <1>5, <1>7, <1>8, <1>9, <1>10 DEF OrderInv
\* The first envelope of the queue goes into dispatch.
LEMMA MembersFacts ==
  ASSUME ChatInv, GetChannelMembers
  PROVE  /\ queue # <<>> /\ Head(queue) \in Envelope /\ Ordered(queue')
         /\ fan = {} /\ fan' = {[env |-> Head(queue), for |-> member]}
         /\ Fanned = {} /\ Fanned' = {Head(queue)}
         /\ Queued = Queued' \cup {Head(queue)}
         /\ \A y \in Queued' : Precedes(Head(queue), y)
         /\ UNCHANGED <<world, keys, database, doing, buffer, client>>
<1>1. PICK i \in NextOut :
        /\ fan' = {[env |-> queue[i], for |-> member]}
        /\ queue' = [j \in 1 .. Len(queue) - 1 |-> queue[IF j < i THEN j ELSE j + 1]]
  BY DEF GetChannelMembers
<1>2. queue \in Seq(Envelope) /\ i = 1 /\ Len(queue) >= 1
  <2>1. queue \in Seq(Envelope) /\ i = 1 /\ i \in DOMAIN queue
    BY DEF ChatInv, ChatTypeOK, NextOut
  <2>2. QED
    BY <2>1
<1>3. queue # <<>> /\ Head(queue) \in Envelope /\ queue[1] = Head(queue) /\ queue \in Seq(Envelope \cup {Key})
  BY <1>2
<1>4. RestOf(queue', queue)
  BY <1>1, <1>2 DEF RestOf
<1>5. fan = {} /\ fan' = {[env |-> Head(queue), for |-> member]}
      /\ UNCHANGED <<world, keys, database, doing, buffer, client>>
  BY <1>1, <1>2, <1>3 DEF GetChannelMembers
<1>6. Fanned = {} /\ Fanned' = {Head(queue)}
  BY <1>5 DEF Fanned
<1>7. Ordered(queue)
  BY DEF ChatInv, OrderInv
<1>8. /\ Ordered(queue')
      /\ {queue[i_1] : i_1 \in DOMAIN queue} = {queue'[j] : j \in DOMAIN queue'} \cup {Head(queue)}
      /\ \A j \in DOMAIN queue' : Head(queue) # Key /\ queue'[j] # Key => Precedes(Head(queue), queue'[j])
  BY <1>3, <1>4, <1>7, OrderedRest
<1>9. Queued = Queued' \cup {Head(queue)}
  BY <1>8 DEF Queued
<1>10. ASSUME NEW y \in Queued' PROVE Precedes(Head(queue), y)
  <2>1. PICK j \in DOMAIN queue' : y = queue'[j]
    BY DEF Queued
  <2>2. y \in Envelope /\ Head(queue) # Key
    BY <1>3, <1>9, FlightTypes, EnvelopeFacts DEF ChatInv
  <2>3. QED
    BY <1>8, <2>1, <2>2, EnvelopeFacts
<1>11. QED
  BY <1>3, <1>5, <1>6, <1>8, <1>9, <1>10

LEMMA MembersOrder ==
  ASSUME ChatInv, GetChannelMembers
  PROVE  MadeInv' /\ OrderInv'
<1>1. /\ queue # <<>> /\ Ordered(queue')
      /\ fan = {} /\ fan' = {[env |-> Head(queue), for |-> member]}
      /\ Fanned = {} /\ Fanned' = {Head(queue)}
      /\ Queued = Queued' \cup {Head(queue)}
      /\ \A y \in Queued' : Precedes(Head(queue), y)
      /\ UNCHANGED <<world, keys, database, doing, buffer, client>>
  BY MembersFacts
<1>2. /\ \A e : Made(e)' <=> Made(e)
      /\ \A y, z : Precedes(y, z)' <=> Precedes(y, z)
      /\ \A s : Ordered(s)' <=> Ordered(s)
  BY <1>1, SameFacts
<1>3. /\ Submitters' = Submitters /\ Submitted' = Submitted /\ buffer' = buffer /\ crossed' = crossed /\ doing' = doing
      /\ \A c \in Viewer : Buffered(c)' = Buffered(c) /\ Readable(c)' = Readable(c)
  BY <1>1, SameFlight DEF client, database, Buffered
<1>4. InHub' = InHub
  BY <1>1, <1>3 DEF InHub
<1>5. MadeInv'
  BY <1>2, <1>3, <1>4 DEF ChatInv, MadeInv
<1>6. Ordered(queue)'
  BY <1>1, <1>2
<1>7. /\ \A c \in Viewer : Ordered(buffer[c])'
      /\ \A f, g \in fan' : f = g
  BY <1>1, <1>2, <1>3 DEF ChatInv, OrderInv
<1>8. /\ \A y \in Fanned', z \in (Queued \cup Submitted)' : Precedes(y, z)'
      /\ \A y \in Queued', z \in Submitted' : Precedes(y, z)'
  BY <1>1, <1>2, <1>3 DEF ChatInv, OrderInv
<1>9. ASSUME NEW c \in Viewer
      PROVE  /\ \A y \in Buffered(c)', z \in InHub' : Precedes(y, z)'
             /\ \A y \in Readable(c)', z \in (Buffered(c) \cup InHub)' : Precedes(y, z)'
  BY <1>2, <1>3, <1>4 DEF ChatInv, OrderInv
<1>10. QED
  BY <1>5, <1>6, <1>7, <1>8, <1>9 DEF OrderInv

\* A frame that is put into a buffer.
LEMMA AppendFacts ==
  ASSUME ChatTypeOK, OrderInv, NEW c \in Viewer, NEW x \in Envelope \cup {Key},
         buffer'[c] = Append(buffer[c], x),
         x = Key \/ \A y \in Buffered(c) : Precedes(y, x)
  PROVE  Buffered(c)' = Buffered(c) \cup ({x} \ {Key}) /\ Ordered(buffer'[c])
<1>1. buffer[c] \in Seq(Envelope \cup {Key}) /\ Ordered(buffer[c])
  BY DEF ChatTypeOK, OrderInv
<1>2. x = Key \/ \A i \in DOMAIN buffer[c] : buffer[c][i] = Key \/ Precedes(buffer[c][i], x)
  BY DEF Buffered
<1>3. /\ Ordered(Append(buffer[c], x))
      /\ {Append(buffer[c], x)[i] : i \in DOMAIN Append(buffer[c], x)} = {buffer[c][i] : i \in DOMAIN buffer[c]} \cup {x}
  BY <1>1, <1>2, OrderedAppend
<1>4. QED
  BY <1>3 DEF Buffered

\* Receivers of what is in dispatch, and those of them whose buffer is full.
To(f)   == {d \in connected : OwnerOf[d] \in f.for}
Full(f) == {d \in To(f) : ~HasRoom(d)}

LEMMA DispatchFacts ==
  ASSUME ChatInv, Dispatch
  PROVE  \E f \in fan :
           /\ fan = {f} /\ f.env \in Envelope /\ Fanned = {f.env}
           /\ fan' = {} /\ Fanned' = {}
           /\ \A c \in Viewer :
                /\ IF c \in To(f) \ Full(f)
                   THEN buffer'[c] = Append(buffer[c], f.env) /\ Buffered(c)' = Buffered(c) \cup {f.env}
                   ELSE buffer'[c] = buffer[c] /\ Buffered(c)' = Buffered(c)
                /\ Ordered(buffer'[c])
                /\ since'[c] = IF c \in Full(f) THEN Missed(c, {f.env.msg}) ELSE since[c]
                /\ overtaken'[c] = IF c \in Full(f) THEN overtaken[c] \cup {f.env.msg} ELSE overtaken[c]
           /\ UNCHANGED <<world, keys, database, doing, queue, page, opening, reply>>
<1>1. PICK f \in fan :
        /\ fan' = {}
        /\ buffer' = [d \in Viewer |-> IF d \in To(f) \ Full(f) THEN Append(buffer[d], f.env) ELSE buffer[d]]
        /\ since' = [d \in Viewer |-> IF d \in Full(f) THEN Missed(d, {f.env.msg}) ELSE since[d]]
        /\ overtaken' = [d \in Viewer |-> IF d \in Full(f) THEN overtaken[d] \cup {f.env.msg} ELSE overtaken[d]]
        /\ UNCHANGED <<world, keys, database, doing, queue, page, opening, reply>>
  BY DEF Dispatch, To, Full
<1>2. fan = {f} /\ f.env \in Envelope /\ Fanned = {f.env} /\ Fanned' = {}
  <2>1. fan = {f}
    BY DEF ChatInv, OrderInv
  <2>2. QED
    BY <1>1, <2>1 DEF Fanned, ChatInv, ChatTypeOK
<1>3. ASSUME NEW c \in Viewer
      PROVE  IF c \in To(f) \ Full(f)
             THEN buffer'[c] = Append(buffer[c], f.env) /\ Buffered(c)' = Buffered(c) \cup {f.env} /\ Ordered(buffer'[c])
             ELSE buffer'[c] = buffer[c] /\ Buffered(c)' = Buffered(c) /\ Ordered(buffer'[c])
  <2>1. CASE c \in To(f) \ Full(f)
    <3>1. buffer'[c] = Append(buffer[c], f.env)
      BY <1>1, <2>1
    <3>2. \A y \in Buffered(c) : Precedes(y, f.env)
      BY <1>2 DEF ChatInv, OrderInv, InHub
    <3>3. f.env # Key
      BY <1>2, EnvelopeFacts
    <3>4. ChatTypeOK /\ OrderInv
      BY DEF ChatInv
    <3>5. Buffered(c)' = Buffered(c) \cup ({f.env} \ {Key}) /\ Ordered(buffer'[c])
      BY <1>2, <3>1, <3>2, <3>4, AppendFacts
    <3>6. QED
      BY <2>1, <3>1, <3>3, <3>5
  <2>2. CASE c \notin To(f) \ Full(f)
    <3>1. buffer'[c] = buffer[c]
      BY <1>1, <2>2
    <3>2. Buffered(c)' = Buffered(c)
      BY <3>1 DEF Buffered
    <3>3. QED
      BY <2>2, <3>1, <3>2 DEF ChatInv, OrderInv
  <2>3. QED
    BY <2>1, <2>2
<1>4. \A c \in Viewer :
        /\ since'[c] = IF c \in Full(f) THEN Missed(c, {f.env.msg}) ELSE since[c]
        /\ overtaken'[c] = IF c \in Full(f) THEN overtaken[c] \cup {f.env.msg} ELSE overtaken[c]
  BY <1>1
<1>5. QED
  BY <1>1, <1>2, <1>3, <1>4

LEMMA DispatchOrder ==
  ASSUME ChatInv, Dispatch
  PROVE  MadeInv' /\ OrderInv'
<1>1. PICK f \in fan :
        /\ fan = {f} /\ f.env \in Envelope /\ Fanned = {f.env}
        /\ fan' = {} /\ Fanned' = {}
        /\ \A c \in Viewer :
             /\ IF c \in To(f) \ Full(f)
                THEN buffer'[c] = Append(buffer[c], f.env) /\ Buffered(c)' = Buffered(c) \cup {f.env}
                ELSE buffer'[c] = buffer[c] /\ Buffered(c)' = Buffered(c)
             /\ Ordered(buffer'[c])
        /\ UNCHANGED <<world, keys, database, doing, queue, page, opening, reply>>
  <2>1. PICK f \in fan :
           /\ fan = {f} /\ f.env \in Envelope /\ Fanned = {f.env}
           /\ fan' = {} /\ Fanned' = {}
           /\ \A c \in Viewer :
                /\ IF c \in To(f) \ Full(f)
                   THEN buffer'[c] = Append(buffer[c], f.env) /\ Buffered(c)' = Buffered(c) \cup {f.env}
                   ELSE buffer'[c] = buffer[c] /\ Buffered(c)' = Buffered(c)
                /\ Ordered(buffer'[c])
                /\ since'[c] = IF c \in Full(f) THEN Missed(c, {f.env.msg}) ELSE since[c]
                /\ overtaken'[c] = IF c \in Full(f) THEN overtaken[c] \cup {f.env.msg} ELSE overtaken[c]
           /\ UNCHANGED <<world, keys, database, doing, queue, page, opening, reply>>
    BY DispatchFacts
  <2>2. QED
    BY <2>1
<1>2. /\ \A e : Made(e)' <=> Made(e)
      /\ \A y, z : Precedes(y, z)' <=> Precedes(y, z)
      /\ \A s : Ordered(s)' <=> Ordered(s)
  BY <1>1, SameFacts
<1>0. \A c \in Viewer : Buffered(c)' \subseteq Buffered(c) \cup {f.env} /\ Ordered(buffer'[c])
  BY <1>1
<1>3. /\ Submitters' = Submitters /\ Submitted' = Submitted /\ queue' = queue /\ Queued' = Queued
      /\ crossed' = crossed /\ doing' = doing
      /\ \A c \in Viewer : Readable(c)' = Readable(c)
  BY <1>1, SameFlight DEF database, Queued
<1>4. InHub' \subseteq InHub /\ f.env \in InHub /\ InHub' = Queued \cup Submitted
  BY <1>1, <1>3 DEF InHub
<1>5. MadeInv'
  BY <1>0, <1>1, <1>2, <1>3, <1>4 DEF ChatInv, MadeInv
<1>6. Ordered(queue)' /\ \A c \in Viewer : Ordered(buffer[c])'
  BY <1>0, <1>1, <1>2, <1>3 DEF ChatInv, OrderInv
<1>7. /\ \A a, b \in fan' : a = b
      /\ \A y \in Fanned', z \in (Queued \cup Submitted)' : Precedes(y, z)'
      /\ \A y \in Queued', z \in Submitted' : Precedes(y, z)'
  BY <1>1, <1>2, <1>3 DEF ChatInv, OrderInv
<1>8. ASSUME NEW c \in Viewer
      PROVE  /\ \A y \in Buffered(c)', z \in InHub' : Precedes(y, z)'
             /\ \A y \in Readable(c)', z \in (Buffered(c) \cup InHub)' : Precedes(y, z)'
  BY <1>0, <1>1, <1>2, <1>3, <1>4 DEF ChatInv, OrderInv
<1>9. QED
  BY <1>5, <1>6, <1>7, <1>8 DEF OrderInv

\* A step that adds nothing to what is under way to a client, but may open a frame.
Shrinks(c) ==
  /\ Buffered(c)' \subseteq Buffered(c)
  /\ Ordered(buffer'[c])
  /\ \A x \in Readable(c)' \ Readable(c) :
       x \in Buffered(c) /\ \A y \in Buffered(c)' : Precedes(x, y)

LEMMA ShrinkOrder ==
  ASSUME ChatInv, UNCHANGED <<database, doing, hub>>, \A c \in Viewer : Shrinks(c)
  PROVE  MadeInv' /\ OrderInv'
<1>1. /\ \A e : Made(e)' <=> Made(e)
      /\ \A x, y : Precedes(x, y)' <=> Precedes(x, y)
      /\ \A s : Ordered(s)' <=> Ordered(s)
  BY SameFacts
<1>2. /\ Fanned' = Fanned /\ Queued' = Queued /\ Submitters' = Submitters /\ Submitted' = Submitted
      /\ fan' = fan /\ queue' = queue /\ crossed' = crossed /\ doing' = doing /\ InHub' = InHub
  BY SameFlight DEF hub, database, Fanned, Queued, InHub
<1>3. MadeInv'
  BY <1>1, <1>2 DEF ChatInv, MadeInv, Shrinks
<1>4. ASSUME NEW c \in Viewer
      PROVE  /\ Ordered(buffer[c])'
             /\ \A x \in Buffered(c)', y \in InHub' : Precedes(x, y)'
             /\ \A x \in Readable(c)', y \in (Buffered(c) \cup InHub)' : Precedes(x, y)'
  BY <1>1, <1>2 DEF ChatInv, OrderInv, Shrinks
<1>5. QED
  BY <1>1, <1>2, <1>3, <1>4 DEF ChatInv, OrderInv

\* A frame is taken out of the buffer.
LEMMA TailFacts ==
  ASSUME ChatTypeOK, OrderInv, NEW c \in Viewer, buffer[c] # <<>>, buffer'[c] = Tail(buffer[c])
  PROVE  /\ Head(buffer[c]) \in Envelope \cup {Key}
         /\ Buffered(c) = Buffered(c)' \cup ({Head(buffer[c])} \ {Key})
         /\ Ordered(buffer'[c])
         /\ Head(buffer[c]) # Key => \A y \in Buffered(c)' : Precedes(Head(buffer[c]), y)
<1>1. buffer[c] \in Seq(Envelope \cup {Key}) /\ Ordered(buffer[c])
  BY DEF ChatTypeOK, OrderInv
<1> DEFINE s == buffer[c]
<1>2. /\ Ordered(Tail(s))
      /\ Head(s) \in Envelope \cup {Key}
      /\ {s[i] : i \in DOMAIN s} = {Tail(s)[i] : i \in DOMAIN Tail(s)} \cup {Head(s)}
      /\ \A i \in DOMAIN Tail(s) : Head(s) # Key /\ Tail(s)[i] # Key => Precedes(Head(s), Tail(s)[i])
  BY <1>1, OrderedTail
<1>3. QED
  BY <1>2 DEF Buffered

LEMMA ReceiveFacts ==
  ASSUME ChatInv, NEW d \in Viewer, Receive(d)
  PROVE  /\ Head(buffer[d]) \in Envelope /\ Head(buffer[d]) # Key
         /\ buffer' = [buffer EXCEPT ![d] = Tail(@)]
         /\ Buffered(d) = Buffered(d)' \cup {Head(buffer[d])}
         /\ Ordered(buffer'[d])
         /\ \A y \in Buffered(d)' : Precedes(Head(buffer[d]), y)
         /\ \A c \in Viewer \ {d} : buffer'[c] = buffer[c] /\ Buffered(c)' = Buffered(c)
<1>1. ChatTypeOK /\ OrderInv
  BY DEF ChatInv
<1>2. buffer[d] # <<>> /\ Head(buffer[d]) # Key /\ buffer' = [buffer EXCEPT ![d] = Tail(@)]
  BY DEF Receive
<1>3. buffer'[d] = Tail(buffer[d]) /\ \A c \in Viewer \ {d} : buffer'[c] = buffer[c]
  BY <1>1, <1>2 DEF ChatTypeOK
<1>4. /\ Head(buffer[d]) \in Envelope \cup {Key}
      /\ Buffered(d) = Buffered(d)' \cup ({Head(buffer[d])} \ {Key})
      /\ Ordered(buffer'[d])
      /\ \A y \in Buffered(d)' : Precedes(Head(buffer[d]), y)
  BY <1>1, <1>2, <1>3, TailFacts
<1>5. \A c \in Viewer \ {d} : Buffered(c)' = Buffered(c)
  BY <1>3 DEF Buffered
<1>6. QED
  BY <1>2, <1>3, <1>4, <1>5

LEMMA ReceiveOrder ==
  ASSUME ChatInv, NEW d \in Viewer, Receive(d)
  PROVE  MadeInv' /\ OrderInv'
<1> DEFINE e == Head(buffer[d])
<1>1. /\ e \in Envelope /\ e # Key
      /\ Buffered(d) = Buffered(d)' \cup {e}
      /\ Ordered(buffer'[d])
      /\ \A y \in Buffered(d)' : Precedes(e, y)
      /\ \A c \in Viewer \ {d} : buffer'[c] = buffer[c] /\ Buffered(c)' = Buffered(c)
  BY ReceiveFacts
<1>2. \A c \in Viewer : Readable(c)' \subseteq Readable(c) \cup (IF c = d THEN {e} ELSE {})
  <2>1. CASE e.kind = "delete"
    <3>1. opening' = opening
      BY <2>1 DEF Receive
    <3>2. QED
      BY <3>1 DEF Readable
  <2>2. CASE e.kind # "delete"
    <3>1. opening' = [opening EXCEPT ![d] = @ \cup {Decrypted(d, e)}]
      BY <2>2 DEF Receive
    <3>2. opening'[d] = opening[d] \cup {Decrypted(d, e)} /\ \A c \in Viewer \ {d} : opening'[c] = opening[c]
      BY <3>1 DEF ChatInv, ChatTypeOK
    <3>3. Decrypted(d, e) = e \/ Decrypted(d, e).version = Unreadable
      <4>1. e.version = e.version /\ e \in [kind : {"message", "update"}, msg : Message, version : Version \ {0}]
        BY <1>1, <2>2 DEF Envelope
      <4>2. QED
        BY <4>1 DEF Decrypted
    <3> HIDE DEF e
    <3>4. QED
      BY <3>2, <3>3 DEF Readable
  <2>3. QED
    BY <2>1, <2>2
<1>3. \A c \in Viewer : Ordered(buffer[c])
  BY DEF ChatInv, OrderInv
<1>4. \A c \in Viewer : Shrinks(c)
  BY <1>1, <1>2, <1>3 DEF Shrinks
<1>5. UNCHANGED <<database, doing, hub>>
  BY DEF Receive
<1>6. QED
  BY <1>4, <1>5, ShrinkOrder

\* A client that reads, decrypts or asks, and the connections.
LEMMA ShowOrder ==
  ASSUME ChatInv, NEW d \in Viewer, Show(d)
  PROVE  MadeInv' /\ OrderInv'
<1>1. \A c \in Viewer : Ordered(buffer[c]) /\ ChatTypeOK /\ OrderInv
  BY DEF ChatInv, OrderInv
<1>2. CASE UNCHANGED <<database, doing, hub, buffer>> /\ \A c \in Viewer : opening'[c] \subseteq opening[c]
  <2>1. \A c \in Viewer : Readable(c)' \subseteq Readable(c)
    BY <1>2 DEF Readable
  <2>2. \A c \in Viewer : Buffered(c)' = Buffered(c) /\ buffer'[c] = buffer[c]
    BY <1>2 DEF Buffered
  <2>3. \A c \in Viewer : Shrinks(c)
    BY <1>1, <2>1, <2>2 DEF Shrinks
  <2>4. QED
    BY <1>2, <2>3, ShrinkOrder
<1>3. CASE ReceiveGrantedKey(d)
  <2>1. /\ UNCHANGED <<database, doing, hub, opening>> /\ buffer' = [buffer EXCEPT ![d] = Tail(@)]
        /\ buffer[d] # <<>> /\ Head(buffer[d]) = Key
    BY <1>3 DEF ReceiveGrantedKey, ReceiveKey
  <2>2. buffer'[d] = Tail(buffer[d]) /\ \A c \in Viewer \ {d} : buffer'[c] = buffer[c]
    BY <2>1, <1>1 DEF ChatTypeOK
  <2>3. Buffered(d) = Buffered(d)' \cup ({Key} \ {Key}) /\ Ordered(buffer'[d])
    BY <1>1, <2>1, <2>2, TailFacts
  <2>4. \A c \in Viewer \ {d} : Buffered(c)' = Buffered(c)
    BY <2>2 DEF Buffered
  <2>5. \A c \in Viewer : Readable(c)' = Readable(c)
    BY <2>1 DEF Readable
  <2>6. \A c \in Viewer : Shrinks(c)
    BY <1>1, <2>2, <2>3, <2>4, <2>5 DEF Shrinks
  <2>7. QED
    BY <2>1, <2>6, ShrinkOrder
<1>4. CASE WriteChannelKeys(d)
  BY <1>2, <1>4 DEF WriteChannelKeys, ReceiveKey, client
<1>5. CASE \E e \in opening[d] : AddOpened(d, e)
  <2>1. PICK e \in opening[d] : AddOpened(d, e)
    BY <1>5
  <2>2. \A c \in Viewer : opening'[c] \subseteq opening[c]
    BY <1>1, <2>1 DEF AddOpened, ChatTypeOK
  <2>3. QED
    BY <1>2, <2>1, <2>2 DEF AddOpened
<1>6. CASE Focus(d) \/ ListMessages(d) \/ ListRefused(d) \/ ShowHistory(d)
  BY <1>2, <1>6 DEF Focus, ListMessages, ListRefused, ShowHistory
<1>7. QED
  BY <1>3, <1>4, <1>5, <1>6, ReceiveOrder DEF Show
\* Keys, members, connections, and what a reader looks up first.
LEMMA WorldOrder ==
  ASSUME ChatInv,
         \/ \E u \in User : AddMember(u) \/ SendChannelKey(u)
         \/ \E d \in Viewer : Register(d) \/ Disconnect(d)
  PROVE  MadeInv' /\ OrderInv'
<1>1. \A c \in Viewer : Ordered(buffer[c]) /\ ChatTypeOK /\ OrderInv
  BY DEF ChatInv, OrderInv
<1>2. CASE /\ UNCHANGED <<database, doing, hub, opening>>
           /\ \A c \in Viewer : buffer'[c] = buffer[c] \/ buffer'[c] = <<>> \/ buffer'[c] = Append(buffer[c], Key)
  <2>1. \A c \in Viewer : Readable(c)' = Readable(c)
    BY <1>2 DEF Readable
  <2>2. ASSUME NEW c \in Viewer PROVE Buffered(c)' \subseteq Buffered(c) /\ Ordered(buffer'[c])
    <3>1. CASE buffer'[c] = buffer[c]
      BY <1>1, <3>1 DEF Buffered
    <3>2. CASE buffer'[c] = <<>>
      BY <3>2 DEF Buffered, Ordered
    <3>3. CASE buffer'[c] = Append(buffer[c], Key)
      <4>1. Buffered(c)' = Buffered(c) \cup ({Key} \ {Key}) /\ Ordered(buffer'[c])
        BY <1>1, <3>3, AppendFacts
      <4>2. QED
        BY <4>1
    <3>4. QED
      BY <1>2, <3>1, <3>2, <3>3
  <2>3. \A c \in Viewer : Shrinks(c)
    BY <2>1, <2>2 DEF Shrinks
  <2>4. QED
    BY <1>2, <2>3, ShrinkOrder
<1>3. ASSUME NEW u \in User, SendChannelKey(u) PROVE MadeInv' /\ OrderInv'
  BY <1>2, <1>3 DEF SendChannelKey, client
<1>4. ASSUME NEW u \in User, AddMember(u) PROVE MadeInv' /\ OrderInv'
  BY <1>2, <1>4 DEF AddMember, client
<1>5. ASSUME NEW d \in Viewer, Register(d) PROVE MadeInv' /\ OrderInv'
  BY <1>2, <1>5 DEF Register, client
<1>6. ASSUME NEW d \in Viewer, Disconnect(d) PROVE MadeInv' /\ OrderInv'
  BY <1>2, <1>6 DEF Disconnect, client
<1>7. QED
  BY <1>3, <1>4, <1>5, <1>6

\* A device that begins an edit or a deletion was not submitting, and does not submit yet.
LEMMA LookFacts ==
  ASSUME ChatTypeOK, NEW d \in Device, NEW m \in Message, NEW op \in {"edit", "delete"}, GetMessage(d, m, op)
  PROVE  Submitters' = Submitters /\ Submitted' = Submitted /\ \A e \in Submitters : doing'[e] = doing[e]
<1>1. /\ doing[d] = Idle /\ doing' = [doing EXCEPT ![d] = [op |-> op, msg |-> m]]
      /\ doing \in [Device -> Task \cup {Idle}]
  BY DEF GetMessage, Ready, ChatTypeOK
<1>2. d \notin Submitters /\ ~Does(d, "submit")'
  BY <1>1 DEF Submitters, Does
<1>3. \A e \in Device \ {d} : doing'[e] = doing[e]
  BY <1>1
<1>4. Submitters' = Submitters
  BY <1>2, <1>3 DEF Submitters, Does
<1>5. QED
  BY <1>2, <1>3, <1>4 DEF Submitted, Submitters

LEMMA LookOrder ==
  ASSUME ChatInv, NEW d \in Device, NEW m \in Message, NEW op \in {"edit", "delete"}, GetMessage(d, m, op)
  PROVE  MadeInv' /\ OrderInv'
<1>1. /\ UNCHANGED <<database, hub, buffer, opening>>
      /\ Submitters' = Submitters /\ Submitted' = Submitted /\ \A e \in Submitters : doing'[e] = doing[e]
  BY LookFacts DEF ChatInv, GetMessage, client
<1>2. /\ \A e : Made(e)' <=> Made(e)
      /\ \A x, y : Precedes(x, y)' <=> Precedes(x, y)
      /\ \A s : Ordered(s)' <=> Ordered(s)
  BY <1>1, SameFacts
<1>3. /\ Fanned' = Fanned /\ Queued' = Queued /\ \A c : Buffered(c)' = Buffered(c) /\ Readable(c)' = Readable(c)
      /\ fan' = fan /\ queue' = queue /\ buffer' = buffer /\ crossed' = crossed
  BY <1>1, SameFlight DEF hub, database
<1>4. InHub' = InHub
  BY <1>1, <1>3 DEF InHub
<1>5. MadeInv'
  BY <1>1, <1>2, <1>3, <1>4 DEF ChatInv, MadeInv
<1>6. ASSUME NEW c \in Viewer
      PROVE  /\ Ordered(buffer[c])'
             /\ \A x \in Buffered(c)', y \in InHub' : Precedes(x, y)'
             /\ \A x \in Readable(c)', y \in (Buffered(c) \cup InHub)' : Precedes(x, y)'
  BY <1>1, <1>2, <1>3, <1>4 DEF ChatInv, OrderInv
<1>7. QED
  BY <1>1, <1>2, <1>3, <1>5, <1>6 DEF ChatInv, OrderInv

LEMMA ChatInvInit == ChatInit => ChatInv
<1> SUFFICES ASSUME ChatInit PROVE ChatInv
  OBVIOUS
<1>1. ChatTypeOK /\ CountInv
  BY TypeInit
<1>2. Fanned = {} /\ Queued = {} /\ Submitters = {} /\ Submitted = {} /\ InHub = {} /\ fan = {} /\ queue = <<>>
  BY DEF ChatInit, Fanned, Queued, Submitters, Submitted, InHub, Does
<1>3. \A d \in Viewer : Buffered(d) = {} /\ Readable(d) = {} /\ buffer[d] = <<>>
  BY DEF ChatInit, Buffered, Readable
<1>4. MadeInv
  BY <1>2, <1>3 DEF MadeInv
<1>5. OrderInv
  BY <1>2, <1>3 DEF OrderInv, Ordered
<1>6. QED
  BY <1>1, <1>4, <1>5 DEF ChatInv

LEMMA ChatInvStep == ChatInv /\ [ChatNext]_chatVars => ChatInv'
<1> SUFFICES ASSUME ChatInv, [ChatNext]_chatVars PROVE ChatInv'
  OBVIOUS
<1>1. ChatTypeOK' /\ CountInv'
  BY TypeStep DEF ChatInv
<1> SUFFICES MadeInv' /\ OrderInv'
  BY <1>1 DEF ChatInv
<1>2. ASSUME NEW d \in Device, Handle(d) PROVE MadeInv' /\ OrderInv'
  <2>1. CASE (\E m \in Message : HandleChatMessage(d, m)) \/ UpdateMessage(d) \/ DeleteMessage(d)
    BY <2>1, HandlerChanges, ChangeOrder
  <2>2. CASE Enqueue(d)
    BY <2>2, EnqueueOrder
  <2>3. CASE \E m \in Message, op \in {"edit", "delete"} : GetMessage(d, m, op)
    BY <2>3, LookOrder
  <2>4. QED
    BY <1>2, <2>1, <2>2, <2>3 DEF Handle
<1>3. CASE ChatNext
  BY <1>2, <1>3, MembersOrder, DispatchOrder, WorldOrder, ShowOrder DEF ChatNext
<1>4. CASE UNCHANGED chatVars
  <2>1. /\ UNCHANGED <<database, doing, hub>>
        /\ \A c \in Viewer : Buffered(c)' = Buffered(c) /\ Readable(c)' = Readable(c) /\ buffer'[c] = buffer[c]
    BY <1>4 DEF chatVars, client, Buffered, Readable
  <2>2. \A c \in Viewer : Shrinks(c)
    BY <2>1 DEF Shrinks, ChatInv, OrderInv
  <2>3. QED
    BY <2>1, <2>2, ShrinkOrder
<1>5. QED
  BY <1>3, <1>4

LEMMA ChatInvAlways == ChatSpec => []ChatInv
  BY ChatInvInit, ChatInvStep, PTL DEF ChatSpec

\* Where in a stream its envelopes come from.
LEMMA StreamFacts ==
  ASSUME ChatInv, NEW d \in Viewer
  PROVE  \E p, q \in Nat :
           /\ p <= q
           /\ DOMAIN Stream(d) = 1 .. q + Len(queue)
           /\ \A i \in 1 .. p : i \in DOMAIN buffer[d] /\ Stream(d)[i] = buffer[d][i]
           /\ \A i \in p + 1 .. q : i = p + 1 /\ Stream(d)[i] \in Fanned
           /\ \A i \in q + 1 .. q + Len(queue) : i - q \in DOMAIN queue /\ Stream(d)[i] = queue[i - q]
<1>1. buffer[d] \in Seq(Envelope \cup {Key}) /\ queue \in Seq(Envelope)
  BY DEF ChatInv, ChatTypeOK
<1>2. PICK t : t = IF fan = {} THEN <<>> ELSE <<(CHOOSE f \in fan : TRUE).env>>
  OBVIOUS
<1>3. Stream(d) = buffer[d] \o t \o queue
  BY <1>2 DEF Stream
<1>4. t \in Seq(Envelope) /\ Len(t) \in {0, 1} /\ \A i \in DOMAIN t : i = 1 /\ t[i] \in Fanned
  <2>1. CASE fan = {}
    BY <1>2, <2>1
  <2>2. CASE fan # {}
    <3>1. (CHOOSE f \in fan : TRUE) \in fan
      BY <2>2
    <3>2. PICK x : x = (CHOOSE f \in fan : TRUE).env
      OBVIOUS
    <3>3. x \in Fanned /\ x \in Envelope
      BY <3>1, <3>2 DEF Fanned, ChatInv, ChatTypeOK
    <3>4. t = <<x>>
      BY <1>2, <2>2, <3>2
    <3>5. QED
      BY <3>3, <3>4
  <2>3. QED
    BY <2>1, <2>2
<1>5. PICK p, q : p = Len(buffer[d]) /\ q = Len(buffer[d]) + Len(t)
  OBVIOUS
<1>6. p \in Nat /\ q \in Nat /\ p <= q /\ (q = p \/ q = p + 1) /\ Len(queue) \in Nat
  BY <1>1, <1>4, <1>5
<1>7. DOMAIN Stream(d) = 1 .. q + Len(queue)
  BY <1>1, <1>3, <1>4, <1>5
<1>8. \A i \in 1 .. p : i \in DOMAIN buffer[d] /\ Stream(d)[i] = buffer[d][i]
  BY <1>1, <1>3, <1>4, <1>5
<1>9. \A i \in p + 1 .. q : i = p + 1 /\ Stream(d)[i] \in Fanned
  <2>1. \A i \in p + 1 .. q : i = p + 1 /\ Stream(d)[i] = t[1] /\ 1 \in DOMAIN t
    BY <1>1, <1>3, <1>4, <1>5
  <2>2. QED
    BY <1>4, <2>1
<1>10. \A i \in q + 1 .. q + Len(queue) : i - q \in DOMAIN queue /\ Stream(d)[i] = queue[i - q]
  BY <1>1, <1>3, <1>4, <1>5
<1>11. QED
  BY <1>6, <1>7, <1>8, <1>9, <1>10

LEMMA StreamOrdered ==
  ASSUME ChatInv, NEW d \in Viewer
  PROVE  /\ Ordered(Stream(d))
         /\ \A i \in DOMAIN Stream(d) : Stream(d)[i] # Key =>
              Stream(d)[i] \in Envelope /\ \A y \in Submitted : Precedes(Stream(d)[i], y)
<1>1. PICK p, q \in Nat :
           /\ p <= q
           /\ DOMAIN Stream(d) = 1 .. q + Len(queue)
           /\ \A i \in 1 .. p : i \in DOMAIN buffer[d] /\ Stream(d)[i] = buffer[d][i]
           /\ \A i \in p + 1 .. q : i = p + 1 /\ Stream(d)[i] \in Fanned
           /\ \A i \in q + 1 .. q + Len(queue) : i - q \in DOMAIN queue /\ Stream(d)[i] = queue[i - q]
  BY StreamFacts
<1> DEFINE s == Stream(d)
<1>0. Len(queue) \in Nat
  BY DEF ChatInv, ChatTypeOK
<1> HIDE DEF s
<1>2. \A i \in DOMAIN s : i \in 1 .. p \/ i \in p + 1 .. q \/ i \in q + 1 .. q + Len(queue)
  BY <1>0, <1>1 DEF s
<1>3. /\ \A i \in 1 .. p : s[i] = Key \/ s[i] \in Buffered(d)
      /\ \A i \in q + 1 .. q + Len(queue) : s[i] \in Queued
  BY <1>1 DEF s, Buffered, Queued
<1>4. /\ Ordered(buffer[d]) /\ Ordered(queue)
      /\ \A x \in Fanned, y \in Queued \cup Submitted : Precedes(x, y)
      /\ \A x \in Queued, y \in Submitted : Precedes(x, y)
      /\ \A x \in Buffered(d), y \in InHub : Precedes(x, y)
  BY DEF ChatInv, OrderInv
<1>5. Fanned \subseteq InHub /\ Queued \subseteq InHub /\ Submitted \subseteq InHub
  BY DEF InHub
<1>6. Buffered(d) \subseteq Envelope /\ Fanned \subseteq Envelope /\ Queued \subseteq Envelope
  BY FlightTypes DEF ChatInv
<1>7. ASSUME NEW i \in DOMAIN s, NEW j \in DOMAIN s, i < j, s[i] # Key, s[j] # Key
      PROVE  Precedes(s[i], s[j])
  <2>1. CASE i \in 1 .. p
    <3>1. CASE j \in 1 .. p
      BY <1>1, <1>4, <1>7, <2>1, <3>1 DEF s, Ordered
    <3>2. CASE j \in p + 1 .. q
      BY <1>1, <1>3, <1>4, <1>5, <1>7, <2>1, <3>2 DEF s
    <3>3. CASE j \in q + 1 .. q + Len(queue)
      BY <1>3, <1>4, <1>5, <1>7, <2>1, <3>3
    <3>4. QED
      BY <1>2, <3>1, <3>2, <3>3
  <2>2. CASE i \in p + 1 .. q
    <3>1. j \in q + 1 .. q + Len(queue)
      BY <1>0, <1>1, <1>2, <1>7, <2>2
    <3>2. QED
      BY <1>1, <1>3, <1>4, <2>2, <3>1 DEF s
  <2>3. CASE i \in q + 1 .. q + Len(queue)
    <3>1. j \in q + 1 .. q + Len(queue) /\ i - q < j - q
      BY <1>0, <1>1, <1>2, <1>7, <2>3
    <3>2. s[i] = queue[i - q] /\ s[j] = queue[j - q] /\ i - q \in DOMAIN queue /\ j - q \in DOMAIN queue
      BY <1>1, <2>3, <3>1 DEF s
    <3>3. QED
      BY <1>4, <1>7, <3>1, <3>2 DEF Ordered
  <2>4. QED
    BY <1>2, <2>1, <2>2, <2>3
<1>8. ASSUME NEW i \in DOMAIN s, s[i] # Key PROVE s[i] \in Buffered(d) \cup Fanned \cup Queued
  BY <1>1, <1>2, <1>3, <1>8 DEF s
<1>9. ASSUME NEW i \in DOMAIN s, s[i] # Key
      PROVE  s[i] \in Envelope /\ \A y \in Submitted : Precedes(s[i], y)
  BY <1>4, <1>5, <1>6, <1>8, <1>9
<1>10. QED
  BY <1>7, <1>9 DEF Ordered, s

LEMMA RankOrder ==
  ASSUME NEW x \in Envelope, NEW y \in Envelope, Precedes(x, y), x.msg = y.msg, x.msg \notin crossed
  PROVE  Rank(x) <= Rank(y)
<1>1. Rank(x) \in 1 .. MaxVersion + 1 /\ Rank(y) \in 1 .. MaxVersion + 1
  BY EnvelopeFacts
<1>2. CASE x.kind = "delete" /\ y.kind = "delete"
  BY <1>1, <1>2 DEF Rank
<1>3. QED
  BY <1>1, <1>2 DEF Precedes

\* What goes to a device stays in the order it was made, buffers, dispatch, queue and
\* readers taken together: the queue is one, dispatched one envelope at a time, and a
\* handler submits what it wrote before it takes another frame.
THEOREM StreamCorrect == ChatSpec => []StreamInOrder
<1>1. ChatInv => StreamInOrder
  <2> SUFFICES ASSUME ChatInv, NEW d \in Viewer
               PROVE  LET s == Stream(d)  envelopes == {i \in DOMAIN s : s[i] # Key} IN
                        /\ \A i, j \in envelopes :
                             i < j /\ s[i].msg = s[j].msg /\ s[i].msg \notin crossed => Rank(s[i]) <= Rank(s[j])
                        /\ \A e \in Device, i \in envelopes :
                             Submitting(e, s[i].msg) /\ s[i].msg \notin crossed => Rank(s[i]) <= Rank(doing[e].env)
    BY DEF StreamInOrder
  <2> DEFINE s == Stream(d)
             envelopes == {i \in DOMAIN s : s[i] # Key}
  <2>1. /\ Ordered(s)
        /\ \A i \in envelopes : s[i] \in Envelope /\ \A y \in Submitted : Precedes(s[i], y)
    BY StreamOrdered
  <2>2. ASSUME NEW e \in Device, NEW m, Submitting(e, m)
        PROVE  doing[e].env \in Submitted /\ doing[e].env \in Envelope /\ doing[e].env.msg = m
    BY <2>2, FlightTypes DEF Submitting, Submitted, Submitters, ChatInv
  <2>3. \A i, j \in envelopes : i < j => Precedes(s[i], s[j])
    BY <2>1 DEF Ordered
  <2> HIDE DEF s
  <2>4. \A i, j \in envelopes :
          i < j /\ s[i].msg = s[j].msg /\ s[i].msg \notin crossed => Rank(s[i]) <= Rank(s[j])
    BY <2>1, <2>3, RankOrder
  <2>5. \A e \in Device, i \in envelopes :
          Submitting(e, s[i].msg) /\ s[i].msg \notin crossed => Rank(s[i]) <= Rank(doing[e].env)
    BY <2>1, <2>2, RankOrder
  <2>6. QED
    BY <2>4, <2>5 DEF s
<1>2. QED
  BY <1>1, ChatInvAlways, PTL

-----------------------------------------------------------------------------
(* Chat: the pages of settled clients *)

\* What is still to reach d through the hub, and all that is on its way to it.
ToCome(d)    == FannedTo(d) \cup Queued \cup Submitted
Coming(d)    == Buffered(d) \cup ToCome(d)
Come(d, m)   == {e \in Coming(d) : e.msg = m}
Opened(d, m) == {e \in opening[d] : e.msg = m}

\* e tells the last that happened to its message, of which s is stored and w was written.
Last(e, s, w) == Rank(e) = IF s = 0 THEN MaxVersion + 1 ELSE w
Final(e)      == Last(e, stored[e.msg], written[e.msg])

HasFinal(S, m) == \E y \in S : y.msg = m /\ Final(y)

\* Frames go to connected members.
MemberInv ==
  /\ granting \subseteq member
  /\ \A f \in fan : f.for \subseteq member
  /\ \A d \in Viewer : buffer[d] # <<>> => d \in connected /\ OwnerOf[d] \in member

\* Where something about a message is on its way, the last that happened to it is too.
LastInv ==
  /\ \A x \in InHub : x.msg \notin crossed => HasFinal(InHub, x.msg)
  /\ \A d \in Viewer : \A x \in Buffered(d) :
       x.msg \notin crossed \cup overtaken[d] => HasFinal(Coming(d), x.msg)

\* From version x of a message, what is to come (C) and being decrypted (O) leads to the
\* stored version s.
Leads(x, C, O, s, w) ==
  /\ x \in 0 .. w
  /\ C \cup O = {} => x = s
  /\ (\E e \in C \cup O : e.kind = "update" /\ Last(e, s, w)) =>
       x # 0 \/ \E e \in C \cup O : e.kind = "message"
  /\ \A e \in O :
       /\ e.version # Unreadable
       /\ \A g \in O : g = e
       /\ Last(e, s, w) \/ C # {}

LeadsOn(d, m, x) == Leads(x, Come(d, m), Opened(d, m), stored[m], written[m])

Keyless(d) == \A i \in DOMAIN buffer[d] : buffer[d][i] # Key

\* All keys that are due to d have come.
Keyed(d) ==
  /\ d \in connected \ (keyDue \cup unkeyed) /\ OwnerOf[d] \in member \ granting
  /\ Keyless(d)

\* The messages that a history on its way to d does not settle.
Behind(d) == crossed \cup since[d] \cup BeingOpened(d) \cup (overtaken[d] \cap {e.msg : e \in Buffered(d)})

PageOK(d) ==
  Keyed(d) =>
    /\ d \in hasKey
    /\ Answered(d) => \A m \in Message \ Behind(d) : LeadsOn(d, m, reply[d][m])
    /\ reply[d] = NoReply =>
         \A m \in Message \ (crossed \cup overtaken[d]) : LeadsOn(d, m, page[d][m])

PageInv == \A d \in Viewer : PageOK(d)

FlowInv == ChatInv /\ MemberInv /\ LastInv /\ PageInv

\* What leads on, whatever the frames are.
LEMMA LeadsNotNone ==
  ASSUME NEW v, NEW C, NEW O, NEW s, NEW w, Leads(v, C, O, s, w), s # 0,
         \A e \in C \cup O : e.kind \in {"message", "update"},
         C # {} => \E y \in C : Last(y, s, w)
  PROVE  v # 0 \/ \E e \in C \cup O : e.kind = "message"
<1>1. CASE C \cup O = {}
  BY <1>1 DEF Leads
<1>2. CASE C # {}
  BY <1>2 DEF Leads
<1>3. CASE C = {} /\ O # {}
  BY <1>3 DEF Leads
<1>4. QED
  BY <1>1, <1>2, <1>3

\* Something more comes.
LEMMA LeadsMore ==
  ASSUME NEW v, NEW C, NEW O, NEW s, NEW w \in Nat, NEW s2, NEW w2 \in Nat, NEW x,
         Leads(v, C, O, s, w), w <= w2,
         \/ v # 0 \/ \E e \in C \cup O \cup {x} : e.kind = "message"
         \/ \A e \in C \cup O \cup {x} : e.kind = "update" => ~Last(e, s2, w2)
  PROVE  Leads(v, C \cup {x}, O, s2, w2)
<1>1. v \in 0 .. w2
  BY DEF Leads
<1>2. QED
  BY <1>1 DEF Leads

\* A frame goes from the buffer into decryption.
LEMMA LeadsReceive ==
  ASSUME NEW v, NEW C, NEW D, NEW s, NEW w, NEW e, C = D \cup {e},
         Leads(v, C, {}, s, w), e.version # Unreadable, \E y \in C : Last(y, s, w)
  PROVE  Leads(v, D, {e}, s, w)
  BY DEF Leads

\* A decrypted frame is shown.
LEMMA LeadsShown ==
  ASSUME NEW v, NEW C, NEW O, NEW w \in Nat, NEW s \in {0, w}, NEW e \in O, w <= MaxVersion,
         Leads(v, C, O, s, w), e.kind \in {"message", "update"}, e.version \in 1 .. w,
         e.kind = "message" => e.version = 1,
         NEW h, h = IF (e.kind = "message") = (v = 0) THEN e.version ELSE v
  PROVE  Leads(h, C, {}, s, w)
<1>1. O = {e} /\ v \in 0 .. w /\ (Last(e, s, w) \/ C # {})
  BY DEF Leads
<1>2. h \in 0 .. w /\ (v # 0 => h # 0) /\ (e.kind = "message" => h # 0)
  BY <1>1
<1>3. ASSUME C = {} PROVE h = s
  <2>1. Rank(e) = e.version /\ Last(e, s, w)
    BY <1>1, <1>3 DEF Rank
  <2>2. s # 0 /\ s = w /\ e.version = w
    BY <2>1 DEF Last
  <2>3. CASE e.kind = "message"
    BY <1>1, <2>2, <2>3
  <2>4. CASE e.kind = "update"
    <3>1. v # 0
      BY <1>1, <1>3, <2>1, <2>4 DEF Leads
    <3>2. QED
      BY <2>2, <2>4, <3>1
  <2>5. QED
    BY <2>3, <2>4
<1>4. ASSUME NEW g \in C, g.kind = "update", Last(g, s, w) PROVE h # 0 \/ \E y \in C : y.kind = "message"
  <2>1. v # 0 \/ \E y \in C \cup O : y.kind = "message"
    BY <1>4 DEF Leads
  <2>2. QED
    BY <1>1, <1>2, <2>1
<1>5. QED
  BY <1>2, <1>3, <1>4 DEF Leads

LEMMA ComingFacts ==
  ASSUME ChatInv, NEW d \in Viewer
  PROVE  /\ Coming(d) \subseteq Envelope /\ \A e \in Coming(d) : Made(e)
         /\ ToCome(d) \subseteq InHub
         /\ Readable(d) \subseteq Envelope /\ \A e \in Readable(d) : Made(e)
<1>1. ToCome(d) \subseteq InHub
  BY DEF ToCome, InHub, FannedTo, Fanned
<1>2. QED
  BY <1>1, FlightTypes DEF ChatInv, MadeInv, Coming

LEMMA FinalFacts ==
  ASSUME ChatInv, NEW e \in Envelope, Made(e), e.msg \notin crossed
  PROVE  /\ stored[e.msg] = 0 => (Final(e) <=> e.kind = "delete")
         /\ stored[e.msg] # 0 => e.kind # "delete" /\ (Final(e) <=> e.version = written[e.msg])
<1>1. e.msg \in Message /\ (e.kind # "delete" => e.version \in 1 .. MaxVersion)
      /\ (e.kind = "delete" <=> Rank(e) = MaxVersion + 1)
  BY EnvelopeFacts
<1>2. written[e.msg] \in 0 .. MaxVersion
  BY <1>1 DEF ChatInv, ChatTypeOK, History, Version
<1>3. QED
  BY <1>1, <1>2 DEF Final, Last, Made, Rank

\* Nothing but a deletion after a deletion is made after the last that happened.
LEMMA LastStays ==
  ASSUME ChatInv, NEW e \in Envelope, NEW x \in Envelope, Made(e), Made(x),
         e.msg = x.msg, x.msg \notin crossed, Final(e), Precedes(e, x)
  PROVE  Final(x)
<1>1. Rank(e) < Rank(x) \/ (e.kind = "delete" /\ x.kind = "delete")
  BY DEF Precedes
<1>2. x.msg \in Message /\ (x.kind # "delete" => x.version \in 1 .. MaxVersion)
      /\ Rank(e) \in 1 .. MaxVersion + 1 /\ Rank(x) \in 1 .. MaxVersion + 1
      /\ (x.kind = "delete" <=> Rank(x) = MaxVersion + 1)
  BY EnvelopeFacts
<1>3. written[x.msg] \in 0 .. MaxVersion
  BY <1>2 DEF ChatInv, ChatTypeOK, History, Version
<1>4. CASE stored[x.msg] = 0
  BY <1>1, <1>2, <1>4 DEF Final, Last
<1>5. CASE stored[x.msg] # 0
  <2>1. e.kind # "delete" /\ x.kind # "delete" /\ Rank(x) <= written[x.msg]
    BY <1>2, <1>5, FinalFacts DEF Made, Rank
  <2>2. QED
    BY <1>1, <1>2, <1>3, <1>5, <2>1 DEF Final, Last
<1>6. QED
  BY <1>4, <1>5

\* What the hub has for d of a message, it has with the last of it.
LEMMA HubLast ==
  ASSUME ChatInv, LastInv, NEW d \in Viewer, NEW x \in ToCome(d), x.msg \notin crossed
  PROVE  HasFinal(ToCome(d), x.msg)
<1>1. x \in InHub /\ x \in Envelope /\ Made(x)
  BY ComingFacts DEF Coming
<1>2. PICK y \in InHub : y.msg = x.msg /\ Final(y)
  BY <1>1 DEF LastInv, HasFinal
<1>3. CASE y \in ToCome(d)
  BY <1>2, <1>3 DEF HasFinal
<1>4. CASE y \notin ToCome(d)
  <2>1. y \in Fanned /\ y \notin FannedTo(d)
    BY <1>4 DEF InHub, ToCome
  <2>2. FannedTo(d) = {}
    BY <2>1 DEF Fanned, FannedTo, ChatInv, OrderInv
  <2>3. x \in Queued \cup Submitted
    BY <2>2 DEF ToCome
  <2>4. Precedes(y, x)
    BY <2>1, <2>3 DEF ChatInv, OrderInv
  <2>5. y \in Envelope /\ Made(y)
    BY FlightTypes DEF ChatInv, MadeInv
  <2>6. Final(x)
    BY <1>1, <1>2, <2>4, <2>5, LastStays
  <2>7. QED
    BY <2>6 DEF HasFinal
<1>5. QED
  BY <1>3, <1>4

LEMMA LastComes ==
  ASSUME ChatInv, LastInv, NEW d \in Viewer, NEW x \in Coming(d), x.msg \notin crossed,
         x.msg \notin overtaken[d] \/ \A y \in Buffered(d) : y.msg # x.msg
  PROVE  HasFinal(Coming(d), x.msg)
<1>1. CASE x \in Buffered(d)
  BY <1>1 DEF LastInv
<1>2. CASE x \in ToCome(d)
  BY <1>2, HubLast DEF HasFinal, Coming
<1>3. QED
  BY <1>1, <1>2 DEF Coming

LEMMA SameFinal ==
  ASSUME UNCHANGED database
  PROVE  /\ \A e : Final(e)' <=> Final(e)
         /\ crossed' = crossed /\ stored' = stored /\ written' = written
  BY DEF Final, Last, Rank, database
\* A step that takes nothing from what is on its way to d, or empties its buffer.
KeepsComing(d) ==
  \/ Buffered(d)' = {}
  \/ /\ Buffered(d)' \subseteq Buffered(d) /\ Coming(d) \subseteq Coming(d)'
     /\ \A x \in Buffered(d)' : x.msg \in overtaken[d] => x.msg \in overtaken'[d]

LEMMA LastKept ==
  ASSUME LastInv, UNCHANGED database, InHub' = InHub, \A d \in Viewer : KeepsComing(d)
  PROVE  LastInv'
<1>1. /\ \A e : Final(e)' <=> Final(e)
      /\ crossed' = crossed
  BY SameFinal
<1>2. ASSUME NEW x \in InHub', x.msg \notin crossed' PROVE HasFinal(InHub, x.msg)'
  BY <1>1, <1>2 DEF LastInv, HasFinal
<1>3. ASSUME NEW d \in Viewer, NEW x \in Buffered(d)', x.msg \notin crossed' \cup overtaken'[d]
      PROVE  HasFinal(Coming(d), x.msg)'
  <2>1. x \in Buffered(d) /\ Coming(d) \subseteq Coming(d)' /\ x.msg \notin crossed \cup overtaken[d]
    BY <1>1, <1>3 DEF KeepsComing
  <2>2. PICK y \in Coming(d) : y.msg = x.msg /\ Final(y)
    BY <2>1 DEF LastInv, HasFinal
  <2>3. QED
    BY <1>1, <2>1, <2>2 DEF HasFinal
<1>4. QED
  BY <1>2, <1>3 DEF LastInv

LEMMA LastChanged ==
  ASSUME ChatInv, LastInv, NEW d \in Device, NEW x \in Envelope, Changes(d, x)
  PROVE  /\ LastInv' /\ Final(x)'
         /\ \A c \in Viewer : Coming(c)' = Coming(c) \cup {x} /\ Buffered(c)' = Buffered(c)
<1>1. Submitted' = Submitted \cup {x}
  BY ChangeFacts
<1>2. /\ Fanned' = Fanned /\ Queued' = Queued
      /\ \A c \in Viewer : Buffered(c)' = Buffered(c) /\ FannedTo(c)' = FannedTo(c)
  <2>1. UNCHANGED <<hub, buffer>>
    BY DEF Changes
  <2>2. QED
    BY <2>1, SameFlight
<1>3. InHub' = InHub \cup {x} /\ \A c \in Viewer : Coming(c)' = Coming(c) \cup {x}
  BY <1>1, <1>2 DEF InHub, Coming, ToCome
<1>4. x.msg \in Message /\ (x.kind # "delete" => x.version \in 1 .. MaxVersion) /\ x.kind \in {"message", "update", "delete"}
  BY EnvelopeFacts
<1>5. /\ stored \in [Message -> 0 .. MaxVersion] /\ written \in [Message -> 0 .. MaxVersion]
      /\ stored' = [stored EXCEPT ![x.msg] = IF x.kind = "delete" THEN 0 ELSE x.version]
      /\ written' = [written EXCEPT ![x.msg] = IF x.kind = "delete" THEN @ ELSE x.version]
      /\ crossed \subseteq crossed' /\ overtaken' = overtaken
  BY DEF ChatInv, ChatTypeOK, History, Version, Changes, client
<1>6. stored'[x.msg] = (IF x.kind = "delete" THEN 0 ELSE x.version) /\ (x.kind # "delete" => written'[x.msg] = x.version)
  BY <1>4, <1>5
<1>7. Final(x)'
  BY <1>4, <1>6 DEF Final, Last, Rank
<1>8. \A y \in Envelope : y.msg # x.msg => (Final(y)' <=> Final(y))
  <2>1. ASSUME NEW y \in Envelope, y.msg # x.msg PROVE stored'[y.msg] = stored[y.msg] /\ written'[y.msg] = written[y.msg]
    <3>1. y.msg \in Message
      BY EnvelopeFacts
    <3>2. QED
      BY <1>4, <1>5, <2>1, <3>1
  <2>2. QED
    BY <2>1 DEF Final, Last, Rank
<1>9. ASSUME NEW y \in InHub', y.msg \notin crossed' PROVE HasFinal(InHub, y.msg)'
  <2>1. CASE y.msg = x.msg
    BY <1>3, <1>7, <2>1 DEF HasFinal
  <2>2. CASE y.msg # x.msg
    <3>1. PICK z \in InHub : z.msg = y.msg /\ Final(z)
      BY <1>3, <1>5, <1>9, <2>2 DEF LastInv, HasFinal
    <3>2. z \in Envelope
      BY FlightTypes DEF ChatInv
    <3>3. QED
      BY <1>3, <1>8, <2>2, <3>1, <3>2 DEF HasFinal
  <2>3. QED
    BY <2>1, <2>2
<1>10. ASSUME NEW c \in Viewer, NEW y \in Buffered(c)', y.msg \notin crossed' \cup overtaken'[c]
       PROVE  HasFinal(Coming(c), y.msg)'
  <2>1. CASE y.msg = x.msg
    BY <1>3, <1>7, <2>1 DEF HasFinal
  <2>2. CASE y.msg # x.msg
    <3>1. PICK z \in Coming(c) : z.msg = y.msg /\ Final(z)
      BY <1>2, <1>5, <1>10 DEF LastInv, HasFinal
    <3>2. z \in Envelope
      BY ComingFacts
    <3>3. QED
      BY <1>3, <1>8, <2>2, <3>1, <3>2 DEF HasFinal
  <2>3. QED
    BY <2>1, <2>2
<1>11. QED
  BY <1>2, <1>3, <1>7, <1>9, <1>10 DEF LastInv

\* The first of a queue of frames goes: what is left of its message has the last of it.
LEMMA LastLeft ==
  ASSUME ChatInv, NEW e \in Envelope, Made(e), NEW S, NEW T, T \subseteq Envelope, \A x \in T : Made(x),
         S \subseteq T \cup {e}, NEW x \in T, x.msg \notin crossed, Precedes(e, x), HasFinal(S, x.msg)
  PROVE  HasFinal(T, x.msg)
<1>1. PICK y \in S : y.msg = x.msg /\ Final(y)
  BY DEF HasFinal
<1>2. CASE y \in T
  BY <1>1, <1>2 DEF HasFinal
<1>3. CASE y = e
  <2>1. Final(x)
    BY <1>1, <1>3, LastStays
  <2>2. QED
    BY <2>1 DEF HasFinal
<1>4. QED
  BY <1>2, <1>3

\* What dispatch changes of what is on its way to a device.
LEMMA DispatchComing ==
  ASSUME ChatInv, MemberInv, Dispatch
  PROVE  \E f \in fan :
           /\ fan = {f} /\ f.env \in Envelope /\ Made(f.env)
           /\ InHub = InHub' \cup {f.env} /\ \A x \in InHub' : Precedes(f.env, x)
           /\ \A c \in Viewer :
                /\ since[c] \subseteq since'[c] /\ overtaken[c] \subseteq overtaken'[c]
                /\ \/ /\ Coming(c)' = Coming(c)
                      /\ \/ Buffered(c)' = Buffered(c)
                         \/ f.env \in ToCome(c) /\ Buffered(c)' = Buffered(c) \cup {f.env}
                   \/ /\ Buffered(c)' = Buffered(c) /\ Coming(c) = Coming(c)' \cup {f.env}
                      /\ f.env.msg \in overtaken'[c] /\ (Answered(c) => f.env.msg \in since'[c])
                   \/ c \notin connected /\ Buffered(c)' = {}
           /\ UNCHANGED <<world, keys, database, doing, queue, page, opening, reply>>
<1>1. PICK f \in fan :
        /\ fan = {f} /\ f.env \in Envelope /\ Fanned = {f.env}
        /\ fan' = {} /\ Fanned' = {}
        /\ \A c \in Viewer :
             /\ IF c \in To(f) \ Full(f)
                THEN buffer'[c] = Append(buffer[c], f.env) /\ Buffered(c)' = Buffered(c) \cup {f.env}
                ELSE buffer'[c] = buffer[c] /\ Buffered(c)' = Buffered(c)
             /\ Ordered(buffer'[c])
             /\ since'[c] = IF c \in Full(f) THEN Missed(c, {f.env.msg}) ELSE since[c]
             /\ overtaken'[c] = IF c \in Full(f) THEN overtaken[c] \cup {f.env.msg} ELSE overtaken[c]
        /\ UNCHANGED <<world, keys, database, doing, queue, page, opening, reply>>
  BY DispatchFacts
<1>2. /\ Queued' = Queued /\ Submitted' = Submitted
      /\ \A c \in Viewer : FannedTo(c)' = {}
      /\ \A c \in Viewer : FannedTo(c) = IF OwnerOf[c] \in f.for THEN {f.env} ELSE {}
  <2>1. UNCHANGED doing /\ queue' = queue
    BY <1>1
  <2>2. Queued' = Queued /\ Submitted' = Submitted
    BY <2>1, SameFlight DEF Queued
  <2>3. QED
    BY <1>1, <2>2 DEF FannedTo
<1>3. InHub = InHub' \cup {f.env} /\ InHub' = Queued \cup Submitted /\ f.env \in InHub
  BY <1>1, <1>2 DEF InHub
<1>4. Made(f.env) /\ \A x \in InHub' : Precedes(f.env, x)
  BY <1>1, <1>3 DEF ChatInv, MadeInv, OrderInv
<1>5. ASSUME NEW c \in Viewer
      PROVE  /\ since[c] \subseteq since'[c] /\ overtaken[c] \subseteq overtaken'[c]
             /\ \/ /\ Coming(c)' = Coming(c)
                   /\ \/ Buffered(c)' = Buffered(c)
                      \/ f.env \in ToCome(c) /\ Buffered(c)' = Buffered(c) \cup {f.env}
                \/ /\ Buffered(c)' = Buffered(c) /\ Coming(c) = Coming(c)' \cup {f.env}
                   /\ f.env.msg \in overtaken'[c] /\ (Answered(c) => f.env.msg \in since'[c])
                \/ c \notin connected /\ Buffered(c)' = {}
  <2>0. since[c] \subseteq since'[c] /\ overtaken[c] \subseteq overtaken'[c]
    BY <1>1 DEF Missed
  <2>1. CASE c \in To(f) \ Full(f)
    <3>1. Buffered(c)' = Buffered(c) \cup {f.env} /\ FannedTo(c) = {f.env}
      BY <1>1, <1>2, <2>1 DEF To
    <3>2. Coming(c)' = Coming(c) /\ f.env \in ToCome(c)
      BY <1>2, <3>1 DEF Coming, ToCome
    <3>3. QED
      BY <2>0, <3>1, <3>2
  <2>2. CASE c \in Full(f)
    <3>1. /\ Buffered(c)' = Buffered(c) /\ FannedTo(c) = {f.env}
          /\ f.env.msg \in overtaken'[c] /\ since'[c] = Missed(c, {f.env.msg})
      BY <1>1, <1>2, <2>2 DEF To, Full
    <3>2. Coming(c) = Coming(c)' \cup {f.env}
      BY <1>2, <3>1 DEF Coming, ToCome
    <3>3. QED
      BY <2>0, <3>1, <3>2 DEF Missed
  <2>3. CASE c \notin To(f) /\ c \in connected
    <3>1. Buffered(c)' = Buffered(c) /\ FannedTo(c) = {}
      BY <1>1, <1>2, <2>3 DEF To
    <3>2. Coming(c)' = Coming(c)
      BY <1>2, <3>1 DEF Coming, ToCome
    <3>3. QED
      BY <2>0, <3>1, <3>2
  <2>4. CASE c \notin connected
    <3>1. buffer[c] = <<>>
      BY <2>4 DEF MemberInv
    <3>2. Buffered(c) = {}
      BY <3>1 DEF Buffered
    <3>3. Buffered(c)' = Buffered(c)
      BY <1>1, <2>4 DEF To
    <3>4. QED
      BY <2>0, <2>4, <3>2, <3>3
  <2>5. QED
    BY <2>1, <2>2, <2>3, <2>4 DEF Full
<1>6. QED
  BY <1>1, <1>3, <1>4, <1>5

LEMMA LastDispatched ==
  ASSUME ChatInv, MemberInv, LastInv, Dispatch
  PROVE  LastInv'
<1>1. PICK f \in fan :
        /\ fan = {f} /\ f.env \in Envelope /\ Made(f.env)
        /\ InHub = InHub' \cup {f.env} /\ \A x \in InHub' : Precedes(f.env, x)
        /\ \A c \in Viewer :
             /\ since[c] \subseteq since'[c] /\ overtaken[c] \subseteq overtaken'[c]
             /\ \/ /\ Coming(c)' = Coming(c)
                   /\ \/ Buffered(c)' = Buffered(c)
                      \/ f.env \in ToCome(c) /\ Buffered(c)' = Buffered(c) \cup {f.env}
                \/ /\ Buffered(c)' = Buffered(c) /\ Coming(c) = Coming(c)' \cup {f.env}
                   /\ f.env.msg \in overtaken'[c] /\ (Answered(c) => f.env.msg \in since'[c])
                \/ c \notin connected /\ Buffered(c)' = {}
        /\ UNCHANGED <<world, keys, database, doing, queue, page, opening, reply>>
  BY DispatchComing
<1>2. /\ \A e : Final(e)' <=> Final(e)
      /\ crossed' = crossed
  BY <1>1, SameFinal
<1>3. ASSUME NEW x \in InHub', x.msg \notin crossed' PROVE HasFinal(InHub, x.msg)'
  <2>1. InHub' \subseteq Envelope /\ \A y \in InHub' : Made(y)
    BY <1>1, FlightTypes DEF ChatInv, MadeInv
  <2>2. HasFinal(InHub, x.msg) /\ InHub \subseteq InHub' \cup {f.env} /\ Precedes(f.env, x)
    BY <1>1, <1>2, <1>3 DEF LastInv
  <2>3. PICK T : T = InHub'
    OBVIOUS
  <2>4. HasFinal(T, x.msg)
    BY <1>1, <1>2, <1>3, <2>1, <2>2, <2>3, LastLeft
  <2>5. QED
    BY <1>2, <2>3, <2>4 DEF HasFinal
<1>4. ASSUME NEW c \in Viewer, NEW x \in Buffered(c)', x.msg \notin crossed' \cup overtaken'[c]
      PROVE  HasFinal(Coming(c), x.msg)'
  <2>0. x.msg \notin crossed \cup overtaken[c]
    BY <1>1, <1>2, <1>4
  <2>1. ASSUME HasFinal(Coming(c), x.msg), Coming(c) = Coming(c)' \/ (Coming(c) = Coming(c)' \cup {f.env} /\ x.msg # f.env.msg)
        PROVE  HasFinal(Coming(c), x.msg)'
    <3>1. PICK y \in Coming(c) : y.msg = x.msg /\ Final(y)
      BY <2>1 DEF HasFinal
    <3>2. y \in Coming(c)'
      BY <2>1, <3>1
    <3>3. QED
      BY <1>2, <3>1, <3>2 DEF HasFinal
  <2>2. CASE Coming(c)' = Coming(c) /\ Buffered(c)' = Buffered(c)
    BY <1>4, <2>0, <2>1, <2>2 DEF LastInv
  <2>3. CASE Coming(c)' = Coming(c) /\ f.env \in ToCome(c) /\ Buffered(c)' = Buffered(c) \cup {f.env}
    <3>1. CASE x \in Buffered(c)
      BY <2>0, <2>1, <2>3, <3>1 DEF LastInv
    <3>2. CASE x = f.env
      <4>1. HasFinal(ToCome(c), x.msg)
        BY <2>0, <2>3, <3>2, HubLast
      <4>2. HasFinal(Coming(c), x.msg)
        BY <4>1 DEF HasFinal, Coming
      <4>3. QED
        BY <2>1, <2>3, <4>2
    <3>3. QED
      BY <1>4, <2>3, <3>1, <3>2
  <2>4. CASE Buffered(c)' = Buffered(c) /\ Coming(c) = Coming(c)' \cup {f.env} /\ f.env.msg \in overtaken'[c]
    BY <1>4, <2>0, <2>1, <2>4 DEF LastInv
  <2>5. QED
    BY <1>1, <1>4, <2>2, <2>3, <2>4
<1>5. QED
  BY <1>3, <1>4 DEF LastInv
\* What a client that reads a frame changes of what is on its way.
LEMMA ReceiveComing ==
  ASSUME ChatInv, NEW d \in Viewer, Receive(d)
  PROVE  /\ Head(buffer[d]) \in Envelope /\ Made(Head(buffer[d])) /\ Head(buffer[d]) \in Buffered(d)
         /\ InHub' = InHub
         /\ Buffered(d) = Buffered(d)' \cup {Head(buffer[d])} /\ Coming(d) = Coming(d)' \cup {Head(buffer[d])}
         /\ \A x \in Coming(d)' : Precedes(Head(buffer[d]), x)
         /\ \A c \in Viewer \ {d} : /\ buffer'[c] = buffer[c] /\ Buffered(c)' = Buffered(c) /\ Coming(c)' = Coming(c)
                                    /\ overtaken'[c] = overtaken[c]
         /\ overtaken[d] \subseteq overtaken'[d]
<1>1. /\ Head(buffer[d]) \in Envelope /\ Head(buffer[d]) # Key
      /\ Buffered(d) = Buffered(d)' \cup {Head(buffer[d])}
      /\ \A y \in Buffered(d)' : Precedes(Head(buffer[d]), y)
      /\ \A c \in Viewer \ {d} : buffer'[c] = buffer[c] /\ Buffered(c)' = Buffered(c)
  BY ReceiveFacts
<1>2. UNCHANGED <<doing, hub>>
  BY DEF Receive
<1>3. /\ Fanned' = Fanned /\ Queued' = Queued /\ Submitted' = Submitted
      /\ \A c \in Viewer : FannedTo(c)' = FannedTo(c)
  BY <1>2, SameFlight DEF hub, Fanned, Queued, FannedTo
<1>4. InHub' = InHub /\ \A c \in Viewer : ToCome(c)' = ToCome(c)
  BY <1>3 DEF InHub, ToCome
<1>5. Coming(d) = Coming(d)' \cup {Head(buffer[d])} /\ \A c \in Viewer \ {d} : Coming(c)' = Coming(c)
  BY <1>1, <1>4 DEF Coming
<1>6. Made(Head(buffer[d])) /\ Head(buffer[d]) \in Buffered(d)
  BY <1>1 DEF ChatInv, MadeInv
<1>7. ASSUME NEW x \in Coming(d)' PROVE Precedes(Head(buffer[d]), x)
  <2>1. CASE x \in Buffered(d)'
    BY <1>1, <2>1
  <2>2. CASE x \in ToCome(d)
    BY <1>6, <2>2, ComingFacts DEF ChatInv, OrderInv
  <2>3. QED
    BY <1>4, <1>7, <2>1, <2>2 DEF Coming
<1>8. overtaken[d] \subseteq overtaken'[d] /\ \A c \in Viewer \ {d} : overtaken'[c] = overtaken[c]
  <2>1. PICK m : m = Head(buffer[d]).msg
    OBVIOUS
  <2>2. overtaken' \in {overtaken, [overtaken EXCEPT ![d] = @ \cup {m}]}
    BY <2>1 DEF Receive
  <2>3. overtaken \in [Viewer -> SUBSET Message]
    BY DEF ChatInv, ChatTypeOK
  <2>4. QED
    BY <2>2, <2>3
<1>9. QED
  BY <1>1, <1>4, <1>5, <1>6, <1>7, <1>8

LEMMA LastReceived ==
  ASSUME ChatInv, LastInv, NEW d \in Viewer, Receive(d)
  PROVE  LastInv'
<1>1. PICK e : e = Head(buffer[d])
  OBVIOUS
<1>2. /\ e \in Envelope /\ Made(e)
      /\ InHub' = InHub
      /\ Buffered(d) = Buffered(d)' \cup {e} /\ Coming(d) = Coming(d)' \cup {e}
      /\ \A x \in Coming(d)' : Precedes(e, x)
      /\ \A c \in Viewer \ {d} : Buffered(c)' = Buffered(c) /\ Coming(c)' = Coming(c) /\ overtaken'[c] = overtaken[c]
      /\ overtaken[d] \subseteq overtaken'[d]
  BY <1>1, ReceiveComing
<1>3. (\A x : Final(x)' <=> Final(x)) /\ crossed' = crossed
  <2>1. UNCHANGED database
    BY DEF Receive
  <2>2. QED
    BY <2>1, SameFinal
<1>4. ASSUME NEW x \in InHub', x.msg \notin crossed' PROVE HasFinal(InHub, x.msg)'
  BY <1>2, <1>3, <1>4 DEF LastInv, HasFinal
<1>5. ASSUME NEW c \in Viewer \ {d}, NEW x \in Buffered(c)', x.msg \notin crossed' \cup overtaken'[c]
      PROVE  HasFinal(Coming(c), x.msg)'
  BY <1>2, <1>3, <1>5 DEF LastInv, HasFinal
<1>6. ASSUME NEW x \in Buffered(d)', x.msg \notin crossed' \cup overtaken'[d]
      PROVE  HasFinal(Coming(d), x.msg)'
  <2>1. PICK T : T = Coming(d)'
    OBVIOUS
  <2>2. T \subseteq Envelope /\ (\A y \in T : Made(y)) /\ Coming(d) \subseteq T \cup {e} /\ x \in T
    BY <1>2, <1>6, <2>1, ComingFacts DEF Coming
  <2>3. HasFinal(Coming(d), x.msg) /\ x.msg \notin crossed /\ Precedes(e, x)
    BY <1>2, <1>3, <1>6, <2>1, <2>2 DEF LastInv
  <2>4. HasFinal(T, x.msg)
    BY <1>2, <2>2, <2>3, LastLeft
  <2>5. QED
    BY <1>3, <2>1, <2>4 DEF HasFinal
<1>7. QED
  BY <1>4, <1>5, <1>6 DEF LastInv

\* What the read of the members changes of what is on its way to a device.
LEMMA MembersComing ==
  ASSUME ChatInv, MemberInv, GetChannelMembers
  PROVE  /\ InHub' = InHub
         /\ \A c \in Viewer : Buffered(c)' = Buffered(c) /\ (OwnerOf[c] \in member => Coming(c)' = Coming(c))
         /\ \A c \in Viewer : OwnerOf[c] \notin member => Buffered(c)' = {}
<1>1. /\ fan = {} /\ fan' = {[env |-> Head(queue), for |-> member]}
      /\ Fanned = {} /\ Fanned' = {Head(queue)}
      /\ Queued = Queued' \cup {Head(queue)}
      /\ UNCHANGED <<world, keys, database, doing, buffer, client>>
  BY MembersFacts
<1>2. Submitted' = Submitted /\ \A c : Buffered(c)' = Buffered(c)
  BY <1>1, SameFlight DEF Buffered
<1>3. InHub' = InHub
  BY <1>1, <1>2 DEF InHub
<1>4. ASSUME NEW c \in Viewer, OwnerOf[c] \in member PROVE Coming(c)' = Coming(c)
  <2>1. FannedTo(c) = {} /\ FannedTo(c)' = {Head(queue)}
    <3>1. PICK f, h : h = Head(queue) /\ f = [env |-> h, for |-> member]
      OBVIOUS
    <3>2. fan' = {f} /\ f.env = h /\ f.for = member
      BY <1>1, <3>1
    <3>3. {g \in fan' : OwnerOf[c] \in g.for} = {f}
      BY <1>4, <3>2
    <3>4. FannedTo(c)' = {h}
      BY <3>2, <3>3 DEF FannedTo
    <3>5. QED
      BY <1>1, <3>1, <3>4 DEF FannedTo
  <2>2. QED
    BY <1>1, <1>2, <2>1 DEF Coming, ToCome
<1>5. ASSUME NEW c \in Viewer, OwnerOf[c] \notin member PROVE Buffered(c)' = {}
  <2>1. buffer[c] = <<>>
    BY <1>5 DEF MemberInv
  <2>2. Buffered(c) = {}
    BY <2>1 DEF Buffered
  <2>3. QED
    BY <1>2, <2>2
<1>6. QED
  BY <1>2, <1>3, <1>4, <1>5

\* A client that asks, shows or opens, a connection, a key or a member.
LEMMA SameComing ==
  ASSUME UNCHANGED <<doing, hub>>
  PROVE  /\ InHub' = InHub
         /\ \A c : ToCome(c)' = ToCome(c)
         /\ \A c : buffer'[c] = buffer[c] => Buffered(c)' = Buffered(c) /\ Coming(c)' = Coming(c)
<1>1. /\ Fanned' = Fanned /\ Queued' = Queued /\ Submitted' = Submitted
      /\ \A c : FannedTo(c)' = FannedTo(c)
  BY SameFlight DEF hub, Fanned, Queued, FannedTo
<1>2. InHub' = InHub /\ \A c : ToCome(c)' = ToCome(c)
  BY <1>1 DEF InHub, ToCome
<1>3. ASSUME NEW c, buffer'[c] = buffer[c] PROVE Buffered(c)' = Buffered(c)
  BY <1>3 DEF Buffered
<1>4. QED
  BY <1>2, <1>3 DEF Coming

LEMMA GrantedComing ==
  ASSUME ChatInv, NEW d \in Viewer, ReceiveGrantedKey(d)
  PROVE  \A c \in Viewer : Buffered(c)' = Buffered(c) /\ Coming(c)' = Coming(c) /\ (c # d => buffer'[c] = buffer[c])
<1>1. ChatTypeOK /\ OrderInv
  BY DEF ChatInv
<1>2. /\ buffer' = [buffer EXCEPT ![d] = Tail(@)] /\ buffer[d] # <<>> /\ Head(buffer[d]) = Key
      /\ UNCHANGED <<doing, hub>>
  BY DEF ReceiveGrantedKey, ReceiveKey
<1>3. buffer'[d] = Tail(buffer[d]) /\ \A c \in Viewer \ {d} : buffer'[c] = buffer[c]
  BY <1>1, <1>2 DEF ChatTypeOK
<1>4. Buffered(d) = Buffered(d)' \cup ({Key} \ {Key})
  BY <1>1, <1>2, <1>3, TailFacts
<1>5. \A c : ToCome(c)' = ToCome(c)
  BY <1>2, SameComing
<1>6. \A c \in Viewer \ {d} : Buffered(c)' = Buffered(c)
  BY <1>3 DEF Buffered
<1>7. QED
  BY <1>3, <1>4, <1>5, <1>6 DEF Coming

\* A key that is sent to a member.
LEMMA SentKeyComing ==
  ASSUME ChatInv, NEW u \in User, SendChannelKey(u)
  PROVE  \A c \in Viewer :
           /\ Buffered(c)' = Buffered(c) /\ Coming(c)' = Coming(c)
           /\ \/ buffer'[c] = buffer[c] /\ ~(c \in connected /\ OwnerOf[c] = u /\ HasRoom(c))
              \/ buffer'[c] = Append(buffer[c], Key) /\ c \in connected /\ OwnerOf[c] = u
<1>1. ChatTypeOK /\ OrderInv
  BY DEF ChatInv
<1>2. UNCHANGED <<doing, hub>>
  BY DEF SendChannelKey
<1>3. \A c : ToCome(c)' = ToCome(c)
  BY <1>2, SameComing
<1>4. ASSUME NEW c \in Viewer
      PROVE  /\ Buffered(c)' = Buffered(c)
             /\ \/ buffer'[c] = buffer[c] /\ ~(c \in connected /\ OwnerOf[c] = u /\ HasRoom(c))
                \/ buffer'[c] = Append(buffer[c], Key) /\ c \in connected /\ OwnerOf[c] = u
  <2>1. buffer'[c] = IF c \in connected /\ OwnerOf[c] = u /\ HasRoom(c) THEN Append(buffer[c], Key) ELSE buffer[c]
    BY DEF SendChannelKey
  <2>2. CASE c \in connected /\ OwnerOf[c] = u /\ HasRoom(c)
    <3>1. buffer'[c] = Append(buffer[c], Key)
      BY <2>1, <2>2
    <3>2. Buffered(c)' = Buffered(c) \cup ({Key} \ {Key})
      BY <1>1, <3>1, AppendFacts
    <3>3. QED
      BY <2>2, <3>1, <3>2
  <2>3. CASE ~(c \in connected /\ OwnerOf[c] = u /\ HasRoom(c))
    BY <2>1, <2>3 DEF Buffered
  <2>4. QED
    BY <2>2, <2>3
<1>5. QED
  BY <1>3, <1>4 DEF Coming
LEMMA MemberStep ==
  ASSUME ChatInv, MemberInv, [ChatNext]_chatVars
  PROVE  MemberInv'
<1>0. buffer \in [Viewer -> Seq(Envelope \cup {Key})] /\ ChatTypeOK
  BY DEF ChatInv, ChatTypeOK
<1>1. CASE /\ UNCHANGED <<connected, fan>> /\ member \subseteq member' /\ granting' \subseteq member'
           /\ \A c \in Viewer : buffer'[c] # <<>> => buffer[c] # <<>> \/ (c \in connected /\ OwnerOf[c] \in member)
  BY <1>1 DEF MemberInv
<1>2. CASE GetChannelMembers
  <2>1. /\ fan' = {[env |-> Head(queue), for |-> member]}
        /\ UNCHANGED <<member, connected, granting, buffer>>
    BY <1>2, MembersFacts DEF world, keys
  <2>2. \A f \in fan' : f.for \subseteq member'
    BY <2>1
  <2>3. QED
    BY <2>1, <2>2 DEF MemberInv
<1>3. CASE Dispatch
  <2>1. PICK f \in fan :
          /\ fan' = {}
          /\ \A c \in Viewer : c \notin To(f) => buffer'[c] = buffer[c]
          /\ UNCHANGED <<world, keys>>
    BY <1>3 DEF Dispatch, To
  <2>2. QED
    BY <2>1 DEF MemberInv, To, world, keys
<1>4. ASSUME NEW u \in User, AddMember(u) PROVE MemberInv'
  BY <1>1, <1>4 DEF AddMember, hub, MemberInv
<1>5. ASSUME NEW u \in User, SendChannelKey(u) PROVE MemberInv'
  BY <1>1, <1>5 DEF SendChannelKey, world, hub, MemberInv
<1>6. ASSUME NEW d \in Viewer, Register(d) PROVE MemberInv'
  BY <1>6 DEF Register, hub, MemberInv
<1>7. ASSUME NEW d \in Viewer, Disconnect(d) PROVE MemberInv'
  BY <1>7 DEF Disconnect, hub, MemberInv
<1>8. ASSUME NEW d \in Device, Handle(d) PROVE MemberInv'
  <2>1. UNCHANGED <<world, keys, fan, buffer>>
    BY <1>8 DEF Handle, HandleChatMessage, GetMessage, UpdateMessage, DeleteMessage, Enqueue, hub
  <2>2. QED
    BY <2>1 DEF MemberInv, world, keys
<1>9. ASSUME NEW d \in Viewer, Show(d) PROVE MemberInv'
  <2>1. UNCHANGED <<world, hub, granting>>
    BY <1>9 DEF Show, Receive, WriteChannelKeys, ReceiveGrantedKey, ReceiveKey, AddOpened, Focus, ListMessages,
       ListRefused, ShowHistory, keys
  <2>2. \A c \in Viewer : buffer'[c] = buffer[c] \/ (c = d /\ buffer[c] # <<>>)
    <3>1. CASE Receive(d) \/ ReceiveGrantedKey(d)
      <4>1. buffer' = [buffer EXCEPT ![d] = Tail(@)] /\ buffer[d] # <<>>
        BY <3>1 DEF Receive, ReceiveGrantedKey
      <4>2. QED
        BY <1>0, <4>1
    <3>2. CASE buffer' = buffer
      BY <3>2
    <3>3. QED
      BY <1>9, <3>1, <3>2 DEF Show, WriteChannelKeys, AddOpened, Focus, ListMessages, ListRefused, ShowHistory
  <2>3. QED
    BY <2>1, <2>2 DEF MemberInv, world, hub
<1>10. CASE UNCHANGED chatVars
  BY <1>10 DEF chatVars, world, keys, hub, MemberInv
<1>11. QED
  BY <1>2, <1>3, <1>4, <1>5, <1>6, <1>7, <1>8, <1>9, <1>10 DEF ChatNext

\* What a step leaves alone at device c, or adds to.
SameTo(c) ==
  /\ Buffered(c)' = Buffered(c) /\ Coming(c)' = Coming(c)
  /\ opening'[c] = opening[c] /\ page'[c] = page[c] /\ reply'[c] = reply[c]
  /\ since'[c] = since[c] /\ overtaken'[c] = overtaken[c]
  /\ c \in hasKey' <=> c \in hasKey

\* What a client that does something leaves alone of the others.
LEMMA ShowElsewhere ==
  ASSUME ChatInv, NEW d \in Viewer, Show(d)
  PROVE  \A c \in Viewer \ {d} :
           /\ SameTo(c) /\ buffer'[c] = buffer[c]
           /\ c \in keyDue' <=> c \in keyDue
           /\ c \in unkeyed' <=> c \in unkeyed
<1>0. ChatTypeOK
  BY DEF ChatInv
<1> SUFFICES ASSUME NEW c \in Viewer \ {d}
             PROVE  /\ SameTo(c) /\ buffer'[c] = buffer[c]
                    /\ c \in keyDue' <=> c \in keyDue
                    /\ c \in unkeyed' <=> c \in unkeyed
  OBVIOUS
<1> DEFINE Mine == /\ opening'[c] = opening[c] /\ page'[c] = page[c] /\ reply'[c] = reply[c]
                   /\ since'[c] = since[c] /\ overtaken'[c] = overtaken[c] /\ buffer'[c] = buffer[c]
                   /\ c \in hasKey' <=> c \in hasKey
                   /\ c \in keyDue' <=> c \in keyDue
                   /\ c \in unkeyed' <=> c \in unkeyed
<1>1. UNCHANGED <<doing, hub>>
  BY DEF Show, Receive, WriteChannelKeys, ReceiveGrantedKey, ReceiveKey, AddOpened, Focus, ListMessages,
     ListRefused, ShowHistory
<1>2. CASE Receive(d)
  <2>1. overtaken'[c] = overtaken[c] /\ buffer'[c] = buffer[c]
    BY <1>2, ReceiveComing
  <2>2. PICK m, g : m = Head(buffer[d]).msg /\ g = Decrypted(d, Head(buffer[d]))
    OBVIOUS
  <2>3. \/ page' = [page EXCEPT ![d][m] = 0] /\ Touch(d, m) /\ UNCHANGED opening
        \/ opening' = [opening EXCEPT ![d] = @ \cup {g}] /\ UNCHANGED <<page, since>>
    BY <1>2, <2>2 DEF Receive
  <2>4. opening'[c] = opening[c] /\ page'[c] = page[c] /\ since'[c] = since[c]
    BY <1>0, <2>3 DEF ChatTypeOK, Touch
  <2>5. UNCHANGED <<keys, reply>>
    BY <1>2 DEF Receive
  <2>6. QED
    BY <1>1, <2>1, <2>4, <2>5, SameComing DEF keys, SameTo
<1>3. CASE ReceiveKey(d) /\ (buffer' = buffer \/ buffer' = [buffer EXCEPT ![d] = Tail(@)]) /\ keyDue' \in {keyDue, keyDue \ {d}}
  <2>1. Mine
    BY <1>0, <1>3 DEF ReceiveKey, ChatTypeOK
  <2>2. QED
    BY <1>1, <2>1, SameComing DEF SameTo
<1>4. CASE WriteChannelKeys(d)
  <2>1. CASE ReceiveKey(d)
    BY <1>3, <1>4, <2>1 DEF WriteChannelKeys
  <2>2. CASE ~ReceiveKey(d)
    <3>1. UNCHANGED <<hasKey, unkeyed, client, buffer>> /\ keyDue' = keyDue \ {d}
      BY <1>4, <2>2 DEF WriteChannelKeys
    <3>2. QED
      BY <1>1, <3>1, SameComing DEF SameTo, client
  <2>3. QED
    BY <2>1, <2>2
<1>5. CASE ReceiveGrantedKey(d)
  BY <1>3, <1>5 DEF ReceiveGrantedKey
<1>6. ASSUME NEW e \in opening[d], AddOpened(d, e) PROVE SameTo(c) /\ buffer'[c] = buffer[c] /\ UNCHANGED <<keyDue, unkeyed>>
  <2>1. Mine /\ UNCHANGED <<keyDue, unkeyed>>
    BY <1>0, <1>6 DEF AddOpened, Touch, ChatTypeOK, keys
  <2>2. QED
    BY <1>1, <2>1, SameComing DEF SameTo
<1>7. CASE Focus(d) \/ ListMessages(d) \/ ListRefused(d)
  <2>1. Mine
    BY <1>0, <1>7 DEF Focus, ListMessages, ListRefused, ChatTypeOK, keys
  <2>2. QED
    BY <1>1, <2>1, SameComing DEF SameTo
<1>8. CASE ShowHistory(d)
  <2>1. PICK p, o : /\ page' = [page EXCEPT ![d] = p] /\ overtaken' = [overtaken EXCEPT ![d] = o]
                    /\ reply' = [reply EXCEPT ![d] = NoReply] /\ since' = [since EXCEPT ![d] = {}]
                    /\ UNCHANGED <<keys, buffer, opening>>
    <3>1. PICK p : p = [m \in Message |-> IF reply[d][m] = 0 \/ d \in hasKey THEN reply[d][m] ELSE Unreadable]
      OBVIOUS
    <3>2. PICK o : o = since[d] \cup BeingOpened(d) \cup (overtaken[d] \cap {e.msg : e \in Range(buffer[d]) \ {Key}})
      OBVIOUS
    <3>3. QED
      BY <1>8, <3>1, <3>2 DEF ShowHistory
  <2>2. Mine
    BY <1>0, <2>1 DEF ChatTypeOK, keys
  <2>3. QED
    BY <1>1, <2>2, SameComing DEF SameTo
<1>9. QED
  BY <1>2, <1>4, <1>5, <1>6, <1>7, <1>8 DEF Show
LEMMA HistoryShown ==
  ASSUME ChatInv, NEW d \in Viewer, ShowHistory(d)
  PROVE  /\ Answered(d) /\ overtaken'[d] = since[d] \cup BeingOpened(d) \cup (overtaken[d] \cap {e.msg : e \in Buffered(d)})
         /\ reply'[d] = NoReply
         /\ d \in hasKey => \A m \in Message : page'[d][m] = reply[d][m]
         /\ UNCHANGED <<world, keys, database, doing, hub, buffer, opening>>
<1>0. ChatTypeOK
  BY DEF ChatInv
<1>1. PICK p : p = [m \in Message |-> IF reply[d][m] = 0 \/ d \in hasKey THEN reply[d][m] ELSE Unreadable]
  OBVIOUS
<1>2. PICK o : o = {e.msg : e \in Range(buffer[d]) \ {Key}}
  OBVIOUS
<1>3. /\ page' = [page EXCEPT ![d] = p] /\ reply' = [reply EXCEPT ![d] = NoReply] /\ Answered(d)
      /\ overtaken' = [overtaken EXCEPT ![d] = since[d] \cup BeingOpened(d) \cup (@ \cap o)]
      /\ UNCHANGED <<world, keys, database, doing, hub, buffer, opening>>
  BY <1>1, <1>2 DEF ShowHistory
<1>4. o = {e.msg : e \in Buffered(d)}
  BY <1>2 DEF Range, Buffered
<1>5. page'[d] = p /\ reply'[d] = NoReply
      /\ overtaken'[d] = since[d] \cup BeingOpened(d) \cup (overtaken[d] \cap o)
  BY <1>0, <1>3 DEF ChatTypeOK
<1>6. d \in hasKey => \A m \in Message : p[m] = reply[d][m]
  BY <1>1
<1>7. QED
  BY <1>3, <1>4, <1>5, <1>6

LEMMA LookComing ==
  ASSUME ChatInv, NEW d \in Device,
         Enqueue(d) \/ \E m \in Message, op \in {"edit", "delete"} : GetMessage(d, m, op)
  PROVE  /\ InHub' = InHub
         /\ \A c \in Viewer : SameTo(c) /\ buffer'[c] = buffer[c]
         /\ UNCHANGED <<world, keys, database>>
<1>1. CASE Enqueue(d)
  <2>1. /\ Submitted' \subseteq Submitted /\ Submitted = Submitted' \cup {doing[d].env} /\ Queued' = Queued \cup {doing[d].env}
        /\ UNCHANGED <<world, keys, database, fan, buffer, client>>
    BY <1>1, EnqueueFacts
  <2>2. Fanned' = Fanned /\ \A c : FannedTo(c)' = FannedTo(c) /\ Buffered(c)' = Buffered(c)
    BY <2>1 DEF Fanned, FannedTo, Buffered
  <2>3. InHub' = InHub /\ \A c : Coming(c)' = Coming(c)
    BY <2>1, <2>2 DEF InHub, Coming, ToCome
  <2>4. QED
    BY <2>1, <2>2, <2>3 DEF SameTo, client, keys
<1>2. ASSUME NEW m \in Message, NEW op \in {"edit", "delete"}, GetMessage(d, m, op)
      PROVE  /\ InHub' = InHub
             /\ \A c \in Viewer : SameTo(c) /\ buffer'[c] = buffer[c]
             /\ UNCHANGED <<world, keys, database>>
  <2>1. Submitted' = Submitted /\ UNCHANGED <<world, keys, database, hub, buffer, client>>
    BY <1>2, LookFacts DEF ChatInv, GetMessage
  <2>2. Fanned' = Fanned /\ Queued' = Queued /\ \A c : FannedTo(c)' = FannedTo(c) /\ Buffered(c)' = Buffered(c)
    BY <2>1 DEF Fanned, Queued, FannedTo, Buffered, hub
  <2>3. InHub' = InHub /\ \A c : Coming(c)' = Coming(c)
    BY <2>1, <2>2 DEF InHub, Coming, ToCome
  <2>4. QED
    BY <2>1, <2>2, <2>3 DEF SameTo, client, keys
<1>3. QED
  BY <1>1, <1>2

LEMMA ChatSplit ==
  ASSUME [ChatNext]_chatVars
  PROVE  \/ GetChannelMembers \/ Dispatch
         \/ \E u \in User : AddMember(u) \/ SendChannelKey(u)
         \/ \E d \in Device : \/ Enqueue(d)
                              \/ \E m \in Message, op \in {"edit", "delete"} : GetMessage(d, m, op)
                              \/ (\E m \in Message : HandleChatMessage(d, m)) \/ UpdateMessage(d) \/ DeleteMessage(d)
         \/ \E d \in Viewer : Register(d) \/ Disconnect(d) \/ Show(d)
         \/ UNCHANGED chatVars
  BY DEF ChatNext, Handle

LEMMA LastStep ==
  ASSUME ChatInv, MemberInv, LastInv, [ChatNext]_chatVars
  PROVE  LastInv'
<1>0. ChatTypeOK
  BY DEF ChatInv
<1>1. CASE GetChannelMembers
  <2>1. UNCHANGED <<database, overtaken>>
    BY <1>1 DEF GetChannelMembers, client
  <2>2. \A c \in Viewer : KeepsComing(c)
    BY <1>1, <2>1, MembersComing DEF KeepsComing
  <2>3. QED
    BY <1>1, <2>1, <2>2, MembersComing, LastKept
<1>2. CASE UNCHANGED <<doing, hub, database, overtaken>> /\ \A c \in Viewer : buffer'[c] = buffer[c] \/ buffer'[c] = <<>>
  <2>1. \A c \in Viewer : KeepsComing(c)
    BY <1>2, SameComing DEF KeepsComing, Buffered
  <2>2. QED
    BY <1>2, <2>1, SameComing, LastKept
<1>3. ASSUME NEW u \in User, AddMember(u) PROVE LastInv'
  BY <1>2, <1>3 DEF AddMember, client
<1>4. ASSUME NEW u \in User, SendChannelKey(u) PROVE LastInv'
  <2>1. UNCHANGED <<doing, hub, database, overtaken>>
    BY <1>4 DEF SendChannelKey, client
  <2>2. \A c \in Viewer : KeepsComing(c)
    BY <1>4, <2>1, SentKeyComing DEF KeepsComing
  <2>3. QED
    BY <2>1, <2>2, SameComing, LastKept
<1>5. ASSUME NEW d \in Viewer, Register(d) \/ Disconnect(d) PROVE LastInv'
  BY <1>0, <1>2, <1>5 DEF Register, Disconnect, client
<1>6. ASSUME NEW d \in Device,
             Enqueue(d) \/ \E m \in Message, op \in {"edit", "delete"} : GetMessage(d, m, op)
      PROVE  LastInv'
  <2>1. InHub' = InHub /\ (\A c \in Viewer : SameTo(c)) /\ UNCHANGED database
    BY <1>6, LookComing
  <2>2. \A c \in Viewer : KeepsComing(c)
    BY <2>1 DEF KeepsComing, SameTo
  <2>3. QED
    BY <2>1, <2>2, LastKept
<1>7. ASSUME NEW d \in Device, (\E m \in Message : HandleChatMessage(d, m)) \/ UpdateMessage(d) \/ DeleteMessage(d)
      PROVE  LastInv'
  BY <1>7, HandlerChanges, LastChanged
<1>8. ASSUME NEW d \in Viewer, Show(d), ~Receive(d) PROVE LastInv'
  <2>1. UNCHANGED <<doing, hub, database>>
    BY <1>8 DEF Show, WriteChannelKeys, ReceiveGrantedKey, ReceiveKey, AddOpened, Focus, ListMessages,
       ListRefused, ShowHistory
  <2>2. \A c \in Viewer \ {d} : KeepsComing(c)
    BY <1>8, ShowElsewhere DEF KeepsComing, SameTo
  <2>3. Buffered(d)' = Buffered(d) /\ Coming(d)' = Coming(d)
    <3>1. CASE ReceiveGrantedKey(d)
      BY <3>1, GrantedComing
    <3>2. CASE buffer' = buffer
      BY <2>1, <3>2, SameComing
    <3>3. QED
      BY <1>8, <3>1, <3>2 DEF Show, WriteChannelKeys, AddOpened, Focus, ListMessages, ListRefused, ShowHistory
  <2>4. \A x \in Buffered(d) : x.msg \in overtaken[d] => x.msg \in overtaken'[d]
    <3>1. CASE ShowHistory(d)
      BY <3>1, HistoryShown
    <3>2. CASE overtaken' = overtaken
      BY <3>2
    <3>3. QED
      BY <1>8, <3>1, <3>2 DEF Show, WriteChannelKeys, ReceiveGrantedKey, ReceiveKey, AddOpened, Focus,
         ListMessages, ListRefused, client
  <2>5. \A c \in Viewer : KeepsComing(c)
    BY <2>2, <2>3, <2>4 DEF KeepsComing
  <2>6. QED
    BY <2>1, <2>5, SameComing, LastKept
<1>9. CASE UNCHANGED chatVars
  BY <1>2, <1>9 DEF chatVars, client
<1>10. QED
  BY <1>1, <1>3, <1>4, <1>5, <1>6, <1>7, <1>8, <1>9, ChatSplit, LastDispatched, LastReceived
\* A step that does no more to c's client than to pass it by.
PassesBy(c) ==
  /\ opening'[c] = opening[c] /\ page'[c] = page[c] /\ reply'[c] = reply[c]
  /\ since[c] \subseteq since'[c] /\ overtaken[c] \subseteq overtaken'[c]
  /\ Buffered(c) \subseteq Buffered(c)'
  /\ c \in hasKey => c \in hasKey'
  /\ \A m \in Message : \/ Come(c, m)' = Come(c, m)
                        \/ m \in overtaken'[c] /\ (Answered(c) => m \in since'[c])

LEMMA PageKept ==
  ASSUME NEW c \in Viewer, PageOK(c), UNCHANGED database, Keyed(c)' => Keyed(c) /\ PassesBy(c)
  PROVE  PageOK(c)'
<1> SUFFICES ASSUME Keyed(c)'
             PROVE  /\ c \in hasKey'
                    /\ Answered(c)' => \A m \in Message \ Behind(c)' : LeadsOn(c, m, reply[c][m])'
                    /\ (reply[c] = NoReply)' =>
                         \A m \in Message \ (crossed \cup overtaken[c])' : LeadsOn(c, m, page[c][m])'
  BY DEF PageOK
<1>1. Keyed(c) /\ PassesBy(c) /\ crossed' = crossed /\ stored' = stored /\ written' = written
  BY DEF database
<1>2. c \in hasKey /\ c \in hasKey'
  BY <1>1 DEF PageOK, PassesBy
<1>3. (Answered(c)' <=> Answered(c)) /\ BeingOpened(c)' = BeingOpened(c) /\ \A m : Opened(c, m)' = Opened(c, m)
  BY <1>1 DEF Answered, PassesBy, BeingOpened, Opened
<1>4. ASSUME Answered(c)', NEW m \in Message \ Behind(c)' PROVE LeadsOn(c, m, reply[c][m])'
  <2>1. Come(c, m)' = Come(c, m)
    BY <1>1, <1>3, <1>4 DEF PassesBy, Behind
  <2>2. m \notin Behind(c)
    BY <1>1, <1>3, <1>4 DEF PassesBy, Behind
  <2>3. LeadsOn(c, m, reply[c][m])
    BY <1>1, <1>3, <1>4, <2>2 DEF PageOK
  <2>4. reply'[c] = reply[c]
    BY <1>1 DEF PassesBy
  <2>5. QED
    BY <1>1, <1>3, <2>1, <2>3, <2>4 DEF LeadsOn
<1>5. ASSUME (reply[c] = NoReply)', NEW m \in Message \ (crossed \cup overtaken[c])'
      PROVE  LeadsOn(c, m, page[c][m])'
  <2>1. Come(c, m)' = Come(c, m) /\ m \notin overtaken[c] /\ reply[c] = NoReply /\ page'[c] = page[c]
    BY <1>1, <1>5 DEF PassesBy
  <2>2. LeadsOn(c, m, page[c][m])
    BY <1>1, <1>5, <2>1 DEF PageOK
  <2>3. QED
    BY <1>1, <1>3, <2>1, <2>2 DEF LeadsOn
<1>6. QED
  BY <1>2, <1>4, <1>5

\* In short, when all of it is as it was.
LEMMA PageSame ==
  ASSUME NEW c \in Viewer, PageOK(c), UNCHANGED database, Keyed(c)' => Keyed(c), SameTo(c)
  PROVE  PageOK(c)'
<1>1. PassesBy(c)
  BY DEF PassesBy, SameTo, Come
<1>2. QED
  BY <1>1, PageKept

\* The keys, at a step that leaves them and the connections alone.
LEMMA SameKeyed ==
  ASSUME NEW c \in Viewer, c \in connected' => c \in connected, OwnerOf[c] \in member' => OwnerOf[c] \in member,
         c \in keyDue => c \in keyDue', c \in unkeyed => c \in unkeyed',
         OwnerOf[c] \in granting => OwnerOf[c] \in granting',
         buffer'[c] = buffer[c]
  PROVE  Keyed(c)' => Keyed(c)
  BY DEF Keyed, Keyless

\* A change adds the last of its message to what is to come.
LEMMA PageChanged ==
  ASSUME ChatInv, LastInv, NEW d \in Device, NEW x \in Envelope, Changes(d, x), NEW c \in Viewer, PageOK(c)
  PROVE  PageOK(c)'
<1>0. /\ stored \in [Message -> 0 .. MaxVersion] /\ written \in [Message -> 0 .. MaxVersion]
      /\ stored' = [stored EXCEPT ![x.msg] = IF x.kind = "delete" THEN 0 ELSE x.version]
      /\ written' = [written EXCEPT ![x.msg] = IF x.kind = "delete" THEN @ ELSE x.version]
      /\ crossed' \in {crossed, crossed \cup {x.msg}}
      /\ x.msg \notin crossed' => ~Contended(d, x.msg) /\ (x.kind = "update" => stored[x.msg] # 0)
      /\ IF x.kind = "message" THEN written[x.msg] = 0 /\ x.version = 1 ELSE written[x.msg] # 0
      /\ x.kind = "update" => x.version = written[x.msg] + 1
      /\ UNCHANGED <<world, keys, hub, buffer, client>>
  BY DEF ChatInv, ChatTypeOK, History, Version, Changes
<1>1. x.msg \in Message /\ (x.kind # "delete" => x.version \in 1 .. MaxVersion) /\ x.kind \in {"message", "update", "delete"}
  BY EnvelopeFacts
<1>2. Coming(c)' = Coming(c) \cup {x} /\ Buffered(c)' = Buffered(c) /\ crossed \subseteq crossed'
  BY <1>0, LastChanged
<1>3. /\ Keyed(c)' <=> Keyed(c)
      /\ (Answered(c)' <=> Answered(c)) /\ BeingOpened(c)' = BeingOpened(c) /\ \A m : Opened(c, m)' = Opened(c, m)
      /\ reply' = reply /\ page' = page /\ hasKey' = hasKey /\ overtaken' = overtaken /\ since' = since
  BY <1>0 DEF world, keys, client, Keyed, Keyless, Answered, BeingOpened, Opened
<1>4. \A m \in Message : /\ written[m] \in Nat /\ written'[m] \in Nat /\ written[m] <= written'[m]
                         /\ m # x.msg => stored'[m] = stored[m] /\ written'[m] = written[m] /\ Come(c, m)' = Come(c, m)
                         /\ m = x.msg => Come(c, m)' = Come(c, m) \cup {x}
  <2>1. \A m \in Message : /\ written[m] \in Nat /\ written'[m] \in Nat /\ written[m] <= written'[m]
                           /\ m # x.msg => stored'[m] = stored[m] /\ written'[m] = written[m]
    BY <1>0, <1>1
  <2>2. QED
    BY <1>2, <2>1 DEF Come
<1>5. ASSUME NEW m \in Message, m \notin crossed', NEW v, LeadsOn(c, m, v),
             m \notin overtaken[c] \/ \A y \in Buffered(c) : y.msg # m
      PROVE  Leads(v, Come(c, m)', Opened(c, m), stored'[m], written'[m])
  <2>0. Leads(v, Come(c, m), Opened(c, m), stored[m], written[m])
    BY <1>5 DEF LeadsOn
  <2>1. CASE m # x.msg
    BY <1>4, <2>0, <2>1
  <2>2. CASE m = x.msg
    <3>1. m \notin crossed
      BY <1>2, <1>5
    <3>2. \A e \in Come(c, m) \cup Opened(c, m) :
            e \in Envelope /\ Made(e) /\ e.msg = m /\ (e \in Come(c, m) => e \in Coming(c))
      <4>1. \A e \in Opened(c, m) : e.version # Unreadable /\ e \in opening[c] /\ e.msg = m
        BY <2>0 DEF Leads, Opened
      <4>2. Opened(c, m) \subseteq Readable(c)
        BY <4>1 DEF Readable
      <4>3. QED
        BY <4>1, <4>2, ComingFacts DEF Come
    <3> PICK C, O, s, w, s2, w2 : /\ C = Come(c, m) /\ O = Opened(c, m) /\ s = stored[m] /\ w = written[m]
                                  /\ s2 = stored'[m] /\ w2 = written'[m]
      OBVIOUS
    <3>0. /\ Leads(v, C, O, s, w) /\ Come(c, m)' = C \cup {x} /\ w \in Nat /\ w2 \in Nat /\ w <= w2
      BY <1>4, <2>0, <2>2
    <3> SUFFICES \/ v # 0 \/ \E e \in C \cup O \cup {x} : e.kind = "message"
                 \/ \A e \in C \cup O \cup {x} : e.kind = "update" => ~Last(e, s2, w2)
      <4>1. CASE v # 0 \/ \E e \in C \cup O \cup {x} : e.kind = "message"
        <5>1. Leads(v, C \cup {x}, O, s2, w2)
          BY <3>0, <4>1, LeadsMore
        <5>2. QED
          BY <3>0, <5>1
      <4>2. CASE \A e \in C \cup O \cup {x} : e.kind = "update" => ~Last(e, s2, w2)
        <5>1. Leads(v, C \cup {x}, O, s2, w2)
          BY <3>0, <4>2, LeadsMore
        <5>2. QED
          BY <3>0, <5>1
      <4>3. QED
        BY <4>1, <4>2
    <3>3. CASE x.kind = "message"
      BY <3>3
    <3>4. CASE x.kind = "update"
      <4>1. stored[m] # 0
        BY <1>0, <1>5, <2>2, <3>4
      <4>2. \A e \in Come(c, m) \cup Opened(c, m) : e.kind \in {"message", "update"}
        BY <3>1, <3>2, <4>1, EnvelopeFacts DEF Made
      <4>3. ASSUME Come(c, m) # {} PROVE \E y \in Come(c, m) : Last(y, stored[m], written[m])
        <5>1. PICK e \in Come(c, m) : e \in Coming(c) /\ e.msg = m
          BY <3>2, <4>3
        <5>2. HasFinal(Coming(c), m)
          BY <1>5, <3>1, <5>1, LastComes
        <5>3. QED
          BY <5>2 DEF HasFinal, Come, Final
      <4>4. v # 0 \/ \E e \in Come(c, m) \cup Opened(c, m) : e.kind = "message"
        BY <2>0, <4>1, <4>2, <4>3, LeadsNotNone
      <4>5. QED
        BY <4>4
    <3>5. CASE x.kind = "delete"
      <4>1. stored'[m] = 0
        BY <1>0, <1>1, <2>2, <3>5
      <4>2. ASSUME NEW e \in Come(c, m) \cup Opened(c, m) \cup {x}, e.kind = "update"
            PROVE  ~Last(e, stored'[m], written'[m])
        <5>1. e \in Envelope
          BY <3>2
        <5>2. e.version \in 1 .. MaxVersion
          BY <4>2, <5>1, EnvelopeFacts
        <5>3. QED
          BY <4>1, <4>2, <5>2 DEF Last, Rank
      <4>3. QED
        BY <4>2
    <3>6. QED
      BY <1>1, <3>3, <3>4, <3>5
  <2>3. QED
    BY <2>1, <2>2
<1>6. ASSUME Keyed(c)', Answered(c)', NEW m \in Message \ Behind(c)' PROVE LeadsOn(c, m, reply[c][m])'
  <2>1. m \notin crossed' /\ m \notin Behind(c) /\ (m \notin overtaken[c] \/ \A y \in Buffered(c) : y.msg # m)
    BY <1>2, <1>3, <1>6 DEF Behind
  <2>2. LeadsOn(c, m, reply[c][m])
    BY <1>3, <1>6, <2>1 DEF PageOK
  <2>3. Leads(reply[c][m], Come(c, m)', Opened(c, m), stored'[m], written'[m])
    BY <1>5, <2>1, <2>2
  <2>4. QED
    BY <1>3, <2>3 DEF LeadsOn
<1>7. ASSUME Keyed(c)', (reply[c] = NoReply)', NEW m \in Message \ (crossed \cup overtaken[c])'
      PROVE  LeadsOn(c, m, page[c][m])'
  <2>1. m \notin crossed' /\ m \notin crossed /\ m \notin overtaken[c] /\ reply[c] = NoReply
    BY <1>2, <1>3, <1>7
  <2>2. LeadsOn(c, m, page[c][m])
    BY <1>3, <1>7, <2>1 DEF PageOK
  <2>3. Leads(page[c][m], Come(c, m)', Opened(c, m), stored'[m], written'[m])
    BY <1>5, <2>1, <2>2
  <2>4. QED
    BY <1>3, <2>3 DEF LeadsOn
<1>8. Keyed(c)' => c \in hasKey'
  BY <1>3 DEF PageOK
<1>9. QED
  BY <1>6, <1>7, <1>8 DEF PageOK
LEMMA PageDispatched ==
  ASSUME ChatInv, MemberInv, Dispatch, NEW c \in Viewer, PageOK(c)
  PROVE  PageOK(c)'
<1>1. PICK f \in fan :
        /\ \/ /\ Coming(c)' = Coming(c)
              /\ \/ Buffered(c)' = Buffered(c)
                 \/ f.env \in ToCome(c) /\ Buffered(c)' = Buffered(c) \cup {f.env}
           \/ /\ Buffered(c)' = Buffered(c) /\ Coming(c) = Coming(c)' \cup {f.env}
              /\ f.env.msg \in overtaken'[c] /\ (Answered(c) => f.env.msg \in since'[c])
           \/ c \notin connected /\ Buffered(c)' = {}
        /\ since[c] \subseteq since'[c] /\ overtaken[c] \subseteq overtaken'[c]
        /\ UNCHANGED <<world, keys, database, doing, queue, page, opening, reply>>
  BY DispatchComing
<1>2. ASSUME Keyed(c)' PROVE Keyed(c) /\ PassesBy(c)
  <2>1. Keyless(c)
    <3>1. PICK x \in Envelope : buffer'[c] = buffer[c] \/ buffer'[c] = Append(buffer[c], x)
      <4>1. PICK g \in fan : g.env \in Envelope /\ (buffer'[c] = buffer[c] \/ buffer'[c] = Append(buffer[c], g.env))
        BY DispatchFacts
      <4>2. QED
        BY <4>1
    <3>2. buffer[c] \in Seq(Envelope \cup {Key})
      BY DEF ChatInv, ChatTypeOK
    <3>3. \A i \in DOMAIN buffer[c] : i \in DOMAIN buffer'[c] /\ buffer'[c][i] = buffer[c][i]
      <4> DEFINE b == buffer[c]
      <4>1. /\ b \in Seq(Envelope \cup {Key}) /\ x \in Envelope \cup {Key}
            /\ buffer'[c] = b \/ buffer'[c] = Append(b, x)
        BY <3>1, <3>2
      <4> HIDE DEF b
      <4>2. \A i \in DOMAIN b : i \in DOMAIN Append(b, x) /\ Append(b, x)[i] = b[i]
        BY <4>1
      <4>3. QED
        BY <4>1, <4>2 DEF b
    <3>4. QED
      BY <1>2, <3>3 DEF Keyed, Keyless
  <2>2. Keyed(c)
    BY <1>1, <1>2, <2>1 DEF Keyed, world, keys
  <2>3. c \in connected
    BY <2>2 DEF Keyed
  <2>4. /\ opening'[c] = opening[c] /\ page'[c] = page[c] /\ reply'[c] = reply[c]
        /\ Buffered(c) \subseteq Buffered(c)' /\ hasKey' = hasKey
    BY <1>1, <2>3 DEF keys
  <2>5. ASSUME NEW m \in Message
        PROVE  Come(c, m)' = Come(c, m) \/ (m \in overtaken'[c] /\ (Answered(c) => m \in since'[c]))
    <3>1. CASE Coming(c)' = Coming(c)
      BY <3>1 DEF Come
    <3>2. CASE /\ Coming(c) = Coming(c)' \cup {f.env}
               /\ f.env.msg \in overtaken'[c] /\ (Answered(c) => f.env.msg \in since'[c])
      <4>1. CASE m = f.env.msg
        BY <3>2, <4>1
      <4>2. CASE m # f.env.msg
        BY <3>2, <4>2 DEF Come
      <4>3. QED
        BY <4>1, <4>2
    <3>3. QED
      BY <1>1, <2>3, <3>1, <3>2
  <2>6. QED
    BY <1>1, <2>2, <2>4, <2>5 DEF PassesBy
<1>3. UNCHANGED database
  BY <1>1
<1>4. QED
  BY <1>2, <1>3, PageKept

\* The world, the hub's read of the members, and handlers that look or submit.
LEMMA PageWorld ==
  ASSUME ChatInv, MemberInv, NEW c \in Viewer, PageOK(c),
         \/ GetChannelMembers
         \/ \E u \in User : AddMember(u) \/ SendChannelKey(u)
         \/ \E d \in Viewer : Register(d) \/ Disconnect(d)
         \/ \E d \in Device : \/ Enqueue(d)
                              \/ \E m \in Message, op \in {"edit", "delete"} : GetMessage(d, m, op)
         \/ UNCHANGED chatVars
  PROVE  PageOK(c)'
<1>1. CASE GetChannelMembers
  <2>1. UNCHANGED <<world, keys, database, buffer, client>>
    BY <1>1 DEF GetChannelMembers
  <2>2. Keyed(c)' => Keyed(c)
    BY <2>1, SameKeyed DEF world, keys
  <2>3. Keyed(c) => SameTo(c)
    BY <1>1, <2>1, MembersComing DEF Keyed, SameTo, keys, client
  <2>4. ASSUME Keyed(c)' PROVE Keyed(c) /\ PassesBy(c)
    BY <2>2, <2>3, <2>4 DEF PassesBy, SameTo, Come
  <2>5. UNCHANGED database
    BY <2>1
  <2>6. QED
    BY <2>4, <2>5, PageKept
<1>2. CASE /\ UNCHANGED <<doing, hub, buffer, client, hasKey, database>>
           /\ (\E u \in User : AddMember(u)) \/ (\E d \in Viewer : Register(d)) \/ UNCHANGED chatVars
  <2>1. SameTo(c)
    BY <1>2, SameComing DEF SameTo, client
  <2>2. ASSUME Keyed(c)' => Keyed(c) PROVE PageOK(c)'
    BY <1>2, <2>1, <2>2, PageSame
  <2>3. ASSUME NEW u \in User, AddMember(u) PROVE Keyed(c)' => Keyed(c)
    BY <2>3 DEF AddMember, Keyed, Keyless
  <2>4. ASSUME NEW d \in Viewer, Register(d) PROVE Keyed(c)' => Keyed(c)
    BY <2>4 DEF Register, Keyed, Keyless
  <2>5. CASE UNCHANGED chatVars
    BY <2>2, <2>5, SameKeyed DEF chatVars, world, keys
  <2>6. ASSUME NEW u \in User, AddMember(u) PROVE PageOK(c)'
    BY <2>2, <2>3, <2>6
  <2>7. ASSUME NEW d \in Viewer, Register(d) PROVE PageOK(c)'
    BY <2>2, <2>4, <2>7
  <2>8. QED
    BY <1>2, <2>5, <2>6, <2>7
<1>3. ASSUME NEW u \in User, SendChannelKey(u) PROVE PageOK(c)'
  <2>1. /\ granting' = granting \ {u} /\ UNCHANGED <<world, keyDue, hasKey, database, doing, hub, client>>
        /\ unkeyed' = unkeyed \cup {d \in connected : OwnerOf[d] = u /\ ~HasRoom(d)}
    BY <1>3 DEF SendChannelKey
  <2>2. /\ Buffered(c)' = Buffered(c) /\ Coming(c)' = Coming(c)
        /\ \/ buffer'[c] = buffer[c] /\ ~(c \in connected /\ OwnerOf[c] = u /\ HasRoom(c))
           \/ buffer'[c] = Append(buffer[c], Key) /\ c \in connected /\ OwnerOf[c] = u
    BY <1>3, SentKeyComing
  <2>3. SameTo(c)
    BY <2>1, <2>2 DEF SameTo, client
  <2>4. ASSUME Keyed(c)' PROVE Keyed(c)
    <3>1. c \in connected /\ c \notin unkeyed'
      BY <2>1, <2>4 DEF Keyed, world
    <3>2. CASE buffer'[c] = Append(buffer[c], Key)
      <4>1. buffer[c] \in Seq(Envelope \cup {Key})
        BY DEF ChatInv, ChatTypeOK
      <4>2. Len(buffer[c]) + 1 \in DOMAIN buffer'[c] /\ buffer'[c][Len(buffer[c]) + 1] = Key
        BY <3>2, <4>1
      <4>3. QED
        BY <2>4, <4>2 DEF Keyed, Keyless
    <3>3. CASE buffer'[c] = buffer[c] /\ ~(c \in connected /\ OwnerOf[c] = u /\ HasRoom(c))
      <4>1. OwnerOf[c] # u
        BY <2>1, <3>1, <3>3
      <4>2. QED
        BY <2>1, <2>4, <3>3, <4>1, SameKeyed DEF world
    <3>4. QED
      BY <2>2, <3>2, <3>3
  <2>5. QED
    BY <2>1, <2>3, <2>4, PageSame
<1>4. ASSUME NEW d \in Viewer, Disconnect(d) PROVE PageOK(c)'
  <2>1. /\ connected' = connected \ {d} /\ keyDue' = keyDue \ {d} /\ (c # d => buffer'[c] = buffer[c])
        /\ UNCHANGED <<member, granting, hasKey, unkeyed, database, doing, hub, client>>
    BY <1>4 DEF Disconnect
  <2>2. CASE c = d
    BY <2>1, <2>2 DEF PageOK, Keyed
  <2>3. CASE c # d
    <3>1. SameTo(c)
      BY <2>1, <2>3, SameComing DEF SameTo, client
    <3>2. Keyed(c)' => Keyed(c)
      BY <2>1, <2>3, SameKeyed
    <3>3. QED
      BY <2>1, <3>1, <3>2, PageSame
  <2>4. QED
    BY <2>2, <2>3
<1>5. ASSUME NEW d \in Device,
             Enqueue(d) \/ \E m \in Message, op \in {"edit", "delete"} : GetMessage(d, m, op)
      PROVE  PageOK(c)'
  <2>1. SameTo(c) /\ buffer'[c] = buffer[c] /\ UNCHANGED <<world, keys, database>>
    BY <1>5, LookComing
  <2>2. Keyed(c)' => Keyed(c)
    BY <2>1, SameKeyed DEF world, keys
  <2>3. QED
    BY <2>1, <2>2, PageSame
<1>6. ASSUME NEW u \in User, AddMember(u) PROVE PageOK(c)'
  BY <1>2, <1>6 DEF AddMember
<1>7. ASSUME NEW d \in Viewer, Register(d) PROVE PageOK(c)'
  BY <1>2, <1>7 DEF Register
<1>8. CASE UNCHANGED chatVars
  BY <1>2, <1>8 DEF chatVars, keys
<1>9. QED
  BY <1>1, <1>3, <1>4, <1>5, <1>6, <1>7, <1>8
\* A frame is read: a deletion is applied, a message or an edit goes into decryption.
LEMMA PageReceived ==
  ASSUME ChatInv, LastInv, NEW d \in Viewer, Receive(d), PageOK(d)
  PROVE  PageOK(d)'
<1>0. ChatTypeOK /\ UNCHANGED <<world, keys, database, doing, hub, reply>> /\ buffer[d] # <<>> /\ Head(buffer[d]) # Key
  BY DEF ChatInv, Receive
<1>1. PICK e : e = Head(buffer[d])
  OBVIOUS
<1>2. /\ e \in Envelope /\ Made(e) /\ e \in Buffered(d)
      /\ Buffered(d) = Buffered(d)' \cup {e} /\ Coming(d) = Coming(d)' \cup {e}
      /\ overtaken[d] \subseteq overtaken'[d]
  BY <1>1, ReceiveComing
<1>3. /\ e.msg \in Message /\ (e.kind # "delete" => e.version \in 1 .. MaxVersion) /\ e.kind \in {"message", "update", "delete"}
      /\ Rank(e) \in 1 .. MaxVersion + 1
  BY <1>2, EnvelopeFacts
<1>4. Keyed(d)' => Keyed(d)
  <2>1. buffer' = [buffer EXCEPT ![d] = Tail(@)] /\ buffer \in [Viewer -> Seq(Envelope \cup {Key})]
    BY <1>0 DEF Receive, ChatTypeOK
  <2>2. buffer'[d] = Tail(buffer[d]) /\ buffer[d] \in Seq(Envelope \cup {Key})
    BY <2>1
  <2>3. ASSUME NEW i \in DOMAIN buffer[d], buffer[d][i] = Key PROVE \E j \in DOMAIN buffer'[d] : buffer'[d][j] = Key
    <3>1. i # 1
      BY <1>0, <2>2, <2>3
    <3>2. i - 1 \in DOMAIN buffer'[d] /\ buffer'[d][i - 1] = buffer[d][i]
      BY <1>0, <2>2, <3>1
    <3>3. QED
      BY <2>3, <3>2
  <2>4. Keyless(d)' => Keyless(d)
    BY <2>3 DEF Keyless
  <2>5. QED
    BY <1>0, <2>4 DEF Keyed, world, keys
<1> SUFFICES ASSUME Keyed(d)', Keyed(d)
             PROVE  /\ d \in hasKey'
                    /\ Answered(d)' => \A m \in Message \ Behind(d)' : LeadsOn(d, m, reply[d][m])'
                    /\ (reply[d] = NoReply)' =>
                         \A m \in Message \ (crossed \cup overtaken[d])' : LeadsOn(d, m, page[d][m])'
  BY <1>4 DEF PageOK
<1>5. d \in hasKey /\ d \in hasKey' /\ (Answered(d)' <=> Answered(d)) /\ reply' = reply
      /\ crossed' = crossed /\ stored' = stored /\ written' = written
  BY <1>0 DEF PageOK, keys, database, Answered
<1>6. e.kind # "message" /\ e.msg \in BeingOpened(d) => e.msg \in overtaken'[d]
  BY <1>0, <1>1 DEF Receive, ChatTypeOK
<1>7. CASE e.kind = "delete"
  <2>1. opening' = opening /\ page' = [page EXCEPT ![d][e.msg] = 0] /\ since' = [since EXCEPT ![d] = Missed(d, {e.msg})]
    BY <1>1, <1>7 DEF Receive, Touch
  <2>2. /\ page'[d][e.msg] = 0 /\ \A m \in Message : m # e.msg => page'[d][m] = page[d][m]
        /\ since[d] \subseteq since'[d] /\ (Answered(d) => e.msg \in since'[d])
        /\ BeingOpened(d)' = BeingOpened(d) /\ \A m : Opened(d, m)' = Opened(d, m)
    BY <1>0, <1>3, <2>1 DEF ChatTypeOK, Missed, BeingOpened, Opened
  <2>3. \A m \in Message : m # e.msg => Come(d, m)' = Come(d, m)
    BY <1>2 DEF Come
  <2>4. ASSUME Answered(d)', NEW m \in Message \ Behind(d)' PROVE LeadsOn(d, m, reply[d][m])'
    <3>1. m # e.msg /\ m \notin Behind(d)
      BY <1>2, <1>5, <2>2, <2>4 DEF Behind
    <3>2. LeadsOn(d, m, reply[d][m])
      BY <1>5, <2>4, <3>1 DEF PageOK
    <3>3. QED
      BY <1>5, <2>2, <2>3, <3>1, <3>2 DEF LeadsOn
  <2>5. ASSUME (reply[d] = NoReply)', NEW m \in Message \ (crossed \cup overtaken[d])' PROVE LeadsOn(d, m, page[d][m])'
    <3>1. m \notin crossed /\ m \notin overtaken[d] /\ reply[d] = NoReply
      BY <1>2, <1>5, <2>5
    <3>2. CASE m # e.msg
      <4>1. LeadsOn(d, m, page[d][m])
        BY <3>1 DEF PageOK
      <4>2. QED
        BY <1>5, <2>2, <2>3, <3>2, <4>1 DEF LeadsOn
    <3>3. CASE m = e.msg
      <4>1. m \notin BeingOpened(d)
        BY <1>6, <1>7, <2>5, <3>3
      <4>2. Opened(d, m) = {}
        BY <4>1 DEF Opened, BeingOpened
      <4>3. stored[m] = 0 /\ written[m] \in 0 .. MaxVersion
        BY <1>0, <1>2, <1>3, <1>7, <3>1, <3>3 DEF Made, ChatTypeOK, History, Version
      <4>4. \A g \in Come(d, m)' : g.kind = "update" => ~Last(g, stored[m], written[m])
        <5>1. ASSUME NEW g \in Come(d, m)', g.kind = "update" PROVE ~Last(g, stored[m], written[m])
          <6>1. g \in Envelope
            BY <1>2, <5>1, ComingFacts DEF Come
          <6>2. g.version \in 1 .. MaxVersion
            BY <5>1, <6>1, EnvelopeFacts
          <6>3. QED
            BY <4>3, <5>1, <6>2 DEF Last, Rank
        <5>2. QED
          BY <5>1
      <4>5. Leads(0, Come(d, m)', {}, stored[m], written[m])
        BY <4>3, <4>4 DEF Leads
      <4>6. QED
        BY <1>5, <2>2, <3>3, <4>2, <4>5 DEF LeadsOn
    <3>4. QED
      BY <3>2, <3>3
  <2>6. QED
    BY <1>5, <2>4, <2>5
<1>8. CASE e.kind # "delete"
  <2>1. opening' = [opening EXCEPT ![d] = @ \cup {e}] /\ UNCHANGED <<page, since>>
    BY <1>1, <1>5, <1>8 DEF Receive, Decrypted
  <2>2. opening'[d] = opening[d] \cup {e}
    BY <1>0, <2>1 DEF ChatTypeOK
  <2>3. /\ BeingOpened(d)' = BeingOpened(d) \cup {e.msg}
        /\ \A m : m # e.msg => Opened(d, m)' = Opened(d, m)
        /\ Opened(d, e.msg)' = Opened(d, e.msg) \cup {e}
    <3>1. BeingOpened(d)' = BeingOpened(d) \cup {e.msg}
      BY <2>2 DEF BeingOpened
    <3>2. QED
      BY <2>2, <3>1 DEF Opened
  <2>4. \A m : m # e.msg => Come(d, m)' = Come(d, m)
    BY <1>2 DEF Come
  <2>5. Come(d, e.msg) = Come(d, e.msg)' \cup {e}
    BY <1>2 DEF Come
  <2>6. ASSUME Answered(d)', NEW m \in Message \ Behind(d)' PROVE LeadsOn(d, m, reply[d][m])'
    <3>1. m # e.msg /\ m \notin Behind(d)
      BY <1>2, <1>5, <2>1, <2>3, <2>6 DEF Behind
    <3>2. LeadsOn(d, m, reply[d][m])
      BY <1>5, <2>6, <3>1 DEF PageOK
    <3>3. QED
      BY <1>5, <2>3, <2>4, <3>1, <3>2 DEF LeadsOn
  <2>7. ASSUME (reply[d] = NoReply)', NEW m \in Message \ (crossed \cup overtaken[d])' PROVE LeadsOn(d, m, page[d][m])'
    <3>1. m \notin crossed /\ m \notin overtaken[d] /\ reply[d] = NoReply
      BY <1>2, <1>5, <2>7
    <3>2. LeadsOn(d, m, page[d][m])
      BY <3>1 DEF PageOK
    <3>3. CASE m # e.msg
      BY <1>5, <2>1, <2>3, <2>4, <3>2, <3>3 DEF LeadsOn
    <3>4. CASE m = e.msg
      <4>1. Leads(page[d][m], Come(d, m), Opened(d, m), stored[m], written[m])
        BY <3>2 DEF LeadsOn
      <4>2. Opened(d, m) = {}
        <5>1. CASE e.kind = "update"
          BY <1>6, <2>7, <3>4, <5>1 DEF BeingOpened, Opened
        <5>2. ASSUME e.kind = "message", NEW g \in Opened(d, m) PROVE FALSE
          <6>1. g \in Readable(d) /\ g.msg = m
            BY <4>1, <5>2 DEF Leads, Opened, Readable
          <6>2. Precedes(g, e) /\ g \in Envelope /\ g \in Frame
            BY <1>0, <1>2, <6>1, ComingFacts DEF ChatInv, OrderInv, ChatTypeOK, Readable
          <6>3. Rank(g) < Rank(e)
            BY <3>1, <3>4, <5>2, <6>1, <6>2 DEF Precedes
          <6>4. Rank(e) = 1 /\ Rank(g) \in 1 .. MaxVersion + 1
            BY <1>2, <5>2, <6>2, EnvelopeFacts DEF Made, Rank
          <6>5. QED
            BY <6>3, <6>4
        <5>3. QED
          BY <1>3, <1>8, <5>1, <5>2
      <4>3. \E y \in Come(d, m) : Last(y, stored[m], written[m])
        <5>1. HasFinal(Coming(d), m)
          BY <1>2, <3>1, <3>4, LastComes
        <5>2. QED
          BY <5>1 DEF HasFinal, Come, Final
      <4>4. e.version # Unreadable
        BY <1>3, <1>8, NothingAssumption
      <4>5. PICK C, D : C = Come(d, m) /\ D = Come(d, m)'
        OBVIOUS
      <4>6. C = D \cup {e} /\ Leads(page[d][m], C, {}, stored[m], written[m]) /\ \E y \in C : Last(y, stored[m], written[m])
        BY <2>5, <3>4, <4>1, <4>2, <4>3, <4>5
      <4>7. Leads(page[d][m], D, {e}, stored[m], written[m])
        BY <4>4, <4>6, LeadsReceive
      <4>8. QED
        BY <1>5, <2>1, <2>3, <3>4, <4>2, <4>5, <4>7 DEF LeadsOn
    <3>5. QED
      BY <3>3, <3>4
  <2>8. QED
    BY <1>5, <2>6, <2>7
<1>9. QED
  BY <1>7, <1>8

\* What was decrypted is shown.
LEMMA PageOpened ==
  ASSUME ChatInv, NEW d \in Viewer, NEW e \in opening[d], AddOpened(d, e), PageOK(d)
  PROVE  PageOK(d)'
<1>0. ChatTypeOK /\ UNCHANGED <<world, keys, database, doing, hub, buffer, reply, overtaken>>
  BY DEF ChatInv, AddOpened
<1>1. e \in Frame /\ e.msg \in Message /\ e.kind \in {"message", "update"}
  BY <1>0 DEF ChatTypeOK, Frame
<1>2. PICK h : h = Shown(d, e)
  OBVIOUS
<1>3. /\ opening' = [opening EXCEPT ![d] = @ \ {e}] /\ page' = [page EXCEPT ![d][e.msg] = h]
      /\ since' = [since EXCEPT ![d] = Missed(d, {e.msg})]
  BY <1>2 DEF AddOpened, Touch
<1>4. /\ opening'[d] = opening[d] \ {e}
      /\ page'[d][e.msg] = h /\ \A m \in Message : m # e.msg => page'[d][m] = page[d][m]
      /\ since[d] \subseteq since'[d] /\ (Answered(d) => e.msg \in since'[d])
  BY <1>0, <1>1, <1>3 DEF ChatTypeOK, Missed
<1>5. /\ BeingOpened(d) \subseteq BeingOpened(d)' \cup {e.msg}
      /\ \A m : m # e.msg => Opened(d, m)' = Opened(d, m)
      /\ Opened(d, e.msg)' = Opened(d, e.msg) \ {e}
  BY <1>4 DEF BeingOpened, Opened
<1>6. Buffered(d)' = Buffered(d) /\ Coming(d)' = Coming(d) /\ \A m : Come(d, m)' = Come(d, m)
  <2>1. Buffered(d)' = Buffered(d) /\ Coming(d)' = Coming(d)
    BY <1>0, SameComing
  <2>2. QED
    BY <2>1 DEF Come
<1>7. Keyed(d)' => Keyed(d)
  BY <1>0, SameKeyed DEF world, keys
<1> SUFFICES ASSUME Keyed(d)', Keyed(d)
             PROVE  /\ d \in hasKey'
                    /\ Answered(d)' => \A m \in Message \ Behind(d)' : LeadsOn(d, m, reply[d][m])'
                    /\ (reply[d] = NoReply)' =>
                         \A m \in Message \ (crossed \cup overtaken[d])' : LeadsOn(d, m, page[d][m])'
  BY <1>7 DEF PageOK
<1>8. d \in hasKey /\ d \in hasKey' /\ (Answered(d)' <=> Answered(d)) /\ reply' = reply /\ overtaken' = overtaken
      /\ crossed' = crossed /\ stored' = stored /\ written' = written
  BY <1>0 DEF PageOK, keys, database, Answered
<1>9. ASSUME Answered(d)', NEW m \in Message \ Behind(d)' PROVE LeadsOn(d, m, reply[d][m])'
  <2>1. m # e.msg /\ m \notin Behind(d)
    BY <1>4, <1>5, <1>6, <1>8, <1>9 DEF Behind
  <2>2. LeadsOn(d, m, reply[d][m])
    BY <1>8, <1>9, <2>1 DEF PageOK
  <2>3. QED
    BY <1>5, <1>6, <1>8, <2>1, <2>2 DEF LeadsOn
<1>10. ASSUME (reply[d] = NoReply)', NEW m \in Message \ (crossed \cup overtaken[d])' PROVE LeadsOn(d, m, page[d][m])'
  <2>1. m \notin crossed /\ m \notin overtaken[d] /\ reply[d] = NoReply
    BY <1>8, <1>10
  <2>2. LeadsOn(d, m, page[d][m])
    BY <2>1 DEF PageOK
  <2>3. CASE m # e.msg
    BY <1>4, <1>5, <1>6, <1>8, <2>2, <2>3 DEF LeadsOn
  <2>4. CASE m = e.msg
    <3>1. PICK v, C, O, s, w : /\ v = page[d][m] /\ C = Come(d, m) /\ O = Opened(d, m) /\ s = stored[m] /\ w = written[m]
      OBVIOUS
    <3>2. Leads(v, C, O, s, w) /\ e \in O
      BY <2>2, <2>4, <3>1 DEF LeadsOn, Opened
    <3>3. e.version # Unreadable /\ O = {e}
      BY <3>2 DEF Leads
    <3>4. Made(e) /\ w \in Nat /\ w <= MaxVersion /\ s \in {0, w}
      <4>1. e \in Readable(d)
        BY <3>3 DEF Readable
      <4>2. written[m] \in 0 .. MaxVersion /\ stored[m] \in {0, written[m]}
        BY <1>0 DEF ChatTypeOK, ChatInv, CountInv, History, Version
      <4>3. QED
        BY <3>1, <4>1, <4>2, ComingFacts
    <3>5. e.version \in 1 .. w /\ (e.kind = "message" => e.version = 1)
      BY <1>1, <2>4, <3>1, <3>3, <3>4 DEF Made, Frame, Version
    <3>6. h = IF (e.kind = "message") = (v = 0) THEN e.version ELSE v
      BY <1>2, <2>4, <3>1 DEF Shown
    <3>7. Leads(h, C, {}, s, w)
      BY <1>1, <3>2, <3>4, <3>5, <3>6, LeadsShown
    <3>8. Opened(d, m)' = {}
      BY <1>5, <2>4, <3>1, <3>3
    <3>9. QED
      BY <1>4, <1>6, <1>8, <2>4, <3>1, <3>7, <3>8 DEF LeadsOn
  <2>5. QED
    BY <2>3, <2>4
<1>11. QED
  BY <1>8, <1>9, <1>10
\* A key makes the client ask for the history again.
LEMMA PageAsked ==
  ASSUME ChatTypeOK, NEW d \in Viewer, ReceiveKey(d)
  PROVE  PageOK(d)'
<1>1. d \in hasKey' /\ reply'[d] = Asked
  BY DEF ReceiveKey, Invalidated, ChatTypeOK
<1>2. ~Answered(d)' /\ (reply[d] # NoReply)'
  BY <1>1, ReplyAssumption DEF Answered
<1>3. QED
  BY <1>1, <1>2 DEF PageOK

\* The history leads to what is stored when it is read.
LEMMA PageListed ==
  ASSUME ChatInv, NEW d \in Viewer, ListMessages(d), PageOK(d)
  PROVE  PageOK(d)'
<1>0. /\ ChatTypeOK /\ reply' = [reply EXCEPT ![d] = stored]
      /\ UNCHANGED <<world, keys, database, doing, hub, buffer, page, opening, since, overtaken>>
  BY DEF ChatInv, ListMessages
<1>1. reply'[d] = stored /\ stored \in History
  BY <1>0 DEF ChatTypeOK
<1>2. (reply[d] # NoReply)'
  BY <1>1, ReplyAssumption DEF History, Version
<1>3. Keyed(d)' => Keyed(d)
  BY <1>0, SameKeyed DEF world, keys
<1>4. /\ (\A m : Come(d, m)' = Come(d, m) /\ Opened(d, m)' = Opened(d, m)) /\ BeingOpened(d)' = BeingOpened(d)
      /\ hasKey' = hasKey /\ crossed' = crossed /\ stored' = stored /\ written' = written
  BY <1>0, SameComing DEF keys, database, Come, Opened, BeingOpened
<1>5. ASSUME NEW m \in Message \ Behind(d)' PROVE LeadsOn(d, m, reply[d][m])'
  <2>1. Opened(d, m) = {}
    BY <1>4, <1>5 DEF Behind, BeingOpened, Opened
  <2>2. stored[m] \in 0 .. written[m] /\ written[m] \in 0 .. MaxVersion
    <3>1. written[m] \in 0 .. MaxVersion
      BY <1>0 DEF ChatTypeOK, History, Version
    <3>2. stored[m] \in {0, written[m]}
      BY DEF ChatInv, CountInv
    <3>3. QED
      BY <3>1, <3>2
  <2>3. ASSUME NEW g \in Come(d, m), g.kind = "update", Last(g, stored[m], written[m]) PROVE stored[m] # 0
    <3>1. g \in Envelope
      BY ComingFacts DEF Come
    <3>2. g.version \in 1 .. MaxVersion
      BY <2>3, <3>1, EnvelopeFacts
    <3>3. QED
      BY <2>3, <3>2 DEF Last, Rank
  <2>4. Leads(stored[m], Come(d, m), {}, stored[m], written[m])
    BY <2>2, <2>3 DEF Leads
  <2>5. QED
    BY <1>1, <1>4, <2>1, <2>4 DEF LeadsOn
<1>6. QED
  BY <1>2, <1>3, <1>4, <1>5 DEF PageOK

\* The history is shown, and with it what it leads to.
LEMMA PageShown ==
  ASSUME ChatInv, NEW d \in Viewer, ShowHistory(d), PageOK(d)
  PROVE  PageOK(d)'
<1>1. /\ Answered(d) /\ overtaken'[d] = since[d] \cup BeingOpened(d) \cup (overtaken[d] \cap {e.msg : e \in Buffered(d)})
      /\ reply'[d] = NoReply
      /\ d \in hasKey => \A m \in Message : page'[d][m] = reply[d][m]
      /\ UNCHANGED <<world, keys, database, doing, hub, buffer, opening>>
  BY HistoryShown
<1>2. Keyed(d)' => Keyed(d)
  BY <1>1, SameKeyed DEF world, keys
<1>3. /\ \A m : Come(d, m)' = Come(d, m) /\ Opened(d, m)' = Opened(d, m)
      /\ hasKey' = hasKey /\ crossed' = crossed /\ stored' = stored /\ written' = written
  BY <1>1, SameComing DEF keys, database, Come, Opened
<1>4. ~Answered(d)'
  BY <1>1 DEF Answered
<1>5. ASSUME Keyed(d), NEW m \in Message \ (crossed \cup overtaken[d])' PROVE LeadsOn(d, m, page[d][m])'
  <2>1. m \notin Behind(d) /\ d \in hasKey
    BY <1>1, <1>3, <1>5 DEF Behind, PageOK
  <2>2. LeadsOn(d, m, reply[d][m])
    BY <1>1, <1>5, <2>1 DEF PageOK
  <2>3. QED
    BY <1>1, <1>3, <2>1, <2>2 DEF LeadsOn
<1>6. Keyed(d) => d \in hasKey
  BY DEF PageOK
<1>7. QED
  BY <1>2, <1>3, <1>4, <1>5, <1>6 DEF PageOK

LEMMA PageClient ==
  ASSUME ChatInv, LastInv, NEW d \in Viewer, Show(d), NEW c \in Viewer, PageOK(c)
  PROVE  PageOK(c)'
<1>0. ChatTypeOK
  BY DEF ChatInv
<1>1. CASE c # d
  <2>1. UNCHANGED <<world, granting, database>>
    BY DEF Show, Receive, WriteChannelKeys, ReceiveGrantedKey, ReceiveKey, AddOpened, Focus, ListMessages,
       ListRefused, ShowHistory, keys
  <2>2. SameTo(c) /\ buffer'[c] = buffer[c] /\ (c \in keyDue' <=> c \in keyDue) /\ (c \in unkeyed' <=> c \in unkeyed)
    BY <1>1, ShowElsewhere
  <2>3. Keyed(c)' => Keyed(c)
    BY <2>1, <2>2, SameKeyed DEF world
  <2>4. QED
    BY <2>1, <2>2, <2>3, PageSame
<1>2. CASE c = d
  <2>1. CASE WriteChannelKeys(d)
    <3>1. CASE OwnerOf[d] \in member
      <4>1. ReceiveKey(d)
        BY <2>1, <3>1 DEF WriteChannelKeys
      <4>2. QED
        BY <1>0, <1>2, <4>1, PageAsked
    <3>2. CASE OwnerOf[d] \notin member
      <4>1. UNCHANGED world
        BY <2>1, <3>2 DEF WriteChannelKeys
      <4>2. QED
        BY <1>2, <3>2, <4>1 DEF PageOK, Keyed, world
    <3>3. QED
      BY <3>1, <3>2
  <2>2. CASE ReceiveGrantedKey(d)
    <3>1. ReceiveKey(d)
      BY <2>2 DEF ReceiveGrantedKey
    <3>2. QED
      BY <1>0, <1>2, <3>1, PageAsked
  <2>3. CASE Focus(d)
    <3>1. reply'[d] = Asked /\ UNCHANGED <<world, keys, buffer>>
      BY <1>0, <2>3 DEF Focus, ChatTypeOK
    <3>2. ~Answered(d)' /\ (reply[d] # NoReply)' /\ hasKey' = hasKey
      BY <3>1, ReplyAssumption DEF Answered, keys
    <3>3. Keyed(d)' => Keyed(d)
      BY <3>1, SameKeyed DEF world, keys
    <3>4. QED
      BY <1>2, <3>2, <3>3 DEF PageOK
  <2>4. CASE ListRefused(d)
    BY <1>2, <2>4 DEF ListRefused, PageOK, Keyed, world
  <2>5. QED
    BY <1>2, <2>1, <2>2, <2>3, <2>4, PageReceived, PageOpened, PageListed, PageShown DEF Show
<1>3. QED
  BY <1>1, <1>2

LEMMA FlowInit == ChatInit => FlowInv
<1> SUFFICES ASSUME ChatInit PROVE FlowInv
  OBVIOUS
<1>1. ChatInv
  BY ChatInvInit
<1>2. MemberInv
  BY DEF ChatInit, MemberInv
<1>3. LastInv
  <2>1. Fanned = {} /\ Queued = {} /\ Submitted = {} /\ \A d \in Viewer : Buffered(d) = {}
    BY DEF ChatInit, Fanned, Queued, Submitted, Submitters, Does, Buffered
  <2>2. QED
    BY <2>1 DEF LastInv, InHub
<1>4. PageInv
  BY DEF ChatInit, PageInv, PageOK, Keyed
<1>5. QED
  BY <1>1, <1>2, <1>3, <1>4 DEF FlowInv

LEMMA FlowStep == FlowInv /\ [ChatNext]_chatVars => FlowInv'
<1> SUFFICES ASSUME FlowInv, [ChatNext]_chatVars PROVE FlowInv'
  OBVIOUS
<1>1. ChatInv /\ MemberInv /\ LastInv /\ PageInv
  BY DEF FlowInv
<1>2. ChatInv'
  BY <1>1, ChatInvStep
<1>3. MemberInv' /\ LastInv'
  BY <1>1, MemberStep, LastStep
<1>4. ASSUME NEW c \in Viewer PROVE PageOK(c)'
  <2>1. PageOK(c)
    BY <1>1 DEF PageInv
  <2>2. ASSUME NEW d \in Device,
               (\E m \in Message : HandleChatMessage(d, m)) \/ UpdateMessage(d) \/ DeleteMessage(d)
        PROVE  PageOK(c)'
    BY <1>1, <2>1, <2>2, HandlerChanges, PageChanged
  <2>3. ASSUME NEW d \in Viewer, Show(d) PROVE PageOK(c)'
    BY <1>1, <2>1, <2>3, PageClient
  <2>4. CASE Dispatch
    BY <1>1, <2>1, <2>4, PageDispatched
  <2>5. CASE \/ GetChannelMembers
             \/ \E u \in User : AddMember(u) \/ SendChannelKey(u)
             \/ \E d \in Viewer : Register(d) \/ Disconnect(d)
             \/ \E d \in Device : \/ Enqueue(d)
                                  \/ \E m \in Message, op \in {"edit", "delete"} : GetMessage(d, m, op)
             \/ UNCHANGED chatVars
    BY <1>1, <2>1, <2>5, PageWorld
  <2>6. QED
    BY <2>2, <2>3, <2>4, <2>5, ChatSplit
<1>5. QED
  BY <1>2, <1>3, <1>4 DEF FlowInv, PageInv

\* A settled member's client has the key and shows what is stored, but for the named
\* causes: what it shows, decrypts and is still to receive leads there at any moment, from
\* the history it shows or the one it waits for, whatever connections come and go.
THEOREM PagesCorrect == ChatSpec => []SettledPagesAreTrue
<1>1. FlowInv => SettledPagesAreTrue
  <2> SUFFICES ASSUME FlowInv, NEW d \in Viewer, Settled(d), OwnerOf[d] \in member, d \notin unkeyed
               PROVE  d \in hasKey /\ \A m \in Message \ (crossed \cup overtaken[d]) : page[d][m] = stored[m]
    BY DEF SettledPagesAreTrue
  <2>1. ChatInv /\ ChatTypeOK /\ PageOK(d)
    BY DEF FlowInv, ChatInv, PageInv
  <2>2. buffer[d] = <<>> /\ fan = {} /\ queue = <<>>
    <3>1. PICK t : t = IF fan = {} THEN <<>> ELSE <<(CHOOSE f \in fan : TRUE).env>>
      OBVIOUS
    <3>2. buffer[d] \o t \o queue = <<>>
      BY <3>1 DEF Settled, Stream
    <3>3. buffer[d] \in Seq(Envelope \cup {Key}) /\ queue \in Seq(Envelope)
      BY <2>1 DEF ChatTypeOK
    <3>4. CASE fan = {}
      <4>1. t = <<>>
        BY <3>1, <3>4
      <4>2. QED
        BY <3>2, <3>3, <3>4, <4>1
    <3>5. CASE fan # {}
      <4>1. PICK x : t = <<x>>
        BY <3>1, <3>5
      <4>2. Len(buffer[d] \o t \o queue) = Len(buffer[d]) + 1 + Len(queue)
        BY <3>3, <4>1
      <4>3. Len(<<>>) = 0 /\ Len(buffer[d]) \in Nat /\ Len(queue) \in Nat
        BY <3>3
      <4>4. Len(buffer[d] \o t \o queue) = 0
        BY <3>2, <4>3
      <4>5. QED
        BY <4>2, <4>3, <4>4
    <3>6. QED
      BY <3>4, <3>5
  <2>3. Coming(d) = {}
    <3>1. Submitted = {}
      BY DEF Settled, Submitted, Submitters
    <3>2. QED
      BY <2>2, <3>1 DEF Coming, ToCome, Buffered, FannedTo, Queued
  <2>4. \A m : Come(d, m) = {} /\ Opened(d, m) = {}
    BY <2>3 DEF Settled, Come, Opened
  <2>5. Keyed(d) /\ reply[d] = NoReply
    BY <2>2 DEF Settled, Keyed, Keyless
  <2>6. d \in hasKey
    BY <2>1, <2>5 DEF PageOK
  <2>7. ASSUME NEW m \in Message \ (crossed \cup overtaken[d]) PROVE page[d][m] = stored[m]
    <3>1. Leads(page[d][m], Come(d, m), Opened(d, m), stored[m], written[m])
      BY <2>1, <2>5, <2>7 DEF PageOK, LeadsOn
    <3>2. QED
      BY <2>4, <3>1 DEF Leads
  <2>8. QED
    BY <2>6, <2>7
<1>2. QED
  BY <1>1, FlowInit, FlowStep, PTL DEF ChatSpec
=============================================================================
