----------------------------- MODULE CallClient -----------------------------
(***************************************************************************)
(* Calls in one client: WebRTCManager.ts with the devices it captures and  *)
(* the connections it opens, voiceStore.ts which the screen shows, and the *)
(* ringing of ws.manager.ts and IncomingCallModal.tsx.                     *)
(*                                                                         *)
(* The manager waits for the user and the browser to hand out a device,    *)
(* and writes what it gets to whatever connection is current then. Each    *)
(* handler that waits is a record in flight. The subscribe connection is   *)
(* the subject of Negotiation; a connection here stands for the pair.      *)
(*                                                                         *)
(* The server is external: it answers every join, in order, and announces  *)
(* rosters of a channel at any time, as the user's other devices and the   *)
(* other member come and go.                                               *)
(***************************************************************************)
EXTENDS Integers, FiniteSets, Sequences

CONSTANTS Channel,     \* channels one can call in
          Direct,      \* those that are direct messages: their calls ring
          MaxJoins,    \* bound: joins sent
          Kind,        \* what is toggled beside the microphone: "camera", "screen"
          MaxTracks,   \* bound: tracks captured at once
          None

ASSUME ChannelAssumption == Direct \subseteq Channel /\ None \notin Channel
ASSUME KindAssumption == Kind \subseteq {"camera", "screen"}
ASSUME BoundAssumption == MaxJoins \in Nat /\ MaxTracks \in Nat

VARIABLES
  chan,      \* this.channelId
  connecting,\* isConnecting
  pc,        \* publishPC and subscribePC, by number, or 0
  open,      \* connections not closed
  mic,       \* the track in localAudioTrack, or 0
  held,      \* kind -> the track in localVideoTrack, localScreenTrack, or 0
  live,      \* captured tracks that were not stopped
  enabled,   \* audio tracks that carry sound
  vad,       \* vadInterval is set
  flight,    \* handlers that wait
  active,    \* activeChannelId of the voice store
  status,    \* callStatus
  muted,     \* isMuted
  on,        \* the kinds of which isVideoEnabled, isScreenSharing is set
  incoming,  \* the channel of incomingCall, or None
  handled,   \* handledCallChannels, of those that ring
  roster,    \* direct channel -> whom the last roster had: nobody, the other member
             \* ("caller"), or only this user, on another device
  loaded,    \* the channel list was loaded
  gone,      \* channels deleted
  inbox,     \* channels of the joins the server has yet to answer, in order
  joins, pcs,\* how many so far
  toldOn,    \* the last state of the microphone sent to the others
  stray,     \* live tracks that were granted after their call, or whose field was then
             \* given another track (history)
  replaced,  \* connections that another took the place of (history)
  stale,     \* the first offer of a call waited while isMuted changed or the call was
             \* left (history)
  silenced,  \* direct channels whose ring another one took the place of, or ended with
             \* another call (history)
  answered,  \* those where the user answered, declined or left a call, or was refused
             \* one, and no roster has told of the end since (history)
  missed     \* those where the last call ended while it rang (history)

manager == <<chan, connecting, pc, open, vad>>
tracks  == <<mic, held, live, enabled>>
store   == <<active, status, muted, on>>
calls   == <<answered, missed>>
ring    == <<incoming, handled, roster, loaded, gone, silenced, calls>>
bounds  == <<joins, pcs>>
history == <<stray, replaced, stale>>
vars == <<manager, tracks, flight, store, ring, inbox, bounds, toldOn, history>>

Track == 1 .. MaxTracks
Conn  == 1 .. MaxJoins
Users == {"nobody", "caller", "me"}

\* A handler waits for the microphone, with isMuted as it was when the call began;
\* for the first offer of the call; for a camera or the screen.
Waiting == [op : {"mic"}, muted : BOOLEAN, of : Conn]
             \cup [op : {"offer"}, muted : BOOLEAN]
             \cup [op : Kind, of : Conn, again : BOOLEAN]

TypeOK ==
  /\ chan \in Channel \cup {None}
  /\ connecting = (chan # None)
  /\ open \subseteq Conn /\ pc \in open \cup {0}
  /\ mic \in live \cup {0} /\ held \in [Kind -> live \cup {0}]
  /\ live \subseteq Track /\ enabled \subseteq live
  /\ vad \in BOOLEAN
  /\ flight \subseteq Waiting
  /\ active \in Channel \cup {None}
  /\ status \in {"idle", "connecting", "connected"}
  /\ {muted, toldOn, stale, loaded} \subseteq BOOLEAN
  /\ on \subseteq Kind
  /\ incoming \in Direct \cup {None}
  /\ handled \subseteq Direct
  /\ roster \in [Direct -> Users]
  /\ gone \subseteq Channel
  /\ silenced \subseteq Direct /\ answered \subseteq Direct /\ missed \subseteq Direct
  /\ inbox \in Seq(Channel)
  /\ joins \in 0 .. MaxJoins /\ pcs \in 0 .. MaxJoins
  /\ stray \subseteq live /\ replaced \subseteq open

\* handledCallChannels outlives a reload, in the session storage.
Init ==
  /\ chan = None /\ connecting = FALSE /\ pc = 0 /\ open = {} /\ vad = FALSE
  /\ mic = 0 /\ held = [k \in Kind |-> 0] /\ live = {} /\ enabled = {}
  /\ flight = {}
  /\ active = None /\ status = "idle" /\ muted = FALSE /\ on = {}
  /\ incoming = None /\ handled \in SUBSET Direct /\ roster = [ch \in Direct |-> "nobody"]
  /\ loaded = FALSE /\ gone = {}
  /\ silenced = {} /\ answered = handled /\ missed = {}
  /\ inbox = <<>>
  /\ joins = 0 /\ pcs = 0
  /\ toldOn = FALSE
  /\ stray = {} /\ replaced = {} /\ stale = FALSE

-----------------------------------------------------------------------------
(* Joining and leaving *)

\* join. Once in a call isConnecting stays set until it is left: a join of another
\* channel is passed over, and the leave in join is never reached.
Join(ch) ==
  IF connecting \/ (chan = ch /\ pc # 0)
  THEN UNCHANGED <<manager, active, status, roster, inbox, joins>>
  ELSE /\ joins < MaxJoins /\ joins' = joins + 1
       /\ chan' = ch /\ connecting' = TRUE
       /\ active' = ch /\ status' = "connecting"
       /\ roster' = [c \in Direct |-> IF c = ch /\ roster[c] = "nobody" THEN "me" ELSE roster[c]]
       /\ inbox' = Append(inbox, ch)
       /\ UNCHANGED <<pc, open, vad>>

\* The call button of the top bar, in a channel that is not the active call.
StartVoice(ch) ==
  /\ ch \notin gone /\ active # ch /\ ~connecting
  /\ Join(ch)
  /\ UNCHANGED <<tracks, flight, muted, on, incoming, handled, loaded, gone, silenced, calls,
                 pcs, toldOn, history>>

\* Mutant: the screen is not stopped.
AllButScreen == live \ {mic}

\* stopLocalTracks
Stopped == live \ ({mic} \cup {held[k] : k \in Kind})

Released == [k \in Kind |-> 0]

\* leaveVoice of the store, while the given channels ring
LeaveVoice(ringing) ==
  /\ active' = None /\ status' = "idle" /\ on' = {}
  /\ handled' = handled \cup ({active} \cap Direct)
  /\ answered' = answered \cup ({active} \cap Direct)
  /\ roster' = [ch \in Direct |-> IF ch = active THEN "nobody" ELSE roster[ch]]
  /\ incoming' = None
  /\ silenced' = silenced \cup (ringing \ {None, active})
  /\ UNCHANGED <<muted, missed>>

Leave ==
  /\ chan # None
  /\ chan' = None /\ connecting' = FALSE
  /\ live' = Stopped /\ enabled' = enabled \cap live' /\ stray' = stray \cap live'
  /\ mic' = 0 /\ held' = Released
  /\ open' = open \ {pc} /\ pc' = 0
  /\ vad' = FALSE
  /\ LeaveVoice({incoming})
  /\ stale' = (stale \/ \E w \in flight : w.op = "offer")
  /\ UNCHANGED <<flight, loaded, gone, bounds, toldOn, replaced>>

\* The buttons are there while the store shows a call.
HangUp ==
  /\ active # None
  /\ Leave
  /\ UNCHANGED inbox

-----------------------------------------------------------------------------
(* Answers of the server *)

Receives == inbox # <<>> /\ inbox' = Tail(inbox)

\* Without listeners, or for another channel.
Ignore ==
  /\ Receives /\ Head(inbox) # chan
  /\ UNCHANGED <<manager, tracks, flight, store, ring, bounds, toldOn, history>>

\* Mutant: only the store leaves.
LeftOnScreen ==
  /\ Receives
  /\ LeaveVoice({incoming})
  /\ UNCHANGED <<manager, tracks, flight, loaded, gone, bounds, toldOn, history>>

\* call_error does not say of which channel: it ends whatever call there is.
HandleCallError ==
  /\ Receives
  /\ Leave

\* handleCallJoined up to the microphone. The answer to an earlier join of the same
\* channel is taken as well, and its connections are then replaced, not closed.
HandleCallJoined ==
  /\ Receives /\ Head(inbox) = chan
  /\ pcs' = pcs + 1
  /\ pc' = pcs' /\ open' = open \cup {pcs'}
  /\ replaced' = replaced \cup ({pc} \ {0})
  /\ flight' = flight \cup {[op |-> "mic", muted |-> muted, of |-> pcs']}
  /\ UNCHANGED <<chan, connecting, vad, tracks, store, ring, joins, toldOn, stray, stale>>

-----------------------------------------------------------------------------
(* Devices *)

Free == Track \ live

\* Track t is captured for w. What was in the field before is not stopped.
Capture(w, t, before) ==
  /\ t \in Free /\ \A u \in Free : t <= u
  /\ live' = live \cup {t}
  /\ stray' = stray \cup ({before} \ {0}) \cup (IF w.of = pc THEN {} ELSE {t})

\* The call began, as far as the store is concerned, whether or not it was left
\* meanwhile; the first offer is made.
Begun(w) ==
  /\ status' = "connected" /\ vad' = TRUE
  /\ stale' = (stale \/ w.of # pc)
  /\ flight' = (flight \ {w}) \cup {[op |-> "offer", muted |-> w.muted]}

Enabled(w, t) == IF w.muted THEN enabled ELSE enabled \cup {t}

\* The microphone. Without a connection addTrack throws, after localAudioTrack was set.
MicGranted(w) ==
  /\ w.op = "mic"
  /\ \E t \in Track :
       /\ Capture(w, t, mic)
       /\ mic' = t
       /\ enabled' = Enabled(w, t)
  /\ toldOn' = IF pc # 0 THEN ~w.muted ELSE toldOn
  /\ Begun(w)
  /\ UNCHANGED <<chan, connecting, pc, open, held, active, muted, on, ring, inbox, bounds,
                 replaced>>

MicDenied(w) ==
  /\ w.op = "mic"
  /\ Begun(w)
  /\ UNCHANGED <<chan, connecting, pc, open, tracks, active, muted, on, ring, inbox, bounds,
                 toldOn, stray, replaced>>

\* The end of handleCallJoined: isMuted is told as it was when the handler began.
OfferSent(w) ==
  /\ w.op = "offer"
  /\ flight' = flight \ {w}
  /\ toldOn' = ~w.muted
  /\ UNCHANGED <<manager, tracks, store, ring, inbox, bounds, history>>

\* Mutant: the others are not told.
KeepTold == toldOn

\* What toggleMute tells the others.
Told == muted

ToggleMute ==
  /\ active # None /\ mic # 0
  /\ muted' = ~muted
  /\ enabled' = IF muted THEN enabled \cup {mic} ELSE enabled \ {mic}
  /\ toldOn' = IF chan # None THEN Told ELSE toldOn
  /\ stale' = (stale \/ \E w \in flight : w.op = "offer")
  /\ UNCHANGED <<manager, mic, held, live, flight, active, status, on, ring, inbox, bounds,
                 stray, replaced>>

InCall == pc # 0 /\ chan # None

\* toggleVideo and toggleScreenShare when on. The screen has the browser's own button.
ToggleOff(k) ==
  /\ InCall /\ (active # None \/ k = "screen")
  /\ k \in on /\ on' = on \ {k}
  /\ live' = live \ {held[k]} /\ stray' = stray \ {held[k]}
  /\ held' = [held EXCEPT ![k] = 0]
  /\ UNCHANGED <<manager, mic, enabled, flight, active, status, muted, ring, inbox, bounds,
                 toldOn, replaced, stale>>

\* When off. A second click while the first one waits asks again (bound: twice).
Ask(k) ==
  /\ InCall /\ active # None
  /\ k \notin on
  /\ \E again \in BOOLEAN :
       LET w == [op |-> k, of |-> pc, again |-> again] IN
         /\ w \notin flight /\ again = ([w EXCEPT !.again = FALSE] \in flight)
         /\ flight' = flight \cup {w}
  /\ UNCHANGED <<manager, tracks, store, ring, inbox, bounds, toldOn, history>>

\* As with the microphone, the track is kept before addTrack may throw.
Granted(w) ==
  /\ w.op \in Kind
  /\ \E t \in Track :
       /\ Capture(w, t, held[w.op])
       /\ held' = [held EXCEPT ![w.op] = t]
  /\ on' = IF pc # 0 THEN on \cup {w.op} ELSE on
  /\ flight' = flight \ {w}
  /\ UNCHANGED <<manager, mic, enabled, active, status, muted, ring, inbox, bounds, toldOn,
                 replaced, stale>>

Denied(w) ==
  /\ w.op \in Kind
  /\ flight' = flight \ {w}
  /\ UNCHANGED <<manager, tracks, store, ring, inbox, bounds, toldOn, history>>

-----------------------------------------------------------------------------
(* Ringing *)

Listed == IF loaded THEN Channel \ gone ELSE {}

\* checkIncomingCall, with the given channels in the list
Rings(ch, users, listed) ==
  users = "caller" /\ ch \in listed /\ active # ch /\ ch \notin handled

Dismissed(ch) == IF incoming = ch THEN None ELSE incoming

Ended(ch, whileRinging, channels) ==
  IF whileRinging THEN channels \cup {ch} ELSE channels \ {ch}

\* Mutant: what is remembered of a call is kept when it ends.
KeepsHandled(ch) == handled

\* A call that ends while it rings is marked as handled, after the mark was reset.
ResetHandled(ch) == Ended(ch, incoming = ch, handled)

VoiceUpdate(ch, users) ==
  /\ roster' = [roster EXCEPT ![ch] = users]
  /\ IF users = "nobody"
     THEN /\ handled' = ResetHandled(ch)
          /\ incoming' = Dismissed(ch)
          /\ answered' = answered \ {ch} /\ missed' = Ended(ch, incoming = ch, missed)
     ELSE /\ incoming' = IF Rings(ch, users, Listed) THEN ch ELSE incoming
          /\ UNCHANGED <<handled, calls>>
  /\ silenced' = (silenced \cup {incoming}) \ {incoming', ch, None}
  /\ UNCHANGED <<manager, tracks, flight, store, loaded, gone, inbox, bounds, toldOn, history>>

Called(listed) == {ch \in Direct : Rings(ch, roster[ch], listed)}

\* The subscription to the channel list looks at every roster; the last one rings.
Ringing(listed) == IF Called(listed) = {} THEN {incoming} ELSE Called(listed)

RingAgain(listed) ==
  /\ incoming' \in Ringing(listed)
  /\ silenced' = IF incoming' \in Called(listed) THEN Called(listed) \ {incoming'} ELSE {}

\* The list was loaded or a channel in it changed.
ChannelsChanged ==
  /\ loaded' = TRUE
  /\ RingAgain(Channel \ gone)
  /\ UNCHANGED <<manager, tracks, flight, store, handled, roster, gone, calls, inbox, bounds,
                 toldOn, history>>

DismissIncomingCall ==
  /\ incoming # None
  /\ handled' = handled \cup {incoming}
  /\ answered' = answered \cup {incoming}
  /\ incoming' = None
  /\ UNCHANGED missed

Decline ==
  /\ DismissIncomingCall
  /\ UNCHANGED <<manager, tracks, flight, store, roster, loaded, gone, silenced, inbox, bounds,
                 toldOn, history>>

\* In another call the join is passed over; the ring is gone all the same.
Accept ==
  /\ DismissIncomingCall
  /\ Join(incoming)
  /\ UNCHANGED <<tracks, flight, muted, on, loaded, gone, silenced, pcs, toldOn, history>>

\* channel_delete: the store leaves the call, the manager does not (bound: one).
ChannelDelete(ch) ==
  /\ loaded /\ gone = {} /\ gone' = gone \cup {ch}
  /\ IF active = ch
     THEN LeaveVoice(Called(Listed \ {ch}) \cup {incoming})
     ELSE RingAgain(Listed \ {ch}) /\ UNCHANGED <<store, handled, roster, calls>>
  /\ UNCHANGED <<manager, tracks, flight, loaded, inbox, bounds, toldOn, history>>

-----------------------------------------------------------------------------
Next ==
  \/ \E ch \in Channel : StartVoice(ch) \/ ChannelDelete(ch)
  \/ HangUp \/ Ignore \/ HandleCallError \/ HandleCallJoined
  \/ \E w \in flight : MicGranted(w) \/ MicDenied(w) \/ OfferSent(w) \/ Granted(w) \/ Denied(w)
  \/ ToggleMute
  \/ \E k \in Kind : ToggleOff(k) \/ Ask(k)
  \/ \E ch \in Direct, users \in Users : VoiceUpdate(ch, users)
  \/ ChannelsChanged
  \/ Decline \/ Accept

Spec == Init /\ [][Next]_vars

-----------------------------------------------------------------------------
(* Properties *)

\* Whatever is captured or open can be stopped when the user hangs up: it is in the
\* hands of the manager, unless two handlers asked for the same or one outlived its
\* call. (Where a channel_delete took the call from the screen there is no button left
\* to hang up with: CallIsOnScreen names that.)
CapturesAreHeld ==
  /\ live \ stray \subseteq {mic} \cup {held[k] : k \in Kind}
  /\ open \ replaced \subseteq {pc}

\* While nothing went astray the screen says muted exactly when the microphone
\* carries no sound, and the others are told the same, through joins while muted,
\* refused devices and calls left early.
MuteIsHonest ==
  mic # 0 /\ pc # 0 /\ stray = {} /\ replaced = {} =>
    /\ (mic \in enabled) = ~muted
    /\ stale \/ toldOn = ~muted

\* The call the manager is in is the one the screen shows, where it can be left,
\* unless its channel was deleted.
CallIsOnScreen == chan \in gone \/ (active = chan /\ (chan = None => on = {}))

\* A call that the other member of a direct conversation makes rings until it is
\* answered, however the rosters and the channel list come in, unless another one rang
\* after it, the end of another call silenced it, or the call before it was missed:
\* that one is remembered as if it had been answered. What is remembered beyond that
\* is forgotten when the call ends, and no call rings with nobody in it.
RingsWhileCalled ==
  \A ch \in Direct :
    /\ /\ roster[ch] = "caller" /\ ch \in Listed /\ active # ch
       /\ ch \notin answered \cup missed \cup silenced
       => incoming = ch
    /\ ch \in handled => ch \in answered \cup missed
    /\ incoming = ch => roster[ch] # "nobody"
=============================================================================
