------------------------------ MODULE Channels ------------------------------
(***************************************************************************)
(* The list of channels of one client (channels.slice.ts, with what        *)
(* ws.manager.ts and the components do to it) beside the server it is      *)
(* asked from.                                                             *)
(*                                                                         *)
(* The list has two sources: the answers of refreshChannels, which replace *)
(* it, and the frames of the socket, which change a row. Requests and the  *)
(* socket are not ordered among each other, and a row is changed once more *)
(* when the preview of its last message is decrypted.                      *)
(*                                                                         *)
(* The n-th message of others in a channel is its number; messages of this *)
(* user change no badge and are left out, as are edits and deletions (see  *)
(* Chat), the settings of a channel, failed requests and logging out. The  *)
(* server answers a request from one state of its store.                   *)
(***************************************************************************)
EXTENDS Integers, FiniteSets, Sequences, SequencesExt

CONSTANTS Channel,
          MaxPosts,     \* bound: messages in a channel
          MaxRefreshes, \* bound: calls of refreshChannels
          MaxAsked,     \* bound: those under way at a time
          MaxEvents,    \* bound: joins, removals, deletions, lost connections
          MaxReceipts,  \* bound: read receipts on the way
          None

ASSUME NoneAssumption == None \notin Channel
ASSUME BoundAssumption ==
  {MaxPosts, MaxRefreshes, MaxAsked, MaxEvents, MaxReceipts} \subseteq Nat

VARIABLES
  standing,  \* channel -> what the user is in it, on the server
  hidden,    \* channels the user deleted for themselves, and nobody posted in since
  posts,     \* channel -> number of messages
  seen,      \* channel -> the messages up to LastReadAt of the user
  online,    \* the socket is registered with the hub
  frames,    \* frames to the client
  receipts,  \* read receipts to the server: their channels
  asked,     \* requests for the list that the server has not read
  answers,   \* and those it has answered
  newest,    \* refreshSeq
  timer,     \* refreshTimeout is set
  channels,  \* channel -> its row, or None
  active,    \* activeChannel, or None
  building,  \* previews being decrypted
  creating, joining, deleting, \* channels with such a request answered, not arrived
  events,    \* how many so far
  touched,   \* channels of which something moved beside the newest request (history)
  crossed,   \* channels whose row met an overlap since the last clean answer (history)
  shown,     \* channel -> the messages the user was shown (history)
  skipped,   \* channels with a receipt beside a message not shown yet (history)
  cutOff     \* channels joined anew or without a connection while they were open, or
             \* about to be marked as read (history)

server   == <<standing, hidden, posts, seen>>
network  == <<online, frames, receipts>>
requests == <<asked, answers, newest>>
ui       == <<channels, active, building, timer>>
waiting  == <<creating, joining, deleting>>
history  == <<touched, crossed, skipped, shown, cutOff>>
vars     == <<server, network, requests, ui, waiting, events, history>>

\* "none": the user has not been in the channel, if there is one. "gone": it is deleted.
Standing == {"none", "out", "member", "gone"}
\* A row: its badge and the message of its preview, 0 if it has none.
Row   == [unread : Nat, last : 0 .. MaxPosts]
Frame == [type : {"message", "channel_key", "channel_update", "channel_delete"},
          ch : Channel, n : 0 .. MaxPosts]

FrameOf(t, c) == [type |-> t, ch |-> c, n |-> 0]
Listed == {c \in Channel : channels[c] # None}

TypeOK ==
  /\ standing \in [Channel -> Standing] /\ hidden \subseteq Channel
  /\ posts \in [Channel -> 0 .. MaxPosts] /\ seen \in [Channel -> 0 .. MaxPosts]
  /\ \A c \in Channel : seen[c] <= posts[c] /\ shown[c] <= posts[c]
  /\ online \in BOOLEAN /\ (~online => frames = <<>> /\ receipts = <<>>)
  /\ frames \in Seq(Frame) /\ receipts \in Seq(Channel)
  /\ asked \subseteq [seq : 1 .. newest, join : Channel \cup {None}]
  /\ \A a \in answers : a.seq \in 1 .. newest /\ a.rows \in [Channel -> Row \cup {None}]
  /\ newest \in 1 .. MaxRefreshes
  /\ timer \in BOOLEAN
  /\ channels \in [Channel -> Row \cup {None}]
  /\ active \in Listed \cup {None}
  /\ building \subseteq [ch : Channel, n : 1 .. MaxPosts, counts : BOOLEAN, viewed : BOOLEAN]
  /\ creating \cup joining \cup DOMAIN deleting \subseteq Channel
  /\ touched \cup crossed \cup skipped \cup cutOff \subseteq Channel

Init ==
  /\ standing \in [Channel -> {"member", "none"}] /\ hidden = {}
  /\ posts = [c \in Channel |-> 0] /\ seen = [c \in Channel |-> 0]
  /\ online = FALSE /\ frames = <<>> /\ receipts = <<>>
  /\ asked = {[seq |-> 1, join |-> None]} /\ answers = {} /\ newest = 1
  /\ timer = FALSE /\ building = {}
  /\ channels = [c \in Channel |-> None] /\ active = None
  /\ creating = {} /\ joining = {} /\ deleting = <<>> /\ events = 0
  /\ touched = {} /\ crossed = {} /\ skipped = {} /\ cutOff = {}
  /\ shown = [c \in Channel |-> 0]
-----------------------------------------------------------------------------
(* What overlaps (history). A channel moves while something about it is under way. Two
   previews of one channel may be finished in the wrong order; a receipt is dated when
   the server gets it, whatever the client had been sent by then, and taken from a user
   who is not in the channel any more. *)

FramesOf(c, types) == \E i \in DOMAIN frames : frames[i].ch = c /\ frames[i].type \in types

Moving == {c \in Channel : \/ c \in Range(receipts) \cup creating \cup DOMAIN deleting
                           \/ \E b \in building : b.ch = c
                           \/ FramesOf(c, {"message", "channel_update", "channel_delete"})}

Answering == \E r \in asked \cup answers : r.seq = newest

ReceiptBeside(c) ==
  /\ c \in Range(receipts) \/ \E b \in building : b.ch = c /\ b.viewed
  /\ FramesOf(c, {"message"}) \/ standing[c] # "member" \/ \E b \in building : b.ch = c /\ ~b.viewed

Overlapping == {c \in Channel : \/ Cardinality({b \in building : b.ch = c}) > 1
                                \/ ReceiptBeside(c)
                                \/ c \in creating /\ FramesOf(c, {"channel_delete"})}

\* Connected anew and in no channel: no key comes, so nobody asks for the list.
Unasked == IF online' /\ ~online /\ frames' = <<>> THEN Channel ELSE {}

\* After every step. An answer that is applied makes the list new, but for the channels
\* that moved meanwhile.
\* What was skipped is so no longer once everything has been shown.
Overlaps ==
  /\ skipped' = {c \in Channel : (c \in skipped \/ ReceiptBeside(c)') /\ shown'[c] < posts'[c]}
  /\ LET beside == Moving \cup Moving' \cup Unasked
                   \cup (IF newest' = newest THEN touched ELSE {})
     IN /\ touched' = IF Answering' THEN beside ELSE {}
        /\ crossed' = Overlapping' \cup Unasked
                      \cup (IF Answering /\ ~Answering' THEN beside ELSE crossed)
-----------------------------------------------------------------------------
(* Steps of the client that several actions share. *)

Emit(fs) == frames' = IF online THEN frames \o fs ELSE frames

\* wsSendReadReceipt: the worker drops it if the socket is not open. ChatArea sends a
\* second one right after the first when a channel is opened: it changes nothing.
Receipt(c) == receipts' = IF online THEN Append(receipts, c) ELSE receipts

MayReceipt == Len(receipts) < MaxReceipts

RefreshChannels(join) ==
  /\ newest < MaxRefreshes /\ Cardinality(asked \cup answers) < MaxAsked
  /\ newest' = newest + 1
  /\ asked' = asked \cup {[seq |-> newest', join |-> join]}
  /\ UNCHANGED answers

BadgeCleared(row) == [row EXCEPT !.unread = 0]

\* The history is asked for when a channel is shown and when its key comes, and refused
\* to others than members.
Loaded(c) == IF standing[c] = "member" THEN [shown EXCEPT ![c] = posts[c]] ELSE shown

\* setActiveChannel(c) on the list given.
Opened(c, list) ==
  /\ MayReceipt /\ Receipt(c)
  /\ active' = c
  /\ channels' = [list EXCEPT ![c] = BadgeCleared(@)]
  /\ shown' = Loaded(c)
  /\ cutOff' = IF online /\ ~\E b \in building : b.ch = c THEN cutOff \ {c}
                                                      ELSE cutOff \cup {c}

\* removeChannel
Removed(c) ==
  /\ channels' = [channels EXCEPT ![c] = None]
  /\ active' = IF active = c THEN None ELSE active
-----------------------------------------------------------------------------
(* The server. *)

\* Somebody posts, be the user in the channel or not. A channel the user deleted for
\* themselves is there again.
Post(c) ==
  /\ standing[c] # "gone" /\ posts[c] < MaxPosts
  /\ posts' = [posts EXCEPT ![c] = @ + 1]
  /\ hidden' = hidden \ {c}
  /\ IF standing[c] = "member" THEN Emit(<<[type |-> "message", ch |-> c, n |-> posts'[c]]>>)
                               ELSE UNCHANGED frames
  /\ UNCHANGED <<standing, seen, online, receipts, requests, ui, waiting, events, shown, cutOff>>

Change(c, s, types) ==
  /\ events < MaxEvents /\ events' = events + 1
  /\ standing' = [standing EXCEPT ![c] = s]
  /\ Emit([i \in DOMAIN types |-> FrameOf(types[i], c)])
  /\ UNCHANGED <<posts, online, receipts, requests, ui>>

\* The user is added by somebody, or by another device: what is left of an earlier
\* membership counts again. The update goes through the queue, the key does not.
Member(c) ==
  /\ standing[c] \in {"none", "out"}
  /\ \/ Change(c, "member", <<"channel_key", "channel_update">>)
     \/ Change(c, "member", <<"channel_update", "channel_key">>)
  /\ UNCHANGED <<hidden, seen, shown>> /\ cutOff' = cutOff \cup {c}

AddMember(c) == Member(c) /\ UNCHANGED waiting

RemoveMember(c) ==
  /\ standing[c] = "member"
  /\ Change(c, "out", <<"channel_update">>)
  /\ UNCHANGED <<hidden, seen, waiting, shown, cutOff>>

\* DeleteChannel, for everybody or for this user: ClearChannelForUser, which marks all as
\* read.
Erased(c) ==
  /\ standing[c] = "member"
  /\ \/ Change(c, "gone", <<"channel_delete">>) /\ UNCHANGED <<hidden, seen, shown>>
     \/ /\ Change(c, "member", <<"channel_delete">>)
        /\ hidden' = hidden \cup {c}
        /\ seen' = [seen EXCEPT ![c] = posts[c]] /\ shown' = [shown EXCEPT ![c] = posts[c]]
  /\ UNCHANGED cutOff

DeleteElsewhere(c) == Erased(c) /\ UNCHANGED waiting

HandleReadReceipt ==
  /\ receipts # <<>>
  /\ seen' = [seen EXCEPT ![Head(receipts)] = posts[Head(receipts)]]
  /\ receipts' = Tail(receipts)
  /\ UNCHANGED <<standing, hidden, posts, online, frames, requests, ui, waiting, events, shown, cutOff>>

\* ListUserChannels
RowOf(c) == IF standing[c] = "member" /\ c \notin hidden
            THEN [unread |-> posts[c] - seen[c], last |-> posts[c]]
            ELSE None

ListChannels(r) ==
  /\ r \in asked
  /\ asked' = asked \ {r}
  /\ answers' = answers \cup {[seq |-> r.seq, join |-> r.join,
                               rows |-> [c \in Channel |-> RowOf(c)]]}
  /\ UNCHANGED <<server, network, newest, ui, waiting, events, shown, cutOff>>

\* The hub writes the key of every channel of the user to a new connection.
Reconnect ==
  /\ ~online /\ online' = TRUE
  /\ LET s == SetToSeq({c \in Channel : RowOf(c) # None}) IN
       frames' = [i \in DOMAIN s |-> FrameOf("channel_key", s[i])]
  /\ UNCHANGED <<server, receipts, requests, ui, waiting, events, shown, cutOff>>

Disconnect ==
  /\ online /\ events < MaxEvents /\ events' = events + 1
  /\ online' = FALSE
  /\ frames' = <<>> /\ receipts' = <<>>
  /\ cutOff' = cutOff \cup ({active} \ {None}) \cup {b.ch : b \in building}
  /\ UNCHANGED <<server, requests, ui, waiting, shown>>
-----------------------------------------------------------------------------
(* The client: frames. *)

\* Mutant: every message is taken to be of the open channel.
AlwaysViewed(c) == TRUE
Viewed(c) == active = c

\* The preview is decrypted first; whether the channel is open was read before. A message
\* of a channel that is not in the list makes the client ask for the list.
HandleMessage ==
  /\ frames # <<>> /\ Head(frames).type = "message" /\ frames' = Tail(frames)
  /\ LET c == Head(frames).ch  n == Head(frames).n IN
       /\ IF channels[c] # None
          THEN /\ building' = building \cup {[ch |-> c, n |-> n, counts |-> TRUE,
                                              viewed |-> Viewed(c)]}
               /\ UNCHANGED timer
          ELSE timer' = TRUE /\ UNCHANGED building
       /\ shown' = IF active = c THEN [shown EXCEPT ![c] = Max({@, n})] ELSE shown
  /\ UNCHANGED <<server, online, receipts, requests, channels, active, waiting, events,
                 cutOff>>

Counted(row, b) ==
  [unread |-> IF b.counts /\ ~b.viewed THEN row.unread + 1 ELSE row.unread, last |-> b.n]

\* The end of decryption: bumpLastMessage and incrementUnread or a receipt, or
\* setLastMessagePreview.
Built(b) ==
  /\ b \in building /\ building' = building \ {b}
  /\ channels' = IF channels[b.ch] = None THEN channels
                 ELSE [channels EXCEPT ![b.ch] = Counted(@, b)]
  /\ IF b.counts /\ b.viewed THEN MayReceipt /\ Receipt(b.ch) ELSE UNCHANGED receipts
  /\ UNCHANGED <<server, online, frames, requests, active, timer, waiting, events,
                 shown, cutOff>>

\* debouncedRefresh; the open channel asks for its history.
HandleChannelKey ==
  /\ frames # <<>> /\ Head(frames).type = "channel_key" /\ frames' = Tail(frames)
  /\ timer' = TRUE
  /\ LET c == Head(frames).ch IN
       shown' = IF active = c THEN Loaded(c) ELSE shown
  /\ UNCHANGED <<server, online, receipts, requests, channels, active, building, waiting,
                 events, cutOff>>

\* debouncedRefresh, and AppPage's own listener, which refreshes at once.
HandleChannelUpdate ==
  /\ frames # <<>> /\ Head(frames).type = "channel_update" /\ frames' = Tail(frames)
  /\ timer' = TRUE /\ RefreshChannels(None)
  /\ UNCHANGED <<server, online, receipts, channels, active, building, waiting, events,
                 shown, cutOff>>

HandleChannelDelete ==
  /\ frames # <<>> /\ Head(frames).type = "channel_delete" /\ frames' = Tail(frames)
  /\ Removed(Head(frames).ch)
  /\ UNCHANGED <<server, online, receipts, requests, building, timer, waiting, events,
                 shown, cutOff>>

RefreshTimer ==
  /\ timer /\ timer' = FALSE /\ RefreshChannels(None)
  /\ UNCHANGED <<server, network, channels, active, building, waiting, events, shown, cutOff>>
-----------------------------------------------------------------------------
(* The client: answers and the user. *)

\* Mutant: whatever arrives is applied.
Anything(a) == TRUE
Current(a) == a.seq = newest

Previewed(rows) == {[ch |-> c, n |-> rows[c].last, counts |-> FALSE, viewed |-> FALSE] :
                      c \in {d \in Channel : rows[d] # None /\ rows[d].last > 0}}

\* The rows of an answer come without previews.
Unhydrated(rows) == [c \in Channel |-> IF rows[c] = None THEN None
                                       ELSE [rows[c] EXCEPT !.last = 0]]

\* refreshChannels after its await, and what a join does after that: it opens the channel
\* if the list has it, be the answer applied or dropped.
Answered(a) ==
  LET list == IF Current(a) THEN Unhydrated(a.rows) ELSE channels
      kept == IF active # None /\ list[active] = None THEN None ELSE active
  IN /\ a \in answers /\ answers' = answers \ {a}
     /\ building' = building \cup (IF Current(a) THEN Previewed(a.rows) ELSE {})
     /\ IF a.join # None /\ list[a.join] # None
        THEN Opened(a.join, list)
        ELSE channels' = list /\ active' = kept /\ UNCHANGED <<receipts, shown, cutOff>>
     /\ UNCHANGED <<server, online, frames, asked, newest, timer, waiting, events>>

\* A click on the open channel with no badge only sends one more receipt: left out.
Open(c) ==
  /\ channels[c] # None /\ (active = c => channels[c].unread > 0)
  /\ Opened(c, channels)
  /\ UNCHANGED <<server, online, frames, requests, building, timer, waiting, events>>

Close ==
  /\ active # None /\ active' = None
  /\ UNCHANGED <<server, network, requests, channels, building, timer, waiting, events,
                 shown, cutOff>>

\* createChannel: the server makes the channel and writes its key; the answer puts it in
\* the list, if it is not there, and the component opens it.
CreateChannel(c) ==
  /\ standing[c] = "none" /\ posts[c] = 0
  /\ Change(c, "member", <<"channel_key">>)
  /\ creating' = creating \cup {c} /\ UNCHANGED <<hidden, seen, joining, deleting, shown, cutOff>>

Created(c) ==
  /\ c \in creating /\ creating' = creating \ {c}
  /\ Opened(c, IF channels[c] # None THEN channels
               ELSE [channels EXCEPT ![c] = [unread |-> 0, last |-> 0]])
  /\ UNCHANGED <<server, online, frames, requests, building, timer, joining, deleting,
                 events>>

JoinChannel(c) ==
  Member(c) /\ joining' = joining \cup {c} /\ UNCHANGED <<creating, deleting>>

Joined(c) ==
  /\ c \in joining /\ joining' = joining \ {c} /\ RefreshChannels(c)
  /\ UNCHANGED <<server, network, ui, creating, deleting, events, shown, cutOff>>

\* DeleteChatModal: handleDelete, which remembers what was open when it began.
DeleteChat(c) ==
  /\ channels[c] # None /\ c \notin DOMAIN deleting
  /\ Erased(c)
  /\ deleting' = [d \in DOMAIN deleting \cup {c} |-> IF d = c THEN active = c ELSE deleting[d]]
  /\ UNCHANGED <<creating, joining>>

Deleted(c) ==
  /\ c \in DOMAIN deleting
  /\ channels' = [channels EXCEPT ![c] = None]
  /\ active' = IF active = c \/ deleting[c] THEN None ELSE active
  /\ deleting' = [d \in DOMAIN deleting \ {c} |-> deleting[d]]
  /\ UNCHANGED <<server, network, requests, building, timer, creating, joining, events,
                 shown, cutOff>>
-----------------------------------------------------------------------------
Step(c) ==
  \/ Post(c) \/ AddMember(c) \/ RemoveMember(c) \/ DeleteElsewhere(c)
  \/ Open(c) \/ CreateChannel(c) \/ Created(c) \/ JoinChannel(c) \/ Joined(c)
  \/ DeleteChat(c) \/ Deleted(c)

Next ==
  /\ \/ \E c \in Channel : Step(c)
     \/ \E r \in asked : ListChannels(r)
     \/ \E a \in answers : Answered(a)
     \/ \E b \in building : Built(b)
     \/ HandleMessage \/ HandleChannelKey \/ HandleChannelUpdate \/ HandleChannelDelete
     \/ HandleReadReceipt \/ Reconnect \/ Disconnect \/ RefreshTimer \/ Close
  /\ Overlaps

Spec == Init /\ [][Next]_vars
-----------------------------------------------------------------------------
Settled ==
  /\ online /\ frames = <<>> /\ receipts = <<>> /\ building = {} /\ ~timer
  /\ creating \cup joining \cup DOMAIN deleting = {} /\ ~Answering

\* When nothing is under way, the list holds the channels the user is in, each with the
\* badge the server counts and the preview of its last message, but for rows that met an
\* overlap after the last answer they were not touched beside. Late answers of older
\* requests change nothing (refreshSeq).
ListIsTrue ==
  Settled => \A c \in Channel \ crossed : channels[c] = RowOf(c)

\* A message is marked as read on the server only if the channel was open in this client
\* when it came, or opened since, or a receipt was due or on the way beside it, or the connection
\* was lost.
ReadMeansShown == \A c \in Channel : seen[c] <= shown[c] \/ c \in skipped \cup cutOff

\* The open channel has no badge, and everything in it is read, when nothing is under way:
\* unless the connection was lost, or the user was added anew, while it was open.
OpenIsRead ==
  Settled /\ active # None /\ active \notin crossed \cup cutOff =>
    channels[active].unread = 0 /\ seen[active] = posts[active]

\* What is open is read, and nothing else is.
ReadIsWhatWasOpen == ReadMeansShown /\ OpenIsRead
=============================================================================
