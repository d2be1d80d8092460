# NodeTalk: a verification development

NodeTalk is a self-hosted messenger: a Go server (`src/backend`) with a WebSocket
hub, an SFU for calls, an older UDP voice router and a Badger store; a React client
(`src/client-web`); and a desktop shell around the client (`src/client-desktop`).

This directory holds TLA+ modules of the parts of it that are concurrent, TLC
configurations that check them on small instances, and proofs for TLAPS that hold
for every instance. Paths below are relative to `src/`.

## 1. Inventory

| component | state it keeps | operations | correct when |
|---|---|---|---|
| Hub (`backend/internal/ws/hub.go`, `client.go`) | `clients` by user, a send buffer per connection, the broadcast queue, `whisperSessions` | register, unregister, dispatch, send to a user, replay | order within a channel; presence agrees with the connections |
| Whisper relay (`hub.go`, `handlers.go`) | `whisperSessions` | init, accept, reject, close, message, replay, cleanup | no session outlives its parties; whoever was told of a session is told of its end |
| Chat (`handlers.go`) | messages in the store | send, edit, delete, read receipt | clients see edits and deletes after the message |
| Raw UDP voice router (`backend/internal/voice/router.go`) | `addrMap`, `userMap`, `active` | register, join, leave, audio, RemoveUser, announce | the two maps agree; nobody gets in who was never a member; RemoveUser leaves nothing; audio reaches whom it is meant for |
| SFU registry (`backend/internal/rtc/manager.go`, `signaling.go`, `room.go`) | `rooms`, `userRooms`, participants | join, leave, RemoveUser | one call per user; the call a user is in can be reached and left |
| SFU forwarding (`room.go`, `participant.go`, `forwarder.go`) | `publishedTracks`, subscribers, senders | publish, wire, end, leave | everybody gets every track of the others, and nothing that has ended |
| Negotiation (`participant.go`, `client-web/src/rtc/WebRTCManager.ts`) | `negoInFlight`, `negoPending`, the signalling state of two connections | renegotiate, offer, answer, buffer | one offer at a time; the client catches up |
| Client WebSocket (`client-web/src/ws/`, `ws.ts`, `store/ws.manager.ts`) | the socket, timers, ports of the tabs | connect, disconnect, heartbeat, reconnect, poll | one live connection while somebody is logged in |
| Client whisper store (`store/whisperStore.ts`, `lib/whisperDb.ts`, the whisper components) | the active session, the invite, private keys, IndexedDB | invite, accept, reject, send, receive, load, verify, burn, sweep | a message stays with its session and its key; a burned session leaves nothing |
| Client calls (`rtc/WebRTCManager.ts`, `store/voiceStore.ts`, `ws.manager.ts`, `IncomingCallModal.tsx`) | connections, captured devices, what the screen shows, what rings | join, leave, mute, share, answer, decline | devices can be released; the screen and the others are told the truth; calls ring |
| Client texts (`ChatInputArea.tsx`, `pendingMessages.ts`, `ChatArea.tsx`) | placeholders of unsent texts | type, seal, time out, retry, echo, refetch | no text is lost, none is sent twice |
| Client composer (`ChatInputArea.tsx`) | files attached, the batch being sent | attach, remove, send, retry | no file is lost or sent twice, or to a channel it was not meant for |
| Client recorders (`VoiceRecorder.tsx`, `VideoMessageRecorderModal.tsx`) | a device, a recorder, pieces, marks, what is previewed | record, pause, send at once, preview, discard; open, switch camera, film, cut, close | a device is on only while that is shown; what was recorded is kept, whole, until it is sent where it was meant for or discarded |
| Client channel list (`channels.slice.ts`, `ws.manager.ts`) | rows with badge and preview, the open channel, requests out | refresh, open, create, join, delete, frames | the list agrees with the server; only what was shown is read |
| Client relationships (`auth.slice.ts`, `FriendsTab.tsx`, `UserProfileModal.tsx`) | the lists of friends, requests and blocks | fetch, act, be told | the lists agree with the server once quiet |
| Sessions (`backend/internal/auth/auth.go`) | tokens, in memory and on disk | create, validate, rename, delete, sweep, restart | a deleted token stays deleted, a given one stays valid |
| Accounts and presence (`api/auth.go`, `api/users.go`, `hub.go`) | users, the presence record | register, log in, rename, prefer, delete; connect, ping, disconnect | names are unique, a deleted account stays so; presence agrees with the connections |
| Relationships (`api/relationships.go`, `store.go`) | `rel:` and `reli:` records | request, accept, decline, cancel, remove, block, unblock | two users agree; a block stands |
| Channels and members (`api/channels.go`, `store.go`) | channels, memberships with role and status | create, join, add, remove, rank, rename, delete, clear, read | who was removed stays out, what was deleted is gone, one conversation per pair, blocks keep out |
| Middleware, files, configuration, logging, TURN, metrics, crypto, federation, UI | | | not modelled, see section 7 |

How they interact. Each WebSocket connection has a goroutine that reads frames and
calls the handlers, one after the other; connections run side by side. Handlers call
the hub, the SFU and the store directly. `unregister` decides under the hub's lock
whether the user's last connection went, and calls `rtc.RemoveUser`,
`voiceRouter.RemoveUser` and the whisper cleanup after the unlock. The voice router
has one read loop and a goroutine per audio packet. pion runs callbacks of the SFU
(track arrived, negotiation needed) on goroutines of its own. The client is a set of
event loops: tabs, and a SharedWorker with the socket.

Where it is hard: state looked at under one lock and used under the next; the cleanup
of a connection beside the registration of its successor; snapshots of rooms and
tracks that are worked off with no lock held; offers, answers and close events that
belong to something already replaced. `PROJECT.json` lists each such place under
`hazards`, at its line.

## 2. Modules

| module | models | run by | proofs |
|---|---|---|---|
| `VoiceRouter` | the UDP voice router | `MCVoiceRouter` | `Media_proofs` |
| `WhisperRelay` | whisper sessions, and the connections they depend on | `MCWhisperRelay` | `WhisperRelay_proofs` |
| `CallRooms` | who is in which call | `MCCallRooms` | `CallRooms_proofs` |
| `TrackForwarding` | who is sent which track | `MCTrackForwarding` | `Media_proofs` |
| `TrackMirror` | abstract: what negotiation promises to one participant | through `Negotiation` | `Media_proofs` |
| `Negotiation` | offers and answers, server and client, implements `TrackMirror` | `MCNegotiation` | `Media_proofs` |
| `SocketManager` | the client's WebSocket and its tabs | `MCSocketManager` | `Client_proofs` |
| `Chat` | the messages of a channel, from the handlers through dispatch to the client's list | `MCChat` | `Client_proofs` |
| `WhisperClient` | the client's whisper store and database | `MCWhisperClient` | `WhisperClient_proofs` |
| `CallClient` | calls in the client, their devices, ringing | `MCCallClient` | `Client_proofs` |
| `Composer` | files on their way out of the client | through `ChatInput` | `ChatInput_proofs` |
| `VoiceRecorder` | recording voice messages, on top of `Composer` | through `ChatInput` | `ChatInput_proofs` |
| `VideoRecorder` | recording video messages, on top of `Composer` | through `ChatInput` | `ChatInput_proofs` |
| `MessageInput` | `Composer` and both recorders; implements `Composer` | through `ChatInput` | `ChatInput_proofs` |
| `Outbox` | texts on their way out of the client, beside or with the files of `Composer` | through `ChatInput` | `ChatInput_proofs` |
| `ChatInput` | everything that leaves a chat: `MessageInput` and `Outbox`; implements `MessageInput` | `MCChatInput` | `ChatInput_proofs` |
| `Channels` | the client's list of channels beside the server's | `MCChannels` | |
| `Friends` | relationships in the store, and a client's lists of them | through `Server` | `Server_proofs` |
| `Membership` | channels and who is in them; asks `Friends` who may be added | through `Server` | `Membership_proofs` |
| `Accounts` | accounts, sessions, presence | through `Server` | `Server_proofs` |
| `Server` | the three, and a crash of the server | `MCServer` | `Server_proofs` |

An action is what the code does under one lock, or between two calls that another
goroutine can overtake; in the client, one callback. A variable marked "(history)"
is not in the code: no guard reads it, it decides no value of another kind of
variable, and it is there for a property.

**VoiceRouter.** `addrMap`, `userMap`, `active` are the router's maps; `loop` is the
control packet the single read loop is in the middle of (`Take*`, `CheckMember`,
`Handle*`); `leaving` are the goroutines that have `RemoveUser` to call, several for one
user if he reconnects meanwhile; `due` and `held` are
the announcements (`notifyVoiceUpdate`) that the loop and each RemoveUser have to make
and the roster read for one; `audio` are the goroutines of audio packets: before the
targets are collected, and between the writes to them, which are made with no lock held.
`record` stands for the store: like `handleJoin` it asks for a record of membership and not
for what it says. A packet needs a token and no connection, so the model has none. Parsing of
datagrams is left out; an address is looked up when a packet is taken, as in the code.

**WhisperRelay.** `conn` follows a connection from `ServeHTTP` (`Register`, then
`Replay`) to `unregister` (`Unregister` under the hub's lock, then `Cleanup`); `sess`
is `whisperSessions`; `todo` holds the frames a handler has yet to send, `heard` the
kinds of frames queued to a connection. A handler that finds the session and sends to
its peer does so in two steps. `Age` makes a pending session older than 30 minutes.
Send buffers are not full here. `handleWhisperMsg` is left out.

**CallRooms.** `job` is the handler a connection is in the middle of, step by step
through `handleJoin`, `handleLeave` and `RemoveUser`; `rooms`, `userRooms` and the
rooms' `members` are the code's maps; `pcs` are the participant objects whose
PeerConnections are open. A room object that was dropped and forgotten can be used
again, as can a participant object that was closed. `RoomsLeft` is a bound: a join
starts only if the model has a room object for it. Broadcasts and errors to clients
are left out: nothing in the registry depends on them.

**TrackForwarding.** Each participant that joins, each track that is published and
each that ends is a goroutine working off a snapshot: `unread`, `todo`, `undo`,
`take`. `wired` are the senders on the subscribe connections; `sub` is
`publishedTrack.subscribers`. `AddTrack` and `addSubscriber` are two steps.

**Negotiation.** A session description is the number of the set of tracks it stands
for and the participant object it was made by. `at` are the goroutines of a
participant on the server: pion's callback and the reader that handles answers;
`inFlight` and `pending` are `negoInFlight` and `negoPending`; the WebSocket is a
queue in each direction. On the client `buffered` is `pendingSubscribeOffer`,
`replies` the answers between two awaits. pion and the browser's PeerConnection are
external, modelled by what the code relies on.

**SocketManager.** `state` and `code` are the browser's sockets and the code their
close events will carry; `socket`, `disconnected`, `heart`, `retry` are
`socketManager.ts`; `ports` the worker's registry; `worker`, `started`, `user`,
`wsState` are in the tabs. `GoSilent` is a connection lost without a close frame. The
worker ends with its last tab. Messages between tab and worker arrive at once, and
back-off delays are not modelled. `asked` says whether a tab has asked for a connection
since the last logout or the start of the worker: the poll of `ws.manager.ts` asks every
fifteen seconds whether or not anyone is logged in, so a client is not silent after a
logout for long, and `ConnectedAsAsked` promises only that nothing connects before a tab
asks again. `late` is set when a replaced socket reports its end, which stops the
heartbeat of the one in use, and reset when a socket opens.

**Chat.** `stored` holds the version of each message, `doing` the handler that a
connection's reader is in the middle of: an edit reads, then writes (`GetMessage`,
`UpdateMessage`), and every handler submits to the queue after it has written
(`Enqueue`). `queue` is `hub.broadcast` and `fan` the envelope between the read of the
members and the loop over their connections (`GetChannelMembers`, `Dispatch`). `buffer`
is a connection's send buffer together with the network behind it. On the client,
`page` is the list that is shown, `opening` the frames between arrival and the end of
their decryption, `reply` the request for the history that `useMessages` has out. The
key of the channel comes from two places, and each makes the client ask for the
history again: `keyDue` are registered connections whose keys are still to be written,
past the buffer; `granting` are new members, whose key goes through it. A frame that
arrives without the key is shown unreadable.
A new message is checked and saved in one step, as nobody else knows of it before.
Versions stand for texts. A device of `Viewer` has the channel open; clients do not
depend on each other, so the others have none, and their connections are not followed.
Leaving the channel, the checks of direct messages and the channel updates that share
the queue are left out. Read receipts are in `Channels`, placeholders of unsent texts in
`Outbox`.

**WhisperClient.** Every handler of the store is an async function; what it does up to
its first `await` and between two of them is one step. `calls` are the handlers that
wait: where they are (`op`), the session they work for (`sid`), the copy of the active
session they read before (`snap`), which they write back, and their message. `rows` and
`disk` are the tables of IndexedDB, which works its requests off in order: a request
takes effect when it is made, or is refused (`MaxFailures`), and the code after it comes
later. The hub and the friends are reduced to what they may deliver for a
session and when: `hub` (none, invited, open, closing, ended) and the errors `owed`.
`WhisperRelay` has their detail. Failures other than of the database are left out.

**CallClient.** `chan`, `connecting`, `pc`, `mic`, `held` and `vad` are fields of
`WebRTCManager`; `active`, `status`, `muted` and `on` those of the voice store;
`incoming` and `handled` the ringing; what is handled is in the session storage and may be
set at the start. `answered` (dealt with, and no roster has told of the end since) and
`missed` (the last call ended while it rang) say why a channel is in `handled`. `live` are the captured tracks nobody stopped,
`open` the connections nobody closed; `flight` the handlers that wait for a device or
for the first offer. The server is external: it answers joins in order (`inbox`), and
announces rosters of a channel at any time. One connection stands for the publish and
the subscribe connection, which are made and closed together; what is negotiated on the
latter is in `Negotiation`.

**Outbox.** `status` says what the placeholder of a text shows, and `newer` the order in
which placeholders stand in the list of a channel: a list is kept as the set of its
placeholders with that order, not as a sequence. `sealing` are the texts being
encrypted, `out` the frames on their way to the server and `echoes` those on their way
back. The connection is external: it may die without notice (`Die`), and what is under
way when it ends is lost. `SendTimeout` is the ten-second timer of a placeholder,
`Refetch` the history that replaces the list. A retry by hand and the retry after a
reconnect are actions of their own. A text that is sent with files waits for their batch
(`carried`): `Carry` and `Release` are what a step of the composer does to it. The server
stores a text and echoes it, or the buffer of this connection is full and there is no echo,
or it refuses the text and says nothing (`HandleChatMessage`): the placeholder then stays
until the timeout, and the history marks that something went astray (`disturbed`).

**Composer.** `files` is the list under the input, `sending` the flag of that name, and
`batches` the runs of `handleSend`: each has the channel it began in and the files it
saw. `voices` and `videos` are recordings being sent beside it, which come from the
recorders. A file that was uploaded while the connection was up has its message encrypted
(`posting`, `voicing`) and handed to the socket after that: `sent` is where it went, `lost`
what was handed to a socket that was not open any more. Uploads and the connection are
external.

**VoiceRecorder, VideoRecorder.** A take is one run of `startRecording`, a camera one of
`startCamera`; streams, recorders and what they recorded bear its number. `mic`,
`recorder`, `chunks`, `discarding`, `quick`, `blob`, `mode` and `camera`, `videoRecorder`,
`pieces`, `film`, `videoMode` are the refs and states of the components; `waits` and
`pending` what they wait for: a device, a stop event, decoding, cutting. What comes after a
wait is one step and acts on the refs as they are by then. A new step of a recorder either
leaves the composer alone or is one of its `SendVoice`, `VoiceSent`, `SendVideo`, ....
The browser is external: it grants devices or not, loses them, and tells of the end of a
recording later. Playing back and choosing where to cut are left out, and so is leaving the
chat meanwhile, which ends the components: the code then stops the streams it knows of.

**MessageInput.** The three side by side. The dialog of the video recorder is modal: while
it is open nothing else is clicked, but what was under way goes on. A video whose upload
fails is lost (the code shows an alert), a voice message is kept as a file: that is
in `Composer`.

**ChatInput.** A step of the files takes a text along (`WithFiles`), a change of the
connection changes it for both, and what the user does to a text he does while no dialog
is open. Whether the message of a file reaches the server is what the socket of `Outbox`
says (`FilesReach`).

**Friends.** A call is a record in `calls`: which check it is at, or the writes it has
left to make (`todo`), one transaction each. `rel` and `inbox` are the two kinds of
records. Of the users in `Client` the browser is followed: `shown` are its lists, `asked`
its requests and their answers, which arrive in any order or not at all (`FetchFails`), `told`
the frames that make it ask. A frame that finds the buffer full and the answer to a call are
lost in `Finish`, frames also in `Disconnect`. A user makes one call at a time, and reloads
the page between calls only: two calls at once, of two devices or of the button of a search
result that is not disabled (`FriendsTab.tsx:273`), are left out, and so is what no button
offers. `askable` does not change, so the read of it is one with that of the block
(`CheckBlocked`). `blemished` (history) marks two users about whom two calls overlapped, or one was made
from an old list, until they agree again.

**Membership.** `chan` and `uc` are the records of channels and memberships, `acts` the
calls: checks first, then tasks. A task that writes a record back reads it in a step of
its own (`Reread`, `WriteBack`), and another call may write between the two: `raced`
(history). Who may be added is asked of `rel` in `Friends`. Every channel has an invite link
(`store.go:200`) and anybody may send a read receipt for one (`handlers.go:172`), so `Begin`
lets a user into a conversation of two others: `mixed` (history). A channel is created by
one user, or with one other who is asked for; a third comes by a link or is added. Of the
numbers a call may give as a rank (`channels.go:537`) the three of the code are taken. Who
deletes his account goes on with the next group when a removal fails (`Rest`).

**Accounts.** `users`, `presence` and `saved` are on disk, `sessions` in memory. `jobs` are
calls, `line` the handlers of connections, from `ServeHTTP` to what they do after the
connection is unregistered. The record of a user is read whole and written back whole:
`rewritten` (history) marks the accounts where that undid another write. `Restart` reads the
sessions that are on disk.

**Server.** The three write different records and do not change each other's; a crash
breaks off all calls at once. `BreakCalls` forgets what was under way to clients.

**Channels.** `standing`, `hidden`, `posts` and `seen` are the server's store, read by
`ListChannels` in one step; `frames` and `receipts` the socket in both directions; `asked`
and `answers` the requests of `refreshChannels`, with `newest` their `refreshSeq`;
`channels`, `active`, `building` (previews being decrypted) and `timer` the client.
Creating, joining and deleting are two steps each, the request and the arrival of its
answer. `touched` and `crossed` (history) mark the rows for which something was under way
beside the newest request.

## 3. Runs

| run | instance | shows |
|---|---|---|
| `MCVoiceRouter` | 2 users, 2 addresses, 1 channel, 2 removals and 1 audio packet at a time; users, addresses and removals symmetric | only who has had a record of membership is admitted; ghosts come from named races only; every change is announced or about to be; audio reaches its listener unless the address changed hands meanwhile |
| `MCWhisperRelay` | 2 users with 2 devices each, 1 session | sessions are owned, invites are not lost, ends are heard |
| `MCCallRooms` | 3 connections of 2 users, 1 channel, 3 rooms, 3 participant objects | calls can be reached; ghosts and leaks come from races only |
| `MCTrackForwarding` | 2 users, one of whom comes back, a track each | nobody misses a track, leftovers come from races only |
| `MCNegotiation` | 2 stays, 2 changes of tracks in each, 1 lost message, fair | rounds take turns (one offer is out at a time, and none stalls), the client catches up, each stay implements `TrackMirror` |
| `MCSocketManager` | 2 tabs, 2 URLs, 3 sockets at a time, 1 failure, fair | one connection, none that no tab has asked for since the last logout and none shown that is gone, heartbeat on the open one, reconnects |
| `MCChat` | 1 author with 2 devices, 1 reader; 1 message, sent, edited and deleted | edits never overtake their message on the way; a settled member has the key and shows what is stored, but for named causes |
| `MCWhisperClient` | 1 session begun here, 1 by the friend, 1 message, 2 calls in flight, 1 refused request | private keys stay while they are needed and go with their sessions; no message in a strange session; none in the database without its key; burned means gone, but for overlaps and refused deletions |
| `MCCallClient` | a direct conversation and a group, 2 joins, 2 tracks, screen sharing | devices and connections can be released; mute is honest; the call is on the screen; calls ring |
| `MCChatInput` | 2 channels and one of seven budgets: 2 takes and a file; 3 cameras and a video; a take, a camera and a batch; 2 batches of 2 files beside a video; a text with a batch, tried twice around a lost connection; 2 texts, one tried twice, a message from elsewhere and a lost connection; a take around a lost connection | files and texts are kept until sent, sent once, and to the channel meant; echoes find their texts; microphones and cameras are on only while that is shown; recordings are kept whole and sent only as told; but for named causes |
| `MCServer` | 3 users, 2 of whom make friends, 2 channels, 2 accounts on 2 devices, and one of nine plans: 3 calls about friends; 2, with a loss (a page that is reloaded or cut off, a frame, an answer or a list) or a crash; 1 with 2 losses; 2 calls about channels with a crash; one with one about friends; 2 calls of accounts with a connection, or with a crash; 1 with 2 connections and a crash | two users agree and blocks stand; lists of friends are true once quiet; who is out stays out, deleted channels are gone, one conversation per pair, blocks keep out; names are unique and deleted accounts stay deleted; tokens end and last; presence is true; but for named causes |
| `MCChannels` | 1 channel, 2 messages, 3 requests of which 2 at a time, 1 change or lost connection, 1 receipt at a time | the list agrees with the server once quiet; only what was shown is marked as read; the open channel is |

No run expects a violation. Where the code does not do what one would want, the property
names the cause instead, and TLC shows that there is no other.

Properties whose names end in `OnlyFromRaces` or `OnlyFromRace` say that something bad
has only the causes that are named in the property: a history variable marks the
users, rooms or tracks that met the race. The races are real in the code:

- `RemoveUser` of the voice router overtakes a Join of the same user that has passed
  the membership check, or a packet comes after it, which needs no connection: the user
  stays in the session (`router.go:219-235`, `spoken`), in the first case without an address
  (`unheard`), as does one whose address another has claimed (`router.go:158`).
- The voice router admits whoever has a record of membership (`router.go:220`), and those who
  left or were kicked keep theirs (`store.go:365`). The comment of `NewRouter`
  (`router.go:46`) speaks of users who are actually members; `OnlyRecordedAdmitted` says
  what does hold.
- Two connections of one user run handlers of the SFU side by side: two calls, or a
  participant that nobody removes (`signaling.go:80-113`).
- A room is dropped between `getOrCreateRoom` and `addParticipant`: the participant is
  in a room that no signal reaches (`manager.go:222-230`).
- A track ends between `AddTrack` and `addSubscriber`: the sender stays
  (`room.go:125-150`, `participant.go:268-276`).
- A client that leaves and rejoins answers an offer of the stay before: pion takes the
  answer for that of the next one, and a second offer goes out. `mixed` marks it.
- Two devices of an author have one message in hand: the frames are submitted in the
  other order than the changes were stored, or an edit restores a message that was
  deleted between its read and its write (`handlers.go:74`, `:119`). `crossed` marks
  the message.
- A deletion is applied at once and an edit after its own decryption: either can
  overtake a frame still being decrypted, and a deleted message stays on the page
  (`ChatArea.tsx:146`). A frame dropped at a full buffer (`hub.go:191`) and a history
  read before a change and shown after it (`useMessages.ts:12`) have the same effect.
  A key dropped at a full buffer (`hub.go:421`) leaves a new member without it until
  it reconnects: `unkeyed`.
  `overtaken` marks the message on that device until a history read later is shown.
- A whisper cleanup runs after the unlock of the hub (`client.go:45`): a user who is back
  by then loses what was opened since. `NoOrphanedSession` allows for the cleanup.
- The close event of a replaced socket comes after the new one was opened and stops its
  heartbeat (`socketManager.ts:107`).
- Two joins pass the check of the room's size together (`signaling.go:80`), though
  `config.go:44` speaks of a bound. No run is about it; `CallRooms` has the steps.
- A handler of the whisper store that was waiting while its session was burned writes back
  the copy it read before (`whisperStore.ts:627`). `overlap` marks the sessions with two
  handlers at once. A deletion that the database refuses leaves the session where it is, on the
  screen too (`:643`, `:910`): `unburned`. A session the peer burns while another one is on the
  screen is not deleted (`:907`).
- The accept of an invite is passed over if another session is on the screen
  (`whisperStore.ts:762`), and the hub may forget a session without a word: the private key
  then stays in memory (`stuck`).
- A microphone is granted after the call was left, or into the next call
  (`WebRTCManager.ts:727`): `stray`.
- A second call's ring takes the place of the first, which then does not ring again
  (`ws.manager.ts:297`): `silenced`. The end of a call silences whatever rings.
- A call that ends while it rings is put among those handled after that memory was reset
  (`ws.manager.ts:269`, `voiceStore.ts:211`): the next call in the channel does not ring,
  `missed`, although the comment at `voiceStore.ts:97` speaks of calls "already
  accepted/declined/joined".
- After a `channel_delete` the store has left the call and the manager has not
  (`ws.manager.ts:204`): the microphone is still held and no button is there to hang up with.
- The echo of a message does not say of which text it is: after a message of another
  device, a lost frame, or two texts that overtook each other in encryption it takes the
  placeholder of another (`pendingMessages.ts:85`). A history that comes in wipes
  placeholders (`useMessages.ts:33`). An echo for a channel that is not shown is ignored,
  and the text is sent again after the timeout.
- The connection may close between the look at it and the sending of a file's message, which
  is encrypted meanwhile (`ChatInputArea.tsx:246`, `:341`): nothing is sent and nobody is
  told (`socketManager.ts:130`), the file is marked as done and the recording given up: `lost`.
- A text that the server refuses, or whose echo finds the buffer full, shows as being sent
  until the timeout (`handlers.go:36`, `hub.go:191`): `disturbed`.
- The end of a batch drops all files that did not fail, those added while it ran as well
  (`ChatInputArea.tsx:261`), and a video that is done clears `sending` while a batch runs
  (`ChatInputArea.tsx:448`).
- A microphone is asked for again while a take is being decoded or sent, or while it is asked
  for already: what the first one waited for then acts on the second (`VoiceRecorder.tsx:214`,
  `tangled`). A take that was to be sent at once and has no sound leaves its mark
  (`VoiceRecorder.tsx:227`, `unreset`): the next one is sent without a preview. One that is
  discarded while it is decoded is shown or sent all the same (`tooLate`).
- The dialog is closed while a camera is asked for or a film cut
  (`VideoMessageRecorderModal.tsx:97`, `:361`, `closedEarly`), or another camera is asked for
  meanwhile (`crossed`): the camera stays on unseen, the film is sent all the same.
- A call of the server reads a membership or a user and writes the record back after another
  call wrote it (`queries.go:130`, `users.go:200`): `raced`, `rewritten`. A deleted account
  can have its password again. Two calls that ask for one name both get it (`store.go:34`,
  `clashed`), two that begin a conversation begin two (`channels.go:38`, `doubled`), as does
  one whose other side has hidden it, or a call that is at work in one while it is deleted
  (`contested`). Whoever has the invite link of a conversation comes in (`channels.go:328`),
  and a read receipt makes its sender a member (`queries.go:130`): while there are three it is
  none, a second one is begun, and when the guest leaves there are two (`mixed`, which also
  marks channels without a name that were not begun for two). A crash while a conversation is
  created leaves an owner, who can add a third user and be left with the second (`halfway`). A
  user who blocks somebody is still added by him if the call asked before the block was made
  (`channels.go:425`).
- Declining and cancelling a request check nothing (`store.go:588`): made from an old list
  they leave a friendship on one side. `blemished` marks the two.
- A ping shows a user online whatever he prefers (`client.go:132`), a second connection that
  closes or opens beside a first may leave the wrong presence, and after a crash everybody
  is shown as before: `jumbled`.
- Answers for lists of friends come in any order (`auth.slice.ts:151`); one that fails is
  only logged and the old list stays (`:155`, `:165`); a call whose answer is lost throws
  before it asks for them (`:170`), and a full buffer drops the frame (`hub.go:567`): `crossed`.
- A read receipt is dated by the server when it arrives (`handlers.go:182`), so it also
  covers a message that was submitted in between. After a reconnect a client without
  channels does not ask for its list.

### Bounds

The sets are as large as it takes for the interesting overlaps: two users for
takeover and for a peer; two devices of one user wherever the code distinguishes the
last connection from one of several; two copies of a participant for leaving and
coming back; three room objects, since a third can only be needed when two joins hold
dropped rooms. `MaxTracks` is 2: in `Negotiation` one change in flight and one after, in `CallClient` two
devices, or a device and one that came late.
`MaxLost` is 1: one lost offer is what stalls a negotiation. `MaxFails` is 1, as a
failed connection is replaced before another can fail in a new way; `MaxPorts` is 2,
one more than a tab should have. `MaxVersion` is 2: a message, one edit, and the
deletion. The queue holds 2 frames, so that two can be in the wrong order, and the
send buffer 1, so that it overflows. `MaxCalls` is 2: every pair of the whisper store's
handlers overlaps, and what is marked by `overlap` is marked by a pair. `MaxFailures` is
1. `MaxJoins` is 2, a call and the next one. `MaxTries` is 3: sent, retried by a
reconnect, retried by hand; `MaxCuts` is 2, so that a retry is lost as well; `MaxForeign`
is 1; within the budgets of `MCChatInput` two tries and one cut. `MaxBatches` is 2, two that overlap; `MaxVideos` is 1, the one whose
end lets the second batch begin; `MaxTakes` is 2, one whose waits meet the next;
`MaxCameras` is 3: one left on, one that replaces it, one for a retake. All of them at
once are out of TLC's reach, so `Budgets` names the combinations: each recorder by
itself, each beside batches, and both together. `MaxPosts` is 2 (one read, one not), `MaxRefreshes` 3 of
which `MaxAsked` 2 are out, one stale and one new; `MaxEvents` and `MaxReceipts` are 1,
as the rows of channels do not depend on each other and each further event needs a
further clean answer. In `MCServer` the `Plans` say how much of each may happen: two calls
are what overlaps, and three about friends make a request, its answer and one more; two
losses (`MaxCuts`) about one call are its answer and a list, or a list and the next; two
tokens and a third for a login after a logout; one crash at any point. The channels begin
empty, with a group of all, with a conversation, or with one that a guest has joined, so that
two calls and a crash reach each of them. The three parts are combined only where one reads
another. Symmetry is used only where no liveness is checked
and the values are interchangeable.

`CHECK_DEADLOCK FALSE` is set where the model may really stop: all participants have
left and none of the bounded supply is unused (`TrackForwarding`), all joins are used
up (`Negotiation`, `CallClient`), all texts, files, calls or requests are (`ChatInput`, `Server`,
`Channels`). In the client everything may simply be quiet, though a state without a
successor is rare (`SocketManager`).

### Fairness

Goroutines that can run do run (`Offering`, `NegotiationNeeded`), a WebSocket delivers what it has accepted and event loops go on
(`Reading`, `Receiving`, `Replying`), timers fire and sockets end up open or closed
(`ReconnectTimer`, `LivenessTimer`, `ReconnectIfNeeded`, `OnOpen`, `OnClose`). All of
it weak, as nothing of it is disabled again and again by others. Nothing a user or
the network decides is fair: nobody has to join, leave, publish, log in or fail.
`Reconnects` therefore speaks of users who stay logged in, and `CatchesUp` of tracks
that stop changing.

## 4. Proofs

TLAPS checks every leaf; the constants are arbitrary sets with the assumptions named
in the modules (absent values are no members, a connection has an owner).

`WhisperRelay_proofs`
- `TypeCorrect`: types; and no session is with oneself, which `Record` excludes and
  `MayWhisper` has to guarantee.
- `SessionsAreOwned`: `NoOrphanedSession` is inductive with the types. A session
  appears only in `HandleWhisperInit`, is established only in `HandleWhisperAccept`
  (`SessionSource`), both by connections that are there; a connection that goes
  leaves the user present or a cleanup due (`PresenceKept`); and `Cleanup` removes
  all sessions of its user that the invariant would forbid.
- `InviteCorrect`, `EndCorrect`: both properties say that something is known or a frame is
  on its way. They are inductive with whom that frame is for (`InviteComes`, `EndComes`):
  a goroutine that is about to replay or to clean up has nothing left to send (`TodoOK`),
  and what has ended or was accepted has its parties as the session had them (`EndedOK`,
  `AcceptOK`).

`CallRooms_proofs`
- `TypeCorrect`, with what a handler knows at each step (`JobOK`).
- `ReachCorrect` and `GhostsCorrect`: by `PlacesOK`, which says for each step of a join,
  leave or RemoveUser where its user may be, in the registry and in the rooms. It needs
  that a user that is not `raced` has one handler at work (`AloneOK`), and that nobody
  else's step moves a room the user is in (`Kept`).
- `LeaksCorrect`: inductive with the same invariants; a join does not overwrite an entry.
  Both together are `LeavingCorrect`.

`Media_proofs`, about `Negotiation`, `TrackForwarding` and `VoiceRouter`, which share no
state
- `NegotiationTypeCorrect`.
- `RoundsCorrect`: by `Rounds`. The participant objects of a user are made one after the other,
  each for a join of its own (`StaysOK`, `TurnsOK`, `NumbersOK`), nothing is on its way for one
  that is not made yet (`MadeOK`), and the client is told of each once (`JoinedOK`); so what it
  holds is of the call it is in, unless something was mixed in (`CallOK`). Then a round of
  the first stay is in one place (`RoundOK`), and every step passes on what is under way
  (`StallStep`): it gives up an offer only for another one of the same participant.
- `MirrorCorrect`: `NegotiationSpec => Mirror!Spec`, the safety part of the refinement, by
  `Following`. pion's request is in one pair of hands until its offer is answered (`BatonAt`),
  so no offer is set after a newer one (`MadeInOrder`); the queue to the client, what it keeps
  and what it applied are in that order too (`SentInOrder`, `Passed`). A join begins with a
  participant that has no tracks (`StayBegins`); from there the version goes up (`ViewGoesUp`).
- `TypeCorrect`, of the wiring.
- `NobodyMissesCorrect`: `NobodyMisses` needs `WireInv`: who is in the room, which tracks
  are published, who subscribes, and that a goroutine that takes senders off works for a
  participant that left (`RoomOK`, `PubOK`, `SubOK`, `TakeOK`). Then each step wires the
  track, keeps it in a list of one to wire, or is about a track that is gone (`MissStep`).
- `LeftoversCorrect`: by `FoundOK`. A sender that was noted in time, and alone, is found:
  by the end of its track, or by the list its publisher works through when it leaves.
  Senders are for those who came, of tracks that arrived (`ComingOK`, `StageOK`, `SoundOK`).
- `RouterTypeCorrect`, of the voice router: each action keeps every variable in its type.
- `MapsStayInverse`: the invariant the others rest on, inductive with the types. Only registration and
  RemoveUser touch the maps (`MapsTouched`); the argument is about the two entries a
  registration overwrites, of the user and of the address.
- `AdmissionIsChecked`: `OnlyRecordedAdmitted` needs that who has a record has had one.
  The packet in the loop carries the check's result past any change of the records.
- `RacesAreTheOnlyGhostSource`: `GhostsOnlyFromRaces` is inductive because it speaks of
  the loop as well: who has not spoken since RemoveUser has no packet in it, so nothing can
  re-create what was removed; and the sender of a join in the loop has an address, unless
  it was taken from him meanwhile (`JoinerHasAddress`).
- `ChangesAreNotForgotten`: `ChangesAreAnnounced` says that whatever changed a session
  still owes it an announcement, with the roster not read yet or read as it is now. It
  is inductive with the types: a step that makes a roster stale is by a process that
  then owes an announcement itself (`ProcessesAreDone`, `OthersDoNotAnnounce`).
- `SessionsCorrect`: the two before, as the run checks them.
- `AudioIsNotMisrouted`: the targets are right when they are collected, as the maps are
  inverse and the session admitted; from there an address that changes hands is noted in
  each packet under way.

`WhisperClient_proofs`
- `TypeCorrect`, with `CallsOK`: which sessions, copies and messages the handlers in
  flight can have at each place.
- `KeysCorrect`: by `HubInv`, which relates the private keys to what the hub may still say, and
  `KeyInv`: while the accept is to come there is nothing else of the session.
- `StrangersCorrect`: by `MsgInv`: the copy a handler will write back, like the session on
  the screen, holds only its own messages.
- `OrphansCorrect`: by `RowInv`: whoever may still save a message finds its session saved,
  or it was burned. The two are `SessionCorrect`, as the run checks them.
- `BurnCorrect`: by `BurnInv`: a session that was burned, deleted and had no two handlers at
  once has none in flight that writes (`Cleared`).

`Client_proofs`, about `CallClient`, `SocketManager` and `Chat`, which share no state
- `HeldCorrect`, `ScreenCorrect`, `RingCorrect`: each property is inductive with the part
  of the types it needs (`ShapeInv`); ringing needs that the call on the screen is the one
  the manager is in, and that what is remembered as handled was dealt with or missed
  (`Remembered`).
- `MuteCorrect`: by `MuteInv`. A handler that waits for the microphone has isMuted as it
  is, as long as it waits for the current connection and none was granted (`MicOK`); so has
  the first offer until it is stale (`OfferOK`); and a track that went astray stays so
  (`Astray`).
- `SocketTypeCorrect`.
- `OneConnectionCorrect`, `AskedCorrect`, `WatchedCorrect`: one invariant, `SafeInv`. The
  three properties need each other, that a manager told to disconnect has no socket, and
  that where nobody asked it was told so or has had none.
- `ChatTypeCorrect`: with `CountInv`: what is stored of a message is its last version or
  nothing, and whoever edits or deletes one has found it.
- `StreamCorrect`: by `MadeInv` and `OrderInv`. What a reader still has to submit, what is
  queued, in dispatch, buffered and being decrypted tells versions that were made, and
  while no two handlers had the message in hand at once one reader submits at most, a
  deletion is the last, and each place holds what was made before the places behind it.
- `PagesCorrect`: by `FlowInv`, which adds that frames go to connected members
  (`MemberInv`), that where something about a message is on its way the last that happened
  to it is too (`LastInv`), and that what a client shows, or the history it waits for, leads
  with what is being decrypted and what is to come to what is stored (`PageInv`). `Leads`
  says so of one message: nothing left to come means it is there already, an edit that is
  to count finds the message, and one frame is decrypted at a time, unless a later one comes.

`ChatInput_proofs`
- `TypeCorrect`, with the sequences that batches work off.
- `GoesCorrect`, `KeptCorrect`, `OnceCorrect`, of `Composer` alone: invariants (`GoesInv`,
  `KeptInv`, `OnceInv`) about the files a batch has still to send: they were attached, are
  in the list, are in one batch only and in it once, unless the history marks them; and the
  file whose message is being encrypted is the first of its batch.
- `InputImplementsComposer`: every step of the whole input is a step of the composer or
  changes nothing of it; so the three hold of the input too (`InputCorrect`).
- `MeantCorrect`: while nothing is tangled there is at most one take under way, and what is
  decoded or shown is a piece of it; a take is handed over at the end of its own decoding,
  by the functions of its own render, or from the preview at the user's word.
- `CapturesCorrect`: a device that is on is the one the ref holds, and what waits for a
  device, or for the end of a recording, excludes another one, until one of the named
  overlaps happens.
- `RecordingsCorrect`: by `Keeping`, which relates what each take holds to the states its
  pieces can be in while the microphone's answer, the stop event and the decoding are
  under way, and `Filming`, the same for films: the one on the screen is of the camera
  that was turned on for it, unless a camera or an end of a recording was crossed.
- `ChatImplementsInput`: with texts the input is still one, so all of the above holds of the
  whole chat: `ChatCapturesCorrect`, `EverythingGoesCorrect`, `ChatRecordingsCorrect`.
- `TextTypesCorrect`, `EverythingKeptCorrect`, `EverythingOnceCorrect`: by `TextInv`. A text
  that was not sent is nowhere and in one batch at most (`TextsOK`); one that was sent and is
  not stored has its placeholder, unless another message or a history took it, since an echo is
  of a stored text (`EchoesOK`, `ShownOK`); and one nobody gave up too early is in one place of
  the way at most, and in none while its placeholder shows it as failed (`PlacesOK`), which
  is why a retry does not send it twice. `TextSteps` reduces the chat's steps to those of texts.
  A socket that is not open, or a message of a file that was lost, means that a connection
  was cut before (`CutsOK`).
- `EchoCorrect`: by `EchoInv`. The order of the placeholders is a strict one, what is shown as
  sending is exactly what stands in line on its way to the hub and back (`InLine`), and the
  line is in the order of the list, as long as nothing of what the property names
  happened; so the oldest one that is sending is the one that is echoed.

`Server_proofs`
- Nothing but `Accounts` and a crash moves what these are about (`ServerAccounts`).
- `AccountsTypeCorrect`: with what a call and a connection have at each place (`JobOK`,
  `LineOK`), and that a session is of an account that was registered.
- `TokensCorrect`: by `TokenInv`. A token is given once (`Issued`, `Secret`), and a call that
  ends one has taken it from memory before it takes it from disk (`Closing`), so no crash
  between the two brings back what was answered.
- `AccountsCorrect`: by `NameInv`. A call that has found its name free is the only one that
  asks for it, or the name is marked (`Distinct`); what it writes fits (`Fits`); a deletion under way has cleared
  the record, or somebody wrote over it (`Erasing`, `Cleared`).
- `PresenceCorrect`: by `PresenceInv`, which says of an account that is not marked where its
  one connection at work, or its one call, has got to, and what presence and status are by
  then (`AtWork`, `Here`, `Away`), and that otherwise they are settled (`Settled`).
- `RelationshipsCorrect`: by `FriendInv`. Of two users that are not marked, one call at most
  is about the other; while it reads it finds the two in order (`Reading`), and once it writes,
  what it has written and what it has still to write bring them in order again (`Writing`). If
  one has blocked the other, no call under way of either can lift that but the one's
  `unblock` and the other's `block` (`BarInv`).
- `ListsCorrect`: by `ListInv`. Either a client will still hear that something changed
  (`News`: a frame that waits for it, or a call that has written and not told), or the last
  list it asked for is unread, given up as late, or what the server has now (`LatestTrue`).
  What is lost gives up the lists that are still to come (`ListFinish`, `ListFails`).
  An unblock tells the caller alone, so it must write what the caller alone is shown
  (`UnblockOK`).

`Membership_proofs`, on top of `Server_proofs`
- `MembershipCorrect`: by `MembersInv`, of which each part is inductive with the ones before.
  - `MemberShape`: what a call has at each place. The tasks it is left with are of its
    operation (`TaskFits`) and in the order of the code (`OrderFits`): owner before member, the
    channel before its members when it is created, after them when it is deleted.
  - `RemovedInv`: who was removed has a record, and is active again only by a write that
    followed an older read.
  - A block that stands all the while is seen by the call that asks (`BlockStep`), by `BarInv`
    of `Friends`.
  - `DeletedInv`: in a channel that is not contested a deletion is the only call, and has a
    task for every member left; so none is left when the record goes.
  - `MakersInv`: an id belongs to one call that creates, and nothing is there before it.
  - `OneInv`: a conversation nobody else came into (`Sound`) has at most its two, since nobody in
    it has the rank to add a third but its creator, who loses it in a task that is still to
    come (`DmFits`); two calls that create for the same two are marked (`Mutual`); two who are in a conversation are in no other, and a call that found none for
    them is the only one that creates (`OnePair`, `OneNew`).

The inductive invariants were checked by TLC before they were proved.

Checked by TLC only: the invariants of `Channels`, and all liveness, that of
`TrackMirror` included. Liveness under fairness and ENABLED are out of the prover's reach, as is induction
over data; no module uses RECURSIVE.

## 5. Mutants

Each property of a passing run has a mutant of a definition it depends on, defined
just before it ("Mutant: ..."): a guard dropped, one of two maps not updated, a flag
not reset, the wrong end of a pair. TLC finds the property violated with the mutant.

## 6. Plan

Done: the modules of section 2 and the proofs of section 4.

Left, in this order:

1. Proofs: the invariants of `Channels`.
2. ICE candidates and the publish connection; an abstract ordered log that dispatch
   implements as long as no buffer is full.

## 7. Not modelled, and why

Federation is a stub in the code. Cryptography is library calls. TURN, network
discovery, metrics, configuration and logging are start-up and output. Files and
object storage are input and output. The middleware judges single requests. The UI
renders what the stores hold; the components that keep state across awaits are modelled
with the store they drive. The desktop's UDP client speaks to `VoiceRouter` and
keeps no protocol state beyond a socket. Of the HTTP API and the store what is left out
takes one transaction (photos, links, searches, the other fields of a profile) or is about
files. Who is told of a change of presence is left out.
