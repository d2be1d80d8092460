-------------------------------- MODULE Chat --------------------------------
(***************************************************************************)
(* The messages of one channel: the handlers of backend/internal/ws        *)
(* handlers.go, the hub's broadcast queue and dispatch (hub.go), and the   *)
(* list of messages a client shows (ChatArea.tsx, useMessages.ts).         *)
(*                                                                         *)
(* A device is a WebSocket connection of a user with the channel open. Its *)
(* reader handles one frame after the other; writing to the store and       *)
(* submitting to the queue are two steps of a handler. The client reads    *)
(* its frames in order, but shows a message or an edit only after it has   *)
(* been decrypted and cached, and replaces all it shows with the answer of *)
(* a request for the history, whenever that arrives. The channel's key is  *)
(* sent to a connection when it opens, and to a user who becomes a member. *)
(***************************************************************************)
EXTENDS Naturals, Sequences, FiniteSets, Functions

CONSTANTS User, Device, Message,
          Viewer,               \* the devices whose client is modelled
          OwnerOf,              \* device -> its user
          AuthorOf,             \* message -> the user who may send it
          MaxVersion,           \* bound: versions of a message
          QueueSize,            \* capacity of the hub's queue
          BufferSize,           \* capacity of a connection's send buffer
          Idle,                 \* a reader waits for a frame
          Unreadable,           \* shown for a version that could not be decrypted
          NoReply, Asked        \* no request for the history, one not answered

ASSUME ViewerAssumption  == Viewer \subseteq Device
ASSUME OwnerAssumption   == OwnerOf \in [Device -> User]
ASSUME AuthorAssumption  == AuthorOf \in [Message -> User]
ASSUME VersionAssumption == MaxVersion \in Nat \ {0}
ASSUME SizeAssumption    == QueueSize \in Nat \ {0} /\ BufferSize \in Nat \ {0}
ASSUME DeviceAssumption  == IsFiniteSet(Device)
ASSUME NothingAssumption == Unreadable \notin Nat
ASSUME ReplyAssumption   == NoReply # Asked /\ {NoReply, Asked} \cap [Message -> 0 .. MaxVersion] = {}

VARIABLES
  member,     \* the members of the channel
  stored,      \* message -> its stored version, 0 if there is none
  written,    \* message -> the versions made of it so far
  connected,  \* the viewers' connections that the hub has registered
  doing,      \* device -> what its reader is in the middle of
  queue,      \* hub.broadcast
  fan,        \* the envelope being dispatched and its receivers, if any
  buffer,      \* device -> frames buffered for it or under way to it
  keyDue,     \* devices whose channel keys are being written
  granting,   \* users who became members and have not been sent the key yet
  hasKey,     \* the devices that know the channel's key
  unkeyed,    \* devices for which a full buffer dropped the key (history)
  page,       \* device -> message -> the version shown, 0 if none
  opening,    \* device -> frames being decrypted and cached
  reply,      \* device -> the answer to its request for the history
  crossed,    \* messages two handlers had in hand at once (history)
  since,      \* device -> messages changed since its history was read (history)
  overtaken   \* device -> messages whose frames were overtaken or dropped (history)

world    == <<member, connected>>
keys     == <<keyDue, granting, hasKey, unkeyed>>
database == <<stored, written, crossed>>
hub      == <<queue, fan>>
client   == <<page, opening, reply, since, overtaken>>
chatVars == <<world, keys, database, doing, hub, buffer, client>>

Version  == 0 .. MaxVersion
History  == [Message -> Version]
Envelope == [kind : {"message", "update"}, msg : Message, version : Version \ {0}]
            \cup [kind : {"delete"}, msg : Message]
Key      == [kind |-> "key"]
\* A message or an edit in the client.
Frame    == [kind : {"message", "update"}, msg : Message, version : (Version \ {0}) \cup {Unreadable}]
Task     == [op : {"edit", "delete"}, msg : Message] \cup [op : {"submit"}, env : Envelope]

ASSUME IdleAssumption == Idle \notin Task

ChatTypeOK ==
  /\ member \in SUBSET User
  /\ stored \in History
  /\ written \in History
  /\ connected \in SUBSET Viewer
  /\ doing \in [Device -> Task \cup {Idle}]
  /\ queue \in Seq(Envelope) /\ Len(queue) <= QueueSize
  /\ fan \in SUBSET [env : Envelope, for : SUBSET User]
  /\ buffer \in [Viewer -> Seq(Envelope \cup {Key})]
  /\ \A d \in Viewer : Len(buffer[d]) <= BufferSize
  /\ keyDue \in SUBSET connected
  /\ granting \in SUBSET User
  /\ hasKey \in SUBSET Viewer /\ unkeyed \in SUBSET Viewer
  /\ page \in [Viewer -> [Message -> Version \cup {Unreadable}]]
  /\ opening \in [Viewer -> SUBSET Frame]
  /\ reply \in [Viewer -> History \cup {NoReply, Asked}]
  /\ crossed \in SUBSET Message
  /\ since \in [Viewer -> SUBSET Message]
  /\ overtaken \in [Viewer -> SUBSET Message]

Empty == [m \in Message |-> 0]

ChatInit ==
  /\ member \in SUBSET User
  /\ stored = Empty
  /\ written = Empty
  /\ connected = {}
  /\ doing = [d \in Device |-> Idle]
  /\ queue = <<>>
  /\ fan = {}
  /\ buffer = [d \in Viewer |-> <<>>]
  /\ keyDue = {} /\ granting = {}
  /\ hasKey = {} /\ unkeyed = {}
  /\ page = [d \in Viewer |-> Empty]
  /\ opening = [d \in Viewer |-> {}]
  /\ reply = [d \in Viewer |-> NoReply]
  /\ crossed = {}
  /\ since = [d \in Viewer |-> {}]
  /\ overtaken = [d \in Viewer |-> {}]

-----------------------------------------------------------------------------
(* Connections and membership. *)

\* Register, then write the keys of the user's channels.
Register(d) ==
  /\ d \notin connected
  /\ connected' = connected \cup {d}
  /\ keyDue' = keyDue \cup {d}
  /\ UNCHANGED <<member, granting, hasKey, unkeyed, database, doing, hub, buffer, client>>

\* The reader ends between two frames; what is buffered is lost.
Disconnect(d) ==
  /\ d \in connected
  /\ doing[d] = Idle
  /\ connected' = connected \ {d}
  /\ keyDue' = keyDue \ {d}
  /\ buffer' = [e \in Viewer |-> IF e = d THEN <<>> ELSE buffer[e]]
  /\ UNCHANGED <<member, granting, hasKey, unkeyed, database, doing, hub, client>>

AddMember(u) ==
  /\ u \notin member
  /\ member' = member \cup {u}
  /\ granting' = granting \cup {u}
  /\ UNCHANGED <<connected, keyDue, hasKey, unkeyed, database, doing, hub, buffer, client>>

-----------------------------------------------------------------------------
(* The handlers of one connection. *)

Does(d, op) == doing[d] # Idle /\ doing[d].op = op

Submitting(d, m) == Does(d, "submit") /\ doing[d].env.msg = m

\* Another handler has changed m and not yet submitted the change.
Contended(d, m) == \E e \in Device \ {d} : Submitting(e, m)

Submit(d, env) == doing' = [doing EXCEPT ![d] = [op |-> "submit", env |-> env]]

\* A device that is no viewer is always there, though it may stay idle. A viewer's
\* client does not edit without the key, and sends nothing that others could read.
Ready(d, op) ==
  /\ doing[d] = Idle
  /\ d \in Viewer => d \in connected /\ (op # "delete" => d \in hasKey)

\* Nobody else knows a message before it is saved: check and save are one step.
HandleChatMessage(d, m) ==
  /\ Ready(d, "send")
  /\ OwnerOf[d] = AuthorOf[m] /\ OwnerOf[d] \in member
  /\ written[m] = 0
  /\ stored' = [stored EXCEPT ![m] = 1]
  /\ written' = [written EXCEPT ![m] = 1]
  /\ Submit(d, [kind |-> "message", msg |-> m, version |-> 1])
  /\ UNCHANGED <<world, keys, crossed, hub, buffer, client>>

Editors(m) == {d \in Device : Does(d, "edit") /\ doing[d].msg = m}

\* A device may have learnt of any stored message, from the history if need be.
GetMessage(d, m, op) ==
  /\ Ready(d, op)
  /\ stored[m] # 0
  /\ OwnerOf[d] = AuthorOf[m]
  /\ op = "edit" => written[m] + Cardinality(Editors(m)) < MaxVersion
  /\ doing' = [doing EXCEPT ![d] = [op |-> op, msg |-> m]]
  /\ UNCHANGED <<world, keys, database, hub, buffer, client>>

\* The write does not look whether the message is still there.
UpdateMessage(d) ==
  /\ Does(d, "edit")
  /\ LET m == doing[d].msg
     IN  /\ written' = [written EXCEPT ![m] = @ + 1]
         /\ stored' = [stored EXCEPT ![m] = written'[m]]
         /\ crossed' = IF stored[m] = 0 \/ Contended(d, m) THEN crossed \cup {m} ELSE crossed
         /\ Submit(d, [kind |-> "update", msg |-> m, version |-> written'[m]])
  /\ UNCHANGED <<world, keys, hub, buffer, client>>

DeleteMessage(d) ==
  /\ Does(d, "delete")
  /\ LET m == doing[d].msg
     IN  /\ stored' = [stored EXCEPT ![m] = 0]
         /\ crossed' = IF Contended(d, m) THEN crossed \cup {m} ELSE crossed
         /\ Submit(d, [kind |-> "delete", msg |-> m])
  /\ UNCHANGED <<world, keys, written, hub, buffer, client>>

\* The reader waits while the queue is full.
Enqueue(d) ==
  /\ Does(d, "submit")
  /\ Len(queue) < QueueSize
  /\ queue' = Append(queue, doing[d].env)
  /\ doing' = [doing EXCEPT ![d] = Idle]
  /\ UNCHANGED <<world, keys, database, fan, buffer, client>>

-----------------------------------------------------------------------------
(* The hub's dispatch: one envelope at a time. *)

\* Mutant: a goroutine per envelope.
NextAny == DOMAIN queue

\* The places in the queue the next envelope to dispatch may come from.
NextOut == DOMAIN queue \cap {1}

GetChannelMembers ==
  /\ fan = {}
  /\ \E i \in NextOut :
       /\ fan' = {[env |-> queue[i], for |-> member]}
       /\ queue' = [j \in 1 .. Len(queue) - 1 |-> queue[IF j < i THEN j ELSE j + 1]]
  /\ UNCHANGED <<world, keys, database, doing, buffer, client>>

Answered(d) == reply[d] \notin {NoReply, Asked}

\* The messages of ms change after the history on its way to d was read.
Missed(d, ms) == IF Answered(d) THEN since[d] \cup ms ELSE since[d]

HasRoom(d) == Len(buffer[d]) < BufferSize

\* Past the queue, into the buffers of u's connections; a full one drops the key.
SendChannelKey(u) ==
  /\ u \in granting
  /\ granting' = granting \ {u}
  /\ LET to == {d \in connected : OwnerOf[d] = u}
     IN  /\ buffer' = [d \in Viewer |->
              IF d \in to /\ HasRoom(d) THEN Append(buffer[d], Key) ELSE buffer[d]]
         /\ unkeyed' = unkeyed \cup {d \in to : ~HasRoom(d)}
  /\ UNCHANGED <<world, keyDue, hasKey, database, doing, hub, client>>

\* A full buffer drops the envelope, for that connection only. The receivers are the
\* members of a moment ago.
Dispatch ==
  \E f \in fan :
    LET to   == {d \in connected : OwnerOf[d] \in f.for}
        full == {d \in to : ~HasRoom(d)}
    IN  /\ fan' = {}
        /\ buffer' = [d \in Viewer |->
             IF d \in to \ full THEN Append(buffer[d], f.env) ELSE buffer[d]]
        /\ since' = [d \in Viewer |->
             IF d \in full THEN Missed(d, {f.env.msg}) ELSE since[d]]
        /\ overtaken' = [d \in Viewer |->
             IF d \in full THEN overtaken[d] \cup {f.env.msg} ELSE overtaken[d]]
        /\ UNCHANGED <<world, keys, database, doing, queue, page, opening, reply>>

-----------------------------------------------------------------------------
(* The client. *)

BeingOpened(d) == {e.msg : e \in opening[d]}

Touch(d, m) == since' = [since EXCEPT ![d] = Missed(d, {m})]

\* With the key the device has when the frame arrives.
Decrypted(d, e) == IF d \in hasKey THEN e ELSE [e EXCEPT !.version = Unreadable]

\* A deletion is not decrypted: it is applied as it comes.
Receive(d) ==
  /\ buffer[d] # <<>> /\ Head(buffer[d]) # Key
  /\ buffer' = [buffer EXCEPT ![d] = Tail(@)]
  /\ LET e == Head(buffer[d])
     IN  /\ overtaken' = IF e.kind # "message" /\ e.msg \in BeingOpened(d)
                         THEN [overtaken EXCEPT ![d] = @ \cup {e.msg}] ELSE overtaken
         /\ IF e.kind = "delete"
            THEN /\ page' = [page EXCEPT ![d][e.msg] = 0]
                 /\ Touch(d, e.msg)
                 /\ UNCHANGED opening
            ELSE /\ opening' = [opening EXCEPT ![d] = @ \cup {Decrypted(d, e)}]
                 /\ UNCHANGED <<page, since>>
  /\ UNCHANGED <<world, keys, database, doing, hub, reply>>

\* What a device shows of e.msg once e is decrypted: a message is added if it is
\* not there, an edit replaces a message that is there.
Shown(d, e) ==
  IF (e.kind = "message") = (page[d][e.msg] = 0) THEN e.version ELSE page[d][e.msg]

\* addMessage or the message_update handler, after its awaits.
AddOpened(d, e) ==
  /\ opening' = [opening EXCEPT ![d] = @ \ {e}]
  /\ page' = [page EXCEPT ![d][e.msg] = Shown(d, e)]
  /\ Touch(d, e.msg)
  /\ UNCHANGED <<world, keys, database, doing, hub, buffer, reply, overtaken>>

\* Mutant: late keys do not invalidate the messages.
KeepReply(d) == reply[d]

\* A request under way is cancelled and made again.
Invalidated(d) == Asked

ReceiveKey(d) ==
  /\ hasKey' = hasKey \cup {d}
  /\ unkeyed' = unkeyed \ {d}
  /\ reply' = [reply EXCEPT ![d] = Invalidated(d)]
  /\ since' = [since EXCEPT ![d] = {}]
  /\ UNCHANGED <<world, granting, database, doing, hub, page, opening, overtaken>>

\* The keys a new connection is sent do not go through its buffer.
WriteChannelKeys(d) ==
  /\ d \in keyDue
  /\ keyDue' = keyDue \ {d}
  /\ UNCHANGED buffer
  /\ IF OwnerOf[d] \in member
     THEN ReceiveKey(d)
     ELSE UNCHANGED <<world, granting, hasKey, unkeyed, database, doing, hub, client>>

ReceiveGrantedKey(d) ==
  /\ buffer[d] # <<>> /\ Head(buffer[d]) = Key
  /\ buffer' = [buffer EXCEPT ![d] = Tail(@)]
  /\ UNCHANGED keyDue
  /\ ReceiveKey(d)

\* The window gets the focus: the history is asked for again.
Focus(d) ==
  /\ reply[d] = NoReply
  /\ reply' = [reply EXCEPT ![d] = Asked]
  /\ UNCHANGED <<world, keys, database, doing, hub, buffer, page, opening, since, overtaken>>

ListMessages(d) ==
  /\ reply[d] = Asked
  /\ OwnerOf[d] \in member
  /\ reply' = [reply EXCEPT ![d] = stored]
  /\ UNCHANGED <<world, keys, database, doing, hub, buffer, page, opening, since, overtaken>>

\* Whoever is not a member is refused.
ListRefused(d) ==
  /\ reply[d] = Asked
  /\ OwnerOf[d] \notin member
  /\ reply' = [reply EXCEPT ![d] = NoReply]
  /\ UNCHANGED <<world, keys, database, doing, hub, buffer, page, opening, since, overtaken>>

\* The answer is decrypted and replaces all that is shown.
ShowHistory(d) ==
  /\ Answered(d)
  /\ page' = [page EXCEPT ![d] =
       [m \in Message |-> IF reply[d][m] = 0 \/ d \in hasKey THEN reply[d][m] ELSE Unreadable]]
  /\ reply' = [reply EXCEPT ![d] = NoReply]
  /\ since' = [since EXCEPT ![d] = {}]
  /\ overtaken' = [overtaken EXCEPT
       ![d] = since[d] \cup BeingOpened(d) \cup (@ \cap {e.msg : e \in Range(buffer[d]) \ {Key}})]
  /\ UNCHANGED <<world, keys, database, doing, hub, buffer, opening>>

-----------------------------------------------------------------------------
Handle(d) ==
  \/ \E m \in Message : HandleChatMessage(d, m) \/ \E op \in {"edit", "delete"} : GetMessage(d, m, op)
  \/ UpdateMessage(d) \/ DeleteMessage(d) \/ Enqueue(d)

Show(d) ==
  \/ Receive(d) \/ WriteChannelKeys(d) \/ ReceiveGrantedKey(d)
  \/ \E e \in opening[d] : AddOpened(d, e)
  \/ Focus(d) \/ ListMessages(d) \/ ListRefused(d) \/ ShowHistory(d)

ChatNext ==
  \/ GetChannelMembers \/ Dispatch
  \/ \E u \in User : AddMember(u) \/ SendChannelKey(u)
  \/ \E d \in Device : Handle(d)
  \/ \E d \in Viewer : Register(d) \/ Disconnect(d) \/ Show(d)

ChatSpec == ChatInit /\ [][ChatNext]_chatVars

-----------------------------------------------------------------------------
(* Safety. *)

\* The place of an envelope in the life of its message.
Rank(e) == IF e.kind = "delete" THEN MaxVersion + 1 ELSE e.version

\* What is on its way to device d, oldest first.
Stream(d) == buffer[d] \o (IF fan = {} THEN <<>> ELSE <<(CHOOSE f \in fan : TRUE).env>>) \o queue

\* A client observes a message, its edits and its deletion in the order they were
\* made: an edit never overtakes its message on the way (hub.run, the synchronous
\* submission in handleChatMessage), unless two devices of its author had the
\* message in hand at once.
StreamInOrder ==
  \A d \in Viewer : LET s == Stream(d)  envelopes == {i \in DOMAIN s : s[i] # Key} IN
    /\ \A i, j \in envelopes :
         i < j /\ s[i].msg = s[j].msg /\ s[i].msg \notin crossed => Rank(s[i]) <= Rank(s[j])
    /\ \A e \in Device, i \in envelopes :
         Submitting(e, s[i].msg) /\ s[i].msg \notin crossed => Rank(s[i]) <= Rank(doing[e].env)

\* Nothing that concerns device d is under way.
Settled(d) ==
  /\ Stream(d) = <<>> /\ \A e \in Device : ~Does(e, "submit")
  /\ d \in connected \ keyDue /\ OwnerOf[d] \notin granting
  /\ opening[d] = {} /\ reply[d] = NoReply

\* A member's client knows the key, and shows just what is stored, decrypted, once
\* nothing is under way: whenever it became a member, disconnected or asked for the
\* history. The exceptions are a key dropped at a full buffer, messages two handlers
\* had in hand at once, frames dropped at a full buffer, and frames overtaken in the
\* client by a later frame or by an older history.
SettledPagesAreTrue ==
  \A d \in Viewer : Settled(d) /\ OwnerOf[d] \in member =>
    \/ d \in unkeyed
    \/ /\ d \in hasKey
       /\ \A m \in Message \ (crossed \cup overtaken[d]) : page[d][m] = stored[m]
=============================================================================
