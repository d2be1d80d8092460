------------------------------- MODULE Friends -------------------------------
(***************************************************************************)
(* Friends, requests and blocks: relationships.go and the relationships of *)
(* store.go on the server, and the two lists every client has of them      *)
(* (auth.slice.ts, with the buttons of FriendsTab.tsx and                  *)
(* UserProfileModal.tsx).                                                  *)
(*                                                                         *)
(* What a call of the server does to the store it does in one transaction  *)
(* per record, between which the calls of others run; a call reads what it *)
(* needs and then makes its writes, one after the other. A user makes one  *)
(* call at a time: that he can press the button of a search result twice   *)
(* (FriendsTab.tsx:273) or call from two devices at once is left out.      *)
(*                                                                         *)
(* A client asks for its lists when a call is answered and when it is told *)
(* of a change. Nothing orders the answers. A frame is lost with the       *)
(* connection or at a full buffer. The answer to a call may be lost, and   *)
(* then the lists are not asked for; the answer to a request for a list    *)
(* may be lost, and then the old one stays.                                *)
(***************************************************************************)
EXTENDS Naturals, FiniteSets, Sequences, SequencesExt

CONSTANTS User,
          Client,     \* users whose client is followed; the others see what the server has
          Acquainted, \* the two users who make friends
          MaxCalls,   \* bound: calls
          MaxAsked,   \* bound: requests for one list under way in one client
          MaxCuts,    \* bound: connections, frames and answers lost
          None        \* no call

ASSUME FriendsAssumption == Client \cup Acquainted \subseteq User /\ {MaxCalls, MaxAsked, MaxCuts} \subseteq Nat

VARIABLES
  rel,       \* <<from, to>> -> the record rel:from:to, "none" without one
  inbox,     \* the records reli:to:from, as <<to, from>>
  askable,   \* users who take friend requests
  calls,     \* user -> its call, or None
  online,    \* clients with a connection
  told,      \* client -> relationship_update frames under way
  shown,     \* client -> list -> what it has
  asked,     \* client -> list -> its requests and answers under way, in the order of asking
  called, cuts,
  blemished, \* {a, b}: calls overlapped or were made from an old list (history)
  barred,    \* <<a, b>>: a blocked b, and neither took it back since (history)
  crossed    \* <<user, list>>: it may be old, a frame, an answer or the order of answers is lost (history)

store   == <<rel, inbox, askable>>
client  == <<online, told, shown, asked>>
history == <<blemished, barred, crossed>>
friendVars == <<store, calls, client, called, cuts, history>>

Type   == {"none", "requested", "friend", "blocked"}
List   == {"relationships", "incoming"}
Action == {"request", "accept", "decline", "cancel", "remove", "block", "unblock"}
Pair   == {p \in User \X User : p[1] # p[2]}

Others(u) == User \ {u}

Write0 == [record : {"rel", "inbox"}, key : Pair, type : Type]

CallRecord == [action : Action, to : User, at : {"blocked", "mine", "theirs", "pending", "writing"},
               todo : Seq(Write0)]

ASSUME CallAssumption == None \notin CallRecord

\* What the server answers: relationships of u by type, or its incoming requests.
ListOf(u, list) == IF list = "relationships" THEN [v \in Others(u) |-> rel[<<u, v>>]]
                                             ELSE {v \in Others(u) : <<u, v>> \in inbox}

\* A list before it is loaded.
Unloaded(u, list) == IF list = "relationships" THEN [v \in Others(u) |-> "none"] ELSE {}

\* A write of one record.
Rel(a, b, type) == [record |-> "rel", key |-> <<a, b>>, type |-> type]
InInbox(to, from)  == [record |-> "inbox", key |-> <<to, from>>, type |-> "requested"]
\* Mutant: the record of the other direction.
FromInbox(to, from) == [record |-> "inbox", key |-> <<from, to>>, type |-> "none"]

OffInbox(to, from) == [record |-> "inbox", key |-> <<to, from>>, type |-> "none"]

Lists(u) == [relationships : {[v \in Others(u) |-> t[v]] : t \in [Others(u) -> Type]},
             incoming : SUBSET Others(u)]

FriendsTypeOK ==
  /\ rel \in [Pair -> Type] /\ inbox \subseteq Pair /\ askable \subseteq User
  /\ \A u \in User : calls[u] # None => calls[u] \in CallRecord /\ calls[u].to # u
  /\ online \subseteq Client /\ told \in [Client -> Nat]
  /\ \A u \in Client : shown[u] \in Lists(u) /\ \A l \in List : Len(asked[u][l]) <= MaxAsked
  /\ called \in 0 .. MaxCalls /\ cuts \in 0 .. MaxCuts
  /\ barred \subseteq Pair /\ crossed \subseteq Client \X List

FriendsInit ==
  /\ rel = [p \in Pair |-> "none"] /\ inbox = {} /\ askable \in SUBSET User
  /\ calls = [u \in User |-> None]
  /\ online = Client /\ told = [u \in Client |-> 0]
  /\ shown = [u \in Client |-> [l \in List |-> Unloaded(u, l)]]
  /\ asked = [u \in Client |-> [l \in List |-> <<>>]]
  /\ called = 0 /\ cuts = 0
  /\ blemished = {} /\ barred = {} /\ crossed = {}

-----------------------------------------------------------------------------
(* What a call writes *)

Writes(action, a, b) ==
  CASE action = "request" -> <<Rel(a, b, "requested"), InInbox(b, a)>>
    [] action = "accept"  -> <<Rel(b, a, "friend"), Rel(a, b, "friend"), OffInbox(a, b)>>
    [] action = "decline" -> <<Rel(b, a, "none"), OffInbox(a, b)>>
    [] action = "cancel"  -> <<Rel(a, b, "none"), OffInbox(b, a)>>
    [] action = "remove"  -> <<Rel(a, b, "none"), Rel(b, a, "none")>>
    [] action = "block"   -> <<Rel(b, a, "none"), OffInbox(a, b), OffInbox(b, a),
                               Rel(a, b, "blocked")>>
    [] action = "unblock" -> <<Rel(a, b, "none")>>

\* Where a call begins.
Entry(action) == CASE action = "request" -> "blocked"
                   [] action = "accept"  -> "pending"
                   [] action = "unblock" -> "mine"
                   [] OTHER              -> "writing"
-----------------------------------------------------------------------------
(* What the properties leave out (history) *)

\* Two users are friends on both sides or on neither, a request is in the inbox of the
\* other, and who asks or blocks has nothing from the other.
Agree(a, b) ==
  /\ rel[<<a, b>>] = "friend" <=> rel[<<b, a>>] = "friend"
  /\ rel[<<a, b>>] = "requested" <=> <<b, a>> \in inbox
  /\ rel[<<a, b>>] \in {"requested", "blocked"} => rel[<<b, a>>] = "none"

About(a, b) == calls[a] # None /\ calls[a].to = b

Rests(p) == \A a \in p : \A b \in p \ {a} : ~About(a, b)

InOrder(p) == \A a \in p : \A b \in p \ {a} : Agree(a, b)

\* What u sees of v: the relationship, and whether v waits for an answer.
Seen(u, v) == IF u \in Client THEN <<shown[u].relationships[v], v \in shown[u].incoming>>
                               ELSE <<rel[<<u, v>>], <<u, v>> \in inbox>>

Outdated(u, v) == Seen(u, v) # <<rel[<<u, v>>], <<u, v>> \in inbox>>

\* A list may be old when a frame about it is lost, and whatever answers are under way
\* may be so too.
Late(s) == [i \in DOMAIN s |-> [s[i] EXCEPT !.late = TRUE]]

\* The answers among them. All of them are late then, so their order makes no difference.
Answers(s) ==
  LET given == SetToSeq({i \in DOMAIN s : s[i].read}) IN [n \in DOMAIN given |-> s[given[n]]]

-----------------------------------------------------------------------------
(* Calls on the server *)

\* The call of u goes on.
Goes(u, at, todo) ==
  /\ calls' = [calls EXCEPT ![u] = [@ EXCEPT !.at = at, !.todo = todo]]
  /\ UNCHANGED <<blemished, barred>>

\* It is over. A pair that agrees again has made good what troubled it.
Ends(u) ==
  LET v == calls[u].to IN
    /\ calls' = [calls EXCEPT ![u] = None]
    /\ blemished' = IF ~About(v, u) /\ InOrder({u, v}) THEN blemished \ {{u, v}} ELSE blemished

\* The next read or the writes, if the check holds. If not, the client shows an error.
Check(u, holds, at, todo) ==
  /\ IF holds THEN Goes(u, at, todo) ELSE Ends(u) /\ UNCHANGED barred
  /\ UNCHANGED <<store, client, called, cuts, crossed>>

At(u, at) == calls[u] # None /\ calls[u].at = at

\* FriendRequestPermission, which does not change here, and IsBlocked
CheckBlocked(u) ==
  LET v == calls[u].to IN
    /\ At(u, "blocked")
    /\ Check(u, v \in askable /\ rel[<<v, u>>] # "blocked", "mine", <<>>)

\* What u has with the other already.
CheckMine(u) ==
  LET v == calls[u].to  type == rel[<<u, v>>] IN
    /\ At(u, "mine")
    /\ IF calls[u].action = "unblock"
       THEN Check(u, type = "blocked", "writing", Writes("unblock", u, v))
       ELSE Check(u, type = "none", "theirs", <<>>)

\* A request that meets one from the other side accepts it.
CheckTheirs(u) ==
  LET v == calls[u].to IN
    /\ At(u, "theirs")
    /\ IF rel[<<v, u>>] = "requested"
       THEN Check(u, TRUE, "pending", <<>>)
       ELSE Check(u, TRUE, "writing", Writes("request", u, v))

CheckPending(u) ==
  LET v == calls[u].to IN
    /\ At(u, "pending")
    /\ Check(u, rel[<<v, u>>] = "requested", "writing", Writes("accept", u, v))

Write(u) ==
  /\ At(u, "writing") /\ calls[u].todo # <<>>
  /\ LET w == Head(calls[u].todo) IN
       IF w.record = "rel"
       THEN rel' = [rel EXCEPT ![w.key] = w.type] /\ UNCHANGED inbox
       ELSE /\ inbox' = IF w.type = "none" THEN inbox \ {w.key} ELSE inbox \cup {w.key}
            /\ UNCHANGED rel
  /\ Goes(u, "writing", Tail(calls[u].todo))
  /\ UNCHANGED <<askable, client, called, cuts, crossed>>

-----------------------------------------------------------------------------
(* Lists *)

Request(u, list) == [read |-> FALSE, late |-> FALSE, list |-> Unloaded(u, list)]

\* fetchRelationships and fetchIncomingRequests, after what is under way is as given.
Ask(u, before) ==
  IF u \in Client
  THEN /\ \A l \in List : Len(asked[u][l]) < MaxAsked
       /\ asked' = [before EXCEPT ![u] = [l \in List |-> Append(@[l], Request(u, l))]]
  ELSE asked' = before

\* Mutant: the one whose request was declined or cancelled is not told.
ToldOfNews(u) ==
  CASE calls[u].action \in {"request", "block"} -> {calls[u].to}
    [] calls[u].action \in {"accept", "remove"} -> {calls[u].to, u}
    [] OTHER -> {}

\* Who is told of the call of u.
Told(u) ==
  CASE calls[u].action \in {"request", "decline", "cancel", "block"} -> {calls[u].to}
    [] calls[u].action \in {"accept", "remove"} -> {calls[u].to, u}
    [] calls[u].action = "unblock" -> {}

\* The frames are sent, but for those whose buffer is full, and the call is answered. If
\* the answer is lost the client shows an error and asks for nothing.
Finish(u, full, answered) ==
  LET heard   == Told(u) \cap (online \ full)
      affects == Told(u) \cup (IF answered THEN {} ELSE {u})
      missing == (affects \cap Client) \ heard
      before  == [v \in Client |-> IF v \in missing THEN [l \in List |-> Late(asked[v][l])]
                                                   ELSE asked[v]] IN
    /\ At(u, "writing") /\ calls[u].todo = <<>>
    /\ full \subseteq Told(u) /\ (answered \/ u \in Client)
    /\ IF full = {} /\ answered THEN UNCHANGED cuts ELSE cuts < MaxCuts /\ cuts' = cuts + 1
    /\ told' = [v \in Client |-> IF v \in heard THEN told[v] + 1 ELSE told[v]]
    /\ crossed' = crossed \cup (missing \X List)
    /\ IF answered THEN Ask(u, before) ELSE asked' = before
    /\ Ends(u)
    /\ barred' = IF calls[u].action = "block" /\ {u, calls[u].to} \notin blemished
                 THEN barred \cup {<<u, calls[u].to>>} ELSE barred
    /\ UNCHANGED <<store, online, shown, called>>

\* onWS('relationship_update')
HandleUpdate(u) ==
  /\ told[u] > 0 /\ told' = [told EXCEPT ![u] = @ - 1]
  /\ Ask(u, asked)
  /\ UNCHANGED <<store, calls, online, shown, called, cuts, history>>

ReadList(u, l, i) ==
  /\ ~asked[u][l][i].read
  /\ asked' = [asked EXCEPT ![u][l][i] = [@ EXCEPT !.read = TRUE, !.list = ListOf(u, l)]]
  /\ UNCHANGED <<store, calls, online, told, shown, called, cuts, history>>

\* Whatever arrives is shown. What was asked for before and is still under way is late.
Arrive(u, l, i) ==
  LET s == asked[u][l] IN
    /\ s[i].read
    /\ shown' = [shown EXCEPT ![u][l] = s[i].list]
    /\ asked' = [asked EXCEPT ![u][l] = Late(SubSeq(s, 1, i - 1)) \o SubSeq(s, i + 1, Len(s))]
    /\ crossed' = IF s[i].late THEN crossed \cup {<<u, l>>} ELSE crossed \ {<<u, l>>}
    /\ UNCHANGED <<store, calls, online, told, called, cuts, blemished, barred>>

\* The request or its answer is lost. If there is none after it, nothing will make good
\* for it.
FetchFails(u, l, i) ==
  LET s == asked[u][l]  last == i = Len(s) IN
    /\ cuts < MaxCuts /\ cuts' = cuts + 1
    /\ asked' = [asked EXCEPT ![u][l] = IF last THEN Late(Front(s)) ELSE RemoveAt(s, i)]
    /\ crossed' = IF last THEN crossed \cup {<<u, l>>} ELSE crossed
    /\ UNCHANGED <<store, calls, online, told, shown, called, blemished, barred>>

-----------------------------------------------------------------------------
(* The user *)

\* The buttons that the lists of u offer for v. A request can be sent to any name.
Offered(u, v) ==
  LET type == Seen(u, v)[1]  waits == Seen(u, v)[2] IN
    {a \in Action :
       CASE a = "remove"  -> type = "friend"
         [] a = "cancel"  -> type = "requested"
         [] a = "unblock" -> type = "blocked"
         [] a = "block"   -> type # "blocked"
         [] a = "request" -> TRUE
         [] a \in {"accept", "decline"} -> waits}

\* Two calls at once, or a click on an old list, may leave two users out of order.
Click(u, v, action) ==
  LET writes == Entry(action) = "writing" IN
    /\ calls[u] = None /\ {u, v} \subseteq Acquainted /\ action \in Offered(u, v)
    /\ called < MaxCalls /\ called' = called + 1
    /\ calls' = [calls EXCEPT ![u] =
         [action |-> action, to |-> v, at |-> Entry(action),
          todo |-> IF writes THEN Writes(action, u, v) ELSE <<>>]]
    /\ blemished' = IF About(v, u) \/ Outdated(u, v) THEN blemished \cup {{u, v}} ELSE blemished
    /\ barred' = {p \in barred : /\ {p[1], p[2]} \notin blemished'
                                 /\ p # <<u, v>> \/ action # "unblock"
                                 /\ p # <<v, u>> \/ action # "block"}
    /\ UNCHANGED <<store, client, cuts, crossed>>

Connect(u) ==
  /\ u \notin online /\ online' = online \cup {u}
  /\ UNCHANGED <<store, calls, told, shown, asked, called, cuts, history>>

Disconnect(u) ==
  /\ u \in online /\ cuts < MaxCuts /\ cuts' = cuts + 1
  /\ online' = online \ {u} /\ told' = [told EXCEPT ![u] = 0]
  /\ IF told[u] > 0
     THEN /\ crossed' = crossed \cup ({u} \X List)
          /\ asked' = [asked EXCEPT ![u] = [l \in List |-> Late(@[l])]]
     ELSE UNCHANGED <<crossed, asked>>
  /\ UNCHANGED <<store, calls, shown, called, blemished, barred>>

\* initAuth, when the page is opened again: the lists are not kept.
Reload(u) ==
  /\ calls[u] = None /\ cuts < MaxCuts /\ cuts' = cuts + 1
  /\ online' = online \cup {u} /\ told' = [told EXCEPT ![u] = 0]
  /\ shown' = [shown EXCEPT ![u] = [l \in List |-> Unloaded(u, l)]]
  /\ asked' = [asked EXCEPT ![u] = [l \in List |-> <<Request(u, l)>>]]
  /\ UNCHANGED <<store, calls, called, history>>

-----------------------------------------------------------------------------
FriendsCall == \E u \in User : \E v \in Others(u), action \in Action : Click(u, v, action)

FriendsWork ==
  \E u \in User :
    \/ CheckBlocked(u) \/ CheckMine(u) \/ CheckTheirs(u) \/ CheckPending(u)
    \/ Write(u)
    \/ \E full \in SUBSET online, answered \in BOOLEAN : Finish(u, full, answered)
    \/ /\ u \in Client
       /\ \/ HandleUpdate(u) \/ Connect(u) \/ Disconnect(u) \/ Reload(u)
          \/ \E l \in List : \E i \in DOMAIN asked[u][l] :
               ReadList(u, l, i) \/ Arrive(u, l, i) \/ FetchFails(u, l, i)

-----------------------------------------------------------------------------
(* Properties *)

\* When no call is about them, two users agree on what they are to each other, unless
\* two calls met or one was made from an old list: a decline or a cancel deletes what
\* has become a friendship meanwhile, on one side.
FriendsAgree ==
  \A u \in User : \A v \in Others(u) :
    Rests({u, v}) => Agree(u, v) \/ {u, v} \in blemished

\* A block stands until it is lifted, unless the other blocks as well.
BlocksStand == \A p \in barred : rel[p] = "blocked"

\* When nothing is under way a client shows what the server has, unless it missed a frame
\* or an answer, or an older answer came last.
FriendListsAreTrue ==
  \A u \in Client, l \in List :
    calls = [v \in User |-> None] /\ told[u] = 0 /\ asked[u][l] = <<>> =>
      shown[u][l] = ListOf(u, l) \/ <<u, l>> \in crossed
=============================================================================
