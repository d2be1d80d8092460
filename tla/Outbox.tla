------------------------------- MODULE Outbox -------------------------------
(***************************************************************************)
(* Texts on their way out of one client: handleSend and sendTextGuarded of *)
(* ChatInputArea.tsx, the placeholders of pendingMessages.ts, the echo in  *)
(* ChatArea.tsx and retryFailedMessages of ws.manager.ts. A text that is   *)
(* sent with files waits for the batch that Composer has for them.         *)
(*                                                                         *)
(* A placeholder stands in the list of messages until the server echoes a  *)
(* message of this user; an echo does not say of which placeholder. A list *)
(* is the set of its placeholders here, with the order they stand in. A    *)
(* text has one at most, in the channel it was sent in. Sealing            *)
(* (encryption) is asynchronous; two texts may overtake each other in it.  *)
(*                                                                         *)
(* The connection is external: frames are handled in order and echoed to   *)
(* every connection of the user that has room, a connection may die        *)
(* without notice, and what is under way when it ends is lost. Other tabs  *)
(* and devices of the user, and files sent from here, are echoed as well.  *)
(***************************************************************************)
EXTENDS Composer

CONSTANTS Text,        \* what one click sends; the same words sent by another are another text
          MaxTries,    \* bound: times one text is sent
          MaxForeign,  \* bound: messages of this user that have no placeholder here
          MaxCuts,     \* bound: connections lost
          Nothing      \* no channel; the text of a message from elsewhere

ASSUME TextBoundAssumption == MaxTries \in Nat /\ MaxForeign \in Nat /\ MaxCuts \in Nat
ASSUME NothingAssumption == Nothing \notin Channel \cup Text

VARIABLES
  carried,   \* batch -> the text sent with it, once its files are done
  typed,     \* text -> the channel it was sent in, or Nothing
  status,    \* text -> what its placeholder shows, "none" without one
  newer,     \* pairs of placeholders of one list: the first stands above the second
  socket,    \* "open", "dead" (not noticed yet) or "closed"
  sealing,   \* texts being encrypted
  out,       \* frames under way to the server, in order
  stored,    \* text -> how often the server stored it
  echoes,    \* echoes under way to this client, in order
  tries,     \* text -> how often it was sent
  foreign, cuts,
  disturbed, \* an echo could go astray (history)
  mistaken,  \* texts whose placeholder another message took (history)
  wiped,     \* texts whose placeholder was replaced by the history (history)
  doubtful   \* texts given up while under way or after they were stored (history)

draft  == <<carried, typed>>
wire   == <<sealing, out, stored, echoes>>
bounds == <<tries, foreign, cuts>>
textHistory == <<disturbed, mistaken, wiped, doubtful>>
pages == <<status, newer>>
textVars == <<draft, pages, socket, wire, bounds, textHistory>>

\* The placeholders in the list of a channel.
Shows(ch) == {t \in Text : status[t] # "none" /\ typed[t] = ch}

CarriedOK == DOMAIN carried \subseteq DOMAIN batches /\ carried \in [DOMAIN carried -> Text]

MarksOK ==
  /\ typed \in [Text -> Channel \cup {Nothing}]
  /\ status \in [Text -> {"none", "sending", "failed"}]
  /\ newer \subseteq Text \X Text
  /\ \A p \in newer : "none" \notin {status[p[1]], status[p[2]]} /\ typed[p[1]] = typed[p[2]]

WireOK ==
  /\ socket \in {"open", "dead", "closed"}
  /\ sealing \subseteq Text
  /\ out \in Seq(Text)
  /\ stored \in [Text -> Nat]
  /\ echoes \in Seq([ch : Channel, text : Text \cup {Nothing}])

TextBoundsOK ==
  /\ tries \in [Text -> 0 .. MaxTries]
  /\ foreign \in 0 .. MaxForeign /\ cuts \in 0 .. MaxCuts
  /\ disturbed \in BOOLEAN
  /\ mistaken \cup wiped \cup doubtful \subseteq Text

TextsTypeOK == CarriedOK /\ MarksOK /\ WireOK /\ TextBoundsOK

TextsInit ==
  /\ carried = <<>>
  /\ typed = [t \in Text |-> Nothing]
  /\ status = [t \in Text |-> "none"] /\ newer = {}
  /\ socket = "open"
  /\ sealing = {} /\ out = <<>> /\ stored = [t \in Text |-> 0] /\ echoes = <<>>
  /\ tries = [t \in Text |-> 0] /\ foreign = 0 /\ cuts = 0
  /\ disturbed = FALSE /\ mistaken = {} /\ wiped = {} /\ doubtful = {}

OnItsWay(t) == t \in sealing \cup Range(out)

-----------------------------------------------------------------------------
(* Sending *)

\* wsState is "connected" until the connection is known to be lost.
Connected == socket # "closed"

\* Mutant: nothing is shown for a text typed while offline.
OnlyOnline(t) == IF Connected THEN "sending" ELSE "none"

\* addPendingMessage and, when offline, markPendingFailed
Added(t) == IF Connected THEN "sending" ELSE "failed"

\* sendTextGuarded: the placeholder is put on top of its list, where an earlier one of
\* the text is gone.
SendTextGuarded(t, ch) ==
  /\ status' = [status EXCEPT ![t] = Added(t)]
  /\ newer' = {p \in newer : t \notin {p[1], p[2]}} \cup ({t} \X (Shows(ch) \ {t}))
  /\ IF Connected
     THEN /\ tries[t] < MaxTries
          /\ tries' = [tries EXCEPT ![t] = @ + 1]
          /\ sealing' = sealing \cup {t}
     ELSE UNCHANGED <<tries, sealing>>

\* handleSend without files; with some, the text waits for their batch, and stays in the
\* input until then,
Type(t) ==
  /\ MaySend /\ Waiting = {}
  /\ typed[t] = Nothing /\ t \notin Range(carried)
  /\ typed' = [typed EXCEPT ![t] = shown]
  /\ SendTextGuarded(t, shown)
  /\ UNCHANGED <<carried, socket, out, stored, echoes, foreign, cuts, textHistory>>

Carry(n, t) ==
  /\ typed[t] = Nothing /\ t \notin Range(carried)
  /\ carried' = [m \in DOMAIN carried \cup {n} |-> IF m = n THEN t ELSE carried[m]]
  /\ UNCHANGED <<typed, pages, socket, wire, bounds, textHistory>>

\* and is sent where the batch was.
Release(n) ==
  LET t == carried[n]  ch == batches[n].ch IN
    /\ carried' = [m \in DOMAIN carried \ {n} |-> carried[m]]
    /\ typed' = [typed EXCEPT ![t] = ch]
    /\ SendTextGuarded(t, ch)
    /\ UNCHANGED <<socket, out, stored, echoes, foreign, cuts, textHistory>>

\* What a step of the files does to the texts: a batch may begin with one.
WithFiles ==
  LET begins == DOMAIN batches' \ DOMAIN batches
      ends   == DOMAIN batches \ DOMAIN batches' IN
    \/ ends \cap DOMAIN carried = {} /\ UNCHANGED textVars
    \/ \E n \in begins, t \in Text : Carry(n, t)
    \/ \E n \in ends \cap DOMAIN carried : Release(n)

\* A sealed text is sent, in vain if the socket is not open.
Seal(t) ==
  /\ t \in sealing /\ sealing' = sealing \ {t}
  /\ out' = IF socket = "open" THEN Append(out, t) ELSE out
  /\ disturbed' = (disturbed \/ socket # "open" \/ sealing # {t})
  /\ UNCHANGED <<draft, pages, socket, stored, echoes, bounds, mistaken, wiped, doubtful>>

\* Ten seconds after it was sent, which is longer than sealing takes.
SendTimeout(t) ==
  LET tardy == t \in Range(out) \/ stored[t] > 0 IN
    /\ status[t] = "sending" /\ t \notin sealing
    /\ status' = [status EXCEPT ![t] = "failed"]
    /\ disturbed' = (disturbed \/ tardy)
    /\ doubtful' = IF tardy THEN doubtful \cup {t} ELSE doubtful
    /\ UNCHANGED <<draft, newer, socket, wire, bounds, mistaken, wiped>>

\* The retry button of a placeholder.
Retry(t) ==
  /\ status[t] = "failed" /\ typed[t] = shown
  /\ SendTextGuarded(t, shown)
  /\ UNCHANGED <<draft, socket, out, stored, echoes, foreign, cuts, textHistory>>

-----------------------------------------------------------------------------
(* The connection and the server *)

Die ==
  /\ socket = "open" /\ cuts < MaxCuts
  /\ socket' = "dead" /\ cuts' = cuts + 1
  /\ out' = <<>> /\ echoes' = <<>> /\ disturbed' = TRUE
  /\ UNCHANGED <<draft, pages, sealing, stored, tries, foreign, mistaken, wiped, doubtful>>

OnClose ==
  /\ socket # "closed"
  /\ cuts' = IF socket = "open" THEN cuts + 1 ELSE cuts
  /\ cuts' <= MaxCuts
  /\ socket' = "closed"
  /\ out' = <<>> /\ echoes' = <<>>
  /\ disturbed' = (disturbed \/ out # <<>> \/ echoes # <<>>)
  /\ UNCHANGED <<draft, pages, sealing, stored, tries, foreign, mistaken, wiped, doubtful>>

\* Mutant: what is still being sent is sent again as well.
AllPending == {t \in Text : status[t] # "none"}

\* What retryFailedMessages sends again.
FailedTexts == {t \in Text : status[t] = "failed"}

\* It goes from the newest to the oldest and puts each on top of its list.
Retried(ts) ==
  {p \in Text \X Text : IF p[2] \in ts THEN p[1] \in ts /\ <<p[2], p[1]>> \in newer
                        ELSE IF p[1] \in ts THEN p[2] \in Shows(typed[p[1]])
                        ELSE p \in newer}

OnOpen ==
  /\ socket = "closed" /\ socket' = "open"
  /\ \A t \in FailedTexts : tries[t] < MaxTries
  /\ tries' = [t \in Text |-> IF t \in FailedTexts THEN tries[t] + 1 ELSE tries[t]]
  /\ sealing' = sealing \cup FailedTexts
  /\ status' = [t \in Text |-> IF t \in FailedTexts THEN "sending" ELSE status[t]]
  /\ newer' = Retried(FailedTexts)
  /\ UNCHANGED <<draft, out, stored, echoes, foreign, cuts, textHistory>>

\* The server stores a text and echoes it, unless the connection's buffer is full; or it
\* refuses it (no active member, blocked, not stored) and says nothing.
HandleChatMessage ==
  /\ out # <<>> /\ out' = Tail(out)
  /\ LET t == Head(out) IN
       \/ /\ stored' = [stored EXCEPT ![t] = @ + 1]
          /\ echoes' = Append(echoes, [ch |-> typed[t], text |-> t])
          /\ UNCHANGED disturbed
       \/ /\ stored' = [stored EXCEPT ![t] = @ + 1]
          /\ disturbed' = TRUE
          /\ UNCHANGED echoes
       \/ disturbed' = TRUE /\ UNCHANGED <<stored, echoes>>
  /\ UNCHANGED <<draft, pages, socket, sealing, bounds, mistaken, wiped, doubtful>>

\* A message of the same user, not from a placeholder of this client.
SentElsewhere(ch) ==
  /\ foreign < MaxForeign /\ foreign' = foreign + 1
  /\ socket = "open"
  /\ echoes' = Append(echoes, [ch |-> ch, text |-> Nothing])
  /\ disturbed' = TRUE
  /\ UNCHANGED <<draft, pages, socket, sealing, out, stored, tries, cuts,
                 mistaken, wiped, doubtful>>

-----------------------------------------------------------------------------
(* The list of messages *)

Sending(ch) == {t \in Shows(ch) : status[t] = "sending"}

\* Mutant: the first one found, as it used to be.
NewestPending(ch) == {t \in Sending(ch) : \A u \in Sending(ch) \ {t} : <<t, u>> \in newer}

\* resolveOldestPending takes the last one of the list.
OldestPending(ch) == {t \in Sending(ch) : \A u \in Sending(ch) \ {t} : <<u, t>> \in newer}

\* These placeholders are taken from their lists.
Taken(ts) ==
  /\ status' = [t \in Text |-> IF t \in ts THEN "none" ELSE status[t]]
  /\ newer' = {p \in newer : p[1] \notin ts /\ p[2] \notin ts}

\* An echo in the channel that is shown takes the place of a placeholder; the list of
\* another channel is left alone.
OnMessage ==
  LET e   == Head(echoes)
      old == IF e.ch = shown THEN OldestPending(shown) ELSE {} IN
    /\ echoes # <<>> /\ echoes' = Tail(echoes)
    /\ Taken(old)
    /\ mistaken' = mistaken \cup (old \ {e.text})
    /\ disturbed' = (disturbed \/ e.ch # shown)
    /\ UNCHANGED <<draft, socket, sealing, out, stored, bounds, wiped, doubtful>>

\* The answer to a request for the history, made when the channel was opened, the
\* window was focused or the key arrived, replaces the list.
Refetch(ch) ==
  /\ Shows(ch) # {} /\ Taken(Shows(ch))
  /\ wiped' = wiped \cup Shows(ch)
  /\ disturbed' = (disturbed \/ Sending(ch) # {})
  /\ UNCHANGED <<draft, socket, wire, bounds, mistaken, doubtful>>

-----------------------------------------------------------------------------
\* The user clicks,
TextClick ==
  \E t \in Text : Type(t) \/ Retry(t)

\* time and the network go on,
TextEvent ==
  \/ \E t \in Text : Seal(t) \/ SendTimeout(t)
  \/ Die \/ HandleChatMessage \/ OnMessage
  \/ \E ch \in Channel : SentElsewhere(ch) \/ Refetch(ch)

\* and wsState changes.
TextOnline == OnClose \/ OnOpen

-----------------------------------------------------------------------------
(* Properties *)

Accounted(t) == stored[t] > 0 \/ OnItsWay(t) \/ status[t] # "none"

\* A text that was typed, online or not, is stored, under way or shown as not sent, at
\* every point of its retries, unless another message or the history took the place of
\* its placeholder.
LostOnlyByMistake ==
  \A t \in Text : typed[t] # Nothing => Accounted(t) \/ t \in mistaken \cup wiped

\* What one click sends is not sent twice because it was retried, unless it was given up
\* while it was under way or after the server had stored it.
TextsSentOnce == \A t \in Text : stored[t] > 1 => t \in doubtful

\* As long as nothing is lost, refused, overtaken, late, replaced or sent from elsewhere
\* and the channel stays open, an echo takes the place of its own text.
EchoFindsItsOwn == mistaken # {} => disturbed
=============================================================================
