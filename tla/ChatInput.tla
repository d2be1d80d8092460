------------------------------ MODULE ChatInput ------------------------------
(***************************************************************************)
(* Everything that leaves a chat: the files and recorded messages of       *)
(* MessageInput and the texts of Outbox. They share the channel that is    *)
(* shown, the connection, and the button that sends both at once.          *)
(***************************************************************************)
EXTENDS MessageInput, Outbox

inputVars == <<vars, voiceVars, videoVars>>

\* A budget also says how many texts, tries of one, messages from elsewhere and lost
\* connections there may be.
TextsWithin(b) ==
  /\ Cardinality({t \in Text : typed[t] # Nothing \/ t \in Range(carried)}) <= b.texts
  /\ \A t \in Text : tries[t] <= b.tries
  /\ foreign <= b.foreign /\ cuts <= b.cuts

ChatInit == InputInit /\ TextsInit

\* What the files hand over is sent if the socket is open. One that is dead and not yet
\* known to be looks connected.
FilesReach ==
  /\ sent' # sent => socket = "open"
  /\ lost' # lost => socket # "open"

ChatNext ==
  /\ \/ /\ InputNext /\ FilesReach
        /\ IF online' = online THEN WithFiles ELSE TextOnline
     \/ UNCHANGED inputVars /\ (TextEvent \/ (~open /\ TextClick))
  /\ (\E b \in Budgets : Within(b) /\ TextsWithin(b))'

ChatSpec == ChatInit /\ [][ChatNext]_<<inputVars, textVars>>

-----------------------------------------------------------------------------
(* Properties *)

\* Whatever the user sends, file or text, is there until it is sent: through failed
\* uploads, lost connections and retries, unless what is known to cross it did; and only
\* the end of a connection loses a file that counts as sent.
EverythingIsKept ==
  /\ KeptUntilSent /\ LostOnlyByMistake
  /\ \A f \in File : lost[f] > 0 => cuts > 0

\* And it is sent once, unless two batches ran at once or a text was given up too early.
EverythingOnce == SentOnce /\ TextsSentOnce

\* Files and takes go where they were attached or begun, or where the user sent them in.
EverythingGoesWhereMeant == GoesWhereAttached /\ VoiceGoesWhereMeant
=============================================================================
