------------------------------ MODULE Composer ------------------------------
(***************************************************************************)
(* The files waiting under the input of a client: ChatInputArea.tsx, which *)
(* React keeps while the user goes from channel to channel. A batch is one *)
(* run of handleSend: it encrypts, uploads and sends the files it saw when *)
(* it began, one after the other, to the channel shown then. Recorded      *)
(* voice and video messages are sent next to it. The texts are the subject *)
(* of Outbox.                                                              *)
(*                                                                         *)
(* Uploads are external: they take their time and succeed or fail. So is   *)
(* the connection. That encrypting and uploading are two waits makes no    *)
(* difference here: a file is busy in both. After them wsState is looked   *)
(* at, and the message that names the file is encrypted, which is a wait   *)
(* of its own: what wsSendMessage then hands to a socket that is not open  *)
(* is lost, and nobody is told.                                            *)
(***************************************************************************)
EXTENDS Naturals, FiniteSets, Sequences, SequencesExt

CONSTANTS Channel,
          File,        \* files the user picks, drops or records, each once
          MaxBatches,  \* bound: runs of handleSend
          MaxVideos    \* bound: video messages recorded

ASSUME FileAssumption == IsFiniteSet(File)
ASSUME BoundAssumption == MaxBatches \in Nat /\ MaxVideos \in Nat

VARIABLES
  shown,      \* the channel shown
  online,     \* wsState is "connected"
  files,      \* file -> its status in the list, "none" if it is not there
  sending,    \* the state of that name
  batches,    \* number -> [ch, todo]: the head of todo is being encrypted or uploaded
  voices,     \* recorded voice messages being sent
  videos,     \* number of video messages being sent
  begun, recorded, \* how many batches and videos so far
  posting,    \* the batches whose file is uploaded and whose message is being encrypted
  voicing,    \* the voice messages of which this is true
  sent,       \* file -> the channels it was sent to, one after the other
  lost,       \* file -> how often its message was handed to a socket that was not open
  origin,     \* the files attached or recorded so far, with the channel they are for (history)
  removed,    \* files the user took out (history)
  moved,      \* files that waited while another channel was opened (history)
  late,       \* files that came to wait while a batch ran (history)
  overlapped  \* two batches ran at once (history)

list    == <<files, sending>>
work    == <<batches, voices, videos, begun, recorded>>
history == <<origin, removed, moved, late, overlapped>>
stage   == <<posting, voicing>>
vars == <<shown, online, list, work, stage, sent, lost, history>>

Status == {"none", "idle", "busy", "done", "failed"}
Batch  == [ch : Channel, todo : Seq(File)]

Waiting == {f \in File : files[f] # "none"}

Attached == DOMAIN origin

Running == DOMAIN batches # {}

PlainOK ==
  /\ shown \in Channel /\ online \in BOOLEAN /\ sending \in BOOLEAN /\ overlapped \in BOOLEAN
  /\ videos \in Nat /\ recorded \in 0 .. MaxVideos

ListOK == files \in [File -> Status]

BatchesOK ==
  /\ begun \in 0 .. MaxBatches
  /\ DOMAIN batches \subseteq 1 .. begun
  /\ batches \in [DOMAIN batches -> Batch]
  /\ \A n \in DOMAIN batches : batches[n].todo # <<>>

SentOK == sent \in [File -> Seq(Channel)]

OriginOK == origin \in [Attached -> Channel]

\* Everything that waits, is sent or was noted down was attached.
AttachedOK ==
  /\ Attached \subseteq File
  /\ Waiting \cup voices \cup removed \cup moved \cup late \subseteq Attached
  /\ Waiting \cap (voices \cup removed) = {} /\ voices \cap removed = {}

StageOK ==
  /\ posting \subseteq DOMAIN batches /\ voicing \subseteq voices
  /\ lost \in [File -> Nat]

TypeOK == PlainOK /\ ListOK /\ BatchesOK /\ SentOK /\ OriginOK /\ AttachedOK /\ StageOK

Init ==
  /\ shown \in Channel /\ online = TRUE
  /\ files = [f \in File |-> "none"] /\ sending = FALSE
  /\ batches = <<>> /\ voices = {} /\ videos = 0
  /\ begun = 0 /\ recorded = 0
  /\ posting = {} /\ voicing = {}
  /\ sent = [f \in File |-> <<>>] /\ lost = [f \in File |-> 0]
  /\ origin = <<>> /\ removed = {} /\ moved = {} /\ late = {}
  /\ overlapped = FALSE

-----------------------------------------------------------------------------
(* The list *)

Originates(f, ch) == origin' = [g \in Attached \cup {f} |-> IF g = f THEN ch ELSE origin[g]]

Joins(f) == late' = IF Running THEN late \cup {f} ELSE late

AddFile(f) ==
  /\ f \notin Attached
  /\ files' = [files EXCEPT ![f] = "idle"]
  /\ Originates(f, shown) /\ Joins(f)
  /\ UNCHANGED <<shown, online, sending, work, stage, sent, lost, removed, moved, overlapped>>

RemoveFile(f) ==
  /\ f \in Waiting
  /\ files' = [files EXCEPT ![f] = "none"]
  /\ removed' = removed \cup {f}
  /\ UNCHANGED <<shown, online, sending, work, stage, sent, lost, origin, moved, late, overlapped>>

\* The component stays, with its list and what its calls saw.
OpenChannel(ch) ==
  /\ ch # shown /\ shown' = ch
  /\ moved' = moved \cup Waiting
  /\ UNCHANGED <<online, list, work, stage, sent, lost, origin, removed, late, overlapped>>

SetOnline ==
  /\ online' = ~online
  /\ UNCHANGED <<shown, list, work, stage, sent, lost, history>>

-----------------------------------------------------------------------------
(* handleSend *)

\* updateFileStatus, which leaves alone what is no longer in the list.
Updated(fs, f, status) == IF fs[f] = "none" THEN fs ELSE [fs EXCEPT ![f] = status]

\* A batch over what waits, in the order of the list, which is any.
Start(fs) ==
  /\ Waiting # {}
  /\ begun < MaxBatches /\ begun' = begun + 1
  /\ \E todo \in SetToSeqs(Waiting) :
       /\ batches' = [n \in DOMAIN batches \cup {begun'} |->
                        IF n = begun' THEN [ch |-> shown, todo |-> todo] ELSE batches[n]]
       /\ files' = [fs EXCEPT ![todo[1]] = "busy"]
  /\ sending' = TRUE
  /\ overlapped' = (overlapped \/ Running)

MaySend == ~sending

HandleSend ==
  /\ MaySend
  /\ Start(files)
  /\ UNCHANGED <<shown, online, voices, videos, recorded, stage, sent, lost, origin, removed, moved, late>>

\* Mutant: what was sent stays in the list.
All(fs) == fs

\* Mutant: the list is emptied.
Cleared(fs) == [f \in File |-> "none"]

\* When a batch is done, what did not fail leaves the list.
FailedOnly(fs) == [f \in File |-> IF fs[f] = "failed" THEN "failed" ELSE "none"]

\* The batch is done with its first file, with the given status, and goes on.
Proceed(n, status) ==
  LET b    == batches[n]
      rest == Tail(b.todo)
      fs   == Updated(files, b.todo[1], status)
  IN  IF rest # <<>>
      THEN /\ batches' = [batches EXCEPT ![n].todo = rest]
           /\ files' = Updated(fs, rest[1], "busy")
           /\ UNCHANGED sending
      ELSE /\ batches' = [m \in DOMAIN batches \ {n} |-> batches[m]]
           /\ files' = FailedOnly(fs)
           /\ sending' = FALSE

\* Mutant: the channel that is shown when the upload is done.
Shown(n) == shown

\* The channel that was shown when the batch began.
Receiver(n) == batches[n].ch

\* It is uploaded, and there is a connection.
Uploaded(n) ==
  /\ n \notin posting /\ online
  /\ posting' = posting \cup {n}
  /\ UNCHANGED <<shown, online, list, work, voicing, sent, lost, history>>

\* The end of wsSendMessage for file f, which does not say whether the socket was open.
WsSendMessage(f, ch) ==
  \/ /\ online
     /\ sent' = [sent EXCEPT ![f] = Append(@, ch)]
     /\ UNCHANGED lost
  \/ /\ lost' = [lost EXCEPT ![f] = @ + 1]
     /\ UNCHANGED sent

FileSent(n) ==
  /\ n \in posting /\ posting' = posting \ {n}
  /\ WsSendMessage(batches[n].todo[1], Receiver(n))
  /\ Proceed(n, "done")
  /\ UNCHANGED <<shown, online, voices, videos, begun, recorded, voicing, history>>

\* An error of the upload or of an encryption, or no connection after the upload.
NotSent(n) ==
  /\ posting' = posting \ {n}
  /\ Proceed(n, "failed")
  /\ UNCHANGED <<shown, online, voices, videos, begun, recorded, voicing, sent, lost, history>>

\* retryFile: the whole list is sent, a tick later; while a batch runs, the file only
\* loses its mark.
RetryFile(f) ==
  /\ files[f] = "failed"
  /\ \/ MaySend /\ Start([files EXCEPT ![f] = "idle"]) /\ UNCHANGED late
     \/ /\ ~MaySend
        /\ files' = [files EXCEPT ![f] = "idle"]
        /\ Joins(f)
        /\ UNCHANGED <<sending, batches, begun, overlapped>>
  /\ UNCHANGED <<shown, online, voices, videos, recorded, stage, sent, lost, origin, removed, moved>>

-----------------------------------------------------------------------------
(* Recorded messages *)

\* For the channel whose handleDirectVoiceSend the recorder calls.
SendVoice(f, ch) ==
  /\ f \notin Attached
  /\ voices' = voices \cup {f}
  /\ Originates(f, ch)
  /\ UNCHANGED <<shown, online, list, batches, videos, begun, recorded, stage, sent, lost, removed, moved, late, overlapped>>

VoiceUploaded(f) ==
  /\ f \in voices \ voicing /\ online
  /\ voicing' = voicing \cup {f}
  /\ UNCHANGED <<shown, online, list, work, posting, sent, lost, history>>

VoiceSent(f) ==
  /\ f \in voicing /\ voicing' = voicing \ {f}
  /\ voices' = voices \ {f}
  /\ WsSendMessage(f, origin[f])
  /\ UNCHANGED <<shown, online, list, batches, videos, begun, recorded, posting, history>>

\* What could not be sent waits with the files, whatever channel is shown by now.
VoiceNotSent(f) ==
  /\ f \in voices /\ voicing' = voicing \ {f}
  /\ voices' = voices \ {f}
  /\ files' = [files EXCEPT ![f] = "idle"]
  /\ Joins(f)
  /\ moved' = IF shown # origin[f] THEN moved \cup {f} ELSE moved
  /\ UNCHANGED <<shown, online, sending, batches, videos, begun, recorded, posting, sent, lost, origin,
                 removed, overlapped>>

\* A video message shares the state of the batches.
SendVideo ==
  /\ recorded < MaxVideos /\ recorded' = recorded + 1
  /\ videos' = videos + 1
  /\ sending' = TRUE
  /\ UNCHANGED <<shown, online, files, batches, voices, begun, stage, sent, lost, history>>

\* One that is too long, or cannot be read, never set sending, and clears it as well.
RejectVideo ==
  /\ recorded < MaxVideos /\ recorded' = recorded + 1
  /\ sending' = FALSE
  /\ UNCHANGED <<shown, online, files, batches, voices, videos, begun, stage, sent, lost, history>>

VideoDone ==
  /\ videos > 0 /\ videos' = videos - 1
  /\ sending' = FALSE
  /\ UNCHANGED <<shown, online, files, batches, voices, begun, recorded, stage, sent, lost, history>>

-----------------------------------------------------------------------------
Next ==
  \/ \E f \in File : AddFile(f) \/ RemoveFile(f) \/ RetryFile(f)
  \/ \E f \in File : VoiceUploaded(f) \/ VoiceSent(f) \/ VoiceNotSent(f)
  \/ \E f \in File, ch \in Channel : SendVoice(f, ch)
  \/ \E ch \in Channel : OpenChannel(ch)
  \/ SetOnline
  \/ HandleSend
  \/ \E n \in DOMAIN batches : Uploaded(n) \/ FileSent(n) \/ NotSent(n)
  \/ SendVideo \/ RejectVideo \/ VideoDone

Spec == Init /\ [][Next]_vars

-----------------------------------------------------------------------------
(* Properties *)

InHand(f) == f \in Waiting \/ f \in voices

\* A file stays in the list until it is sent or taken out, through failed uploads and
\* retries, unless it came while a batch ran or two ran at once: the end of a batch
\* drops whatever has not failed; or unless the connection ended after it was looked at:
\* then the file counts as sent.
KeptUntilSent ==
  \A f \in Attached :
    sent[f] # <<>> \/ InHand(f) \/ f \in removed \/ f \in late \/ overlapped \/ lost[f] > 0

\* A file is not sent twice, unless two batches ran at once: a video message that is
\* done clears sending while a batch still runs.
SentOnce == \A f \in File : Len(sent[f]) > 1 => overlapped

\* A file goes to the channel it was attached in, unless it was waiting while another
\* one was opened: then it goes to whatever is shown when it is sent.
GoesWhereAttached ==
  \A f \in Attached : Range(sent[f]) \subseteq {origin[f]} \/ f \in moved
=============================================================================
