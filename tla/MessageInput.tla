---------------------------- MODULE MessageInput ----------------------------
(***************************************************************************)
(* The whole input of a chat: the files of Composer and the two recorders  *)
(* that hand it messages.                                                  *)
(***************************************************************************)
EXTENDS VoiceRecorder, VideoRecorder

\* Bounds: a run stays within one of these, each a record of how many takes, cameras,
\* files, batches and videos there may be.
CONSTANT Budgets

Within(b) ==
  /\ takes <= b.takes /\ cameras <= b.cameras
  /\ begun <= b.batches /\ recorded <= b.videos /\ Cardinality(Attached) <= b.files

InputInit == Init /\ VoiceInit /\ VideoInit

\* What the user does with the files,
ComposerClick ==
  \/ \E f \in File : AddFile(f) \/ RemoveFile(f) \/ RetryFile(f)
  \/ \E ch \in Channel : OpenChannel(ch)
  \/ HandleSend

\* and what the network does.
ComposerEvent ==
  \/ SetOnline
  \/ \E n \in DOMAIN batches : Uploaded(n) \/ FileSent(n) \/ NotSent(n)
  \/ \E f \in File : VoiceUploaded(f)

\* The dialog of the video recorder is modal: while it is open nothing else is clicked.
InputNext ==
  /\ \/ ~open /\ ComposerClick /\ UNCHANGED <<voiceVars, videoVars>>
     \/ ComposerEvent /\ UNCHANGED <<voiceVars, videoVars>>
     \/ ~open /\ VoiceClick /\ UNCHANGED videoVars
     \/ VoiceEvent /\ UNCHANGED videoVars
     \/ VideoNext /\ UNCHANGED voiceVars
  /\ (\E b \in Budgets : Within(b))'

InputSpec == InputInit /\ [][InputNext]_<<vars, voiceVars, videoVars>>

-----------------------------------------------------------------------------
(* Properties *)

\* Neither recorder leaves a device on that the user does not see in use, unless what
\* it waits for was crossed by something else.
CapturesAreShown == MicIsShown /\ CameraIsShown

\* Neither recorder loses, mixes up or sends unasked what was recorded, unless what it
\* waits for was crossed by something else.
RecordingsAreKept == VoiceIsKept /\ FilmIsKept
=============================================================================
