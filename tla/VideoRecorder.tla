--------------------------- MODULE VideoRecorder ---------------------------
(***************************************************************************)
(* Recording a video message: VideoMessageRecorderModal.tsx, a dialog over *)
(* the input of a chat. Asking for a camera, the end of a MediaRecorder    *)
(* and cutting what was recorded are waits that go on when the dialog is   *)
(* closed. handleDirectVideoSend looks at what it gets before it sends it: *)
(* the SendVideo and RejectVideo of Composer.                              *)
(*                                                                         *)
(* A camera is one run of startCamera; what is recorded of it bears its    *)
(* number. The browser is external: it grants a camera or not, hands out   *)
(* what was recorded, tells the end of a recording later, and may lose the *)
(* device. Playing back is left out, and so is leaving the chat.           *)
(***************************************************************************)
EXTENDS Composer

CONSTANT MaxCameras  \* bound: runs of startCamera

VARIABLES
  open,          \* the dialog is open
  videoMode,     \* mode
  camera,        \* streamRef: a camera, or 0
  videoRecorder, \* mediaRecorderRef: a camera, or 0
  camerasOn,     \* cameras that are on
  filming,       \* cameras that are recorded
  pieces,        \* chunksRef: the cameras it has pieces of
  refused,       \* hasPermission is false
  pending,       \* what waits: for a camera, the stop event, the cut
  film,          \* recordedBlobRef: the cameras it has pieces of
  trimming,      \* isTrimmingOrSending
  handed,        \* what onSend was called with and is being looked at
  cameras,       \* how many so far
  filmed,        \* cameras that were recorded (history)
  posted,        \* cameras whose recording was given to onSend (history)
  cast,          \* cameras whose recording the user gave up (history)
  crossed,       \* something was under way when a camera was asked for (history)
  closedEarly    \* the dialog was closed while a camera was asked for or a film cut (history)

cameraState == <<camera, videoRecorder, camerasOn, filming, pieces, refused>>
filmState   == <<film, trimming, handed>>
filmEpisodes == <<filmed, posted, cast, crossed, closedEarly>>
videoVars == <<open, videoMode, cameraState, pending, filmState, cameras, filmEpisodes>>

Camera == 1 .. MaxCameras

VideoInit ==
  /\ open = FALSE /\ videoMode = "idle"
  /\ camera = 0 /\ videoRecorder = 0 /\ camerasOn = {} /\ filming = {}
  /\ pieces = {} /\ refused = FALSE
  /\ pending = {} /\ film = {} /\ trimming = FALSE /\ handed = {}
  /\ cameras = 0
  /\ filmed = {} /\ posted = {} /\ cast = {} /\ crossed = FALSE /\ closedEarly = FALSE

PendingFor(op) == {w \in pending : w.op = op}

\* What the dialog shows.
FilmShown == IF open /\ videoMode = "preview" THEN film ELSE {}

-----------------------------------------------------------------------------
(* The camera *)

\* A track that is stopped ends the recording of its stream.
SwitchOff(c) == camerasOn' = camerasOn \ {c} /\ filming' = filming \ {c}

\* The recordings that come to an end in a step, beside what else waits after it.
Finishing(others) ==
  pending' = others \cup {[op |-> "stop", take |-> c, of |-> {}] : c \in filming \ filming'}

StopStream == SwitchOff(camera) /\ camera' = 0

\* startCamera
StartCamera ==
  /\ cameras < MaxCameras /\ cameras' = cameras + 1
  /\ StopStream
  /\ Finishing(pending \cup {[op |-> "ask", take |-> cameras', of |-> {}]})
  /\ crossed' = (crossed \/ pending # {})

Open ==
  /\ ~open /\ open' = TRUE
  /\ videoMode' = "idle" /\ videoRecorder' = 0
  /\ pieces' = {} /\ film' = {} /\ trimming' = FALSE
  /\ StartCamera
  /\ UNCHANGED <<vars, refused, handed, filmed, posted, cast, closedEarly>>

\* toggleCamera: another camera, while none is recorded.
ToggleCamera ==
  /\ open /\ videoMode = "idle"
  /\ StartCamera
  /\ UNCHANGED <<vars, open, videoMode, videoRecorder, pieces, refused, filmState>>
  /\ UNCHANGED <<filmed, posted, cast, closedEarly>>

Allowed(w) ==
  /\ w.op = "ask" /\ pending' = pending \ {w}
  /\ camera' = w.take /\ camerasOn' = camerasOn \cup {w.take}
  /\ refused' = FALSE
  /\ UNCHANGED <<vars, open, videoMode, videoRecorder, filming, pieces, filmState, cameras, filmEpisodes>>

Refused(w) ==
  /\ w.op = "ask" /\ pending' = pending \ {w}
  /\ refused' = TRUE
  /\ UNCHANGED <<vars, open, videoMode, camera, videoRecorder, camerasOn, filming, pieces>>
  /\ UNCHANGED <<filmState, cameras, filmEpisodes>>

CameraLost(c) ==
  /\ c \in camerasOn
  /\ SwitchOff(c) /\ Finishing(pending)
  /\ UNCHANGED <<vars, open, videoMode, camera, videoRecorder, pieces, refused>>
  /\ UNCHANGED <<filmState, cameras, filmEpisodes>>

-----------------------------------------------------------------------------
(* Recording *)

\* A camera that was lost cannot be recorded: the recorder does not start.
StartFilm ==
  /\ open /\ videoMode = "idle" /\ ~refused
  /\ camera \in camerasOn
  /\ pieces' = {}
  /\ videoRecorder' = camera /\ filming' = filming \cup {camera}
  /\ videoMode' = "recording"
  /\ filmed' = filmed \cup {camera}
  /\ UNCHANGED <<vars, open, camera, camerasOn, refused, pending, filmState, cameras>>
  /\ UNCHANGED <<posted, cast, crossed, closedEarly>>

PieceAvailable(c) ==
  /\ c \in filming \ pieces
  /\ pieces' = pieces \cup {c}
  /\ UNCHANGED <<vars, open, videoMode, camera, videoRecorder, camerasOn, filming, refused>>
  /\ UNCHANGED <<pending, filmState, cameras, filmEpisodes>>

\* stopRecording: the button, or the end of the minute.
StopFilm ==
  /\ open /\ videoMode = "recording" /\ videoRecorder \in filming
  /\ filming' = filming \ {videoRecorder} /\ Finishing(pending)
  /\ UNCHANGED <<vars, open, videoMode, camera, videoRecorder, camerasOn, pieces, refused>>
  /\ UNCHANGED <<filmState, cameras, filmEpisodes>>

\* onstop, after the last piece, which is taken not to be empty: it stops whatever
\* camera is on.
FilmStopped(w) ==
  /\ w.op = "stop"
  /\ pieces' = pieces \cup {w.take} /\ film' = pieces'
  /\ videoMode' = "preview"
  /\ StopStream /\ Finishing(pending \ {w})
  /\ UNCHANGED <<vars, open, videoRecorder, refused, trimming, handed, cameras, filmEpisodes>>

Retake ==
  /\ open /\ videoMode = "preview" /\ ~trimming
  /\ cast' = cast \cup film
  /\ film' = {} /\ videoMode' = "idle"
  /\ StartCamera
  /\ UNCHANGED <<vars, open, videoRecorder, pieces, refused, trimming, handed>>
  /\ UNCHANGED <<filmed, posted, closedEarly>>

-----------------------------------------------------------------------------
(* The end *)

\* The effect of the closed dialog. What is recorded goes on to its stop event.
Shut ==
  /\ open' = FALSE /\ videoMode' = "idle"
  /\ camera' = 0 /\ videoRecorder' = 0 /\ pieces' = {}
  /\ camerasOn' = camerasOn \ {camera}
  /\ filming' = filming \ {camera, videoRecorder}

Close ==
  /\ open /\ Shut /\ Finishing(pending)
  /\ cast' = cast \cup FilmShown \cup filming \cup {w.take : w \in PendingFor("stop")}
  /\ closedEarly' = (closedEarly \/ PendingFor("ask") # {} \/ PendingFor("cut") # {})
  /\ UNCHANGED <<vars, refused, filmState, cameras, filmed, posted, crossed>>

\* onSend and onClose. What is too large is turned down at once.
Deliver(what, others) ==
  /\ handed' \in {handed, handed \cup {what}}
  /\ posted' = posted \cup what
  /\ IF open THEN Shut ELSE UNCHANGED <<open, videoMode, camera, videoRecorder, pieces, camerasOn, filming>>
  /\ Finishing(others)
  /\ trimming' = FALSE

\* handleSend, of a film the user has not trimmed
SendFilm ==
  /\ open /\ videoMode = "preview" /\ ~trimming
  /\ Deliver(film, pending)
  /\ UNCHANGED <<vars, refused, film, cameras, filmed, cast, crossed, closedEarly>>

\* and of one that is recorded anew to cut it, while the dialog may be closed,
TrimFilm ==
  /\ open /\ videoMode = "preview" /\ ~trimming
  /\ trimming' = TRUE
  /\ pending' = pending \cup {[op |-> "cut", take |-> 0, of |-> film]}
  /\ UNCHANGED <<vars, open, videoMode, cameraState, film, handed, cameras, filmEpisodes>>

\* and is sent then, even so.
Trimmed(w) ==
  /\ w.op = "cut"
  /\ Deliver(w.of, pending \ {w})
  /\ UNCHANGED <<vars, refused, film, cameras, filmed, cast, crossed, closedEarly>>

\* The duration is known, or cannot be read.
Inspected ==
  /\ \E what \in handed : handed' = handed \ {what}
  /\ SendVideo \/ RejectVideo
  /\ UNCHANGED <<open, videoMode, cameraState, pending, film, trimming, cameras, filmEpisodes>>

VideoNext ==
  \/ Open \/ ToggleCamera
  \/ \E w \in pending : Allowed(w) \/ Refused(w) \/ FilmStopped(w) \/ Trimmed(w)
  \/ \E c \in Camera : CameraLost(c) \/ PieceAvailable(c)
  \/ StartFilm \/ StopFilm \/ Retake \/ Close \/ SendFilm \/ TrimFilm
  \/ Inspected
  \/ VideoDone /\ UNCHANGED videoVars

-----------------------------------------------------------------------------
(* Properties *)

VideoOK ==
  /\ videoMode \in {"idle", "recording", "preview"}
  /\ camera \in Camera \cup {0} /\ videoRecorder \in Camera \cup {0}
  /\ filming \subseteq camerasOn /\ camerasOn \subseteq Camera
  /\ pieces \subseteq Camera /\ film \subseteq Camera
  /\ handed \subseteq SUBSET Camera /\ cameras \in 0 .. MaxCameras
  /\ filmed \cup posted \cup cast \subseteq Camera
  /\ {open, refused, trimming, crossed, closedEarly} \subseteq BOOLEAN

\* The camera is on only while the dialog shows it, unless one was asked for while
\* something else was under way, or the dialog was closed before it was granted: then
\* one that nobody sees may stay on.
CameraIsShown ==
  \/ crossed \/ closedEarly
  \/ /\ camerasOn \subseteq {camera}
     /\ camerasOn # {} => open /\ videoMode # "preview"

\* A film is recorded, shown, cut or sent until the user gives it up, has one recording
\* in it, and is not sent after that; with the same exceptions.
FilmIsKept ==
  \/ crossed \/ closedEarly
  \/ /\ \A c \in filmed :
          \/ c \in filming \cup FilmShown \cup posted \cup cast
          \/ \E w \in pending : c = w.take \/ c \in w.of
     /\ cast \cap (FilmShown \cup posted) = {}
     /\ \A c, d \in film : c = d
=============================================================================
