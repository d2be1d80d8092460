--------------------------- MODULE VoiceRecorder ---------------------------
(***************************************************************************)
(* Recording a voice message: VoiceRecorder.tsx, in the input of a chat.   *)
(* Asking for the microphone, the end of a MediaRecorder, decoding and     *)
(* sending are waits; what comes after one goes by the refs of the         *)
(* component, which by then may be about another take. handleDirect-       *)
(* VoiceSend is the SendVoice of Composer, which sends the file (voices).  *)
(*                                                                         *)
(* A take is one run of startRecording; its stream and its MediaRecorder   *)
(* bear its number. The browser is external: it grants the microphone or   *)
(* not, hands out what was recorded, tells the end of a recording later,   *)
(* and may lose the device. Trimming and playing back are left out, and so *)
(* is leaving the chat, which ends the component.                          *)
(***************************************************************************)
EXTENDS Composer

CONSTANT MaxTakes  \* bound: runs of startRecording

VARIABLES
  mode,       \* the state of that name
  mic,        \* mediaStreamRef: a take, or 0
  recorder,   \* mediaRecorderRef: a take, or 0
  micsOn,     \* takes whose microphone is on
  recording,  \* takes that record
  chunks,     \* chunksRef: the takes it has pieces of
  discarding, \* isDiscardingRef
  quick,      \* isQuickSendingRef
  waits,      \* what waits: for the microphone, the stop event, decoding
  blob,       \* recordedBlob: the takes it has pieces of
  isSending,  \* the state of that name
  takes,      \* how many so far
  begunIn,    \* take -> the channel shown when it began
  given,      \* takes handed over, with the channel they were sent to (history)
  wanted,     \* takes the user told to send, with the channel shown then (history)
  dropped,    \* takes the user discarded, or that had no sound (history)
  tangled,    \* a take was begun while another was under way (history)
  tooLate,    \* the user discarded a take that was being decoded or sent (history)
  unreset     \* a take that was to be sent at once had no sound (history)

devices  == <<mic, recorder, micsOn, recording>>
marks    == <<discarding, quick>>
episodes == <<given, wanted, dropped, tangled, tooLate, unreset>>
voiceVars == <<mode, devices, chunks, marks, waits, blob, isSending, takes, begunIn, episodes>>

Take == 1 .. MaxTakes

VoiceInit ==
  /\ mode = "idle"
  /\ mic = 0 /\ recorder = 0 /\ micsOn = {} /\ recording = {}
  /\ chunks = {} /\ discarding = FALSE /\ quick = FALSE
  /\ waits = {} /\ blob = {} /\ isSending = FALSE
  /\ takes = 0 /\ begunIn = <<>>
  /\ given = {} /\ wanted = {} /\ dropped = {}
  /\ tangled = FALSE /\ tooLate = FALSE /\ unreset = FALSE

WaitsFor(op) == {w \in waits : w.op = op}

-----------------------------------------------------------------------------
(* The microphone *)

\* Mutant: the tracks are not stopped.
KeepOn(t) == micsOn' = micsOn /\ recording' = recording \ {t}

\* A track that is stopped ends the recording of its stream.
TurnOff(t) == micsOn' = micsOn \ {t} /\ recording' = recording \ {t}

\* The recordings that come to an end in a step, beside what else waits after it.
Ending(others) == waits' = others \cup {[op |-> "stop", take |-> t] : t \in recording \ recording'}

\* cleanupRecordingResources
CleanUp == TurnOff(mic) /\ mic' = 0

\* A click on the microphone. While it is asked for, the button stays.
StartRecording ==
  /\ mode = "idle" /\ takes < MaxTakes
  /\ takes' = takes + 1
  /\ begunIn' = Append(begunIn, shown)
  /\ CleanUp
  /\ Ending(waits \cup {[op |-> "ask", take |-> takes']})
  /\ tangled' = (tangled \/ waits # {} \/ voices # {})
  /\ UNCHANGED <<vars, mode, recorder, chunks, marks, blob, isSending>>
  /\ UNCHANGED <<given, wanted, dropped, tooLate, unreset>>

\* Mutant: the pieces of the last take stay.
Kept(pieces) == pieces

Emptied(pieces) == {}

Granted(w) ==
  /\ w.op = "ask" /\ waits' = waits \ {w}
  /\ mic' = w.take /\ recorder' = w.take
  /\ micsOn' = micsOn \cup {w.take} /\ recording' = recording \cup {w.take}
  /\ chunks' = Emptied(chunks) /\ discarding' = FALSE
  /\ mode' = "recording"
  /\ UNCHANGED <<vars, quick, blob, isSending, takes, begunIn, episodes>>

Denied(w) ==
  /\ w.op = "ask"
  /\ mode' = "idle"
  /\ CleanUp /\ Ending(waits \ {w})
  /\ dropped' = dropped \cup {w.take}
  /\ UNCHANGED <<vars, recorder, chunks, marks, blob, isSending, takes, begunIn>>
  /\ UNCHANGED <<given, wanted, tangled, tooLate, unreset>>

\* ondataavailable, of whatever recorder: there is one chunksRef.
DataAvailable(t) ==
  /\ t \in recording \ chunks
  /\ chunks' = chunks \cup {t}
  /\ UNCHANGED <<vars, mode, devices, marks, waits, blob, isSending, takes, begunIn, episodes>>

MicLost(t) ==
  /\ t \in micsOn
  /\ TurnOff(t) /\ Ending(waits)
  /\ UNCHANGED <<vars, mode, mic, recorder, chunks, marks, blob, isSending, takes, begunIn, episodes>>

-----------------------------------------------------------------------------
(* The end of a take *)

\* onstop, after the last piece, if there is one. It cleans up after whatever take is
\* recorded now. A take without sound leaves the mark of quick sending.
Stopped(w) ==
  /\ w.op = "stop"
  /\ CleanUp
  /\ \E got \in {chunks, chunks \cup {w.take}} :
       \/ /\ discarding \/ got = {}
          /\ chunks' = IF discarding THEN {} ELSE got
          /\ mode' = "idle"
          /\ dropped' = dropped \cup (IF got = {} THEN {w.take} ELSE {})
          /\ unreset' = (unreset \/ quick)
          /\ Ending(waits \ {w})
       \/ /\ ~discarding /\ got # {}
          /\ chunks' = got
          /\ Ending((waits \ {w}) \cup {[op |-> "decode", take |-> w.take, of |-> got]})
          /\ UNCHANGED <<mode, dropped, unreset>>
  /\ UNCHANGED <<vars, recorder, marks, blob, isSending, takes, begunIn, given, wanted, tangled, tooLate>>

Decoded(w) == w.op = "decode" /\ waits' = waits \ {w}

\* handleFinalSend calls onSendVoice for a channel, and waits for it.
HandOver(ts, ch) ==
  /\ isSending' = TRUE
  /\ \E f \in File : SendVoice(f, ch)
  /\ given' = given \cup (ts \X {ch})

\* Mutant: whatever channel is shown.
AnyReceiver(t) == shown

\* The functions onstop calls are those of the render that began the take.
QuickReceiver(t) == begunIn[t]

\* Decoded, or not: the take is sent when that was asked for, and else is shown.
SentAtOnce(w) ==
  /\ Decoded(w) /\ quick
  /\ quick' = FALSE
  /\ HandOver(w.of, QuickReceiver(w.take))
  /\ UNCHANGED <<mode, devices, chunks, discarding, blob, takes, begunIn>>
  /\ UNCHANGED <<wanted, dropped, tangled, tooLate, unreset>>

Previewed(w) ==
  /\ Decoded(w) /\ ~quick
  /\ blob' = w.of
  /\ mode' = "preview"
  /\ UNCHANGED <<vars, devices, chunks, marks, isSending, takes, begunIn, episodes>>

-----------------------------------------------------------------------------
(* The buttons *)

StopRecorder == recording' = recording \ {recorder} /\ Ending(waits)

PauseAndReview ==
  /\ mode = "recording"
  /\ discarding' = FALSE /\ quick' = FALSE
  /\ StopRecorder
  /\ UNCHANGED <<vars, mode, mic, recorder, micsOn, chunks, blob, isSending, takes, begunIn, episodes>>

QuickSend ==
  /\ mode = "recording" /\ ~isSending
  /\ recorder \in recording
  /\ discarding' = FALSE /\ quick' = TRUE
  /\ StopRecorder
  /\ wanted' = wanted \cup {<<recorder, shown>>}
  /\ UNCHANGED <<vars, mode, mic, recorder, micsOn, chunks, blob, isSending, takes, begunIn>>
  /\ UNCHANGED <<given, dropped, tangled, tooLate, unreset>>

\* handleFinalSend in the preview, whose functions are those of the channel shown now.
SendPreview ==
  /\ mode = "preview" /\ ~isSending
  /\ HandOver(blob, shown)
  /\ wanted' = wanted \cup (blob \X {shown})
  /\ UNCHANGED <<mode, devices, chunks, marks, waits, blob, takes, begunIn>>
  /\ UNCHANGED <<dropped, tangled, tooLate, unreset>>

DiscardRecording ==
  /\ discarding' = TRUE /\ quick' = FALSE
  /\ micsOn' = micsOn \ {mic} /\ recording' = recording \ {recorder, mic} /\ mic' = 0
  /\ Ending(waits)
  /\ blob' = {} /\ mode' = "idle"

Discard ==
  /\ mode = "recording" \/ (mode = "preview" /\ ~isSending)
  /\ DiscardRecording
  /\ dropped' = dropped \cup (IF mode = "recording" THEN {recorder} ELSE blob)
  /\ tooLate' = (tooLate \/ WaitsFor("decode") # {} \/ voices # {})
  /\ UNCHANGED <<vars, recorder, chunks, isSending, takes, begunIn, given, wanted, tangled, unreset>>

\* The end of handleFinalSend, whether the message was sent or is kept as a file: it
\* discards the recording, which may be another one by now.
SendDone(f) ==
  /\ VoiceSent(f) \/ VoiceNotSent(f)
  /\ isSending' = FALSE
  /\ DiscardRecording
  /\ UNCHANGED <<recorder, chunks, takes, begunIn, episodes>>

VoiceClick == StartRecording \/ PauseAndReview \/ QuickSend \/ SendPreview \/ Discard

VoiceEvent ==
  \/ \E w \in waits : Granted(w) \/ Denied(w) \/ Stopped(w) \/ SentAtOnce(w) \/ Previewed(w)
  \/ \E t \in Take : DataAvailable(t) \/ MicLost(t)
  \/ \E f \in File : SendDone(f)

-----------------------------------------------------------------------------
(* Properties *)

VoiceOK ==
  /\ mode \in {"idle", "recording", "preview"}
  /\ mic \in Take \cup {0} /\ recorder \in Take \cup {0}
  /\ recording \subseteq micsOn /\ micsOn \subseteq Take
  /\ chunks \subseteq Take /\ blob \subseteq Take
  /\ takes \in 0 .. MaxTakes /\ begunIn \in [1 .. takes -> Channel]
  /\ given \subseteq Take \X Channel /\ wanted \subseteq Take \X Channel
  /\ {discarding, quick, isSending, tangled, tooLate, unreset} \subseteq BOOLEAN

\* The microphone is on for the take on the screen only, unless takes were tangled:
\* then it may stay on for a take nobody can stop.
MicIsShown == tangled \/ (micsOn \subseteq {mic} /\ (micsOn # {} => mode = "recording"))

Takes(pairs) == {p[1] : p \in pairs}

UnderWay(t) == t \in recording \cup blob \/ \E w \in waits : w.take = t

\* A take that began is recorded, shown or sent until the user discards it; there is one
\* in what is shown; what was discarded is neither sent nor shown again; and the user
\* told to send what is sent; unless takes were tangled, one was discarded too late, or
\* a mark was not reset.
VoiceIsKept ==
  tangled \/
    /\ \A t \in 1 .. takes : UnderWay(t) \/ t \in Takes(given) \cup dropped
    /\ \A t, u \in blob : t = u
    /\ tooLate \/ dropped \cap (blob \cup Takes(given)) = {}
    /\ unreset \/ Takes(given) \subseteq Takes(wanted)

\* A take goes to the channel in which it was begun, or the one in which the user told
\* to send it, never to one opened while it is decoded; unless takes were tangled.
VoiceGoesWhereMeant ==
  tangled \/ \A g \in given : g[2] = begunIn[g[1]] \/ g \in wanted
=============================================================================
