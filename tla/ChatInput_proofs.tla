-------------------------- MODULE ChatInput_proofs --------------------------
(***************************************************************************)
(* Proofs about everything that leaves a chat, for any channels, texts and *)
(* takes, any finite set of files and any number of batches, cameras and   *)
(* tries. Files first: the types of Composer and its three properties,     *)
(* each from an inductive invariant of its own: GoesInv relates the        *)
(* channel of a file and of the batch that has it, KeptInv says where a    *)
(* file is that was not sent yet, OnceInv that no batch has a file that    *)
(* was sent. Then the recorders: MessageInput implements Composer, and so  *)
(* has its properties, and where takes go and devices are on. Last the     *)
(* texts: ChatInput implements MessageInput, and what becomes of a text    *)
(* and of its placeholder.                                                 *)
(***************************************************************************)
EXTENDS ChatInput, FiniteSetTheorems, TLAPS

USE BoundAssumption

\* The sequences handleSend can work off: every waiting file once.
LEMMA NotEmpty == ASSUME NEW S, NEW s \in Seq(S), 1 \in DOMAIN s PROVE s # <<>>
  OBVIOUS

LEMMA TodoOfWaiting ==
  ASSUME NEW S \in SUBSET File, S # {}, NEW todo \in SetToSeqs(S)
  PROVE  /\ todo \in Seq(S) /\ todo # <<>> /\ 1 \in DOMAIN todo
         /\ \A i, j \in DOMAIN todo : i # j => todo[i] # todo[j]
         /\ \A f \in S : \E i \in DOMAIN todo : todo[i] = f
<1>1. IsFiniteSet(S)
  BY FileAssumption, FS_Subset
<1>2. Cardinality(S) \in Nat /\ Cardinality(S) # 0
  BY <1>1, FS_CardinalityType, FS_EmptySet
<1> DEFINE D == 1 .. Cardinality(S)
<1>3. todo \in [D -> S] /\ \A i, j \in D : i # j => todo[i] # todo[j]
  BY DEF SetToSeqs
<1>4. DOMAIN todo = D /\ 1 \in D
  BY <1>2, <1>3
<1>7. todo \in Seq(S)
  BY <1>2, <1>3
<1>5. \A f \in S : \E i \in D : todo[i] = f
  <2>1. IsFiniteSet(D) /\ Cardinality(D) = Cardinality(S)
    BY <1>2, FS_Interval
  <2>2. todo \in Injection(D, S)
    BY <1>3 DEF Injection, IsInjective
  <2>3. todo \in Surjection(D, S)
    BY <1>1, <2>1, <2>2, FS_Injection
  <2>4. QED
    BY <2>3 DEF Surjection
<1>6. todo # <<>>
  <2> HIDE DEF D
  <2>1. 1 \in DOMAIN todo
    BY <1>4
  <2>2. QED
    BY <1>7, <2>1, NotEmpty
<1>8. QED
  BY <1>3, <1>4, <1>5, <1>6, <1>7 DEF D

LEMMA TailOfTodo ==
  ASSUME NEW s \in Seq(File), s # <<>>
  PROVE  /\ 1 \in DOMAIN s /\ s[1] \in File /\ Tail(s) \in Seq(File)
         /\ \A i \in DOMAIN s : i = 1 \/ (i - 1 \in DOMAIN Tail(s) /\ Tail(s)[i - 1] = s[i])
         /\ \A i \in DOMAIN Tail(s) : i + 1 \in DOMAIN s /\ Tail(s)[i] = s[i + 1]
  OBVIOUS

\* The type invariant without the messages that are being encrypted.
Core == PlainOK /\ ListOK /\ BatchesOK /\ SentOK /\ OriginOK /\ AttachedOK

LEMMA InitType == Init => TypeOK
<1> SUFFICES ASSUME Init PROVE TypeOK
  OBVIOUS
<1>1. DOMAIN batches = {} /\ Attached = {} /\ Waiting = {}
  BY DEF Init, Attached, Waiting
<1> recorded \in 0 .. MaxVideos
  BY DEF Init
<1>2. PlainOK
  BY DEF Init, PlainOK
<1> SentOK
  BY DEF Init, SentOK
<1> ListOK
  BY DEF Init, ListOK, Status
<1>3. BatchesOK
  BY <1>1 DEF Init, BatchesOK
<1>4. OriginOK
  BY <1>1 DEF Init, OriginOK, Attached
<1>5. AttachedOK
  BY <1>1 DEF Init, AttachedOK
<1>6. StageOK
  BY DEF Init, StageOK
<1>7. QED
  BY <1>2, <1>3, <1>4, <1>5, <1>6 DEF TypeOK

\* What a new batch does to the types.
LEMMA StartType ==
  ASSUME TypeOK, NEW fs \in [File -> Status], Start(fs)
  PROVE  /\ BatchesOK'
         /\ \E f \in Waiting : files' = [fs EXCEPT ![f] = "busy"]
<1>1. PICK todo \in SetToSeqs(Waiting) :
        /\ batches' = [n \in DOMAIN batches \cup {begun'} |->
                         IF n = begun' THEN [ch |-> shown, todo |-> todo] ELSE batches[n]]
        /\ files' = [fs EXCEPT ![todo[1]] = "busy"]
  BY DEF Start
<1>2. Waiting \in SUBSET File /\ Waiting # {}
  BY DEF Waiting, Start
<1>3. todo \in Seq(Waiting) /\ todo # <<>> /\ todo[1] \in Waiting
  BY <1>2, TodoOfWaiting
<1>4. [ch |-> shown, todo |-> todo] \in Batch
  BY <1>2, <1>3 DEF TypeOK, PlainOK, Batch
<1>5. begun' \in 1 .. MaxBatches /\ begun' = begun + 1
  BY DEF Start, TypeOK, BatchesOK
<1>6. /\ DOMAIN batches' = DOMAIN batches \cup {begun'} /\ batches' \in [DOMAIN batches' -> Batch]
      /\ \A n \in DOMAIN batches' : batches'[n].todo # <<>>
  <2>1. \A n \in DOMAIN batches : batches[n] \in Batch /\ batches[n].todo # <<>>
    BY DEF TypeOK, BatchesOK
  <2>2. [ch |-> shown, todo |-> todo].todo # <<>>
    BY <1>3
  <2>3. QED
    BY <1>1, <1>4, <2>1, <2>2
<1>7. DOMAIN batches' \subseteq 1 .. begun'
  BY <1>5, <1>6 DEF TypeOK, BatchesOK
<1>8. BatchesOK'
  BY <1>5, <1>6, <1>7 DEF BatchesOK
<1>9. QED
  BY <1>1, <1>3, <1>8

LEMMA UpdatedType ==
  ASSUME NEW fs \in [File -> Status], NEW f \in File, NEW st \in Status \ {"none"}
  PROVE  /\ Updated(fs, f, st) \in [File -> Status]
         /\ \A g \in File : Updated(fs, f, st)[g] =
              IF g = f /\ fs[f] # "none" THEN st ELSE fs[g]
  BY DEF Updated

\* What a batch does when it is done with its first file.
LEMMA ProceedType ==
  ASSUME TypeOK, NEW n \in DOMAIN batches, NEW st \in {"done", "failed"}, Proceed(n, st),
         begun' = begun
  PROVE  /\ BatchesOK' /\ ListOK' /\ sending' \in BOOLEAN
         /\ \A f \in File : files[f] = "none" => files'[f] = "none"
<1> DEFINE b == batches[n]  rest == Tail(b.todo)  fs == Updated(files, b.todo[1], st)
<1>1. b \in Batch /\ b.todo \in Seq(File) /\ b.todo # <<>> /\ rest \in Seq(File)
      /\ b.todo[1] \in File
  <2>1. b \in Batch /\ b.todo # <<>>
    BY DEF TypeOK, BatchesOK
  <2>2. QED
    BY <2>1, TailOfTodo DEF Batch
<1>2. fs \in [File -> Status] /\ \A f \in File : files[f] = "none" => fs[f] = "none"
  <2>1. st \in Status \ {"none"} /\ files \in [File -> Status]
    BY DEF TypeOK, ListOK, Status
  <2>2. QED
    BY <1>1, <2>1, UpdatedType
<1> HIDE DEF fs
<1>3. CASE rest # <<>>
  <2>1. batches' = [batches EXCEPT ![n].todo = rest] /\ files' = Updated(fs, rest[1], "busy")
        /\ sending' = sending
    BY <1>3 DEF Proceed, fs
  <2>2. rest[1] \in File
    BY <1>1, <1>3, TailOfTodo
  <2>3. "busy" \in Status \ {"none"}
    BY DEF Status
  <2>4. files' \in [File -> Status] /\ \A f \in File : fs[f] = "none" => files'[f] = "none"
    BY <1>2, <2>1, <2>2, <2>3 DEF Updated
  <2>5. [b EXCEPT !.todo = rest] \in Batch /\ [b EXCEPT !.todo = rest].todo # <<>>
    BY <1>1, <1>3 DEF Batch
  <2>6. /\ DOMAIN batches' = DOMAIN batches /\ batches'[n] = [b EXCEPT !.todo = rest]
        /\ \A m \in DOMAIN batches \ {n} : batches'[m] = batches[m]
        /\ batches' = [m \in DOMAIN batches |-> batches'[m]]
    <3>1. batches = [m \in DOMAIN batches |-> batches[m]]
      BY DEF TypeOK, BatchesOK
    <3>2. QED
      BY <2>1, <3>1
  <2>7. BatchesOK'
    BY <2>5, <2>6 DEF TypeOK, BatchesOK
  <2>8. QED
    BY <1>2, <2>1, <2>4, <2>7 DEF TypeOK, PlainOK, ListOK
<1>4. CASE rest = <<>>
  <2>1. batches' = [m \in DOMAIN batches \ {n} |-> batches[m]] /\ files' = FailedOnly(fs)
        /\ sending' = FALSE
    BY <1>4 DEF Proceed, fs
  <2>2. files' \in [File -> Status] /\ \A f \in File : fs[f] = "none" => files'[f] = "none"
    BY <1>2, <2>1 DEF FailedOnly, Status
  <2>3. BatchesOK'
    BY <2>1 DEF TypeOK, BatchesOK
  <2>4. QED
    BY <1>2, <2>1, <2>2, <2>3 DEF ListOK
<1>5. QED
  BY <1>3, <1>4

\* The parts of the type invariant, step by step.
LEMMA CoreStep == TypeOK /\ [Next]_vars => Core'
<1> SUFFICES ASSUME TypeOK, [Next]_vars PROVE Core'
  OBVIOUS
<1> USE DEF TypeOK, Core
<1>1. ASSUME NEW f \in File, AddFile(f) PROVE Core'
  <2>1. PlainOK' /\ BatchesOK' /\ SentOK'
    BY <1>1 DEF AddFile, work, PlainOK, BatchesOK, SentOK
  <2>2. ListOK'
    BY <1>1 DEF AddFile, ListOK, Status
  <2>3. OriginOK' /\ Attached' = Attached \cup {f}
    BY <1>1 DEF AddFile, Originates, OriginOK, Attached, PlainOK
  <2>4. AttachedOK'
    BY <1>1, <2>3 DEF AddFile, Joins, work, AttachedOK, Waiting, ListOK
  <2>5. QED
    BY <2>1, <2>2, <2>3, <2>4
<1>2. ASSUME NEW f \in File, RemoveFile(f) PROVE Core'
  <2>1. PlainOK' /\ BatchesOK' /\ SentOK' /\ OriginOK'
    BY <1>2 DEF RemoveFile, work, PlainOK, BatchesOK, SentOK, OriginOK, Attached
  <2>2. ListOK'
    BY <1>2 DEF RemoveFile, ListOK, Status
  <2>3. AttachedOK'
    BY <1>2 DEF RemoveFile, work, AttachedOK, Attached, Waiting, ListOK
  <2>4. QED
    BY <2>1, <2>2, <2>3
<1>3. ASSUME NEW f \in File, RetryFile(f) PROVE Core'
  <2> DEFINE idle == [files EXCEPT ![f] = "idle"]
  <2>1. idle \in [File -> Status] /\ f \in Waiting
    BY <1>3 DEF RetryFile, ListOK, Status, Waiting
  <2>2. SentOK' /\ OriginOK'
    BY <1>3 DEF RetryFile, SentOK, OriginOK, Attached
  <2>3. CASE MaySend /\ Start(idle) /\ UNCHANGED late
    <3> PICK g \in Waiting : BatchesOK' /\ files' = [idle EXCEPT ![g] = "busy"]
      BY <2>1, <2>3, StartType
    <3>1. PlainOK' /\ ListOK'
      BY <1>3, <2>1, <2>3 DEF RetryFile, Start, PlainOK, ListOK, Status
    <3>2. AttachedOK'
      BY <1>3, <2>1, <2>3 DEF RetryFile, AttachedOK, Attached, Waiting, ListOK
    <3>3. QED
      BY <2>2, <3>1, <3>2
  <2>4. CASE /\ ~MaySend /\ files' = idle /\ Joins(f)
             /\ UNCHANGED <<sending, batches, begun, overlapped>>
    <3>1. PlainOK' /\ BatchesOK' /\ ListOK'
      BY <1>3, <2>1, <2>4 DEF RetryFile, PlainOK, BatchesOK, ListOK
    <3>2. AttachedOK'
      BY <1>3, <2>1, <2>4 DEF RetryFile, Joins, AttachedOK, Attached, Waiting, ListOK
    <3>3. QED
      BY <2>2, <3>1, <3>2
  <2>5. QED
    BY <1>3, <2>3, <2>4 DEF RetryFile
<1>4. ASSUME NEW f \in File, NEW ch \in Channel, SendVoice(f, ch) PROVE Core'
  <2>1. PlainOK' /\ ListOK' /\ BatchesOK' /\ SentOK'
    BY <1>4 DEF SendVoice, list, PlainOK, ListOK, BatchesOK, SentOK
  <2>2. OriginOK' /\ Attached' = Attached \cup {f}
    BY <1>4 DEF SendVoice, Originates, OriginOK, Attached, PlainOK
  <2>3. AttachedOK'
    BY <1>4, <2>2 DEF SendVoice, list, AttachedOK, Waiting
  <2>4. QED
    BY <2>1, <2>2, <2>3
<1>5. ASSUME NEW f \in File, VoiceSent(f) PROVE Core'
  <2>1. PlainOK' /\ ListOK' /\ BatchesOK' /\ OriginOK'
    BY <1>5 DEF VoiceSent, list, history, PlainOK, ListOK, BatchesOK, OriginOK, Attached
  <2>2. AttachedOK'
    BY <1>5 DEF VoiceSent, list, history, AttachedOK, Attached, Waiting
  <2>3. origin[f] \in Channel
    BY <1>5 DEF VoiceSent, OriginOK, AttachedOK, StageOK
  <2>4. SentOK'
    BY <1>5, <2>3 DEF VoiceSent, WsSendMessage, SentOK
  <2>5. QED
    BY <2>1, <2>2, <2>4
<1>6. ASSUME NEW f \in File, VoiceNotSent(f) PROVE Core'
  <2>1. PlainOK' /\ BatchesOK' /\ SentOK' /\ OriginOK'
    BY <1>6 DEF VoiceNotSent, PlainOK, BatchesOK, SentOK, OriginOK, Attached
  <2>2. ListOK'
    BY <1>6 DEF VoiceNotSent, ListOK, Status
  <2>3. AttachedOK'
    <3>1. f \in Attached \ Waiting /\ Attached' = Attached
      BY <1>6 DEF VoiceNotSent, AttachedOK, Attached
    <3>2. Waiting' = Waiting \cup {f}
      BY <1>6 DEF VoiceNotSent, Waiting, ListOK
    <3>3. late' \subseteq late \cup {f} /\ moved' \subseteq moved \cup {f}
      BY <1>6 DEF VoiceNotSent, Joins
    <3>4. f \notin removed
      BY <1>6 DEF VoiceNotSent, AttachedOK
    <3>5. QED
      BY <1>6, <3>1, <3>2, <3>3, <3>4 DEF VoiceNotSent, AttachedOK
  <2>4. QED
    BY <2>1, <2>2, <2>3
<1>7. ASSUME NEW ch \in Channel, OpenChannel(ch) PROVE Core'
  <2>1. PlainOK' /\ ListOK' /\ BatchesOK' /\ SentOK' /\ OriginOK'
    BY <1>7 DEF OpenChannel, list, work, PlainOK, ListOK, BatchesOK, SentOK, OriginOK, Attached
  <2>2. AttachedOK'
    BY <1>7 DEF OpenChannel, list, work, AttachedOK, Attached, Waiting
  <2>3. QED
    BY <2>1, <2>2
<1>8. CASE SetOnline
  BY <1>8 DEF SetOnline, list, work, history, PlainOK, ListOK, BatchesOK, SentOK, OriginOK,
              AttachedOK, Attached, Waiting
<1>9. CASE HandleSend
  <2>1. files \in [File -> Status]
    BY DEF ListOK
  <2> PICK g \in Waiting : BatchesOK' /\ files' = [files EXCEPT ![g] = "busy"]
    BY <1>9, <2>1, StartType DEF HandleSend
  <2>2. PlainOK' /\ ListOK' /\ SentOK' /\ OriginOK'
    <3>1. PlainOK'
      BY <1>9 DEF HandleSend, Start, PlainOK
    <3>2. ListOK'
      BY <1>9, <2>1 DEF HandleSend, ListOK, Status
    <3>3. SentOK' /\ OriginOK'
      BY <1>9 DEF HandleSend, SentOK, OriginOK, Attached
    <3>4. QED
      BY <3>1, <3>2, <3>3
  <2>3. AttachedOK'
    BY <1>9, <2>1 DEF HandleSend, AttachedOK, Attached, Waiting
  <2>4. QED
    BY <2>2, <2>3
<1>10. ASSUME NEW n \in DOMAIN batches, FileSent(n) PROVE Core'
  <2>1. batches[n].todo[1] \in File /\ Receiver(n) \in Channel
    BY TailOfTodo DEF BatchesOK, Batch, Receiver
  <2>2. /\ BatchesOK' /\ ListOK' /\ sending' \in BOOLEAN
        /\ \A f \in File : files[f] = "none" => files'[f] = "none"
    BY <1>10, ProceedType DEF FileSent
  <2>3. SentOK'
    <3>1. CASE sent' = sent
      BY <3>1 DEF SentOK
    <3>2. CASE sent' = [sent EXCEPT ![batches[n].todo[1]] = Append(@, Receiver(n))]
      BY <2>1, <3>2 DEF SentOK
    <3>3. QED
      BY <1>10, <3>1, <3>2 DEF FileSent, WsSendMessage
  <2>4. PlainOK' /\ OriginOK'
    BY <1>10, <2>2 DEF FileSent, history, PlainOK, OriginOK, Attached
  <2>5. AttachedOK'
    BY <1>10, <2>2 DEF FileSent, history, AttachedOK, Attached, Waiting
  <2>6. QED
    BY <2>2, <2>3, <2>4, <2>5
<1>11. ASSUME NEW n \in DOMAIN batches, NotSent(n) PROVE Core'
  <2>1. /\ BatchesOK' /\ ListOK' /\ sending' \in BOOLEAN
        /\ \A f \in File : files[f] = "none" => files'[f] = "none"
    BY <1>11, ProceedType DEF NotSent
  <2>2. PlainOK' /\ OriginOK' /\ SentOK'
    BY <1>11, <2>1 DEF NotSent, history, PlainOK, OriginOK, Attached, SentOK
  <2>3. AttachedOK'
    BY <1>11, <2>1 DEF NotSent, history, AttachedOK, Attached, Waiting
  <2>4. QED
    BY <2>1, <2>2, <2>3
<1>12. CASE SendVideo \/ RejectVideo \/ VideoDone
  <2>1. ListOK' /\ BatchesOK' /\ SentOK' /\ OriginOK' /\ AttachedOK'
    BY <1>12 DEF SendVideo, RejectVideo, VideoDone, history, ListOK, BatchesOK, SentOK, OriginOK,
                 AttachedOK, Attached, Waiting
  <2>2. PlainOK'
    <3>1. videos' \in Nat
      BY <1>12 DEF SendVideo, RejectVideo, VideoDone, PlainOK
    <3>2. recorded' \in 0 .. MaxVideos
      BY <1>12 DEF SendVideo, RejectVideo, VideoDone, PlainOK
    <3>3. QED
      BY <1>12, <3>1, <3>2 DEF SendVideo, RejectVideo, VideoDone, history, PlainOK
  <2>3. QED
    BY <2>1, <2>2
<1>13. CASE (\E n \in DOMAIN batches : Uploaded(n)) \/ (\E f \in File : VoiceUploaded(f))
  BY <1>13 DEF Uploaded, VoiceUploaded, list, work, history, PlainOK, ListOK, BatchesOK, SentOK, OriginOK,
               AttachedOK, Attached, Waiting
<1>14. CASE UNCHANGED vars
  BY <1>14 DEF vars, list, work, history, PlainOK, ListOK, BatchesOK, SentOK, OriginOK,
               AttachedOK, Attached, Waiting
<1>15. QED
  BY <1>1, <1>2, <1>3, <1>4, <1>5, <1>6, <1>7, <1>8, <1>9, <1>10, <1>11, <1>12, <1>13, <1>14 DEF Next

\* A batch that has its message encrypted is there, and so is the voice message.
LEMMA StageStep == TypeOK /\ [Next]_vars => StageOK'
<1> SUFFICES ASSUME TypeOK, [Next]_vars PROVE StageOK'
  OBVIOUS
<1> USE DEF StageOK
<1>1. ASSUME UNCHANGED <<posting, voicing, lost>>, DOMAIN batches \subseteq DOMAIN batches',
             voices \subseteq voices'
      PROVE  StageOK'
  BY <1>1 DEF TypeOK
<1>2. ASSUME NEW f \in File, AddFile(f) \/ RemoveFile(f) PROVE StageOK'
  BY <1>1, <1>2 DEF AddFile, RemoveFile, work, stage
<1>3. ASSUME NEW fs, Start(fs) PROVE DOMAIN batches \subseteq DOMAIN batches'
  BY <1>3 DEF Start
<1>4. ASSUME NEW f \in File, RetryFile(f) PROVE StageOK'
  BY <1>1, <1>3, <1>4 DEF RetryFile, stage
<1>5. CASE HandleSend
  BY <1>1, <1>3, <1>5 DEF HandleSend, stage
<1>6. ASSUME NEW f \in File, NEW ch \in Channel, SendVoice(f, ch) PROVE StageOK'
  BY <1>1, <1>6 DEF SendVoice, stage
<1>7. CASE SetOnline \/ SendVideo \/ RejectVideo \/ VideoDone \/ \E ch \in Channel : OpenChannel(ch)
  BY <1>1, <1>7 DEF SetOnline, SendVideo, RejectVideo, VideoDone, OpenChannel, work, stage
<1>8. ASSUME NEW n \in DOMAIN batches, FileSent(n) \/ NotSent(n) PROVE StageOK'
  <2>1. PICK st \in {"done", "failed"} : Proceed(n, st)
    BY <1>8 DEF FileSent, NotSent
  <2>2. DOMAIN batches \ {n} \subseteq DOMAIN batches'
    <3>1. CASE Tail(batches[n].todo) # <<>>
      BY <2>1, <3>1 DEF Proceed
    <3>2. CASE Tail(batches[n].todo) = <<>>
      BY <2>1, <3>2 DEF Proceed
    <3>3. QED
      BY <3>1, <3>2
  <2>3. posting' = posting \ {n} /\ UNCHANGED <<voices, voicing>>
    BY <1>8 DEF FileSent, NotSent
  <2>4. batches[n].todo[1] \in File
    BY TailOfTodo DEF TypeOK, BatchesOK, Batch
  <2>5. lost' \in [File -> Nat]
    BY <1>8, <2>4 DEF FileSent, NotSent, WsSendMessage, TypeOK
  <2>6. QED
    BY <2>2, <2>3, <2>5 DEF TypeOK
<1>9. ASSUME NEW f \in File, VoiceSent(f) \/ VoiceNotSent(f) PROVE StageOK'
  <2>1. lost' \in [File -> Nat]
    BY <1>9 DEF VoiceSent, VoiceNotSent, WsSendMessage, TypeOK
  <2>2. voicing' = voicing \ {f} /\ voices' = voices \ {f} /\ UNCHANGED <<posting, batches>>
    BY <1>9 DEF VoiceSent, VoiceNotSent
  <2>3. QED
    BY <2>1, <2>2 DEF TypeOK
<1>10. CASE (\E n \in DOMAIN batches : Uploaded(n)) \/ (\E f \in File : VoiceUploaded(f))
  BY <1>10 DEF Uploaded, VoiceUploaded, work, TypeOK
<1>11. CASE UNCHANGED vars
  BY <1>1, <1>11 DEF vars, work, stage
<1>12. QED
  BY <1>2, <1>4, <1>5, <1>6, <1>7, <1>8, <1>9, <1>10, <1>11 DEF Next

LEMMA TypeStep == TypeOK /\ [Next]_vars => TypeOK'
  BY CoreStep, StageStep DEF TypeOK, Core

\* Every reachable state of the input is well typed, with any number of channels and files:
\* a file that waits or is being sent was attached, and a batch at work has a file left.
THEOREM TypeCorrect == Spec => []TypeOK
<1>1. QED
  BY InitType, TypeStep, PTL DEF Spec

-----------------------------------------------------------------------------
(* What a batch does, in full *)

Todo(b) == {b.todo[i] : i \in DOMAIN b.todo}

Once(s) == \A i, j \in DOMAIN s : i # j => s[i] # s[j]

LEMMA StartFacts ==
  ASSUME TypeOK, NEW fs \in [File -> Status], Start(fs)
  PROVE  \E k, todo :
           /\ k \notin DOMAIN batches /\ DOMAIN batches' = DOMAIN batches \cup {k}
           /\ batches'[k] = [ch |-> shown, todo |-> todo]
           /\ \A n \in DOMAIN batches : batches'[n] = batches[n]
           /\ todo \in Seq(Waiting) /\ Once(todo) /\ todo[1] \in Waiting
           /\ \A f \in Waiting : \E i \in DOMAIN todo : todo[i] = f
           /\ files' = [fs EXCEPT ![todo[1]] = "busy"]
<1> PICK todo \in SetToSeqs(Waiting) :
      /\ batches' = [n \in DOMAIN batches \cup {begun'} |->
                       IF n = begun' THEN [ch |-> shown, todo |-> todo] ELSE batches[n]]
      /\ files' = [fs EXCEPT ![todo[1]] = "busy"]
  BY DEF Start
<1>1. Waiting \in SUBSET File /\ Waiting # {}
  BY DEF Waiting, Start
<1>2. todo \in Seq(Waiting) /\ Once(todo) /\ todo[1] \in Waiting
  BY <1>1, TodoOfWaiting DEF Once
<1>3. \A f \in Waiting : \E i \in DOMAIN todo : todo[i] = f
  BY <1>1, TodoOfWaiting
<1>4. begun' \notin DOMAIN batches
  BY DEF Start, TypeOK, BatchesOK
<1>5. /\ begun' \notin DOMAIN batches /\ DOMAIN batches' = DOMAIN batches \cup {begun'}
      /\ batches'[begun'] = [ch |-> shown, todo |-> todo]
      /\ \A n \in DOMAIN batches : batches'[n] = batches[n]
  BY <1>4
<1>6. QED
  BY <1>2, <1>3, <1>5

First(n) == batches[n].todo[1]

Rest(n) == Tail(batches[n].todo)

LEMMA ProceedFacts ==
  ASSUME TypeOK, NEW n \in DOMAIN batches, NEW st \in {"done", "failed"}, Proceed(n, st)
  PROVE  /\ DOMAIN batches \ {n} \subseteq DOMAIN batches' /\ DOMAIN batches' \subseteq DOMAIN batches
         /\ \A m \in DOMAIN batches' \ {n} : batches'[m] = batches[m]
         /\ (n \in DOMAIN batches') <=> (Rest(n) # <<>>)
         /\ Rest(n) # <<>> =>
              /\ batches'[n] = [ch |-> batches[n].ch, todo |-> Rest(n)]
              /\ \A f \in File : files'[f] = IF files[f] = "none" THEN "none"
                                             ELSE IF f = Rest(n)[1] THEN "busy"
                                             ELSE IF f = First(n) THEN st ELSE files[f]
         /\ Rest(n) = <<>> =>
              \A f \in File : files'[f] = IF files[f] = "none" THEN "none"
                                          ELSE IF f = First(n) /\ st = "failed" THEN "failed"
                                          ELSE IF f # First(n) /\ files[f] = "failed" THEN "failed"
                                          ELSE "none"
<1> DEFINE fs == Updated(files, First(n), st)
<1>1. batches[n] \in Batch /\ Rest(n) \in Seq(File) /\ First(n) \in File
  <2>1. batches[n] \in Batch /\ batches[n].todo # <<>>
    BY DEF TypeOK, BatchesOK
  <2>2. QED
    BY <2>1, TailOfTodo DEF Batch, First, Rest
<1>2. fs \in [File -> Status]
      /\ \A f \in File : fs[f] = IF f = First(n) /\ files[f] # "none" THEN st ELSE files[f]
  BY <1>1 DEF Updated, TypeOK, ListOK, Status
<1> HIDE DEF fs
<1>3. CASE Rest(n) # <<>>
  <2>1. batches' = [batches EXCEPT ![n].todo = Rest(n)] /\ files' = Updated(fs, Rest(n)[1], "busy")
    BY <1>3 DEF Proceed, fs, First, Rest
  <2>2. Rest(n)[1] \in File
    BY <1>1, <1>3
  <2>3. \A f \in File : files'[f] = IF f = Rest(n)[1] /\ fs[f] # "none" THEN "busy" ELSE fs[f]
    BY <1>2, <2>1, <2>2 DEF Updated
  <2>4. /\ DOMAIN batches' = DOMAIN batches /\ batches'[n] = [batches[n] EXCEPT !.todo = Rest(n)]
        /\ \A m \in DOMAIN batches \ {n} : batches'[m] = batches[m]
    BY <2>1
  <2>5. batches'[n] = [ch |-> batches[n].ch, todo |-> Rest(n)]
    BY <1>1, <2>4 DEF Batch
  <2>6. QED
    BY <1>2, <1>3, <2>3, <2>4, <2>5
<1>4. CASE Rest(n) = <<>>
  <2>1. batches' = [m \in DOMAIN batches \ {n} |-> batches[m]] /\ files' = FailedOnly(fs)
    BY <1>4 DEF Proceed, fs, First, Rest
  <2>2. \A f \in File : files'[f] = IF fs[f] = "failed" THEN "failed" ELSE "none"
    BY <2>1 DEF FailedOnly
  <2>3. QED
    BY <1>2, <1>4, <2>1, <2>2
<1>5. QED
  BY <1>3, <1>4

\* What stays to be sent of a batch is what was, without the head.
LEMMA RestOfTodo ==
  ASSUME NEW s \in Seq(File), s # <<>>
  PROVE  /\ \A i \in DOMAIN Tail(s) : \E j \in DOMAIN s : j # 1 /\ Tail(s)[i] = s[j]
         /\ \A j \in DOMAIN s : j = 1 \/ \E i \in DOMAIN Tail(s) : Tail(s)[i] = s[j]
         /\ Once(s) => Once(Tail(s))
         /\ Tail(s) = <<>> => \A j \in DOMAIN s : j = 1
<1>1. \A i \in DOMAIN Tail(s) : i + 1 \in DOMAIN s /\ i + 1 # 1 /\ Tail(s)[i] = s[i + 1]
  OBVIOUS
<1>2. \A j \in DOMAIN s : j # 1 => j - 1 \in DOMAIN Tail(s) /\ Tail(s)[j - 1] = s[j]
  OBVIOUS
<1>3. Once(s) => Once(Tail(s))
  BY <1>1 DEF Once
<1>4. ASSUME Tail(s) = <<>> PROVE \A j \in DOMAIN s : j = 1
  <2>1. DOMAIN <<>> = {}
    OBVIOUS
  <2>2. QED
    BY <1>2, <1>4, <2>1
<1>5. QED
  BY <1>1, <1>2, <1>3, <1>4

-----------------------------------------------------------------------------
(* A file goes to the channel it was attached in *)

\* What waits was attached in the channel shown, and what a batch has to send in the
\* batch's channel, unless it moved. What was never attached was never sent.
GoesInv ==
  /\ \A f \in Waiting : origin[f] = shown \/ f \in moved
  /\ \A n \in DOMAIN batches : \A f \in Todo(batches[n]) :
       f \in Attached /\ (origin[f] = batches[n].ch \/ f \in moved)
  /\ \A f \in File \ Attached : sent[f] = <<>>
  /\ GoesWhereAttached

\* The step of a batch that is done with a file.
LEMMA GoesProceed ==
  ASSUME TypeOK, GoesInv, NEW n \in DOMAIN batches, NEW st \in {"done", "failed"},
         Proceed(n, st), UNCHANGED <<shown, begun, history>>
  PROVE  /\ \A f \in Waiting' : origin'[f] = shown' \/ f \in moved'
         /\ \A m \in DOMAIN batches' : \A f \in Todo(batches'[m]) :
              f \in Attached' /\ (origin'[f] = batches'[m].ch \/ f \in moved')
<1>0. /\ DOMAIN batches' \subseteq DOMAIN batches
      /\ \A m \in DOMAIN batches' \ {n} : batches'[m] = batches[m]
      /\ (n \in DOMAIN batches') <=> (Rest(n) # <<>>)
      /\ Rest(n) # <<>> => batches'[n] = [ch |-> batches[n].ch, todo |-> Rest(n)]
  BY ProceedFacts
<1>1. batches[n].todo \in Seq(File) /\ batches[n].todo # <<>>
  BY DEF TypeOK, BatchesOK, Batch
<1>2. Waiting' \subseteq Waiting
  BY ProceedType DEF Waiting
<1>3. \A f \in Waiting' : origin'[f] = shown' \/ f \in moved'
  BY <1>2 DEF GoesInv, history
<1>4. ASSUME NEW m \in DOMAIN batches', NEW f \in Todo(batches'[m])
      PROVE  f \in Attached' /\ (origin'[f] = batches'[m].ch \/ f \in moved')
  <2>1. m \in DOMAIN batches /\ batches'[m].ch = batches[m].ch /\ f \in Todo(batches[m])
    <3>1. CASE m # n
      <4>1. m \in DOMAIN batches /\ batches'[m] = batches[m]
        BY <1>0, <1>4, <3>1
      <4>2. QED
        BY <1>4, <4>1
    <3>2. CASE m = n
      <4>1. batches'[m] = [ch |-> batches[n].ch, todo |-> Rest(n)]
        BY <1>0, <1>4, <3>2
      <4>2. \A i \in DOMAIN Rest(n) : \E j \in DOMAIN batches[n].todo : Rest(n)[i] = batches[n].todo[j]
        BY <1>1, RestOfTodo DEF Rest
      <4>3. QED
        BY <1>4, <3>2, <4>1, <4>2 DEF Todo
    <3>3. QED
      BY <3>1, <3>2
  <2>2. QED
    BY <2>1 DEF GoesInv, history, Attached
<1>5. QED
  BY <1>3, <1>4

\* The step that begins a batch.
LEMMA GoesStart ==
  ASSUME TypeOK, GoesInv, NEW fs \in [File -> Status], Start(fs),
         \A f \in File : fs[f] # "none" => f \in Waiting,
         UNCHANGED <<shown, origin, moved>>
  PROVE  /\ \A f \in Waiting' : origin'[f] = shown' \/ f \in moved'
         /\ \A m \in DOMAIN batches' : \A f \in Todo(batches'[m]) :
              f \in Attached' /\ (origin'[f] = batches'[m].ch \/ f \in moved')
<1> PICK k, todo :
      /\ k \notin DOMAIN batches /\ DOMAIN batches' = DOMAIN batches \cup {k}
      /\ batches'[k] = [ch |-> shown, todo |-> todo]
      /\ \A n \in DOMAIN batches : batches'[n] = batches[n]
      /\ todo \in Seq(Waiting) /\ Once(todo) /\ todo[1] \in Waiting
      /\ \A f \in Waiting : \E i \in DOMAIN todo : todo[i] = f
      /\ files' = [fs EXCEPT ![todo[1]] = "busy"]
  BY StartFacts
<1>1. \A f \in Waiting' : f \in Waiting
  BY DEF Waiting
<1>2. \A f \in Waiting' : origin'[f] = shown' \/ f \in moved'
  BY <1>1 DEF GoesInv
<1>3. \A f \in Todo(batches'[k]) : f \in Waiting
  BY DEF Todo
<1>4. \A f \in Todo(batches'[k]) :
        f \in Attached' /\ (origin'[f] = batches'[k].ch \/ f \in moved')
  BY <1>3 DEF GoesInv, TypeOK, AttachedOK, Attached
<1>5. \A m \in DOMAIN batches : \A f \in Todo(batches'[m]) :
        f \in Attached' /\ (origin'[f] = batches'[m].ch \/ f \in moved')
  BY DEF GoesInv, Attached
<1>6. QED
  BY <1>2, <1>4, <1>5

\* Attaching a file disturbs nothing that is known of the others.
LEMMA GoesAttach ==
  ASSUME TypeOK, GoesInv, NEW f \in File \ Attached, NEW ch \in Channel, Originates(f, ch),
         UNCHANGED <<shown, batches, moved, sent>>,
         Waiting' \subseteq Waiting \cup {f}, f \in Waiting' => ch = shown
  PROVE  GoesInv'
<1>1. /\ Attached' = Attached \cup {f} /\ origin'[f] = ch
      /\ \A g \in Attached : origin'[g] = origin[g]
  BY DEF Originates, Attached
<1>2. \A g \in Waiting' : origin'[g] = shown' \/ g \in moved'
  BY <1>1 DEF GoesInv, TypeOK, AttachedOK
<1>3. \A n \in DOMAIN batches' : \A g \in Todo(batches'[n]) :
        g \in Attached' /\ (origin'[g] = batches'[n].ch \/ g \in moved')
  BY <1>1 DEF GoesInv
<1>4. \A g \in File \ Attached' : sent'[g] = <<>>
  BY <1>1 DEF GoesInv
<1>5. ASSUME NEW g \in Attached' PROVE Range(sent'[g]) \subseteq {origin'[g]} \/ g \in moved'
  <2>1. CASE g = f
    <3>1. DOMAIN <<>> = {}
      OBVIOUS
    <3>2. sent'[g] = <<>>
      BY <2>1 DEF GoesInv
    <3>3. QED
      BY <3>1, <3>2 DEF Range
  <2>2. CASE g \in Attached
    BY <1>1, <2>2 DEF GoesInv, GoesWhereAttached
  <2>3. QED
    BY <1>1, <1>5, <2>1, <2>2
<1>6. QED
  BY <1>2, <1>3, <1>4, <1>5 DEF GoesInv, GoesWhereAttached

\* A file goes to one more channel.
LEMMA GoesSend ==
  ASSUME TypeOK, GoesInv, NEW f \in Attached, NEW ch, ch = origin[f] \/ f \in moved, ch \in Channel,
         sent' = [sent EXCEPT ![f] = Append(@, ch)], UNCHANGED <<origin, moved>>
  PROVE  /\ \A g \in File \ Attached' : sent'[g] = <<>>
         /\ GoesWhereAttached'
<1>1. Attached' = Attached /\ f \in File
  BY DEF Attached, TypeOK, AttachedOK
<1>2. sent[f] \in Seq(Channel) /\ sent'[f] = Append(sent[f], ch)
      /\ \A g \in File \ {f} : sent'[g] = sent[g]
  BY <1>1 DEF TypeOK, SentOK
<1>3. Range(sent'[f]) \subseteq Range(sent[f]) \cup {ch}
  <2>1. \A i \in DOMAIN Append(sent[f], ch) :
          Append(sent[f], ch)[i] = ch \/ (i \in DOMAIN sent[f] /\ Append(sent[f], ch)[i] = sent[f][i])
    BY <1>2
  <2>2. QED
    BY <1>2, <2>1 DEF Range
<1>4. \A g \in File \ Attached' : sent'[g] = <<>>
  BY <1>1, <1>2 DEF GoesInv
<1>5. \A g \in Attached' : Range(sent'[g]) \subseteq {origin'[g]} \/ g \in moved'
  <2>1. ASSUME NEW g \in Attached, g # f
        PROVE  Range(sent'[g]) \subseteq {origin'[g]} \/ g \in moved'
    BY <1>2, <2>1 DEF GoesInv, GoesWhereAttached, TypeOK, AttachedOK
  <2>2. Range(sent'[f]) \subseteq {origin'[f]} \/ f \in moved'
    BY <1>3 DEF GoesInv, GoesWhereAttached
  <2>3. QED
    BY <1>1, <2>1, <2>2
<1>6. QED
  BY <1>4, <1>5 DEF GoesWhereAttached

LEMMA GoesInit == Init => GoesInv
<1> SUFFICES ASSUME Init PROVE GoesInv
  OBVIOUS
<1>1. DOMAIN batches = {} /\ Attached = {} /\ Waiting = {}
  BY DEF Init, Attached, Waiting
<1>2. \A f \in File : sent[f] = <<>>
  BY DEF Init
<1>3. QED
  BY <1>1, <1>2 DEF GoesInv, GoesWhereAttached

LEMMA GoesStep == TypeOK /\ GoesInv /\ [Next]_vars => GoesInv'
<1> SUFFICES ASSUME TypeOK, GoesInv, [Next]_vars PROVE GoesInv'
  OBVIOUS
<1>1. ASSUME NEW f \in File, AddFile(f) PROVE GoesInv'
  <2>1. Waiting' \subseteq Waiting \cup {f}
    BY <1>1 DEF AddFile, Waiting, TypeOK, ListOK
  <2>2. shown \in Channel
    BY DEF TypeOK, PlainOK
  <2>3. f \in File \ Attached /\ Originates(f, shown) /\ UNCHANGED <<shown, batches, moved, sent>>
    BY <1>1 DEF AddFile, work
  <2>4. QED
    BY <2>1, <2>2, <2>3, GoesAttach
<1>2. ASSUME NEW f \in File, RemoveFile(f) PROVE GoesInv'
  <2>1. Waiting' \subseteq Waiting
    BY <1>2 DEF RemoveFile, Waiting, TypeOK, ListOK
  <2>2. QED
    BY <1>2, <2>1 DEF RemoveFile, work, GoesInv, GoesWhereAttached, Attached
<1>3. ASSUME NEW f \in File, RetryFile(f) PROVE GoesInv'
  <2> DEFINE idle == [files EXCEPT ![f] = "idle"]
  <2>1. idle \in [File -> Status] /\ \A g \in File : idle[g] # "none" => g \in Waiting
    BY <1>3 DEF RetryFile, TypeOK, ListOK, Status, Waiting
  <2>2. /\ \A g \in Waiting' : origin'[g] = shown' \/ g \in moved'
        /\ \A m \in DOMAIN batches' : \A g \in Todo(batches'[m]) :
             g \in Attached' /\ (origin'[g] = batches'[m].ch \/ g \in moved')
    <3>1. CASE Start(idle)
      BY <1>3, <2>1, <3>1, GoesStart DEF RetryFile
    <3>2. CASE files' = idle /\ UNCHANGED batches
      BY <1>3, <2>1, <3>2 DEF RetryFile, GoesInv, Waiting, Attached
    <3>3. QED
      BY <1>3, <3>1, <3>2 DEF RetryFile
  <2>3. QED
    BY <1>3, <2>2 DEF RetryFile, GoesInv, GoesWhereAttached, Attached
<1>4. ASSUME NEW f \in File, NEW ch \in Channel, SendVoice(f, ch) PROVE GoesInv'
  <2>1. Waiting' \subseteq Waiting \cup {f} /\ f \notin Waiting'
    BY <1>4 DEF SendVoice, list, Waiting, TypeOK, AttachedOK
  <2>2. f \in File \ Attached /\ Originates(f, ch) /\ UNCHANGED <<shown, batches, moved, sent>>
    BY <1>4 DEF SendVoice
  <2>3. QED
    BY <2>1, <2>2, GoesAttach
<1>5. ASSUME NEW f \in File, VoiceSent(f) PROVE GoesInv'
  <2>1. f \in Attached /\ origin[f] \in Channel
    BY <1>5 DEF VoiceSent, TypeOK, OriginOK, AttachedOK, StageOK
  <2>2. (\A g \in File \ Attached' : sent'[g] = <<>>) /\ GoesWhereAttached'
    <3>1. CASE sent' = sent
      BY <1>5, <3>1 DEF VoiceSent, history, GoesInv, GoesWhereAttached, Attached
    <3>2. CASE sent' = [sent EXCEPT ![f] = Append(@, origin[f])]
      BY <1>5, <2>1, <3>2, GoesSend DEF VoiceSent, history
    <3>3. QED
      BY <1>5, <3>1, <3>2 DEF VoiceSent, WsSendMessage
  <2>3. QED
    BY <1>5, <2>2 DEF VoiceSent, list, history, GoesInv, Waiting, Attached
<1>6. ASSUME NEW f \in File, VoiceNotSent(f) PROVE GoesInv'
  <2>1. Waiting' \subseteq Waiting \cup {f} /\ moved \subseteq moved'
    BY <1>6 DEF VoiceNotSent, Waiting, TypeOK, ListOK
  <2>2. origin'[f] = shown' \/ f \in moved'
    BY <1>6 DEF VoiceNotSent
  <2>3. QED
    BY <1>6, <2>1, <2>2 DEF VoiceNotSent, GoesInv, GoesWhereAttached, Attached
<1>7. ASSUME NEW ch \in Channel, OpenChannel(ch) PROVE GoesInv'
  BY <1>7 DEF OpenChannel, list, work, GoesInv, GoesWhereAttached, Attached, Waiting
<1>8. CASE SetOnline
  BY <1>8 DEF SetOnline, list, work, history, GoesInv, GoesWhereAttached, Attached, Waiting
<1>9. CASE HandleSend
  <2>1. files \in [File -> Status] /\ \A f \in File : files[f] # "none" => f \in Waiting
    BY DEF TypeOK, ListOK, Waiting
  <2>2. /\ \A f \in Waiting' : origin'[f] = shown' \/ f \in moved'
        /\ \A m \in DOMAIN batches' : \A f \in Todo(batches'[m]) :
             f \in Attached' /\ (origin'[f] = batches'[m].ch \/ f \in moved')
    BY <1>9, <2>1, GoesStart DEF HandleSend
  <2>3. QED
    BY <1>9, <2>2 DEF HandleSend, GoesInv, GoesWhereAttached, Attached
<1>10. ASSUME NEW n \in DOMAIN batches, FileSent(n) PROVE GoesInv'
  <2>1. batches[n] \in Batch /\ batches[n].todo # <<>>
    BY DEF TypeOK, BatchesOK
  <2>2. First(n) \in Todo(batches[n]) /\ batches[n].ch \in Channel
    BY <2>1, TailOfTodo DEF Todo, First, Batch
  <2>3. First(n) \in Attached /\ (batches[n].ch = origin[First(n)] \/ First(n) \in moved)
    BY <2>2 DEF GoesInv
  <2>4. (\A g \in File \ Attached' : sent'[g] = <<>>) /\ GoesWhereAttached'
    <3>1. CASE sent' = sent
      BY <1>10, <3>1 DEF FileSent, history, GoesInv, GoesWhereAttached, Attached
    <3>2. CASE sent' = [sent EXCEPT ![First(n)] = Append(@, Receiver(n))]
      BY <1>10, <2>2, <2>3, <3>2, GoesSend DEF FileSent, history, Receiver
    <3>3. QED
      BY <1>10, <3>1, <3>2 DEF FileSent, WsSendMessage, First
  <2>5. /\ \A f \in Waiting' : origin'[f] = shown' \/ f \in moved'
        /\ \A m \in DOMAIN batches' : \A f \in Todo(batches'[m]) :
             f \in Attached' /\ (origin'[f] = batches'[m].ch \/ f \in moved')
    BY <1>10, GoesProceed DEF FileSent
  <2>6. QED
    BY <2>4, <2>5 DEF GoesInv
<1>11. ASSUME NEW n \in DOMAIN batches, NotSent(n) PROVE GoesInv'
  <2>1. /\ \A f \in Waiting' : origin'[f] = shown' \/ f \in moved'
        /\ \A m \in DOMAIN batches' : \A f \in Todo(batches'[m]) :
             f \in Attached' /\ (origin'[f] = batches'[m].ch \/ f \in moved')
    BY <1>11, GoesProceed DEF NotSent
  <2>2. QED
    BY <1>11, <2>1 DEF NotSent, history, GoesInv, GoesWhereAttached, Attached
<1>12. CASE SendVideo \/ RejectVideo \/ VideoDone
  BY <1>12 DEF SendVideo, RejectVideo, VideoDone, history, GoesInv, GoesWhereAttached, Attached,
               Waiting
<1>13. CASE (\E n \in DOMAIN batches : Uploaded(n)) \/ (\E f \in File : VoiceUploaded(f))
  BY <1>13 DEF Uploaded, VoiceUploaded, list, work, history, GoesInv, GoesWhereAttached, Attached, Waiting
<1>14. CASE UNCHANGED vars
  BY <1>14 DEF vars, list, work, history, GoesInv, GoesWhereAttached, Attached, Waiting
<1>15. QED
  BY <1>1, <1>2, <1>3, <1>4, <1>5, <1>6, <1>7, <1>8, <1>9, <1>10, <1>11, <1>12, <1>13, <1>14 DEF Next

\* A file is sent to the channel it was attached in and to no other, whatever is opened, sent and
\* retried meanwhile, unless it was waiting while another channel was opened.
THEOREM GoesCorrect == Spec => []GoesWhereAttached
<1>1. GoesInv => GoesWhereAttached
  BY DEF GoesInv
<1>2. QED
  BY <1>1, InitType, TypeStep, GoesInit, GoesStep, PTL DEF Spec

-----------------------------------------------------------------------------
(* A file is not lost, and not sent twice *)

OneBatch == ~overlapped => \A m, n \in DOMAIN batches : m = n

\* It was handed over, and counts as sent.
WasSent(f) == sent[f] # <<>> \/ lost[f] > 0

\* While one batch runs, what waits and did not come late is in its list, or it is done with.
KeptInv ==
  /\ OneBatch
  /\ \A f \in Waiting : files[f] = "done" => WasSent(f)
  /\ ~overlapped => \A n \in DOMAIN batches : \A f \in Waiting \ late :
       files[f] \in {"done", "failed"} \/ f \in Todo(batches[n])
  /\ KeptUntilSent

LEMMA KeptInit == Init => KeptInv
<1> SUFFICES ASSUME Init PROVE KeptInv
  OBVIOUS
<1>1. DOMAIN batches = {} /\ Attached = {} /\ Waiting = {}
  BY DEF Init, Attached, Waiting
<1>2. QED
  BY <1>1 DEF KeptInv, KeptUntilSent, OneBatch

\* A new batch is the only one, and has everything that waits.
LEMMA KeptStart ==
  ASSUME TypeOK, KeptInv, NEW fs \in [File -> Status], Start(fs),
         \A f \in File : (fs[f] = "none" <=> files[f] = "none") /\ (fs[f] = "done" => files[f] = "done"),
         UNCHANGED <<sent, lost, voices, origin, removed, late>>
  PROVE  KeptInv'
<1> PICK k, todo :
      /\ k \notin DOMAIN batches /\ DOMAIN batches' = DOMAIN batches \cup {k}
      /\ batches'[k] = [ch |-> shown, todo |-> todo]
      /\ \A n \in DOMAIN batches : batches'[n] = batches[n]
      /\ todo \in Seq(Waiting) /\ Once(todo) /\ todo[1] \in Waiting
      /\ \A f \in Waiting : \E i \in DOMAIN todo : todo[i] = f
      /\ files' = [fs EXCEPT ![todo[1]] = "busy"]
  BY StartFacts
<1>1. Waiting' = Waiting
  BY DEF Waiting
<1>2. ~overlapped' => DOMAIN batches' = {k}
  BY DEF Start, Running
<1>3. OneBatch'
  BY <1>2 DEF OneBatch
<1>4. \A f \in Waiting' : files'[f] = "done" => WasSent(f)'
  BY <1>1 DEF KeptInv, Waiting, WasSent
<1>5. \A f \in Waiting' : f \in Todo(batches'[k])
  BY <1>1 DEF Todo
<1>6. KeptUntilSent'
  BY <1>1 DEF Start, KeptInv, KeptUntilSent, InHand, Attached
<1>7. QED
  BY <1>2, <1>3, <1>4, <1>5, <1>6 DEF KeptInv

\* A batch that is done with a file drops none, unless it came late or was sent.
LEMMA KeptProceed ==
  ASSUME TypeOK, KeptInv, NEW n \in DOMAIN batches, NEW st \in {"done", "failed"}, Proceed(n, st),
         \A f \in File : (st = "done" /\ f = First(n)) \/ WasSent(f) => WasSent(f)',
         UNCHANGED <<voices, history>>
  PROVE  KeptInv'
<1>1. /\ batches[n].todo \in Seq(File) /\ batches[n].todo # <<>>
      /\ First(n) \in File /\ (Rest(n) # <<>> => Rest(n)[1] \in File)
  <2>1. batches[n] \in Batch /\ batches[n].todo # <<>>
    BY DEF TypeOK, BatchesOK
  <2>2. QED
    BY <2>1, TailOfTodo DEF Batch, First, Rest
<1>2. /\ DOMAIN batches' \subseteq DOMAIN batches
      /\ (n \in DOMAIN batches') <=> (Rest(n) # <<>>)
      /\ Rest(n) # <<>> => batches'[n] = [ch |-> batches[n].ch, todo |-> Rest(n)]
  BY ProceedFacts
<1>3. OneBatch'
  BY <1>2 DEF KeptInv, OneBatch, history
<1>4. Rest(n) # <<>> =>
        \A f \in File : files'[f] = IF files[f] = "none" THEN "none"
                                    ELSE IF f = Rest(n)[1] THEN "busy"
                                    ELSE IF f = First(n) THEN st ELSE files[f]
  BY ProceedFacts
<1>5. Rest(n) = <<>> =>
        \A f \in File : files'[f] = IF files[f] = "none" THEN "none"
                                    ELSE IF f = First(n) /\ st = "failed" THEN "failed"
                                    ELSE IF f # First(n) /\ files[f] = "failed" THEN "failed"
                                    ELSE "none"
  BY ProceedFacts
<1>6. \A f \in Waiting' : f \in Waiting /\ (files'[f] = "done" => WasSent(f)')
  BY <1>4, <1>5 DEF KeptInv, Waiting
<1>7. \A f \in Todo(batches[n]) : f = First(n) \/ \E i \in DOMAIN Rest(n) : Rest(n)[i] = f
  <2>1. \A j \in DOMAIN batches[n].todo :
          j = 1 \/ \E i \in DOMAIN Rest(n) : Rest(n)[i] = batches[n].todo[j]
    BY <1>1, RestOfTodo DEF Rest
  <2>2. QED
    BY <2>1 DEF Todo, First
<1>8. ASSUME ~overlapped', NEW m \in DOMAIN batches', NEW f \in Waiting' \ late'
      PROVE  files'[f] \in {"done", "failed"} \/ f \in Todo(batches'[m])
  <2>1. m = n /\ Rest(n) # <<>> /\ f \in Waiting \ late
    BY <1>2, <1>6, <1>8 DEF KeptInv, OneBatch, history
  <2>2. files[f] \in {"done", "failed"} \/ f \in Todo(batches[n])
    BY <1>8, <2>1 DEF KeptInv, history
  <2>3. 1 \in DOMAIN Rest(n)
    BY <1>1, <2>1 DEF Rest
  <2>4. CASE f = Rest(n)[1] \/ \E i \in DOMAIN Rest(n) : Rest(n)[i] = f
    BY <1>2, <2>1, <2>3, <2>4 DEF Todo
  <2>5. CASE f # Rest(n)[1] /\ f \notin Todo(batches[n])
    BY <1>4, <2>1, <2>2, <2>5 DEF Waiting
  <2>6. CASE f # Rest(n)[1] /\ f = First(n)
    BY <1>4, <2>1, <2>6 DEF Waiting
  <2>7. QED
    BY <1>7, <2>4, <2>5, <2>6
<1>9. ASSUME NEW f \in Attached', ~overlapped', f \notin late', f \notin removed', ~WasSent(f)'
      PROVE  InHand(f)'
  <2>1. f \in Waiting \/ f \in voices
    BY <1>9 DEF KeptInv, KeptUntilSent, InHand, WasSent, Attached, history, TypeOK, AttachedOK
  <2>2. CASE f \in voices
    BY <2>2 DEF InHand
  <2>3. CASE f \in Waiting /\ Rest(n) # <<>>
    BY <1>4, <2>3 DEF InHand, Waiting
  <2>4. CASE f \in Waiting /\ Rest(n) = <<>>
    <3>1. files[f] # "done" /\ (f = First(n) => st = "failed")
      BY <1>9, <2>4 DEF KeptInv, Waiting
    <3>2. files[f] = "failed" \/ f = First(n)
      <4>1. files[f] = "failed" \/ f \in Todo(batches[n])
        BY <1>9, <2>4, <3>1 DEF KeptInv, history
      <4>2. QED
        BY <1>7, <2>4, <4>1
    <3>3. files'[f] = "failed"
      BY <1>5, <2>4, <3>1, <3>2 DEF Waiting
    <3>4. QED
      BY <2>4, <3>3 DEF InHand, Waiting
  <2>5. QED
    BY <2>1, <2>2, <2>3, <2>4
<1>10. QED
  BY <1>3, <1>6, <1>8, <1>9 DEF KeptInv, KeptUntilSent, WasSent

\* What waits after the step waited as it does, or came late.
WaitsStill ==
  \A f \in Waiting' : \/ f \in Waiting /\ files'[f] = files[f]
                      \/ files'[f] # "done" /\ (Running => f \in late')

\* What is in hand no more was sent or taken out.
HandStill ==
  \A f \in Attached' : \/ InHand(f)' \/ f \in removed' \/ WasSent(f)'
                       \/ f \in Attached /\ ~InHand(f)

\* A step that leaves the batches alone.
LEMMA KeptBeside ==
  ASSUME TypeOK, KeptInv, UNCHANGED <<batches, overlapped>>,
         \A f \in File : WasSent(f) => WasSent(f)',
         late \subseteq late', removed \subseteq removed',
         WaitsStill, HandStill
  PROVE  KeptInv'
<1>1. \A f \in Waiting' : f \in File
  BY DEF Waiting
<1>2. \A f \in Waiting' : files'[f] = "done" => WasSent(f)'
  BY <1>1 DEF KeptInv, WaitsStill
<1>3. ASSUME ~overlapped', NEW n \in DOMAIN batches', NEW f \in Waiting' \ late'
      PROVE  files'[f] \in {"done", "failed"} \/ f \in Todo(batches'[n])
  <2>1. f \in Waiting \ late /\ files'[f] = files[f]
    BY <1>3 DEF Running, WaitsStill
  <2>2. QED
    BY <1>3, <2>1 DEF KeptInv
<1>4. KeptUntilSent'
  BY DEF KeptInv, KeptUntilSent, HandStill, WasSent, TypeOK, AttachedOK
<1>5. QED
  BY <1>2, <1>3, <1>4 DEF KeptInv, OneBatch

\* What is handed over was sent or is lost, and nothing that was is undone.
LEMMA HandedOver ==
  ASSUME TypeOK, NEW f \in File, NEW ch \in Channel, WsSendMessage(f, ch)
  PROVE  WasSent(f)' /\ \A g \in File : WasSent(g) => WasSent(g)'
<1>1. sent[f] \in Seq(Channel) /\ lost[f] \in Nat
  BY DEF TypeOK, SentOK, StageOK
<1>2. CASE sent' = [sent EXCEPT ![f] = Append(@, ch)] /\ lost' = lost
  <2>1. sent'[f] = Append(sent[f], ch) /\ \A g \in File \ {f} : sent'[g] = sent[g]
    BY <1>2 DEF TypeOK, SentOK
  <2>2. sent'[f] # <<>>
    BY <1>1, <2>1
  <2>3. QED
    BY <1>2, <2>1, <2>2 DEF WasSent
<1>3. CASE lost' = [lost EXCEPT ![f] = @ + 1] /\ sent' = sent
  <2>1. lost'[f] = lost[f] + 1 /\ \A g \in File \ {f} : lost'[g] = lost[g]
    BY <1>3 DEF TypeOK, StageOK
  <2>2. lost'[f] > 0
    BY <1>1, <2>1
  <2>3. QED
    BY <1>3, <2>1, <2>2 DEF WasSent
<1>4. QED
  BY <1>2, <1>3 DEF WsSendMessage

LEMMA KeptStep == TypeOK /\ KeptInv /\ [Next]_vars => KeptInv'
<1> SUFFICES ASSUME TypeOK, KeptInv, [Next]_vars PROVE KeptInv'
  OBVIOUS
<1>1. ASSUME NEW f \in File, AddFile(f) PROVE KeptInv'
  <2>1. /\ files'[f] = "idle" /\ \A g \in File \ {f} : files'[g] = files[g]
        /\ Attached' = Attached \cup {f} /\ (Running => f \in late') /\ late \subseteq late'
    BY <1>1 DEF AddFile, Originates, Joins, Attached, TypeOK, ListOK
  <2>2. WaitsStill
    BY <1>1, <2>1 DEF WaitsStill, Waiting
  <2>3. HandStill
    BY <1>1, <2>1 DEF AddFile, work, HandStill, InHand, Waiting
  <2>4. QED
    BY <1>1, <2>1, <2>2, <2>3, KeptBeside DEF AddFile, work, WasSent
<1>2. ASSUME NEW f \in File, RemoveFile(f) PROVE KeptInv'
  <2>1. files'[f] = "none" /\ \A g \in File \ {f} : files'[g] = files[g]
    BY <1>2 DEF RemoveFile, TypeOK, ListOK
  <2>2. Attached' = Attached /\ Attached \subseteq File
    BY <1>2 DEF RemoveFile, Attached, TypeOK, AttachedOK
  <2>3. WaitsStill
    BY <1>2, <2>1 DEF WaitsStill, Waiting
  <2>4. HandStill
    BY <1>2, <2>1, <2>2 DEF RemoveFile, work, HandStill, InHand, Waiting
  <2>5. QED
    BY <1>2, <2>3, <2>4, KeptBeside DEF RemoveFile, work, WasSent
<1>3. ASSUME NEW f \in File, RetryFile(f) PROVE KeptInv'
  <2> DEFINE idle == [files EXCEPT ![f] = "idle"]
  <2>1. /\ idle \in [File -> Status] /\ files[f] = "failed" /\ idle[f] = "idle"
        /\ \A g \in File \ {f} : idle[g] = files[g]
    BY <1>3 DEF RetryFile, TypeOK, ListOK, Status
  <2>2. CASE Start(idle) /\ UNCHANGED late
    BY <1>3, <2>1, <2>2, KeptStart DEF RetryFile
  <2>3. CASE files' = idle /\ Joins(f) /\ UNCHANGED <<batches, overlapped>>
    <3>1. (Running => f \in late') /\ late \subseteq late'
      BY <2>3 DEF Joins
    <3>2. Attached' = Attached /\ Attached \subseteq File
      BY <1>3 DEF RetryFile, Attached, TypeOK, AttachedOK
    <3>3. WaitsStill
      BY <2>1, <2>3, <3>1 DEF WaitsStill, Waiting
    <3>4. HandStill
      BY <1>3, <2>1, <2>3, <3>2 DEF RetryFile, HandStill, InHand, Waiting
    <3>5. QED
      BY <1>3, <2>3, <3>1, <3>3, <3>4, KeptBeside DEF RetryFile, WasSent
  <2>4. QED
    BY <1>3, <2>2, <2>3 DEF RetryFile
<1>4. ASSUME NEW f \in File, NEW ch \in Channel, SendVoice(f, ch) PROVE KeptInv'
  <2>1. Attached' = Attached \cup {f} /\ f \in voices' /\ voices \subseteq voices'
    BY <1>4 DEF SendVoice, Originates, Attached
  <2>2. WaitsStill
    BY <1>4 DEF SendVoice, list, WaitsStill, Waiting
  <2>3. HandStill
    BY <1>4, <2>1 DEF SendVoice, list, HandStill, InHand, Waiting
  <2>4. QED
    BY <1>4, <2>2, <2>3, KeptBeside DEF SendVoice, WasSent
<1>5. ASSUME NEW f \in File, VoiceSent(f) PROVE KeptInv'
  <2>1. f \in voices /\ origin[f] \in Channel
    BY <1>5 DEF VoiceSent, TypeOK, OriginOK, AttachedOK, StageOK
  <2>2. WasSent(f)' /\ \A g \in File : WasSent(g) => WasSent(g)'
    BY <1>5, <2>1, HandedOver DEF VoiceSent
  <2>3. Attached' = Attached /\ Attached \subseteq File
    BY <1>5 DEF VoiceSent, history, Attached, TypeOK, AttachedOK
  <2>4. WaitsStill
    BY <1>5 DEF VoiceSent, list, WaitsStill, Waiting
  <2>5. HandStill
    BY <1>5, <2>2, <2>3 DEF VoiceSent, list, history, HandStill, InHand, Waiting
  <2>6. QED
    BY <1>5, <2>2, <2>4, <2>5, KeptBeside DEF VoiceSent, history
<1>6. ASSUME NEW f \in File, VoiceNotSent(f) PROVE KeptInv'
  <2>1. /\ files'[f] = "idle" /\ \A g \in File \ {f} : files'[g] = files[g]
        /\ (Running => f \in late') /\ late \subseteq late'
    BY <1>6 DEF VoiceNotSent, Joins, TypeOK, ListOK
  <2>2. Attached' = Attached /\ Attached \subseteq File
    BY <1>6 DEF VoiceNotSent, Attached, TypeOK, AttachedOK
  <2>3. WaitsStill
    BY <1>6, <2>1 DEF WaitsStill, Waiting
  <2>4. HandStill
    BY <1>6, <2>1, <2>2 DEF VoiceNotSent, HandStill, InHand, Waiting
  <2>5. QED
    BY <1>6, <2>1, <2>3, <2>4, KeptBeside DEF VoiceNotSent, WasSent
<1>7. ASSUME NEW ch \in Channel, OpenChannel(ch) PROVE KeptInv'
  BY <1>7 DEF OpenChannel, list, work, KeptInv, OneBatch, KeptUntilSent, InHand, WasSent, Attached, Waiting
<1>8. CASE SetOnline
  BY <1>8 DEF SetOnline, list, work, history, KeptInv, OneBatch, KeptUntilSent, InHand, WasSent, Attached,
              Waiting
<1>9. CASE HandleSend
  <2>1. files \in [File -> Status]
    BY DEF TypeOK, ListOK
  <2>2. QED
    BY <1>9, <2>1, KeptStart DEF HandleSend
<1>10. ASSUME NEW n \in DOMAIN batches, FileSent(n) PROVE KeptInv'
  <2>1. batches[n] \in Batch /\ batches[n].todo # <<>>
    BY DEF TypeOK, BatchesOK
  <2>2. First(n) \in File /\ Receiver(n) \in Channel
    BY <2>1, TailOfTodo DEF First, Receiver, Batch
  <2>3. PICK f \in File, ch \in Channel : f = First(n) /\ ch = Receiver(n)
    BY <2>2
  <2>4. WsSendMessage(f, ch)
    BY <1>10, <2>3 DEF FileSent, First
  <2>5. \A g \in File : g = First(n) \/ WasSent(g) => WasSent(g)'
    BY <2>3, <2>4, HandedOver
  <2>6. QED
    BY <1>10, <2>5, KeptProceed DEF FileSent
<1>11. ASSUME NEW n \in DOMAIN batches, NotSent(n) PROVE KeptInv'
  <2>1. \A f \in File : WasSent(f) => WasSent(f)'
    BY <1>11 DEF NotSent, WasSent
  <2>2. QED
    BY <1>11, <2>1, KeptProceed DEF NotSent
<1>12. CASE SendVideo \/ RejectVideo \/ VideoDone
  BY <1>12 DEF SendVideo, RejectVideo, VideoDone, history, KeptInv, OneBatch, KeptUntilSent, InHand,
               WasSent, Attached, Waiting
<1>13. CASE (\E n \in DOMAIN batches : Uploaded(n)) \/ (\E f \in File : VoiceUploaded(f))
  BY <1>13 DEF Uploaded, VoiceUploaded, list, work, history, KeptInv, OneBatch, KeptUntilSent, InHand, WasSent, Attached,
               Waiting
<1>14. CASE UNCHANGED vars
  BY <1>14 DEF vars, list, work, history, KeptInv, OneBatch, KeptUntilSent, InHand, WasSent, Attached,
               Waiting
<1>15. QED
  BY <1>1, <1>2, <1>3, <1>4, <1>5, <1>6, <1>7, <1>8, <1>9, <1>10, <1>11, <1>12, <1>13, <1>14 DEF Next

\* A file that was attached is sent, still in the list or being sent, or taken out by the user, through
\* every failure and retry, unless it came while a batch ran, two batches ran at once, or its message
\* was handed to a socket that was not open.
THEOREM KeptCorrect == Spec => []KeptUntilSent
<1>1. KeptInv => KeptUntilSent
  BY DEF KeptInv
<1>2. QED
  BY <1>1, InitType, TypeStep, KeptInit, KeptStep, PTL DEF Spec

\* While one batch runs, it has every file once, and none that was sent. What was sent and still
\* waits is done, and only as long as the batch runs.
OnceInv ==
  /\ OneBatch
  /\ \A n \in DOMAIN batches : Todo(batches[n]) \subseteq Attached \ voices
  /\ \A f \in File : f \in voices \/ f \notin Attached => sent[f] = <<>>
  /\ ~overlapped =>
       /\ \A n \in DOMAIN batches :
            Once(batches[n].todo) /\ \A f \in Todo(batches[n]) : sent[f] = <<>>
       /\ \A f \in Waiting : sent[f] # <<>> => files[f] = "done" /\ Running
  /\ SentOnce

LEMMA LenOfEmpty == ASSUME NEW s, s = <<>> PROVE Len(s) = 0
  OBVIOUS

LEMMA OnceInit == Init => OnceInv
<1> SUFFICES ASSUME Init PROVE OnceInv
  OBVIOUS
<1>1. DOMAIN batches = {} /\ Waiting = {} /\ overlapped = FALSE
  BY DEF Init, Waiting
<1>2. \A f \in File : sent[f] = <<>>
  BY DEF Init
<1>3. SentOnce
  BY <1>2, LenOfEmpty DEF SentOnce
<1>4. QED
  BY <1>1, <1>2, <1>3 DEF OnceInv, OneBatch

LEMMA OnceStart ==
  ASSUME TypeOK, OnceInv, NEW fs \in [File -> Status], Start(fs),
         \A f \in File : (fs[f] = "none" <=> files[f] = "none"),
         UNCHANGED <<sent, voices, origin>>
  PROVE  OnceInv'
<1> PICK k, todo :
      /\ k \notin DOMAIN batches /\ DOMAIN batches' = DOMAIN batches \cup {k}
      /\ batches'[k] = [ch |-> shown, todo |-> todo]
      /\ \A n \in DOMAIN batches : batches'[n] = batches[n]
      /\ todo \in Seq(Waiting) /\ Once(todo) /\ todo[1] \in Waiting
      /\ \A f \in Waiting : \E i \in DOMAIN todo : todo[i] = f
      /\ files' = [fs EXCEPT ![todo[1]] = "busy"]
  BY StartFacts
<1>1. Waiting' = Waiting /\ Attached' = Attached
  BY DEF Waiting, Attached
<1>2. ~overlapped' => ~overlapped /\ DOMAIN batches = {} /\ DOMAIN batches' = {k}
  BY DEF Start, Running, TypeOK, PlainOK
<1>3. OneBatch'
  BY <1>2 DEF OneBatch
<1>4. Todo(batches'[k]) \subseteq Waiting
  BY DEF Todo
<1>5. \A n \in DOMAIN batches' : Todo(batches'[n]) \subseteq Attached' \ voices'
  BY <1>1, <1>4 DEF OnceInv, TypeOK, AttachedOK
<1>6. \A f \in File : f \in voices' \/ f \notin Attached' => sent'[f] = <<>>
  BY <1>1 DEF OnceInv
<1>7. ~overlapped' => \A f \in Waiting : sent'[f] = <<>>
  BY <1>2 DEF OnceInv, Running
<1>8. ~overlapped' =>
        /\ \A n \in DOMAIN batches' :
             Once(batches'[n].todo) /\ \A f \in Todo(batches'[n]) : sent'[f] = <<>>
        /\ \A f \in Waiting' : sent'[f] # <<>> => files'[f] = "done" /\ Running'
  BY <1>1, <1>2, <1>4, <1>7
<1>9. SentOnce'
  BY DEF Start, OnceInv, SentOnce
<1>10. QED
  BY <1>3, <1>5, <1>6, <1>8, <1>9 DEF OnceInv

\* A batch that is done with a file and, if it was sent, has marked it as done.
LEMMA OnceProceed ==
  ASSUME TypeOK, OnceInv, NEW n \in DOMAIN batches, NEW st \in {"done", "failed"}, Proceed(n, st),
         \/ sent' = sent
         \/ /\ st = "done"
            /\ \E ch \in Channel : sent' = [sent EXCEPT ![First(n)] = Append(@, ch)],
         UNCHANGED <<voices, history>>
  PROVE  OnceInv'
<1>1. /\ batches[n].todo \in Seq(File) /\ batches[n].todo # <<>> /\ 1 \in DOMAIN batches[n].todo
      /\ First(n) \in File /\ Rest(n) \in Seq(File)
  <2>1. batches[n] \in Batch /\ batches[n].todo # <<>>
    BY DEF TypeOK, BatchesOK
  <2>2. QED
    BY <2>1, TailOfTodo DEF Batch, First, Rest
<1>2. First(n) \in Todo(batches[n])
  BY <1>1 DEF Todo, First
<1>3. \A f \in File \ {First(n)} : sent'[f] = sent[f]
  BY DEF TypeOK, SentOK
<1>4. /\ DOMAIN batches' \subseteq DOMAIN batches
      /\ \A m \in DOMAIN batches' \ {n} : batches'[m] = batches[m]
      /\ (n \in DOMAIN batches') <=> (Rest(n) # <<>>)
      /\ Rest(n) # <<>> => batches'[n] = [ch |-> batches[n].ch, todo |-> Rest(n)]
  BY ProceedFacts
<1>5. OneBatch' /\ Attached' = Attached
  BY <1>4 DEF OnceInv, OneBatch, history, Attached
<1>6. \A i \in DOMAIN Rest(n) :
        \E j \in DOMAIN batches[n].todo : j # 1 /\ Rest(n)[i] = batches[n].todo[j]
  BY <1>1, RestOfTodo DEF Rest
<1>7. Once(batches[n].todo) => Once(Rest(n)) /\ \A i \in DOMAIN Rest(n) : Rest(n)[i] # First(n)
  <2>1. Once(batches[n].todo) => Once(Rest(n))
    BY <1>1, RestOfTodo DEF Rest
  <2>2. QED
    BY <1>1, <1>6, <2>1 DEF Once, First
<1>8. \A m \in DOMAIN batches' : Todo(batches'[m]) \subseteq Todo(batches[m])
  <2>1. Rest(n) # <<>> => Todo(batches'[n]) \subseteq Todo(batches[n])
    BY <1>4, <1>6 DEF Todo
  <2>2. QED
    BY <1>4, <2>1
<1>9. \A m \in DOMAIN batches' : Todo(batches'[m]) \subseteq Attached' \ voices'
  BY <1>4, <1>5, <1>8 DEF OnceInv
<1>10. \A f \in File : f \in voices' \/ f \notin Attached' => sent'[f] = <<>>
  BY <1>2, <1>3, <1>5 DEF OnceInv
<1>11. \A m \in DOMAIN batches' : ~overlapped =>
         Once(batches'[m].todo) /\ \A f \in Todo(batches'[m]) : sent'[f] = <<>>
  <2> SUFFICES ASSUME ~overlapped, NEW m \in DOMAIN batches'
               PROVE  Once(batches'[m].todo) /\ \A f \in Todo(batches'[m]) : sent'[f] = <<>>
    OBVIOUS
  <2>1. m = n /\ Rest(n) # <<>> /\ batches'[n].todo = Rest(n) /\ Once(batches[n].todo)
    BY <1>4 DEF OnceInv, OneBatch
  <2>2. Once(batches'[m].todo) /\ First(n) \notin Todo(batches'[m])
    BY <1>7, <2>1 DEF Todo
  <2>3. \A f \in Todo(batches'[m]) : f \in File /\ f # First(n) /\ sent[f] = <<>>
    <3>1. \A f \in Todo(batches'[m]) : f \in Todo(batches[n])
      BY <1>8, <2>1
    <3>2. QED
      BY <2>2, <3>1 DEF OnceInv, TypeOK, AttachedOK
  <2>4. QED
    BY <1>3, <2>2, <2>3
<1>12. ASSUME ~overlapped, NEW f \in Waiting', sent'[f] # <<>>
       PROVE  files'[f] = "done" /\ Running'
  <2>1. CASE Rest(n) # <<>>
    <3>1. f \in File /\ files[f] # "none" /\ files'[f] = IF f = Rest(n)[1] THEN "busy"
                                            ELSE IF f = First(n) THEN st ELSE files[f]
      BY <1>12, <2>1, ProceedFacts DEF Waiting
    <3>2. f # Rest(n)[1]
      <4>1. 1 \in DOMAIN Rest(n) /\ n \in DOMAIN batches' /\ batches'[n].todo = Rest(n)
        BY <1>1, <1>4, <2>1
      <4>2. Rest(n)[1] \in Todo(batches'[n])
        BY <4>1 DEF Todo
      <4>3. QED
        BY <1>11, <1>12, <4>1, <4>2
    <3>3. f # First(n) => files[f] = "done"
      BY <1>3, <1>12, <3>1 DEF OnceInv, Waiting
    <3>4. f = First(n) => st = "done"
      BY <1>2, <1>12 DEF OnceInv
    <3>5. QED
      BY <1>4, <2>1, <3>1, <3>2, <3>3, <3>4 DEF Running
  <2>2. CASE Rest(n) = <<>>
    <3>1. f \in File /\ (\/ f = First(n) /\ st = "failed"
                         \/ f # First(n) /\ files[f] = "failed")
      BY <1>12, <2>2, ProceedFacts DEF Waiting
    <3>2. f = First(n) => sent'[f] = <<>>
      BY <1>2, <1>12, <3>1 DEF OnceInv
    <3>3. f # First(n) => sent'[f] = <<>>
      BY <1>3, <1>12, <3>1 DEF OnceInv, Waiting
    <3>4. QED
      BY <1>12, <3>2, <3>3
  <2>3. QED
    BY <2>1, <2>2
<1>13. SentOnce'
  <2>1. \A f \in File \ {First(n)} : Len(sent'[f]) > 1 => overlapped'
    BY <1>3 DEF OnceInv, SentOnce, history
  <2>2. ASSUME ~overlapped PROVE ~(Len(sent'[First(n)]) > 1)
    <3>1. sent[First(n)] = <<>>
      BY <1>2, <2>2 DEF OnceInv
    <3>2. CASE sent' = sent
      BY <3>1, <3>2, LenOfEmpty
    <3>3. CASE \E ch \in Channel : sent' = [sent EXCEPT ![First(n)] = Append(@, ch)]
      <4>1. PICK ch \in Channel : sent'[First(n)] = Append(sent[First(n)], ch)
        BY <1>1, <3>3 DEF TypeOK, SentOK
      <4>2. sent[First(n)] \in Seq(Channel)
        BY <1>1 DEF TypeOK, SentOK
      <4>3. Len(sent'[First(n)]) = Len(sent[First(n)]) + 1
        BY <4>1, <4>2
      <4>4. QED
        BY <3>1, <4>3, LenOfEmpty
    <3>4. QED
      BY <3>2, <3>3
  <2>3. QED
    BY <1>1, <2>1, <2>2 DEF SentOnce, history
<1>14. QED
  BY <1>5, <1>9, <1>10, <1>11, <1>12, <1>13 DEF OnceInv, history

\* A step that sends nothing and leaves the batches alone.
LEMMA OnceBeside ==
  ASSUME TypeOK, OnceInv, UNCHANGED <<batches, overlapped, sent>>,
         Attached \subseteq Attached',
         \A f \in voices' : f \in voices \/ f \notin Attached,
         \A f \in Waiting' : (f \in Waiting /\ files'[f] = files[f]) \/ sent[f] = <<>>
  PROVE  OnceInv'
<1>1. \A n \in DOMAIN batches' : Todo(batches'[n]) \subseteq Attached' \ voices'
  BY DEF OnceInv
<1>2. \A f \in File : f \in voices' \/ f \notin Attached' => sent'[f] = <<>>
  BY DEF OnceInv
<1>3. ~overlapped => \A f \in Waiting' : sent'[f] # <<>> => files'[f] = "done" /\ Running'
  BY DEF OnceInv, Running
<1>4. QED
  BY <1>1, <1>2, <1>3 DEF OnceInv, OneBatch, SentOnce

LEMMA OnceStep == TypeOK /\ OnceInv /\ [Next]_vars => OnceInv'
<1> SUFFICES ASSUME TypeOK, OnceInv, [Next]_vars PROVE OnceInv'
  OBVIOUS
<1>1. ASSUME NEW f \in File, AddFile(f) PROVE OnceInv'
  <2>1. Attached' = Attached \cup {f} /\ \A g \in File \ {f} : files'[g] = files[g]
    BY <1>1 DEF AddFile, Originates, Attached, TypeOK, ListOK
  <2>2. \A g \in Waiting' : (g \in Waiting /\ files'[g] = files[g]) \/ sent[g] = <<>>
    BY <1>1, <2>1 DEF AddFile, Waiting, OnceInv
  <2>3. QED
    BY <1>1, <2>1, <2>2, OnceBeside DEF AddFile, work
<1>2. ASSUME NEW f \in File, RemoveFile(f) PROVE OnceInv'
  <2>1. files'[f] = "none" /\ \A g \in File \ {f} : files'[g] = files[g]
    BY <1>2 DEF RemoveFile, TypeOK, ListOK
  <2>2. \A g \in Waiting' : g \in Waiting /\ files'[g] = files[g]
    BY <2>1 DEF Waiting
  <2>3. QED
    BY <1>2, <2>2, OnceBeside DEF RemoveFile, work, Attached
<1>3. ASSUME NEW f \in File, RetryFile(f) PROVE OnceInv'
  <2> DEFINE idle == [files EXCEPT ![f] = "idle"]
  <2>1. /\ idle \in [File -> Status] /\ files[f] = "failed" /\ idle[f] = "idle"
        /\ \A g \in File \ {f} : idle[g] = files[g]
    BY <1>3 DEF RetryFile, TypeOK, ListOK, Status
  <2>2. CASE Start(idle)
    BY <1>3, <2>1, <2>2, OnceStart DEF RetryFile
  <2>3. CASE files' = idle /\ UNCHANGED <<batches, overlapped>>
    <3>1. CASE overlapped
      BY <1>3, <2>3, <3>1 DEF RetryFile, OnceInv, OneBatch, SentOnce, Attached
    <3>2. CASE ~overlapped
      <4>1. f \in Waiting /\ sent[f] = <<>>
        BY <2>1, <3>2 DEF OnceInv, Waiting
      <4>2. \A g \in Waiting' : (g \in Waiting /\ files'[g] = files[g]) \/ sent[g] = <<>>
        BY <2>1, <2>3, <4>1 DEF Waiting
      <4>3. QED
        BY <1>3, <2>3, <4>2, OnceBeside DEF RetryFile, Attached
    <3>3. QED
      BY <3>1, <3>2
  <2>4. QED
    BY <1>3, <2>2, <2>3 DEF RetryFile
<1>4. ASSUME NEW f \in File, NEW ch \in Channel, SendVoice(f, ch) PROVE OnceInv'
  <2>1. Attached' = Attached \cup {f}
    BY <1>4 DEF SendVoice, Originates, Attached
  <2>2. Waiting' = Waiting /\ files' = files
    BY <1>4 DEF SendVoice, list, Waiting
  <2>3. QED
    BY <1>4, <2>1, <2>2, OnceBeside DEF SendVoice
<1>5. ASSUME NEW f \in File, VoiceSent(f), sent' # sent PROVE OnceInv'
  <2>1. /\ f \in Attached \ Waiting /\ origin[f] \in Channel /\ sent[f] = <<>> /\ f \in voices
        /\ voices' = voices \ {f} /\ UNCHANGED <<files, batches, origin, overlapped>>
    BY <1>5 DEF VoiceSent, list, history, TypeOK, AttachedOK, OriginOK, StageOK, OnceInv
  <2>2. sent[f] \in Seq(Channel) /\ sent'[f] = Append(sent[f], origin[f])
        /\ \A g \in File \ {f} : sent'[g] = sent[g]
    BY <1>5 DEF VoiceSent, WsSendMessage, TypeOK, SentOK
  <2>3. Len(sent'[f]) = 1
    BY <2>1, <2>2, LenOfEmpty
  <2>4. SentOnce'
    <3>1. \A g \in File \ {f} : Len(sent'[g]) > 1 => overlapped'
      BY <2>1, <2>2 DEF OnceInv, SentOnce
    <3>2. ~(Len(sent'[f]) > 1)
      BY <2>3
    <3>3. QED
      BY <3>1, <3>2 DEF SentOnce
  <2>5. \A n \in DOMAIN batches : Todo(batches[n]) \subseteq File \ {f}
    BY <2>1 DEF OnceInv, TypeOK, AttachedOK
  <2>6. Attached' = Attached /\ Waiting' = Waiting /\ Running' = Running
    BY <2>1 DEF Attached, Waiting, Running
  <2>7. \A n \in DOMAIN batches' : Todo(batches'[n]) \subseteq Attached' \ voices'
    BY <2>1, <2>6 DEF OnceInv
  <2>8. \A g \in File : g \in voices' \/ g \notin Attached' => sent'[g] = <<>>
    BY <2>1, <2>2, <2>6 DEF OnceInv
  <2>9. ~overlapped' =>
          /\ \A n \in DOMAIN batches' :
               Once(batches'[n].todo) /\ \A g \in Todo(batches'[n]) : sent'[g] = <<>>
          /\ \A g \in Waiting' : sent'[g] # <<>> => files'[g] = "done" /\ Running'
    BY <2>1, <2>2, <2>5, <2>6 DEF OnceInv, Waiting
  <2>10. OneBatch'
    BY <2>1 DEF OnceInv, OneBatch
  <2>11. QED
    BY <2>4, <2>7, <2>8, <2>9, <2>10 DEF OnceInv
<1>6. ASSUME NEW f \in File, VoiceNotSent(f) PROVE OnceInv'
  <2>1. sent[f] = <<>> /\ \A g \in File \ {f} : files'[g] = files[g]
    BY <1>6 DEF VoiceNotSent, TypeOK, ListOK, OnceInv
  <2>2. \A g \in Waiting' : (g \in Waiting /\ files'[g] = files[g]) \/ sent[g] = <<>>
    BY <2>1 DEF Waiting
  <2>3. QED
    BY <1>6, <2>2, OnceBeside DEF VoiceNotSent, Attached
<1>7. ASSUME NEW ch \in Channel, OpenChannel(ch) PROVE OnceInv'
  <2>1. UNCHANGED <<files, batches, voices, sent, origin, overlapped>>
    BY <1>7 DEF OpenChannel, list, work
  <2>2. QED
    BY <2>1, OnceBeside DEF Attached, Waiting
<1>8. CASE SetOnline
  <2>1. UNCHANGED <<files, batches, voices, sent, origin, overlapped>>
    BY <1>8 DEF SetOnline, list, work, history
  <2>2. QED
    BY <2>1, OnceBeside DEF Attached, Waiting
<1>9. CASE HandleSend
  <2>1. files \in [File -> Status]
    BY DEF TypeOK, ListOK
  <2>2. QED
    BY <1>9, <2>1, OnceStart DEF HandleSend
<1>10. ASSUME NEW n \in DOMAIN batches, FileSent(n) PROVE OnceInv'
  <2>1. batches[n] \in Batch /\ batches[n].todo # <<>>
    BY DEF TypeOK, BatchesOK
  <2>2. Receiver(n) \in Channel
    BY <2>1 DEF Receiver, Batch
  <2>3. sent' = sent \/ sent' = [sent EXCEPT ![First(n)] = Append(@, Receiver(n))]
    BY <1>10 DEF FileSent, WsSendMessage, First
  <2>4. QED
    BY <1>10, <2>2, <2>3, OnceProceed DEF FileSent
<1>11. ASSUME NEW n \in DOMAIN batches, NotSent(n) PROVE OnceInv'
  BY <1>11, OnceProceed DEF NotSent
<1>12. CASE SendVideo \/ RejectVideo \/ VideoDone
  <2>1. UNCHANGED <<files, batches, voices, sent, origin, overlapped>>
    BY <1>12 DEF SendVideo, RejectVideo, VideoDone, history
  <2>2. QED
    BY <2>1, OnceBeside DEF Attached, Waiting
<1>13. CASE (\E n \in DOMAIN batches : Uploaded(n)) \/ (\E f \in File : VoiceUploaded(f))
  <2>1. UNCHANGED <<files, batches, voices, sent, origin, overlapped>>
    BY <1>13 DEF Uploaded, VoiceUploaded, list, work, history
  <2>2. QED
    BY <2>1, OnceBeside DEF Attached, Waiting
<1>14. ASSUME NEW f \in File, VoiceSent(f), sent' = sent PROVE OnceInv'
  <2>1. UNCHANGED <<files, batches, sent, origin, overlapped>> /\ voices' \subseteq voices
    BY <1>14 DEF VoiceSent, list, history
  <2>2. QED
    BY <2>1, OnceBeside DEF Attached, Waiting
<1>15. CASE UNCHANGED vars
  <2>1. UNCHANGED <<files, batches, voices, sent, origin, overlapped>>
    BY <1>15 DEF vars, list, work, history
  <2>2. QED
    BY <2>1, OnceBeside DEF Attached, Waiting
<1>16. QED
  BY <1>1, <1>2, <1>3, <1>4, <1>5, <1>6, <1>7, <1>8, <1>9, <1>10, <1>11, <1>12, <1>13, <1>14, <1>15 DEF Next

\* No file is sent twice, by batches, retries and recorded messages together, as long as no two
\* batches run at once.
THEOREM OnceCorrect == Spec => []SentOnce
<1>1. OnceInv => SentOnce
  BY DEF OnceInv
<1>2. QED
  BY <1>1, InitType, TypeStep, OnceInit, OnceStep, PTL DEF Spec

-----------------------------------------------------------------------------
(* The whole input implements Composer *)

\* What is known of the takes, of any order of events: each has the channel of its
\* beginning.
TakesOK ==
  /\ begunIn \in Seq(Channel) /\ takes = Len(begunIn)
  /\ recording \subseteq 1 .. takes
  /\ \A w \in waits : w.take \in 1 .. takes

LEMMA TakesInit == InputInit => TakesOK
  BY DEF InputInit, VoiceInit, TakesOK

\* Only startRecording makes takes; everything else ends or asks about those there are.
LEMMA TakesBeside ==
  ASSUME TakesOK, UNCHANGED <<takes, begunIn>>,
         recording' \subseteq recording \cup {w.take : w \in waits},
         \A w \in waits' : w.take \in recording \/ \E v \in waits : w.take = v.take
  PROVE  TakesOK'
  BY DEF TakesOK

\* Neither recorder changes the composer but through its own actions.
LEMMA EventStep ==
  ASSUME TypeOK, TakesOK, [InputNext]_inputVars
  PROVE  [Next]_vars /\ TakesOK'
<1> USE DEF Next
<1>1. CASE ComposerClick /\ UNCHANGED voiceVars
  BY <1>1, TakesBeside DEF ComposerClick, voiceVars, devices
<1>2. CASE ComposerEvent /\ UNCHANGED voiceVars
  BY <1>2, TakesBeside DEF ComposerEvent, voiceVars, devices
<1>3. CASE VideoNext /\ UNCHANGED voiceVars
  <2>1. TakesOK'
    BY <1>3, TakesBeside DEF voiceVars, devices
  <2>2. CASE Inspected \/ VideoDone
    BY <2>1, <2>2 DEF Inspected
  <2>3. CASE UNCHANGED vars
    BY <2>1, <2>3
  <2>4. Inspected \/ VideoDone \/ UNCHANGED vars
    BY <1>3 DEF VideoNext, Open, ToggleCamera, Allowed, Refused, FilmStopped, Trimmed, CameraLost,
                PieceAvailable, StartFilm, StopFilm, Retake, Close, SendFilm, TrimFilm
  <2>5. QED
    BY <2>2, <2>3, <2>4
<1>4. CASE VoiceClick
  <2>1. CASE StartRecording
    <3>1. UNCHANGED vars /\ takes' = takes + 1 /\ begunIn' = Append(begunIn, shown)
          /\ recording' \subseteq recording
      BY <2>1 DEF StartRecording, CleanUp, TurnOff
    <3>2. \A w \in waits' : w \in waits \/ w.take \in recording \/ w.take = takes'
      BY <2>1 DEF StartRecording, Ending
    <3>3. begunIn' \in Seq(Channel) /\ takes' = Len(begunIn') /\ takes \in Nat
      BY <3>1 DEF TakesOK, TypeOK, PlainOK
    <3>4. takes' \in 1 .. takes' /\ \A t \in 1 .. takes : t \in 1 .. takes'
      BY <3>1, <3>3
    <3>5. \A w \in waits' : w.take \in 1 .. takes'
      BY <3>1, <3>2, <3>4 DEF TakesOK
    <3>6. recording' \subseteq 1 .. takes'
      BY <3>1, <3>4 DEF TakesOK
    <3>7. QED
      BY <3>1, <3>3, <3>5, <3>6 DEF TakesOK
  <2>2. CASE PauseAndReview \/ QuickSend
    <3>1. UNCHANGED <<vars, takes, begunIn>> /\ recording' \subseteq recording
      BY <2>2 DEF PauseAndReview, QuickSend, StopRecorder
    <3>2. \A w \in waits' : w \in waits \/ w.take \in recording
      BY <2>2 DEF PauseAndReview, QuickSend, StopRecorder, Ending
    <3>3. QED
      BY <3>1, <3>2, TakesBeside
  <2>3. CASE SendPreview
    <3>1. \E f \in File : SendVoice(f, shown)
      BY <2>3 DEF SendPreview, HandOver
    <3>2. shown \in Channel
      BY DEF TypeOK, PlainOK
    <3>3. TakesOK'
      BY <2>3, TakesBeside DEF SendPreview, devices
    <3>4. QED
      BY <3>1, <3>2, <3>3
  <2>4. CASE Discard
    <3>1. UNCHANGED <<vars, takes, begunIn>> /\ recording' \subseteq recording
      BY <2>4 DEF Discard, DiscardRecording
    <3>2. \A w \in waits' : w \in waits \/ w.take \in recording
      BY <2>4 DEF Discard, DiscardRecording, Ending
    <3>3. QED
      BY <3>1, <3>2, TakesBeside
  <2>5. QED
    BY <1>4, <2>1, <2>2, <2>3, <2>4 DEF VoiceClick
<1>5. CASE VoiceEvent
  <2>1. ASSUME NEW w \in waits, Granted(w) \/ Previewed(w) PROVE [Next]_vars /\ TakesOK'
    <3>1. UNCHANGED <<vars, takes, begunIn>> /\ waits' \subseteq waits
          /\ recording' \subseteq recording \cup {w.take}
      BY <2>1 DEF Granted, Previewed, Decoded, devices
    <3>2. QED
      BY <3>1, TakesBeside
  <2>2. ASSUME NEW w \in waits, Denied(w) PROVE [Next]_vars /\ TakesOK'
    <3>1. UNCHANGED <<vars, takes, begunIn>> /\ recording' \subseteq recording
      BY <2>2 DEF Denied, CleanUp, TurnOff
    <3>2. \A v \in waits' : v \in waits \/ v.take \in recording
      BY <2>2 DEF Denied, Ending
    <3>3. QED
      BY <3>1, <3>2, TakesBeside
  <2>3. ASSUME NEW w \in waits, Stopped(w) PROVE [Next]_vars /\ TakesOK'
    <3>1. UNCHANGED <<vars, takes, begunIn>> /\ recording' \subseteq recording
      BY <2>3 DEF Stopped, CleanUp, TurnOff
    <3>2. \A v \in waits' : v \in waits \/ v.take \in recording \/ v.take = w.take
      BY <2>3 DEF Stopped, Ending
    <3>3. QED
      BY <3>1, <3>2, TakesBeside
  <2>4. ASSUME NEW w \in waits, SentAtOnce(w) PROVE [Next]_vars /\ TakesOK'
    <3>1. \E f \in File : SendVoice(f, begunIn[w.take])
      BY <2>4 DEF SentAtOnce, HandOver, QuickReceiver
    <3>2. begunIn[w.take] \in Channel
      BY DEF TakesOK
    <3>3. TakesOK'
      BY <2>4, TakesBeside DEF SentAtOnce, Decoded, devices
    <3>4. QED
      BY <3>1, <3>2, <3>3
  <2>5. ASSUME NEW t \in Take, DataAvailable(t) \/ MicLost(t) PROVE [Next]_vars /\ TakesOK'
    <3>1. UNCHANGED <<vars, takes, begunIn>> /\ recording' \subseteq recording
      BY <2>5 DEF DataAvailable, MicLost, TurnOff, devices
    <3>2. \A v \in waits' : v \in waits \/ v.take \in recording
      BY <2>5 DEF DataAvailable, MicLost, Ending
    <3>3. QED
      BY <3>1, <3>2, TakesBeside
  <2>6. ASSUME NEW f \in File, SendDone(f) PROVE [Next]_vars /\ TakesOK'
    <3>1. UNCHANGED <<takes, begunIn>> /\ recording' \subseteq recording
      BY <2>6 DEF SendDone, DiscardRecording
    <3>2. \A v \in waits' : v \in waits \/ v.take \in recording
      BY <2>6 DEF SendDone, DiscardRecording, Ending
    <3>3. VoiceSent(f) \/ VoiceNotSent(f)
      BY <2>6 DEF SendDone
    <3>4. QED
      BY <3>1, <3>2, <3>3, TakesBeside
  <2>7. QED
    BY <1>5, <2>1, <2>2, <2>3, <2>4, <2>5, <2>6 DEF VoiceEvent
<1>6. CASE UNCHANGED inputVars
  BY <1>6, TakesBeside DEF inputVars, voiceVars, devices
<1>7. QED
  BY <1>1, <1>2, <1>3, <1>4, <1>5, <1>6 DEF InputNext

LEMMA InputInv == InputSpec => [](TypeOK /\ TakesOK)
<1>1. InputInit => TypeOK /\ TakesOK
  BY InitType, TakesInit DEF InputInit
<1>2. TypeOK /\ TakesOK /\ [InputNext]_inputVars => (TypeOK /\ TakesOK)'
  BY EventStep, TypeStep
<1>3. QED
  BY <1>1, <1>2, PTL DEF InputSpec, inputVars

\* The input with its recorders is a Composer: whatever they hand over goes through its
\* actions, for a channel, and nothing else of theirs touches its state.
THEOREM InputImplementsComposer == InputSpec => Spec
<1>1. InputInit => Init
  BY DEF InputInit
<1>2. TypeOK /\ TakesOK /\ [InputNext]_inputVars => [Next]_vars
  BY EventStep
<1>3. QED
  BY <1>1, <1>2, InputInv, PTL DEF InputSpec, Spec, inputVars

\* So the files of the whole input are kept, sent once, and where they were meant to go.
THEOREM InputCorrect == InputSpec => [](KeptUntilSent /\ SentOnce /\ GoesWhereAttached)
  BY InputImplementsComposer, KeptCorrect, OnceCorrect, GoesCorrect, PTL

-----------------------------------------------------------------------------
(* One take at a time *)

\* While takes are not tangled, at most one thing is under way: a take is asked for, or
\* recorded, or comes to its end, or is decoded, or shown, or sent.
AloneInv ==
  /\ micsOn \subseteq {mic} /\ recording \subseteq micsOn /\ micsOn \subseteq {takes}
  /\ micsOn # {} => mode = "recording" /\ voices = {}
  /\ recording # {} => waits = {} /\ recorder = takes /\ chunks \subseteq {takes}
  /\ \A w \in waits :
       /\ waits = {w} /\ w.take = takes /\ recording = {} /\ voices = {}
       /\ mode # "preview" /\ (w.op = "ask" => mode = "idle")
       /\ w.op \in {"ask", "decode"} => micsOn = {}
       /\ w.op = "stop" => chunks \subseteq {takes}
       /\ w.op = "decode" => w.of \subseteq {takes}

\* What is shown and what was given are takes there are.
MeantInv ==
  /\ VoiceGoesWhereMeant
  /\ blob \subseteq 1 .. takes
  /\ \A g \in given : g[1] \in 1 .. takes

Alone == tangled \/ (AloneInv /\ MeantInv)

LEMMA AloneInit == InputInit => Alone
  BY DEF InputInit, VoiceInit, Alone, AloneInv, MeantInv, VoiceGoesWhereMeant

\* What was given stays right when no take is given, and no take changes its channel.
LEMMA MeantBeside ==
  ASSUME MeantInv, ~tangled, UNCHANGED <<given, begunIn, takes>>, wanted \subseteq wanted',
         blob' \subseteq blob
  PROVE  MeantInv'
  BY DEF MeantInv, VoiceGoesWhereMeant

\* Nothing but the recorder itself makes or ends voice messages.
LEMMA AloneBeside ==
  ASSUME AloneInv, MeantInv, UNCHANGED <<voiceVars, voices>>
  PROVE  AloneInv' /\ MeantInv'
  BY DEF AloneInv, MeantInv, VoiceGoesWhereMeant, voiceVars, devices, episodes

\* The end of the recorder's own recording, whatever else is switched off by it.
LEMMA AloneEnding ==
  ASSUME AloneInv, Ending(waits), UNCHANGED <<takes, chunks>>,
         recording' \subseteq recording, recording' \subseteq micsOn', micsOn' \subseteq micsOn,
         voices' \subseteq voices,
         mode' \in {mode, "idle"}, (mode' = mode /\ mic' = mic /\ recorder' = recorder) \/ micsOn' = {}
  PROVE  AloneInv'
<1>1. CASE recording' = recording
  <2>1. waits' = waits
    BY <1>1 DEF Ending
  <2>2. QED
    BY <1>1, <2>1 DEF AloneInv
<1>2. CASE recording' # recording
  <2>1. recording = {takes} /\ recording' = {} /\ waits = {} /\ chunks \subseteq {takes}
        /\ mode = "recording" /\ voices = {}
    BY <1>2 DEF AloneInv
  <2>2. waits' = {[op |-> "stop", take |-> takes]}
    BY <2>1 DEF Ending
  <2>3. QED
    BY <2>1, <2>2 DEF AloneInv
<1>3. QED
  BY <1>1, <1>2

\* Nothing is under way, or a take is decoded.
LEMMA AloneIdle ==
  ASSUME micsOn' = {}, recording' = {}, waits' = {} PROVE AloneInv'
  BY DEF AloneInv

LEMMA AloneDecode ==
  ASSUME NEW got \in SUBSET {takes'}, micsOn' = {}, recording' = {}, voices' = {}, mode' \notin {"preview"},
         waits' = {[op |-> "decode", take |-> takes', of |-> got]}
  PROVE  AloneInv'
  BY DEF AloneInv

LEMMA AloneStep ==
  ASSUME TypeOK, TakesOK, Alone, [InputNext]_inputVars
  PROVE  Alone'
<1> SUFFICES ASSUME ~tangled' PROVE AloneInv' /\ MeantInv'
  BY DEF Alone
<1>a. tangled => tangled'
  BY DEF InputNext, VoiceClick, VoiceEvent, StartRecording, PauseAndReview, QuickSend, SendPreview, Discard,
         Granted, Denied, Stopped, SentAtOnce, Previewed, DataAvailable, MicLost, SendDone,
         inputVars, voiceVars, episodes
<1>b. AloneInv /\ MeantInv /\ ~tangled
  BY <1>a DEF Alone
<1> USE <1>b
<1>1. CASE ComposerClick /\ UNCHANGED voiceVars
  <2>1. voices' = voices
    BY <1>1 DEF ComposerClick, AddFile, RemoveFile, RetryFile, OpenChannel, HandleSend, work
  <2>2. QED
    BY <1>1, <2>1, AloneBeside
<1>2. CASE ComposerEvent /\ UNCHANGED voiceVars
  <2>1. voices' = voices
    BY <1>2 DEF ComposerEvent, SetOnline, Uploaded, VoiceUploaded, FileSent, NotSent, work
  <2>2. QED
    BY <1>2, <2>1, AloneBeside
<1>3. CASE VideoNext /\ UNCHANGED voiceVars
  <2>1. CASE Inspected \/ VideoDone
    <3>1. voices' = voices
      BY <2>1 DEF Inspected, SendVideo, RejectVideo, VideoDone
    <3>2. QED
      BY <1>3, <3>1, AloneBeside
  <2>2. CASE UNCHANGED vars
    BY <1>3, <2>2, AloneBeside DEF vars, work
  <2>3. Inspected \/ VideoDone \/ UNCHANGED vars
    BY <1>3 DEF VideoNext, Open, ToggleCamera, Allowed, Refused, FilmStopped, Trimmed, CameraLost,
                PieceAvailable, StartFilm, StopFilm, Retake, Close, SendFilm, TrimFilm
  <2>4. QED
    BY <2>1, <2>2, <2>3
<1>4. CASE VoiceClick
  <2>1. CASE StartRecording
    <3>1. waits = {} /\ voices = {} /\ micsOn = {} /\ recording = {}
      BY <2>1 DEF StartRecording, AloneInv
    <3>2. /\ waits' = {[op |-> "ask", take |-> takes']}
          /\ micsOn' = {} /\ recording' = {} /\ mode' = "idle" /\ voices' = {}
      BY <2>1, <3>1 DEF StartRecording, CleanUp, TurnOff, Ending, vars, work
    <3>3. AloneInv'
      BY <3>2 DEF AloneInv
    <3>4. MeantInv'
      <4>1. UNCHANGED <<given, wanted, blob>> /\ begunIn' = Append(begunIn, shown) /\ takes' = takes + 1
        BY <2>1 DEF StartRecording
      <4>2. shown \in Channel /\ begunIn \in Seq(Channel) /\ takes = Len(begunIn)
        BY DEF TypeOK, PlainOK, TakesOK
      <4>3. \A n \in 1 .. takes : n \in 1 .. takes' /\ begunIn'[n] = begunIn[n]
        BY <4>1, <4>2
      <4>4. QED
        BY <4>1, <4>3 DEF MeantInv, VoiceGoesWhereMeant
    <3>5. QED
      BY <3>3, <3>4
  <2>2. CASE PauseAndReview \/ QuickSend
    <3>1. voices' = voices
      BY <2>2 DEF PauseAndReview, QuickSend, vars, work
    <3>2. AloneInv'
      BY <2>2, <3>1, AloneEnding DEF PauseAndReview, QuickSend, StopRecorder, AloneInv
    <3>3. MeantInv'
      BY <2>2, MeantBeside DEF PauseAndReview, QuickSend, episodes
    <3>4. QED
      BY <3>2, <3>3
  <2>3. CASE SendPreview
    <3>1. micsOn = {} /\ recording = {} /\ waits = {}
      BY <2>3 DEF SendPreview, AloneInv
    <3>2. UNCHANGED <<devices, waits>>
      BY <2>3 DEF SendPreview
    <3>3. AloneInv'
      BY <3>1, <3>2 DEF devices, AloneInv
    <3>4. given' = given \cup (blob \X {shown}) /\ wanted' = wanted \cup (blob \X {shown})
          /\ UNCHANGED <<begunIn, takes, blob>>
      BY <2>3 DEF SendPreview, HandOver
    <3>5. MeantInv'
      BY <3>4 DEF MeantInv, VoiceGoesWhereMeant
    <3>6. QED
      BY <3>3, <3>5
  <2>4. CASE Discard
    <3>1. voices' = voices
      BY <2>4 DEF Discard, vars, work
    <3>2. AloneInv'
      BY <2>4, <3>1, AloneEnding DEF Discard, DiscardRecording, AloneInv
    <3>3. MeantInv'
      BY <2>4, MeantBeside DEF Discard, DiscardRecording
    <3>4. QED
      BY <3>2, <3>3
  <2>5. QED
    BY <1>4, <2>1, <2>2, <2>3, <2>4 DEF VoiceClick
<1>5. CASE VoiceEvent
  <2>1. ASSUME NEW w \in waits, Granted(w) PROVE AloneInv' /\ MeantInv'
    <3>1. micsOn = {} /\ recording = {} /\ waits = {w} /\ w.take = takes /\ voices = {}
      BY <2>1 DEF Granted, AloneInv
    <3>2. /\ waits' = {} /\ mic' = takes /\ recorder' = takes /\ micsOn' = {takes} /\ recording' = {takes}
          /\ chunks' = {} /\ mode' = "recording" /\ voices' = {} /\ takes' = takes
      BY <2>1, <3>1 DEF Granted, Emptied, vars, work
    <3>3. AloneInv'
      BY <3>2 DEF AloneInv
    <3>4. MeantInv'
      BY <2>1, MeantBeside DEF Granted, episodes
    <3>5. QED
      BY <3>3, <3>4
  <2>2. ASSUME NEW w \in waits, Denied(w) PROVE AloneInv' /\ MeantInv'
    <3>1. micsOn = {} /\ recording = {} /\ waits = {w}
      BY <2>2 DEF Denied, AloneInv
    <3>2. waits' = {} /\ micsOn' = {} /\ recording' = {}
      BY <2>2, <3>1 DEF Denied, CleanUp, TurnOff, Ending
    <3>3. AloneInv'
      BY <3>2 DEF AloneInv
    <3>4. MeantInv'
      BY <2>2, MeantBeside DEF Denied
    <3>5. QED
      BY <3>3, <3>4
  <2>3. ASSUME NEW w \in waits, Stopped(w) PROVE AloneInv' /\ MeantInv'
    <3>1. recording = {} /\ waits = {w} /\ w.take = takes /\ chunks \subseteq {takes} /\ voices = {}
          /\ mode # "preview" /\ micsOn \subseteq {mic}
      BY <2>3 DEF Stopped, AloneInv
    <3>2. micsOn' = {} /\ recording' = {} /\ takes' = takes /\ voices' = {}
      BY <2>3, <3>1 DEF Stopped, CleanUp, TurnOff, vars, work
    <3>3. PICK got \in {chunks, chunks \cup {w.take}} :
            \/ Ending(waits \ {w})
            \/ mode' = mode /\ Ending((waits \ {w}) \cup {[op |-> "decode", take |-> w.take, of |-> got]})
      BY <2>3 DEF Stopped
    <3>4. ASSUME Ending(waits \ {w}) PROVE AloneInv'
      <4>1. waits' = {}
        BY <3>1, <3>2, <3>4 DEF Ending
      <4>2. QED
        BY <3>2, <4>1, AloneIdle
    <3>5. ASSUME mode' = mode /\ Ending((waits \ {w}) \cup {[op |-> "decode", take |-> w.take, of |-> got]})
          PROVE  AloneInv'
      <4>1. waits' = {[op |-> "decode", take |-> takes, of |-> got]} /\ got \subseteq {takes}
        BY <3>1, <3>2, <3>5 DEF Ending
      <4>2. QED
        BY <3>1, <3>2, <3>5, <4>1, AloneDecode
    <3>6. AloneInv'
      BY <3>3, <3>4, <3>5
    <3>7. MeantInv'
      BY <2>3, MeantBeside DEF Stopped
    <3>8. QED
      BY <3>6, <3>7
  <2>4. ASSUME NEW w \in waits, SentAtOnce(w) PROVE AloneInv' /\ MeantInv'
    <3>1. micsOn = {} /\ recording = {} /\ waits = {w} /\ w.take = takes /\ w.of \subseteq {takes}
      BY <2>4 DEF SentAtOnce, Decoded, AloneInv
    <3>2. UNCHANGED devices /\ waits' = {}
      BY <2>4, <3>1 DEF SentAtOnce, Decoded
    <3>3. AloneInv'
      BY <3>1, <3>2 DEF devices, AloneInv
    <3>4. given' = given \cup (w.of \X {begunIn[takes]}) /\ UNCHANGED <<wanted, begunIn, takes, blob>>
      BY <2>4, <3>1 DEF SentAtOnce, HandOver, QuickReceiver
    <3>5. takes \in 1 .. takes
      BY <3>1 DEF TakesOK
    <3>6. MeantInv'
      BY <3>1, <3>4, <3>5 DEF MeantInv, VoiceGoesWhereMeant
    <3>7. QED
      BY <3>3, <3>6
  <2>5. ASSUME NEW w \in waits, Previewed(w) PROVE AloneInv' /\ MeantInv'
    <3>1. micsOn = {} /\ recording = {} /\ waits = {w}
      BY <2>5 DEF Previewed, Decoded, AloneInv
    <3>2. UNCHANGED devices /\ waits' = {}
      BY <2>5, <3>1 DEF Previewed, Decoded
    <3>3. AloneInv'
      BY <3>1, <3>2 DEF devices, AloneInv
    <3>4. MeantInv'
      <4>1. UNCHANGED <<given, wanted, begunIn, takes>> /\ blob' \subseteq {takes} /\ takes \in 1 .. takes
        BY <2>5 DEF Previewed, Decoded, episodes, AloneInv, TakesOK
      <4>2. QED
        BY <4>1 DEF MeantInv, VoiceGoesWhereMeant
    <3>5. QED
      BY <3>3, <3>4
  <2>6. ASSUME NEW t \in Take, DataAvailable(t) PROVE AloneInv' /\ MeantInv'
    <3>1. t = takes /\ waits = {} /\ chunks' \subseteq {takes}
      BY <2>6 DEF DataAvailable, AloneInv
    <3>2. UNCHANGED <<mode, devices, waits, takes, voices>>
      BY <2>6 DEF DataAvailable, vars, work
    <3>3. AloneInv'
      BY <3>1, <3>2 DEF devices, AloneInv
    <3>4. MeantInv'
      BY <2>6, MeantBeside DEF DataAvailable, episodes
    <3>5. QED
      BY <3>3, <3>4
  <2>7. ASSUME NEW t \in Take, MicLost(t) PROVE AloneInv' /\ MeantInv'
    <3>1. voices' = voices
      BY <2>7 DEF MicLost, vars, work
    <3>2. AloneInv'
      BY <2>7, <3>1, AloneEnding DEF MicLost, TurnOff, AloneInv
    <3>3. MeantInv'
      BY <2>7, MeantBeside DEF MicLost, episodes
    <3>4. QED
      BY <3>2, <3>3
  <2>8. ASSUME NEW f \in File, SendDone(f) PROVE AloneInv' /\ MeantInv'
    <3>1. voices # {}
      BY <2>8 DEF SendDone, VoiceSent, VoiceNotSent, TypeOK, StageOK
    <3>2. micsOn = {} /\ recording = {} /\ waits = {}
      BY <3>1 DEF AloneInv
    <3>3. micsOn' = {} /\ recording' = {} /\ waits' = {}
      BY <2>8, <3>2 DEF SendDone, DiscardRecording, Ending
    <3>4. AloneInv'
      BY <3>3 DEF AloneInv
    <3>5. MeantInv'
      BY <2>8, MeantBeside DEF SendDone, DiscardRecording, episodes
    <3>6. QED
      BY <3>4, <3>5
  <2>9. QED
    BY <1>5, <2>1, <2>2, <2>3, <2>4, <2>5, <2>6, <2>7, <2>8 DEF VoiceEvent
<1>6. CASE UNCHANGED inputVars
  BY <1>6, AloneBeside DEF inputVars, vars, work
<1>7. QED
  BY <1>1, <1>2, <1>3, <1>4, <1>5, <1>6 DEF InputNext

LEMMA AloneAlways == InputSpec => []Alone
<1>1. TypeOK /\ TakesOK /\ Alone /\ [InputNext]_inputVars => Alone'
  BY AloneStep
<1>2. QED
  BY <1>1, AloneInit, InputInv, PTL DEF InputSpec, inputVars

\* A voice message goes to the channel in which it was begun or told to be sent, never
\* to one that is opened while it is decoded, for any number of takes, channels and files.
THEOREM MeantCorrect == InputSpec => []VoiceGoesWhereMeant
<1>1. Alone => VoiceGoesWhereMeant
  BY DEF Alone, MeantInv, VoiceGoesWhereMeant
<1>2. QED
  BY <1>1, AloneAlways, PTL

-----------------------------------------------------------------------------
(* One camera at a time *)

\* While nothing crossed, a camera that is asked for is all that is under way, and the
\* dialog waits for it.
OneCamera ==
  /\ camerasOn \subseteq {camera} /\ filming \subseteq camerasOn
  /\ camerasOn # {} => open /\ videoMode # "preview"
  /\ filming # {} => videoMode = "recording"
  /\ \A w \in pending : w.op = "ask" =>
       pending = {w} /\ open /\ videoMode = "idle" /\ camerasOn = {}

CameraInv == crossed \/ closedEarly \/ OneCamera

\* A camera is asked for when nothing is pending and nothing recorded.
LEMMA AskStep ==
  ASSUME OneCamera, pending = {}, filming = {}, StartCamera, open', videoMode' = "idle"
  PROVE  OneCamera'
<1>1. camerasOn' = {} /\ filming' = {}
  BY DEF StartCamera, StopStream, SwitchOff, OneCamera
<1>2. pending' = {[op |-> "ask", take |-> cameras', of |-> {}]}
  BY <1>1 DEF StartCamera, Finishing
<1>3. QED
  BY <1>1, <1>2 DEF OneCamera

\* Nothing is asked for, and the cameras go off.
LEMMA DarkStep ==
  ASSUME camerasOn' = {}, filming' = {}, \A w \in pending' : w.op # "ask"
  PROVE  OneCamera'
  BY DEF OneCamera

\* A recording ends, and nothing else changes.
LEMMA FilmEnds ==
  ASSUME OneCamera, Finishing(pending), UNCHANGED <<open, videoMode, camera>>,
         filming' \subseteq filming, camerasOn' \subseteq camerasOn, filming' \subseteq camerasOn'
  PROVE  OneCamera'
<1>1. CASE filming = {}
  <2>1. pending' = pending
    BY <1>1 DEF Finishing
  <2>2. QED
    BY <1>1, <2>1 DEF OneCamera
<1>2. CASE filming # {}
  <2>1. \A w \in pending : w.op # "ask"
    BY <1>2 DEF OneCamera
  <2>2. \A w \in pending' : w.op # "ask"
    BY <2>1 DEF Finishing
  <2>3. QED
    BY <2>2 DEF OneCamera
<1>3. QED
  BY <1>1, <1>2

LEMMA ShutStep ==
  ASSUME OneCamera, Shut PROVE camerasOn' = {} /\ filming' = {}
  BY DEF OneCamera, Shut

\* A film is delivered while nothing is asked for.
LEMMA DeliverStep ==
  ASSUME OneCamera, NEW what, NEW others \in SUBSET pending, Deliver(what, others),
         \A w \in pending : w.op # "ask"
  PROVE  OneCamera'
<1>1. \A w \in pending' : w.op # "ask"
  BY DEF Deliver, Finishing
<1>2. CASE open
  BY <1>1, <1>2, ShutStep, DarkStep DEF Deliver
<1>3. CASE ~open
  <2>1. camerasOn' = {} /\ filming' = {}
    BY <1>3 DEF Deliver, OneCamera
  <2>2. QED
    BY <1>1, <2>1, DarkStep
<1>4. QED
  BY <1>2, <1>3

\* That something was crossed is not forgotten.
LEMMA CrossedStays == VideoNext => (crossed => crossed') /\ (closedEarly => closedEarly')
<1> SUFFICES ASSUME VideoNext PROVE (crossed => crossed') /\ (closedEarly => closedEarly')
  OBVIOUS
<1>1. CASE Open \/ ToggleCamera \/ Retake
  <2>1. crossed' = (crossed \/ pending # {})
    BY <1>1 DEF Open, ToggleCamera, Retake, StartCamera
  <2>2. closedEarly' = closedEarly
    BY <1>1 DEF Open, ToggleCamera, Retake
  <2>3. QED
    BY <2>1, <2>2, Zenon
<1>2. CASE Close
  BY <1>2 DEF Close
<1>3. CASE StartFilm \/ StopFilm \/ SendFilm \/ TrimFilm \/ Inspected \/ UNCHANGED videoVars
  BY <1>3 DEF StartFilm, StopFilm, SendFilm, TrimFilm, Inspected, videoVars, filmEpisodes
<1>4. ASSUME NEW w \in pending, Allowed(w) \/ Refused(w) \/ FilmStopped(w) \/ Trimmed(w)
      PROVE  (crossed => crossed') /\ (closedEarly => closedEarly')
  BY <1>4 DEF Allowed, Refused, FilmStopped, Trimmed, filmEpisodes
<1>5. ASSUME NEW c \in Camera, CameraLost(c) \/ PieceAvailable(c)
      PROVE  (crossed => crossed') /\ (closedEarly => closedEarly')
  BY <1>5 DEF CameraLost, PieceAvailable, filmEpisodes
<1>6. QED
  BY <1>1, <1>2, <1>3, <1>4, <1>5 DEF VideoNext

LEMMA CameraStep ==
  ASSUME CameraInv, [InputNext]_inputVars PROVE CameraInv'
<1> SUFFICES ASSUME ~crossed', ~closedEarly' PROVE OneCamera'
  BY DEF CameraInv
<1>1. CASE UNCHANGED videoVars
  BY <1>1 DEF CameraInv, OneCamera, videoVars, cameraState, filmEpisodes
<1>2. CASE VideoNext
  <2>1. (crossed => crossed') /\ (closedEarly => closedEarly')
    BY <1>2, CrossedStays
  <2>2. OneCamera
    BY <2>1 DEF CameraInv
  <2>3. CASE Open
    <3>1. StartCamera /\ pending = {} /\ filming = {} /\ open' /\ videoMode' = "idle"
      BY <2>2, <2>3 DEF Open, StartCamera, OneCamera
    <3>2. QED
      BY <2>2, <3>1, AskStep
  <2>4. CASE ToggleCamera
    <3>1. StartCamera /\ pending = {} /\ filming = {} /\ open' /\ videoMode' = "idle"
      BY <2>2, <2>4 DEF ToggleCamera, StartCamera, OneCamera
    <3>2. QED
      BY <2>2, <3>1, AskStep
  <2>5. CASE Retake
    <3>1. StartCamera /\ pending = {} /\ filming = {} /\ open' /\ videoMode' = "idle"
      BY <2>2, <2>5 DEF Retake, StartCamera, OneCamera
    <3>2. QED
      BY <2>2, <3>1, AskStep
  <2>6. ASSUME NEW w \in pending, Allowed(w) PROVE OneCamera'
    <3>1. pending = {w} /\ open /\ videoMode = "idle" /\ camerasOn = {} /\ filming = {}
      BY <2>2, <2>6 DEF Allowed, OneCamera
    <3>2. pending' = {} /\ open' /\ videoMode' = "idle" /\ camerasOn' = {camera'} /\ filming' = {}
      BY <2>6, <3>1 DEF Allowed
    <3>3. QED
      BY <3>2 DEF OneCamera
  <2>7. ASSUME NEW w \in pending, Refused(w) PROVE OneCamera'
    BY <2>2, <2>7 DEF Refused, OneCamera
  <2>8. ASSUME NEW w \in pending, FilmStopped(w) PROVE OneCamera'
    <3>1. camerasOn' = {} /\ filming' = {} /\ \A v \in pending : v.op # "ask"
      BY <2>2, <2>8 DEF FilmStopped, StopStream, SwitchOff, OneCamera
    <3>2. \A v \in pending' : v.op # "ask"
      BY <2>8, <3>1 DEF FilmStopped, Finishing
    <3>3. QED
      BY <3>1, <3>2, DarkStep
  <2>9. ASSUME NEW w \in pending, Trimmed(w) PROVE OneCamera'
    <3>1. \A v \in pending : v.op # "ask"
      BY <2>2, <2>9 DEF Trimmed, OneCamera
    <3>2. Deliver(w.of, pending \ {w}) /\ (pending \ {w}) \in SUBSET pending
      BY <2>9 DEF Trimmed
    <3>3. QED
      BY <2>2, <3>1, <3>2, DeliverStep
  <2>10. ASSUME NEW c \in Camera, CameraLost(c) PROVE OneCamera'
    <3>1. /\ Finishing(pending) /\ UNCHANGED <<open, videoMode, camera>>
          /\ filming' \subseteq filming /\ camerasOn' \subseteq camerasOn /\ filming' \subseteq camerasOn'
      BY <2>2, <2>10 DEF CameraLost, SwitchOff, OneCamera
    <3>2. QED
      BY <2>2, <3>1, FilmEnds
  <2>11. ASSUME NEW c \in Camera, PieceAvailable(c) PROVE OneCamera'
    BY <2>2, <2>11 DEF PieceAvailable, OneCamera
  <2>12. CASE StartFilm
    BY <2>2, <2>12 DEF StartFilm, OneCamera
  <2>13. CASE StopFilm
    <3>1. /\ Finishing(pending) /\ UNCHANGED <<open, videoMode, camera>>
          /\ filming' \subseteq filming /\ camerasOn' \subseteq camerasOn /\ filming' \subseteq camerasOn'
      BY <2>2, <2>13 DEF StopFilm, OneCamera
    <3>2. QED
      BY <2>2, <3>1, FilmEnds
  <2>14. CASE Close
    <3>1. camerasOn' = {} /\ filming' = {}
      BY <2>2, <2>14, ShutStep DEF Close
    <3>2. \A w \in pending : w.op # "ask"
      BY <2>14 DEF Close, PendingFor
    <3>3. \A w \in pending' : w.op # "ask"
      BY <2>14, <3>2 DEF Close, Finishing
    <3>4. QED
      BY <3>1, <3>3, DarkStep
  <2>15. CASE SendFilm
    <3>1. \A v \in pending : v.op # "ask"
      BY <2>2, <2>15 DEF SendFilm, OneCamera
    <3>2. QED
      BY <2>2, <2>15, <3>1, DeliverStep DEF SendFilm
  <2>16. CASE TrimFilm
    BY <2>2, <2>16 DEF TrimFilm, cameraState, OneCamera
  <2>17. CASE Inspected \/ (VideoDone /\ UNCHANGED videoVars)
    BY <2>2, <2>17 DEF Inspected, videoVars, cameraState, OneCamera
  <2>18. QED
    BY <1>2, <2>3, <2>4, <2>5, <2>6, <2>7, <2>8, <2>9, <2>10, <2>11, <2>12, <2>13, <2>14, <2>15,
       <2>16, <2>17 DEF VideoNext
<1>3. QED
  BY <1>1, <1>2 DEF InputNext, inputVars

\* Neither recorder leaves a microphone or a camera on that the user does not see in use,
\* unless something crossed what it waited for; for any number of takes and cameras.
THEOREM CapturesCorrect == InputSpec => []CapturesAreShown
<1>1. InputInit => CameraInv
  BY DEF InputInit, VideoInit, CameraInv, OneCamera
<1>2. CameraInv /\ [InputNext]_inputVars => CameraInv'
  BY CameraStep
<1>3. InputSpec => []CameraInv
  BY <1>1, <1>2, PTL DEF InputSpec, inputVars
<1>4. Alone /\ CameraInv => CapturesAreShown
  BY DEF Alone, AloneInv, MicIsShown, CameraInv, OneCamera, CameraIsShown, CapturesAreShown
<1>5. QED
  BY <1>3, <1>4, AloneAlways, PTL

-----------------------------------------------------------------------------
(* What was recorded *)

\* VoiceIsKept, while takes are not tangled.
TakesKept ==
  /\ \A t \in 1 .. takes : UnderWay(t) \/ t \in Takes(given) \cup dropped
  /\ \A t, u \in blob : t = u
  /\ tooLate \/ dropped \cap (blob \cup Takes(given)) = {}
  /\ unreset \/ Takes(given) \subseteq Takes(wanted)

\* The take under way was not handed over yet, and was not discarded, unless that is what
\* its end waits for.
TakeOK ==
  /\ takes \in Takes(given) => waits = {} /\ recording = {}
  /\ ~tooLate /\ takes \in dropped =>
       recording = {} /\ \A w \in waits : w.op = "stop" /\ discarding /\ mode = "idle"
  /\ mode = "recording" => recording # {} \/ waits # {} \/ voices # {}
  /\ recording # {} => ~discarding
  /\ \A w \in waits :
       /\ w.op \in {"ask", "stop", "decode"}
       /\ w.op = "stop" => recorder = takes /\ (discarding => takes \in dropped)
       /\ w.op = "decode" => takes \in w.of
  /\ quick /\ ~unreset => takes \in Takes(wanted) /\ \E w \in waits : w.op # "ask"

\* What is shown is handed over once, and only one message is sent at a time.
ShowingOK ==
  /\ dropped \subseteq 0 .. takes /\ recorder \in 0 .. takes
  /\ blob # {} => mode = "preview"
  /\ voices # {} => isSending /\ blob \subseteq Takes(given)
  /\ voices = {} => blob \cap Takes(given) = {}
  /\ \A f, g \in voices : f = g

Keeping == tangled \/ (TakesKept /\ TakeOK /\ ShowingOK)

LEMMA TakesOfUnion ==
  ASSUME NEW pairs, NEW ts, NEW ch PROVE Takes(pairs \cup (ts \X {ch})) = Takes(pairs) \cup ts
<1>1. \A t \in ts : <<t, ch>> \in ts \X {ch} /\ <<t, ch>>[1] = t
  OBVIOUS
<1>2. QED
  BY <1>1 DEF Takes

LEMMA KeepingInit == InputInit => Keeping
  BY DEF InputInit, Init, VoiceInit, Keeping, TakesKept, TakeOK, ShowingOK, UnderWay, Takes

LEMMA KeepingBeside ==
  ASSUME TakesKept, TakeOK, ShowingOK, UNCHANGED <<voiceVars, voices>>
  PROVE  TakesKept' /\ TakeOK' /\ ShowingOK'
  BY DEF TakesKept, TakeOK, ShowingOK, UnderWay, voiceVars, devices, marks, episodes

\* A recording ends, by its button or the loss of the microphone.
LEMMA KeepingEnds ==
  ASSUME AloneInv, MeantInv, TakesKept, TakeOK, ShowingOK, TakesOK, Ending(waits),
         UNCHANGED <<mode, recorder, chunks, blob, isSending, takes, given, dropped, tooLate, unreset, voices>>,
         recording' \subseteq recording,
         discarding' => discarding, mode = "recording" \/ (discarding => discarding'),
         \/ UNCHANGED <<quick, wanted>>
         \/ quick' = FALSE /\ wanted' = wanted
         \/ /\ recording = {takes} /\ recording' = {} /\ Takes(wanted) \subseteq Takes(wanted')
            /\ takes \in Takes(wanted')
  PROVE  TakesKept' /\ TakeOK' /\ ShowingOK'
<1>1. CASE recording' = recording
  <2>1. waits' = waits
    BY <1>1 DEF Ending
  <2>2. UNCHANGED <<quick, wanted>> \/ (quick' = FALSE /\ wanted' = wanted)
    BY <1>1
  <2>3. TakesKept'
    BY <1>1, <2>1, <2>2 DEF TakesKept, UnderWay
  <2>4. TakeOK'
    BY <1>1, <2>1, <2>2 DEF TakeOK
  <2>5. ShowingOK'
    BY DEF ShowingOK
  <2>6. QED
    BY <2>3, <2>4, <2>5
<1>2. CASE recording' # recording
  <2>1. recording = {takes} /\ recording' = {} /\ waits = {} /\ recorder = takes /\ takes \notin Takes(given)
        /\ (tooLate \/ takes \notin dropped) /\ ~discarding /\ ~discarding'
    <3>1. recording = {takes} /\ recording' = {}
      BY <1>2 DEF AloneInv
    <3>2. QED
      BY <3>1 DEF AloneInv, TakeOK
  <2>2. waits' = {[op |-> "stop", take |-> takes]}
    BY <2>1 DEF Ending
  <2>3. TakesKept'
    BY <2>1, <2>2 DEF TakesKept, UnderWay
  <2>4. TakeOK'
    BY <2>1, <2>2 DEF TakeOK
  <2>5. ShowingOK'
    BY DEF ShowingOK
  <2>6. QED
    BY <2>3, <2>4, <2>5
<1>3. QED
  BY <1>1, <1>2

LEMMA KeepingClick ==
  ASSUME TypeOK, TakesOK, AloneInv, MeantInv, TakesKept, TakeOK, ShowingOK, VoiceClick, ~tangled'
  PROVE  TakesKept' /\ TakeOK' /\ ShowingOK'
<1>1. CASE StartRecording
  <2>1. waits = {} /\ voices = {} /\ micsOn = {} /\ recording = {} /\ blob = {} /\ ~(quick /\ ~unreset)
    BY <1>1 DEF StartRecording, AloneInv, ShowingOK, TakeOK
  <2>2. /\ waits' = {[op |-> "ask", take |-> takes']}
        /\ recording' = {} /\ mode' = "idle" /\ voices' = {} /\ takes' = takes + 1 /\ takes \in Nat
        /\ UNCHANGED <<recorder, quick, discarding, blob, isSending, given, wanted, dropped, tooLate, unreset>>
    BY <1>1, <2>1 DEF StartRecording, CleanUp, TurnOff, Ending, vars, work, marks, TakesOK
  <2>3. takes' \notin Takes(given) /\ takes' \notin dropped
    BY <2>2 DEF MeantInv, Takes, ShowingOK
  <2>4. \A t \in 1 .. takes : t \in Takes(given) \cup dropped
    BY <2>1 DEF TakesKept, UnderWay
  <2>5. TakesKept'
    <3>1. \A t \in 1 .. takes' : t \in 1 .. takes \/ t = takes'
      BY <2>2
    <3>2. QED
      BY <2>2, <2>4, <3>1 DEF TakesKept, UnderWay
  <2>6. TakeOK'
    BY <2>1, <2>2, <2>3 DEF TakeOK
  <2>7. ShowingOK'
    BY <2>1, <2>2 DEF ShowingOK
  <2>8. QED
    BY <2>5, <2>6, <2>7
<1>2. CASE PauseAndReview
  <2>1. voices' = voices
    BY <1>2 DEF PauseAndReview, vars, work
  <2>2. QED
    BY <1>2, <2>1, KeepingEnds DEF PauseAndReview, StopRecorder, episodes
<1>3. CASE QuickSend
  <2>1. voices' = voices
    BY <1>3 DEF QuickSend, vars, work
  <2>2. recording = {takes} /\ recorder = takes /\ recording' = {}
    BY <1>3 DEF QuickSend, StopRecorder, AloneInv
  <2>3. Takes(wanted') = Takes(wanted) \cup {takes}
    <3>1. wanted' = wanted \cup ({takes} \X {shown})
      BY <1>3, <2>2 DEF QuickSend
    <3>2. QED
      BY <3>1, TakesOfUnion
  <2>4. QED
    BY <1>3, <2>1, <2>2, <2>3, KeepingEnds DEF QuickSend, StopRecorder
<1>4. CASE SendPreview
  <2>1. micsOn = {} /\ recording = {} /\ waits = {} /\ voices = {} /\ ~isSending
    BY <1>4 DEF SendPreview, AloneInv, ShowingOK
  <2>2. /\ UNCHANGED <<mode, devices, discarding, quick, waits, blob, takes, dropped, tooLate, unreset>>
        /\ isSending' = TRUE
        /\ \E f \in File : voices' = voices \cup {f}
    BY <1>4 DEF SendPreview, HandOver, SendVoice, marks
  <2>3. Takes(given') = Takes(given) \cup blob /\ Takes(wanted') = Takes(wanted) \cup blob
    BY <1>4, TakesOfUnion DEF SendPreview, HandOver
  <2>4. TakesKept'
    BY <2>2, <2>3 DEF TakesKept, UnderWay, devices
  <2>5. TakeOK'
    BY <2>1, <2>2, <2>3 DEF TakeOK, devices
  <2>6. ShowingOK'
    BY <1>4, <2>1, <2>2, <2>3 DEF ShowingOK, devices, SendPreview
  <2>7. QED
    BY <2>4, <2>5, <2>6
<1>5. CASE Discard
  <2>1. /\ UNCHANGED <<voices, recorder, isSending, takes, given, wanted, unreset>>
        /\ discarding' = TRUE /\ quick' = FALSE /\ blob' = {} /\ mode' = "idle"
        /\ recording' = recording \ {recorder, mic} /\ Ending(waits)
        /\ dropped' = dropped \cup (IF mode = "recording" THEN {recorder} ELSE blob)
    BY <1>5 DEF Discard, DiscardRecording, vars, work
  <2>2. ~tooLate' => ~tooLate /\ voices = {} /\ \A w \in waits : w.op # "decode"
    BY <1>5 DEF Discard, WaitsFor
  <2>3. recording' = {} /\ (recording # {} => recording = {takes})
    BY <2>1 DEF AloneInv
  <2>4. waits' = waits \cup {[op |-> "stop", take |-> t] : t \in recording}
    BY <2>1, <2>3 DEF Ending
  <2>5. mode = "preview" => waits = {} /\ recording = {}
    BY DEF AloneInv
  <2>6. mode = "recording" /\ ~tooLate' =>
          recorder = takes /\ (recording # {} \/ \E w \in waits : w.op = "stop")
    BY <2>2 DEF TakeOK, AloneInv
  <2>7. takes \in dropped' \/ tooLate' \/ mode = "preview"
    BY <1>5, <2>1, <2>6 DEF Discard
  <2>8. TakesKept'
    <3>1. ASSUME NEW t \in 1 .. takes' PROVE UnderWay(t)' \/ t \in Takes(given)' \cup dropped'
      <4>1. CASE t \in recording
        <5>1. [op |-> "stop", take |-> t] \in waits'
          BY <2>4, <4>1
        <5>2. QED
          BY <5>1 DEF UnderWay
      <4>2. CASE t \in blob
        <5>1. mode = "preview"
          BY <1>5, <4>2 DEF Discard, ShowingOK
        <5>2. QED
          BY <2>1, <4>2, <5>1
      <4>3. CASE \E w \in waits : w.take = t
        BY <2>4, <4>3 DEF UnderWay
      <4>4. QED
        BY <2>1, <4>1, <4>2, <4>3 DEF TakesKept, UnderWay
    <3>2. tooLate' \/ dropped' \cap Takes(given) = {}
      <4>1. CASE mode = "recording"
        BY <2>1, <2>2, <2>6, <4>1 DEF TakesKept, TakeOK
      <4>2. CASE mode = "preview" /\ ~isSending
        BY <2>1, <2>2, <4>2 DEF TakesKept, ShowingOK
      <4>3. QED
        BY <1>5, <4>1, <4>2 DEF Discard
    <3>3. QED
      BY <2>1, <3>1, <3>2 DEF TakesKept
  <2>9. TakeOK'
    <3>1. ~tooLate' => \A w \in waits' : w.op = "stop" \/ w.op = "ask"
      BY <2>2, <2>4 DEF TakeOK
    <3>2. \A w \in waits : w.op = "ask" => mode = "idle"
      BY DEF AloneInv
    <3>3. ~tooLate' => \A w \in waits' : w.op = "stop"
      BY <1>5, <2>4, <3>1, <3>2 DEF Discard
    <3>4. \A w \in waits' : w.op = "stop" => recorder' = takes' /\ takes' \in dropped'
      <4>1. waits' # {} => mode = "recording"
        BY <1>5, <2>4, <2>5 DEF Discard
      <4>2. \A w \in waits' : w.op = "stop" => recorder = takes
        BY <2>3, <2>4 DEF TakeOK, AloneInv
      <4>3. QED
        BY <2>1, <4>1, <4>2
    <3>5. takes' \in Takes(given)' => waits' = {} /\ recording' = {}
      BY <2>1, <2>3, <2>4 DEF TakeOK
    <3>6. \A w \in waits' : /\ w.op \in {"ask", "stop", "decode"}
                            /\ w.op = "decode" => takes' \in w.of
      BY <2>1, <2>4 DEF TakeOK
    <3>7. QED
      BY <2>1, <2>3, <3>3, <3>4, <3>5, <3>6 DEF TakeOK
  <2>10. ShowingOK'
    BY <2>1 DEF ShowingOK, MeantInv
  <2>11. QED
    BY <2>8, <2>9, <2>10
<1>6. QED
  BY <1>1, <1>2, <1>3, <1>4, <1>5 DEF VoiceClick

LEMMA KeepingEvent ==
  ASSUME TypeOK, TakesOK, AloneInv, MeantInv, TakesKept, TakeOK, ShowingOK, VoiceEvent, ~tangled'
  PROVE  TakesKept' /\ TakeOK' /\ ShowingOK'
<1>1. ASSUME NEW w \in waits, Granted(w) PROVE TakesKept' /\ TakeOK' /\ ShowingOK'
  <2>1. /\ recording = {} /\ waits = {w} /\ w.take = takes /\ voices = {} /\ blob = {} /\ w.op = "ask"
        /\ ~(quick /\ ~unreset) /\ takes \notin Takes(given) /\ (tooLate \/ takes \notin dropped)
    BY <1>1 DEF Granted, AloneInv, ShowingOK, TakeOK
  <2>2. /\ waits' = {} /\ recorder' = takes /\ recording' = {takes} /\ takes \in 0 .. takes
        /\ mode' = "recording" /\ ~discarding'
        /\ UNCHANGED <<voices, quick, blob, isSending, takes, given, wanted, dropped, tooLate, unreset>>
    BY <1>1, <2>1 DEF Granted, vars, work, episodes, TakesOK
  <2>3. TakesKept'
    BY <2>1, <2>2 DEF TakesKept, UnderWay
  <2>4. TakeOK'
    BY <2>1, <2>2 DEF TakeOK
  <2>5. ShowingOK'
    BY <2>1, <2>2 DEF ShowingOK
  <2>6. QED
    BY <2>3, <2>4, <2>5
<1>2. ASSUME NEW w \in waits, Denied(w) PROVE TakesKept' /\ TakeOK' /\ ShowingOK'
  <2>1. /\ recording = {} /\ waits = {w} /\ w.take = takes /\ voices = {} /\ blob = {} /\ w.op = "ask"
        /\ ~(quick /\ ~unreset) /\ takes \notin Takes(given)
    BY <1>2 DEF Denied, AloneInv, ShowingOK, TakeOK
  <2>2. /\ waits' = {} /\ recording' = {} /\ mode' = "idle" /\ dropped' = dropped \cup {takes}
        /\ takes \in 0 .. takes
        /\ UNCHANGED <<voices, recorder, quick, discarding, blob, isSending, takes, given, wanted, tooLate, unreset>>
    BY <1>2, <2>1 DEF Denied, CleanUp, TurnOff, Ending, vars, work, marks, TakesOK
  <2>3. TakesKept'
    BY <2>1, <2>2 DEF TakesKept, UnderWay
  <2>4. TakeOK'
    BY <2>1, <2>2 DEF TakeOK
  <2>5. ShowingOK'
    BY <2>1, <2>2 DEF ShowingOK
  <2>6. QED
    BY <2>3, <2>4, <2>5
<1>3. ASSUME NEW w \in waits, Stopped(w) PROVE TakesKept' /\ TakeOK' /\ ShowingOK'
  <2>1. /\ recording = {} /\ waits = {w} /\ w.take = takes /\ voices = {} /\ blob = {} /\ w.op = "stop"
        /\ takes \notin Takes(given) /\ recorder = takes /\ (discarding => takes \in dropped)
        /\ (~tooLate /\ takes \in dropped => discarding) /\ chunks \subseteq {takes}
    BY <1>3 DEF Stopped, AloneInv, ShowingOK, TakeOK
  <2>2. /\ recording' = {} /\ takes \in 0 .. takes
        /\ UNCHANGED <<voices, recorder, quick, discarding, blob, isSending, takes, given, wanted, tooLate>>
    BY <1>3, <2>1 DEF Stopped, CleanUp, TurnOff, vars, work, marks, TakesOK
  <2>3. PICK got \in {chunks, chunks \cup {takes}} :
          \/ /\ discarding \/ got = {}
             /\ mode' = "idle" /\ dropped' = dropped \cup (IF got = {} THEN {takes} ELSE {})
             /\ unreset' = (unreset \/ quick)
             /\ waits' = {}
          \/ /\ ~discarding /\ got # {}
             /\ waits' = {[op |-> "decode", take |-> takes, of |-> got]}
             /\ UNCHANGED <<mode, dropped, unreset>>
    <3>1. PICK got \in {chunks, chunks \cup {w.take}} :
            \/ /\ discarding \/ got = {}
               /\ mode' = "idle" /\ dropped' = dropped \cup (IF got = {} THEN {w.take} ELSE {})
               /\ unreset' = (unreset \/ quick)
               /\ Ending(waits \ {w})
            \/ /\ ~discarding /\ got # {}
               /\ Ending((waits \ {w}) \cup {[op |-> "decode", take |-> w.take, of |-> got]})
               /\ UNCHANGED <<mode, dropped, unreset>>
      BY <1>3 DEF Stopped
    <3>2. \A others : Ending(others) => waits' = others
      BY <2>1, <2>2 DEF Ending
    <3>3. waits \ {w} = {}
      BY <2>1
    <3>4. QED
      BY <2>1, <3>1, <3>2, <3>3
  <2>4. CASE discarding \/ got = {}
    <3>1. /\ mode' = "idle" /\ waits' = {} /\ takes \in dropped'
          /\ dropped' = dropped \cup (IF got = {} THEN {takes} ELSE {})
      BY <2>1, <2>3, <2>4
    <3>2. (unreset => unreset') /\ (quick => unreset')
      BY <2>3, <2>4, Zenon
    <3>3. TakesKept'
      BY <2>1, <2>2, <3>1, <3>2 DEF TakesKept, UnderWay
    <3>4. TakeOK'
      BY <2>1, <2>2, <3>1, <3>2 DEF TakeOK
    <3>5. ShowingOK'
      BY <2>1, <2>2, <3>1 DEF ShowingOK
    <3>6. QED
      BY <3>3, <3>4, <3>5
  <2>5. CASE ~discarding /\ got # {}
    <3>1. /\ waits' = {[op |-> "decode", take |-> takes, of |-> got]} /\ takes \in got
          /\ UNCHANGED <<mode, dropped, unreset>>
      BY <2>1, <2>3, <2>5
    <3>2. TakesKept'
      BY <2>1, <2>2, <3>1 DEF TakesKept, UnderWay
    <3>3. TakeOK'
      BY <2>1, <2>2, <2>5, <3>1 DEF TakeOK
    <3>4. ShowingOK'
      BY <2>1, <2>2, <3>1 DEF ShowingOK
    <3>5. QED
      BY <3>2, <3>3, <3>4
  <2>6. QED
    BY <2>3, <2>4, <2>5
<1>4. ASSUME NEW w \in waits, SentAtOnce(w) PROVE TakesKept' /\ TakeOK' /\ ShowingOK'
  <2>1. /\ recording = {} /\ waits = {w} /\ w.take = takes /\ voices = {} /\ blob = {} /\ w.op = "decode"
        /\ w.of = {takes} /\ (tooLate \/ takes \notin dropped) /\ (unreset \/ takes \in Takes(wanted))
    BY <1>4 DEF SentAtOnce, Decoded, AloneInv, ShowingOK, TakeOK
  <2>2. /\ UNCHANGED <<mode, recorder, recording, discarding, blob, takes, wanted, dropped, tooLate, unreset>>
        /\ isSending' = TRUE /\ waits' = {} /\ quick' = FALSE
        /\ \E f \in File : voices' = voices \cup {f}
    BY <1>4, <2>1 DEF SentAtOnce, Decoded, HandOver, SendVoice, devices
  <2>3. Takes(given') = Takes(given) \cup {takes}
    <3>1. given' = given \cup ({takes} \X {QuickReceiver(w.take)})
      BY <1>4, <2>1 DEF SentAtOnce, HandOver
    <3>2. QED
      BY <3>1, TakesOfUnion
  <2>4. TakesKept'
    BY <2>1, <2>2, <2>3 DEF TakesKept, UnderWay
  <2>5. TakeOK'
    BY <2>1, <2>2, <2>3 DEF TakeOK
  <2>6. ShowingOK'
    BY <2>1, <2>2, <2>3 DEF ShowingOK
  <2>7. QED
    BY <2>4, <2>5, <2>6
<1>5. ASSUME NEW w \in waits, Previewed(w) PROVE TakesKept' /\ TakeOK' /\ ShowingOK'
  <2>1. /\ recording = {} /\ waits = {w} /\ w.take = takes /\ voices = {} /\ w.op = "decode"
        /\ w.of = {takes} /\ (tooLate \/ takes \notin dropped) /\ takes \notin Takes(given) /\ blob = {}
    BY <1>5 DEF Previewed, Decoded, AloneInv, TakeOK, ShowingOK
  <2>2. /\ UNCHANGED <<voices, recorder, recording, discarding, quick, isSending, takes>>
        /\ UNCHANGED <<given, wanted, dropped, tooLate, unreset>>
        /\ blob' = {takes} /\ waits' = {} /\ mode' = "preview" /\ ~quick
    BY <1>5, <2>1 DEF Previewed, Decoded, devices, marks, episodes, vars, work
  <2>3. TakesKept'
    BY <2>1, <2>2 DEF TakesKept, UnderWay
  <2>4. TakeOK'
    BY <2>1, <2>2 DEF TakeOK
  <2>5. ShowingOK'
    BY <2>1, <2>2 DEF ShowingOK
  <2>6. QED
    BY <2>3, <2>4, <2>5
<1>6. ASSUME NEW t \in Take, DataAvailable(t) PROVE TakesKept' /\ TakeOK' /\ ShowingOK'
  <2>1. /\ UNCHANGED <<mode, recorder, recording, discarding, quick, waits, blob, isSending, takes>>
        /\ UNCHANGED <<voices, given, wanted, dropped, tooLate, unreset>>
    BY <1>6 DEF DataAvailable, devices, marks, episodes, vars, work
  <2>2. QED
    BY <2>1 DEF TakesKept, TakeOK, ShowingOK, UnderWay
<1>7. ASSUME NEW t \in Take, MicLost(t) PROVE TakesKept' /\ TakeOK' /\ ShowingOK'
  <2>1. voices' = voices
    BY <1>7 DEF MicLost, vars, work
  <2>2. QED
    BY <1>7, <2>1, KeepingEnds DEF MicLost, TurnOff, marks, episodes
<1>8. ASSUME NEW f \in File, SendDone(f) PROVE TakesKept' /\ TakeOK' /\ ShowingOK'
  <2>1. f \in voices /\ voices' = voices \ {f}
    BY <1>8 DEF SendDone, VoiceSent, VoiceNotSent, TypeOK, StageOK
  <2>2. voices' = {} /\ recording = {} /\ waits = {} /\ micsOn = {} /\ blob \subseteq Takes(given)
    BY <2>1 DEF ShowingOK, AloneInv
  <2>3. /\ recording' = {} /\ waits' = {} /\ discarding' = TRUE /\ quick' = FALSE /\ blob' = {}
        /\ mode' = "idle"
        /\ UNCHANGED <<recorder, takes, given, wanted, dropped, tooLate, unreset>>
    BY <1>8, <2>2 DEF SendDone, DiscardRecording, Ending, episodes
  <2>4. TakesKept'
    BY <2>2, <2>3 DEF TakesKept, UnderWay
  <2>5. TakeOK'
    BY <2>3 DEF TakeOK
  <2>6. ShowingOK'
    BY <2>2, <2>3 DEF ShowingOK
  <2>7. QED
    BY <2>4, <2>5, <2>6
<1>9. QED
  BY <1>1, <1>2, <1>3, <1>4, <1>5, <1>6, <1>7, <1>8 DEF VoiceEvent

\* Nothing else makes, ends or sends takes.
LEMMA VoiceAlone ==
  [InputNext]_inputVars => VoiceClick \/ VoiceEvent \/ UNCHANGED <<voiceVars, voices>>
<1> SUFFICES ASSUME [InputNext]_inputVars, ~VoiceClick, ~VoiceEvent
             PROVE  UNCHANGED <<voiceVars, voices>>
  OBVIOUS
<1>1. CASE ComposerClick /\ UNCHANGED voiceVars
  BY <1>1 DEF ComposerClick, AddFile, RemoveFile, RetryFile, OpenChannel, HandleSend, work
<1>2. CASE ComposerEvent /\ UNCHANGED voiceVars
  BY <1>2 DEF ComposerEvent, SetOnline, Uploaded, VoiceUploaded, FileSent, NotSent, work
<1>3. CASE VideoNext /\ UNCHANGED voiceVars
  <2>1. CASE Inspected \/ VideoDone
    BY <1>3, <2>1 DEF Inspected, SendVideo, RejectVideo, VideoDone
  <2>2. Inspected \/ VideoDone \/ UNCHANGED vars
    BY <1>3 DEF VideoNext, Open, ToggleCamera, Allowed, Refused, FilmStopped, Trimmed, CameraLost,
                PieceAvailable, StartFilm, StopFilm, Retake, Close, SendFilm, TrimFilm
  <2>3. QED
    BY <1>3, <2>1, <2>2 DEF vars, work
<1>4. QED
  BY <1>1, <1>2, <1>3 DEF InputNext, inputVars, vars, work

LEMMA KeepingStep ==
  ASSUME TypeOK, TakesOK, Alone, Keeping, [InputNext]_inputVars
  PROVE  Keeping'
<1> SUFFICES ASSUME ~tangled' PROVE TakesKept' /\ TakeOK' /\ ShowingOK'
  BY DEF Keeping
<1>1. tangled => tangled'
  <2>1. CASE UNCHANGED voiceVars
    BY <2>1 DEF voiceVars, episodes
  <2>2. CASE VoiceClick \/ VoiceEvent
    BY <2>2 DEF VoiceClick, VoiceEvent, StartRecording, PauseAndReview, QuickSend, SendPreview, Discard,
       Granted, Denied, Stopped, SentAtOnce, Previewed, DataAvailable, MicLost, SendDone, episodes
  <2>3. QED
    BY <2>1, <2>2, VoiceAlone
<1>2. AloneInv /\ MeantInv /\ TakesKept /\ TakeOK /\ ShowingOK
  BY <1>1 DEF Alone, Keeping
<1>3. QED
  BY <1>2, VoiceAlone, KeepingBeside, KeepingClick, KeepingEvent

LEMMA KeepingAlways == InputSpec => []Keeping
<1>1. TypeOK /\ TakesOK /\ Alone /\ Keeping /\ [InputNext]_inputVars => Keeping'
  BY KeepingStep
<1>2. QED
  BY <1>1, KeepingInit, InputInv, AloneAlways, PTL DEF InputSpec, inputVars

\* FilmIsKept, while nothing crossed.
FilmsKept ==
  /\ \A c \in filmed :
       \/ c \in filming \cup FilmShown \cup posted \cup cast
       \/ \E w \in pending : c = w.take \/ c \in w.of
  /\ cast \cap (FilmShown \cup posted) = {}
  /\ \A c, d \in film : c = d

\* A camera is recorded once, and what is recorded, comes to its end or is shown was neither
\* given to onSend nor given up, unless the dialog was closed meanwhile.
FilmOK ==
  /\ filmed \cup camerasOn \subseteq 1 .. cameras /\ cameras \in Nat
  /\ posted \cup cast \cup film \subseteq filmed
  /\ videoMode = "idle" => camerasOn \cap filmed = {}
  /\ filming # {} => pending = {} /\ pieces \subseteq filming /\ filming \subseteq filmed \ (posted \cup cast)
  /\ open /\ videoMode = "preview" => film \cap (posted \cup cast) = {}
  /\ open /\ videoMode = "preview" /\ ~trimming => pending = {}
  /\ \A w \in pending :
       /\ pending = {w} /\ w.op \in {"ask", "stop", "cut"}
       /\ w.op = "ask" => w.take \in (1 .. cameras) \ filmed /\ w.of = {}
       /\ w.op = "stop" =>
            /\ w.of = {} /\ w.take \in filmed /\ pieces \subseteq {w.take}
            /\ IF open THEN videoMode = "recording" /\ w.take \notin posted \cup cast
               ELSE w.take \in cast
       /\ w.op = "cut" => w.of = film /\ w.take = 0 /\ open /\ videoMode = "preview"

Filming == crossed \/ closedEarly \/ (FilmsKept /\ FilmOK)

LEMMA FilmingInit == InputInit => Filming
  BY DEF InputInit, VideoInit, Filming, FilmsKept, FilmOK, FilmShown

\* A camera is asked for: what was shown is given up, if it was.
LEMMA FilmingAsks ==
  ASSUME OneCamera, FilmsKept, FilmOK, StartCamera, pending = {}, filming = {}, videoMode' = "idle",
         pieces' \subseteq pieces, film' \in {film, {}}, open',
         UNCHANGED <<filmed, posted>>,
         cast' = cast \cup FilmShown
  PROVE  FilmsKept' /\ FilmOK'
<1>1. /\ camerasOn' = {} /\ filming' = {} /\ cameras' = cameras + 1
      /\ pending' = {[op |-> "ask", take |-> cameras + 1, of |-> {}]}
  BY DEF StartCamera, StopStream, SwitchOff, Finishing, OneCamera
<1>2. FilmShown' = {}
  BY DEF FilmShown
<1>3. FilmShown \cap posted = {} /\ FilmShown \subseteq filmed
  BY DEF FilmShown, FilmOK
<1>4. FilmsKept'
  BY <1>1, <1>2, <1>3 DEF FilmsKept
<1>5. filmed \subseteq 1 .. cameras + 1 /\ cameras + 1 \in (1 .. cameras + 1) \ filmed /\ cameras + 1 \in Nat
  BY DEF FilmOK
<1>6. posted' \cup cast' \cup film' \subseteq filmed'
  BY <1>3 DEF FilmOK
<1>7. FilmOK'
  <2> DEFINE ask == [op |-> "ask", take |-> cameras + 1, of |-> {}]
  <2>1. pending' = {ask} /\ ask.op = "ask" /\ ask.take = cameras + 1 /\ ask.of = {}
    BY <1>1
  <2> HIDE DEF ask
  <2>2. filmed' \cup camerasOn' \subseteq 1 .. cameras' /\ cameras' \in Nat
    BY <1>1, <1>5
  <2>3. camerasOn' = {} /\ filming' = {} /\ videoMode' = "idle"
    BY <1>1
  <2>4. \A w \in pending' : w = ask
    BY <2>1
  <2>5. ask.take \in (1 .. cameras') \ filmed'
    BY <1>1, <1>5, <2>1
  <2>6. QED
    BY <1>6, <2>1, <2>2, <2>3, <2>4, <2>5 DEF FilmOK
<1>8. QED
  BY <1>4, <1>7

\* A recording ends, by its button or the loss of the camera.
LEMMA FilmingEnds ==
  ASSUME OneCamera, FilmsKept, FilmOK, Finishing(pending), filming' \subseteq filming,
         camerasOn' \subseteq camerasOn,
         UNCHANGED <<open, videoMode, pieces, film, trimming, cameras, filmed, posted, cast>>
  PROVE  FilmsKept' /\ FilmOK'
<1>1. FilmShown' = FilmShown
  BY DEF FilmShown
<1>2. CASE filming' = filming
  <2>1. pending' = pending
    BY <1>2 DEF Finishing
  <2>2. QED
    BY <1>1, <1>2, <2>1 DEF FilmsKept, FilmOK
<1>3. CASE filming' # filming
  <2>1. PICK c \in filming : c \notin filming'
    BY <1>3
  <2>2. filming = {c} /\ filming' = {} /\ pending = {} /\ open /\ videoMode = "recording"
        /\ c \in filmed \ (posted \cup cast) /\ pieces \subseteq {c}
    BY <2>1 DEF OneCamera, FilmOK
  <2>3. pending' = {[op |-> "stop", take |-> c, of |-> {}]}
    BY <2>2 DEF Finishing
  <2>4. FilmsKept'
    BY <1>1, <2>2, <2>3 DEF FilmsKept
  <2>5. FilmOK'
    BY <2>2, <2>3 DEF FilmOK
  <2>6. QED
    BY <2>4, <2>5
<1>4. QED
  BY <1>2, <1>3

\* What is shown is delivered, at once or after its cut.
LEMMA FilmingSends ==
  ASSUME OneCamera, FilmsKept, FilmOK, open, videoMode = "preview", Deliver(film, {}),
         \A w \in pending : w.of = film /\ w.take = 0,
         UNCHANGED <<film, cameras, filmed, cast>>
  PROVE  FilmsKept' /\ FilmOK'
<1>1. /\ filming = {} /\ filming' = {} /\ camerasOn' = {} /\ ~open' /\ pending' = {}
      /\ posted' = posted \cup film
  BY DEF OneCamera, Deliver, Shut, Finishing
<1>2. FilmShown = film /\ FilmShown' = {} /\ film \cap cast = {} /\ film \subseteq filmed
  BY <1>1 DEF FilmShown, FilmOK
<1>3. 0 \notin filmed
  BY DEF FilmOK
<1>4. FilmsKept'
  BY <1>1, <1>2, <1>3 DEF FilmsKept
<1>5. FilmOK'
  BY <1>1, <1>2 DEF FilmOK
<1>6. QED
  BY <1>4, <1>5

LEMMA FilmingStep ==
  ASSUME OneCamera, FilmsKept, FilmOK, VideoNext, ~crossed', ~closedEarly'
  PROVE  FilmsKept' /\ FilmOK'
<1>1. CASE Open \/ ToggleCamera \/ Retake
  <2>1. StartCamera /\ pending = {} /\ filming = {} /\ open' /\ videoMode' = "idle"
    BY <1>1 DEF Open, ToggleCamera, Retake, StartCamera, OneCamera
  <2>2. /\ pieces' \subseteq pieces /\ film' \in {film, {}} /\ UNCHANGED <<filmed, posted>>
        /\ cast' = cast \cup FilmShown
    BY <1>1 DEF Open, ToggleCamera, Retake, filmState, FilmShown
  <2>3. QED
    BY <2>1, <2>2, FilmingAsks
<1>2. ASSUME NEW w \in pending, Allowed(w) PROVE FilmsKept' /\ FilmOK'
  <2>1. pending = {w} /\ pending' = {} /\ w.of = {} /\ w.take \in (1 .. cameras) \ filmed
        /\ camerasOn' = {w.take} /\ filming = {} /\ open /\ videoMode = "idle"
    BY <1>2 DEF Allowed, FilmOK, OneCamera
  <2>2. UNCHANGED <<open, videoMode, filming, pieces, film, trimming, cameras, filmed, posted, cast>>
    BY <1>2 DEF Allowed, filmState, filmEpisodes
  <2>3. FilmsKept'
    BY <2>1, <2>2 DEF FilmsKept, FilmShown
  <2>4. FilmOK'
    BY <2>1, <2>2 DEF FilmOK
  <2>5. QED
    BY <2>3, <2>4
<1>3. ASSUME NEW w \in pending, Refused(w) PROVE FilmsKept' /\ FilmOK'
  <2>1. pending = {w} /\ pending' = {} /\ w.of = {} /\ w.take \notin filmed
    BY <1>3 DEF Refused, FilmOK
  <2>2. UNCHANGED <<open, videoMode, camerasOn, filming, pieces, film, trimming, cameras, filmed, posted, cast>>
    BY <1>3 DEF Refused, filmState, filmEpisodes
  <2>3. FilmsKept'
    BY <2>1, <2>2 DEF FilmsKept, FilmShown
  <2>4. FilmOK'
    BY <2>1, <2>2 DEF FilmOK
  <2>5. QED
    BY <2>3, <2>4
<1>4. ASSUME NEW w \in pending, FilmStopped(w) PROVE FilmsKept' /\ FilmOK'
  <2>1. pending = {w} /\ filming = {} /\ w.of = {} /\ w.take \in filmed /\ pieces \subseteq {w.take}
        /\ IF open THEN videoMode = "recording" /\ w.take \notin posted \cup cast ELSE w.take \in cast
    BY <1>4 DEF FilmStopped, FilmOK
  <2>2. /\ film' = {w.take} /\ pieces' = {w.take} /\ videoMode' = "preview"
        /\ camerasOn' = {} /\ filming' = {}
        /\ UNCHANGED <<open, trimming, cameras, filmed, posted, cast>>
    BY <1>4, <2>1 DEF FilmStopped, StopStream, SwitchOff, OneCamera, filmEpisodes
  <2>3. pending' = {}
    BY <1>4, <2>1, <2>2 DEF FilmStopped, Finishing
  <2>4. FilmShown = {} /\ FilmShown' = IF open THEN {w.take} ELSE {}
    BY <2>1, <2>2 DEF FilmShown, FilmOK
  <2>5. FilmsKept'
    <3>1. ASSUME NEW c \in filmed' PROVE c \in filming' \cup FilmShown' \cup posted' \cup cast'
      BY <2>1, <2>2, <2>4 DEF FilmsKept
    <3>2. cast' \cap (FilmShown' \cup posted') = {}
      BY <2>1, <2>2, <2>4 DEF FilmsKept
    <3>3. \A c, d \in film' : c = d
      BY <2>2
    <3>4. QED
      BY <3>1, <3>2, <3>3 DEF FilmsKept
  <2>6. FilmOK'
    BY <2>1, <2>2, <2>3 DEF FilmOK
  <2>7. QED
    BY <2>5, <2>6
<1>5. ASSUME NEW w \in pending, Trimmed(w) PROVE FilmsKept' /\ FilmOK'
  <2>1. pending = {w} /\ w.of = film /\ w.take = 0 /\ open /\ videoMode = "preview"
    BY <1>5 DEF Trimmed, FilmOK
  <2>2. Deliver(film, {}) /\ UNCHANGED <<film, cameras, filmed, cast>>
    <3>1. pending \ {w} = {}
      BY <2>1
    <3>2. QED
      BY <1>5, <2>1, <3>1 DEF Trimmed
  <2>3. QED
    BY <2>1, <2>2, FilmingSends
<1>6. ASSUME NEW c \in Camera, CameraLost(c) PROVE FilmsKept' /\ FilmOK'
  BY <1>6, FilmingEnds DEF CameraLost, SwitchOff, filmState, filmEpisodes
<1>7. ASSUME NEW c \in Camera, PieceAvailable(c) PROVE FilmsKept' /\ FilmOK'
  <2>1. filming = {c} /\ pending = {} /\ pieces' \subseteq {c}
    BY <1>7 DEF PieceAvailable, FilmOK, OneCamera
  <2>2. UNCHANGED <<open, videoMode, camerasOn, filming, pending, film, trimming, cameras, filmed, posted, cast>>
    BY <1>7 DEF PieceAvailable, filmState, filmEpisodes
  <2>3. FilmsKept'
    BY <2>2 DEF FilmsKept, FilmShown
  <2>4. FilmOK'
    BY <2>1, <2>2 DEF FilmOK
  <2>5. QED
    BY <2>3, <2>4
<1>8. CASE StartFilm
  <2>1. /\ open /\ videoMode = "idle" /\ camerasOn = {camera} /\ filming = {} /\ camera \notin filmed
        /\ camera \in 1 .. cameras
    BY <1>8 DEF StartFilm, OneCamera, FilmOK
  <2>2. pending = {}
    BY <2>1 DEF OneCamera, FilmOK
  <2>3. /\ filming' = {camera} /\ filmed' = filmed \cup {camera} /\ videoMode' = "recording" /\ pieces' = {}
        /\ UNCHANGED <<open, camerasOn, pending, film, trimming, cameras, posted, cast>>
    BY <1>8, <2>1 DEF StartFilm, filmState
  <2>4. FilmsKept'
    BY <2>1, <2>2, <2>3 DEF FilmsKept, FilmShown
  <2>5. camera \notin posted \cup cast
    BY <2>1 DEF FilmOK
  <2>6. FilmOK'
    BY <2>1, <2>2, <2>3, <2>5 DEF FilmOK
  <2>7. QED
    BY <2>4, <2>6
<1>9. CASE StopFilm
  BY <1>9, FilmingEnds DEF StopFilm, filmState, filmEpisodes
<1>10. CASE Close
  <2>1. /\ camerasOn' = {} /\ filming' = {} /\ ~open' /\ videoMode' = "idle" /\ pieces' = {}
        /\ UNCHANGED <<film, trimming, cameras, filmed, posted>>
        /\ cast' = cast \cup FilmShown \cup filming \cup {w.take : w \in PendingFor("stop")}
    BY <1>10, ShutStep DEF Close, Shut, filmState
  <2>2. \A w \in pending : w.op = "stop"
    <3>1. PendingFor("ask") = {} /\ PendingFor("cut") = {}
      BY <1>10 DEF Close
    <3>2. QED
      BY <3>1 DEF PendingFor, FilmOK
  <2>3. pending' = pending \cup {[op |-> "stop", take |-> c, of |-> {}] : c \in filming}
    BY <1>10, <2>1 DEF Close, Finishing
  <2>4. \A w \in pending : w.take \in filmed /\ w.take \notin posted /\ w.of = {} /\ w.take \in cast'
    <3>1. \A w \in pending : w.take \in cast'
      BY <2>1, <2>2 DEF PendingFor
    <3>2. QED
      BY <1>10, <2>2, <3>1 DEF FilmOK, Close
  <2>5. FilmShown' = {} /\ FilmShown \cap posted = {} /\ FilmShown \subseteq filmed
    BY <2>1 DEF FilmShown, FilmOK
  <2>6. filming \cap posted = {} /\ filming \subseteq filmed
    BY DEF FilmOK
  <2>7. {w.take : w \in PendingFor("stop")} \subseteq filmed \ posted
    BY <2>4 DEF PendingFor
  <2>8. FilmsKept'
    <3>1. ASSUME NEW c \in filmed PROVE c \in posted' \cup cast'
      <4>1. CASE \E w \in pending : c = w.take \/ c \in w.of
        BY <2>4, <4>1
      <4>2. QED
        BY <2>1, <4>1 DEF FilmsKept
    <3>2. cast' \cap posted' = {}
      BY <2>1, <2>5, <2>6, <2>7 DEF FilmsKept
    <3>3. QED
      BY <2>1, <2>5, <3>1, <3>2 DEF FilmsKept
  <2>9. FilmOK'
    <3>1. \A w \in pending' : /\ pending' = {w} /\ w.op = "stop" /\ w.of = {}
                              /\ w.take \in filmed /\ w.take \in cast'
      <4>1. CASE filming = {}
        BY <2>2, <2>3, <2>4, <4>1 DEF FilmOK
      <4>2. CASE filming # {}
        <5>1. PICK c \in filming : filming = {c} /\ pending = {}
          BY <4>2 DEF FilmOK, OneCamera
        <5>2. pending' = {[op |-> "stop", take |-> c, of |-> {}]}
          BY <2>3, <5>1
        <5>3. QED
          BY <2>1, <2>6, <5>1, <5>2
      <4>3. QED
        BY <4>1, <4>2
    <3>2. QED
      BY <2>1, <2>5, <2>6, <2>7, <3>1 DEF FilmOK
  <2>10. QED
    BY <2>8, <2>9
<1>11. CASE SendFilm
  <2>1. pending = {} /\ open /\ videoMode = "preview"
    BY <1>11 DEF SendFilm, FilmOK
  <2>2. QED
    BY <1>11, <2>1, FilmingSends DEF SendFilm
<1>12. CASE TrimFilm
  <2>1. /\ pending = {} /\ open /\ videoMode = "preview" /\ trimming' = TRUE
        /\ pending' = {[op |-> "cut", take |-> 0, of |-> film]}
        /\ UNCHANGED <<open, videoMode, camerasOn, filming, pieces, film, cameras, filmed, posted, cast>>
    BY <1>12 DEF TrimFilm, FilmOK, cameraState, filmEpisodes
  <2>2. FilmsKept'
    BY <2>1 DEF FilmsKept, FilmShown
  <2>3. FilmOK'
    BY <2>1 DEF FilmOK, OneCamera
  <2>4. QED
    BY <2>2, <2>3
<1>13. CASE Inspected \/ (VideoDone /\ UNCHANGED videoVars)
  <2>1. /\ UNCHANGED <<open, videoMode, camerasOn, filming, pieces, pending, film, trimming>>
        /\ UNCHANGED <<cameras, filmed, posted, cast>>
    BY <1>13 DEF Inspected, videoVars, cameraState, filmState, filmEpisodes
  <2>2. QED
    BY <2>1 DEF FilmsKept, FilmOK, FilmShown
<1>14. QED
  BY <1>1, <1>2, <1>3, <1>4, <1>5, <1>6, <1>7, <1>8, <1>9, <1>10, <1>11, <1>12, <1>13 DEF VideoNext

LEMMA FilmingAlways == InputSpec => []Filming
<1>1. CameraInv /\ Filming /\ [InputNext]_inputVars => Filming'
  <2> SUFFICES ASSUME CameraInv, Filming, [InputNext]_inputVars, ~crossed', ~closedEarly'
               PROVE  FilmsKept' /\ FilmOK'
    BY DEF Filming
  <2>1. CASE UNCHANGED videoVars
    BY <2>1 DEF Filming, FilmsKept, FilmOK, FilmShown, videoVars, cameraState, filmState, filmEpisodes
  <2>2. CASE VideoNext
    <3>1. (crossed => crossed') /\ (closedEarly => closedEarly')
      BY <2>2, CrossedStays
    <3>2. OneCamera /\ FilmsKept /\ FilmOK
      BY <3>1 DEF CameraInv, Filming
    <3>3. QED
      BY <2>2, <3>2, FilmingStep
  <2>3. QED
    BY <2>1, <2>2 DEF InputNext, inputVars
<1>2. CameraInv /\ [InputNext]_inputVars => CameraInv'
  BY CameraStep
<1>3. InputInit => CameraInv
  BY DEF InputInit, VideoInit, CameraInv, OneCamera
<1>4. QED
  BY <1>1, <1>2, <1>3, FilmingInit, PTL DEF InputSpec, inputVars

\* What was recorded, voice or film, is there until the user discards it, once, and neither
\* sent nor shown after that, unless what it waits for was crossed; for any number of takes.
THEOREM RecordingsCorrect == InputSpec => []RecordingsAreKept
<1>1. Keeping => VoiceIsKept
  BY DEF Keeping, TakesKept, VoiceIsKept
<1>2. Filming => FilmIsKept
  BY DEF Filming, FilmsKept, FilmIsKept
<1>3. VoiceIsKept /\ FilmIsKept => RecordingsAreKept
  BY DEF RecordingsAreKept
<1>4. QED
  BY <1>1, <1>2, <1>3, KeepingAlways, FilmingAlways, PTL

-----------------------------------------------------------------------------
(* The whole chat *)

LEMMA InputOrNothing == [ChatNext]_<<inputVars, textVars>> => [InputNext]_inputVars
  BY DEF ChatNext, inputVars

\* A chat with its texts is an input: texts go beside the files and recorders and leave
\* their state alone.
THEOREM ChatImplementsInput == ChatSpec => InputSpec
<1>1. ChatInit => InputInit
  BY DEF ChatInit
<1>2. QED
  BY <1>1, InputOrNothing, PTL DEF ChatSpec, InputSpec, inputVars

\* So beside the texts, too, no recorder leaves a device on unseen,
THEOREM ChatCapturesCorrect == ChatSpec => []CapturesAreShown
  BY ChatImplementsInput, CapturesCorrect, PTL

\* and files and takes go where they were attached or begun, or where the user sent them in.
THEOREM EverythingGoesCorrect == ChatSpec => []EverythingGoesWhereMeant
<1>1. GoesWhereAttached /\ VoiceGoesWhereMeant => EverythingGoesWhereMeant
  BY DEF EverythingGoesWhereMeant
<1>2. QED
  BY <1>1, ChatImplementsInput, InputCorrect, MeantCorrect, PTL

\* And so beside the texts of a chat.
THEOREM ChatRecordingsCorrect == ChatSpec => []RecordingsAreKept
  BY ChatImplementsInput, RecordingsCorrect, PTL

-----------------------------------------------------------------------------
(* Frames and echoes under way *)

LEMMA Appended ==
  ASSUME NEW S, NEW s \in Seq(S), NEW x \in S
  PROVE  /\ Append(s, x) \in Seq(S)
         /\ DOMAIN Append(s, x) = DOMAIN s \cup {Len(s) + 1} /\ Len(s) + 1 \notin DOMAIN s
         /\ \A i \in DOMAIN s : i < Len(s) + 1 /\ Append(s, x)[i] = s[i]
         /\ Append(s, x)[Len(s) + 1] = x
         /\ \A y : y \in Range(Append(s, x)) <=> y \in Range(s) \/ y = x
<1>1. /\ Append(s, x) \in Seq(S)
      /\ DOMAIN Append(s, x) = DOMAIN s \cup {Len(s) + 1} /\ Len(s) + 1 \notin DOMAIN s
      /\ \A i \in DOMAIN s : i < Len(s) + 1 /\ Append(s, x)[i] = s[i]
      /\ Append(s, x)[Len(s) + 1] = x
  OBVIOUS
<1>2. \A y : y \in Range(Append(s, x)) <=> y \in Range(s) \/ y = x
  BY <1>1 DEF Range
<1>3. QED
  BY <1>1, <1>2

LEMMA EntriesOfSeq == ASSUME NEW S, NEW s \in Seq(S) PROVE \A i \in DOMAIN s : s[i] \in S
  OBVIOUS

LEMMA EmptyLine == \A S : <<>> \in Seq(S)
  OBVIOUS

LEMMA HeadAndTail ==
  ASSUME NEW S, NEW s \in Seq(S), s # <<>>
  PROVE  /\ Tail(s) \in Seq(S) /\ Head(s) \in S /\ Head(s) = s[1] /\ 1 \in DOMAIN s
         /\ \A i \in DOMAIN Tail(s) : i + 1 \in DOMAIN s /\ Tail(s)[i] = s[i + 1] /\ 1 < i + 1
         /\ \A i \in DOMAIN s : i = 1 \/ (i - 1 \in DOMAIN Tail(s) /\ Tail(s)[i - 1] = s[i])
         /\ \A y : y \in Range(s) <=> y \in Range(Tail(s)) \/ y = s[1]
<1>1. /\ Tail(s) \in Seq(S) /\ Head(s) \in S /\ Head(s) = s[1] /\ 1 \in DOMAIN s
      /\ \A i \in DOMAIN Tail(s) : i + 1 \in DOMAIN s /\ Tail(s)[i] = s[i + 1] /\ 1 < i + 1
      /\ \A i \in DOMAIN s : i = 1 \/ (i - 1 \in DOMAIN Tail(s) /\ Tail(s)[i - 1] = s[i])
  OBVIOUS
<1>2. ASSUME NEW y, y \in Range(s) PROVE y \in Range(Tail(s)) \/ y = s[1]
  <2>1. PICK i \in DOMAIN s : y = s[i]
    BY <1>2 DEF Range
  <2>2. QED
    BY <1>1, <2>1 DEF Range
<1>3. ASSUME NEW y, y \in Range(Tail(s)) PROVE y \in Range(s)
  <2>1. PICK i \in DOMAIN Tail(s) : y = Tail(s)[i]
    BY <1>3 DEF Range
  <2>2. i + 1 \in DOMAIN s /\ y = s[i + 1]
    BY <1>1, <2>1
  <2>3. QED
    BY <2>2 DEF Range
<1>4. s[1] \in Range(s)
  BY <1>1 DEF Range
<1>5. QED
  BY <1>1, <1>2, <1>3, <1>4

-----------------------------------------------------------------------------
(* Types of the texts *)

\* A text is sent, for the first time or again.
SendsFirst(t, ch) ==
  /\ typed[t] = Nothing /\ typed' = [typed EXCEPT ![t] = ch]
  /\ DOMAIN carried' \subseteq DOMAIN carried /\ carried' = [n \in DOMAIN carried' |-> carried[n]]
  /\ \A n \in DOMAIN carried' : carried[n] # t

SendsAgain(t, ch) == status[t] = "failed" /\ typed[t] = ch /\ UNCHANGED draft

Sends(t, ch) ==
  /\ SendsFirst(t, ch) \/ SendsAgain(t, ch)
  /\ SendTextGuarded(t, ch)
  /\ UNCHANGED <<socket, out, stored, echoes, foreign, cuts, textHistory>>

\* What a step of the chat is for the texts.
TextStep ==
  \/ UNCHANGED textVars
  \/ \E t \in Text, ch \in Channel : Sends(t, ch)
  \/ \E n \in DOMAIN batches', t \in Text : Carry(n, t)
  \/ \E t \in Text : Seal(t) \/ SendTimeout(t)
  \/ Die \/ OnClose \/ OnOpen \/ HandleChatMessage \/ OnMessage
  \/ \E ch \in Channel : SentElsewhere(ch) \/ Refetch(ch)

\* A text that has not been sent is nowhere.
Unsent(t) == status[t] = "none" /\ ~OnItsWay(t) /\ stored[t] = 0

TextsOK ==
  /\ \A n \in DOMAIN carried : typed[carried[n]] = Nothing
  /\ \A n, m \in DOMAIN carried : carried[n] = carried[m] => n = m
  /\ \A t \in Text : typed[t] = Nothing => Unsent(t)
  /\ \A t \in Text : status[t] = "failed" => t \notin sealing

LEMMA TextSteps ==
  TypeOK /\ TextsTypeOK /\ TextsOK /\ [ChatNext]_<<inputVars, textVars>> => TextStep
<1> SUFFICES ASSUME TypeOK, TextsTypeOK, TextsOK, [ChatNext]_<<inputVars, textVars>>
             PROVE  TextStep
  OBVIOUS
<1>1. ASSUME NEW t \in Text, Type(t) PROVE Sends(t, shown)
  <2>1. \A n \in DOMAIN carried : carried[n] # t
    BY <1>1 DEF Type, Range
  <2>2. carried' = [n \in DOMAIN carried' |-> carried[n]]
    BY <1>1 DEF Type, TextsTypeOK, CarriedOK
  <2>3. QED
    BY <1>1, <2>1, <2>2 DEF Type, Sends, SendsFirst
<1>2. ASSUME NEW t \in Text, Retry(t) PROVE Sends(t, shown)
  BY <1>2 DEF Retry, Sends, SendsAgain
<1>3. ASSUME NEW n \in DOMAIN batches \cap DOMAIN carried, Release(n)
      PROVE  Sends(carried[n], batches[n].ch)
  <2>1. carried' = [m \in DOMAIN carried \ {n} |-> carried[m]]
    BY <1>3 DEF Release
  <2>2. /\ DOMAIN carried' = DOMAIN carried \ {n} /\ carried' = [m \in DOMAIN carried' |-> carried[m]]
    BY <2>1
  <2>3. typed[carried[n]] = Nothing /\ \A m \in DOMAIN carried' : carried[m] # carried[n]
    BY <2>2 DEF TextsOK
  <2>4. QED
    BY <1>3, <2>2, <2>3 DEF Release, Sends, SendsFirst
<1>4. shown \in Channel /\ \A n \in DOMAIN batches : batches[n].ch \in Channel
  BY DEF TypeOK, PlainOK, BatchesOK, Batch
<1>5. \A n \in DOMAIN carried : carried[n] \in Text
  BY DEF TextsTypeOK, CarriedOK
<1>6. CASE WithFiles
  <2>1. CASE UNCHANGED textVars
    BY <2>1 DEF TextStep
  <2>2. ASSUME NEW n \in DOMAIN batches' \ DOMAIN batches, NEW t \in Text, Carry(n, t) PROVE TextStep
    BY <2>2 DEF TextStep
  <2>3. ASSUME NEW n \in (DOMAIN batches \ DOMAIN batches') \cap DOMAIN carried, Release(n) PROVE TextStep
    BY <1>3, <1>4, <1>5, <2>3 DEF TextStep
  <2>4. QED
    BY <1>6, <2>1, <2>2, <2>3 DEF WithFiles
<1>7. CASE TextOnline
  BY <1>7 DEF TextOnline, TextStep
<1>8. CASE TextEvent
  BY <1>8 DEF TextEvent, TextStep
<1>9. CASE TextClick
  BY <1>1, <1>2, <1>4, <1>9 DEF TextClick, TextStep
<1>10. CASE UNCHANGED <<inputVars, textVars>>
  BY <1>10 DEF TextStep
<1>11. QED
  BY <1>6, <1>7, <1>8, <1>9, <1>10 DEF ChatNext

\* What the server does with the next frame: it stores it at most once more, and echoes only what it
\* stores.
Echo == [ch : Channel, text : Text \cup {Nothing}]

LEMMA Handled ==
  ASSUME TextsTypeOK, TextsOK, HandleChatMessage
  PROVE  \E h \in Text, e \in Echo :
           /\ h = Head(out) /\ h \in Range(out) /\ e = [ch |-> typed[h], text |-> h]
           /\ stored' \in [Text -> Nat] /\ (\A u \in Text \ {h} : stored'[u] = stored[u])
           /\ stored'[h] = stored[h] \/ stored'[h] = stored[h] + 1
           /\ echoes' = echoes \/ (echoes' = Append(echoes, e) /\ stored'[h] = stored[h] + 1)
<1>1. out \in Seq(Text) /\ out # <<>>
  BY DEF HandleChatMessage, TextsTypeOK, WireOK
<1>2. Head(out) \in Text /\ Head(out) \in Range(out)
  BY <1>1, HeadAndTail
<1>3. PICK h \in Text : h = Head(out)
  BY <1>2
<1>4. typed[h] \in Channel
  BY <1>2, <1>3 DEF TextsOK, Unsent, OnItsWay, TextsTypeOK, MarksOK
<1>5. PICK e \in Echo : e = [ch |-> typed[h], text |-> h]
  BY <1>3, <1>4 DEF Echo
<1>6. stored \in [Text -> Nat]
  BY DEF TextsTypeOK, WireOK
<1>7. CASE stored' = [stored EXCEPT ![h] = @ + 1]
  <2>1. /\ stored' \in [Text -> Nat] /\ (\A u \in Text \ {h} : stored'[u] = stored[u])
        /\ stored'[h] = stored[h] + 1
    BY <1>3, <1>6, <1>7
  <2>2. echoes' = echoes \/ echoes' = Append(echoes, e)
    BY <1>3, <1>5 DEF HandleChatMessage
  <2>3. QED
    BY <1>2, <1>3, <1>5, <2>1, <2>2
<1>8. CASE stored' = stored /\ echoes' = echoes
  BY <1>2, <1>3, <1>5, <1>6, <1>8
<1>9. QED
  BY <1>3, <1>7, <1>8 DEF HandleChatMessage

LEMMA MarksStep ==
  TextsTypeOK /\ TextsOK /\ TextStep => MarksOK' /\ WireOK'
<1> SUFFICES ASSUME TextsTypeOK, TextsOK, TextStep PROVE MarksOK' /\ WireOK'
  OBVIOUS
<1> USE DEF TextsTypeOK
<1>1. CASE UNCHANGED textVars
  BY <1>1 DEF textVars, draft, pages, wire, bounds, textHistory, MarksOK, WireOK
<1>2. ASSUME NEW t \in Text, NEW ch \in Channel, Sends(t, ch) PROVE MarksOK' /\ WireOK'
  <2>1. typed' \in [Text -> Channel \cup {Nothing}] /\ typed' = [typed EXCEPT ![t] = ch]
    BY <1>2 DEF Sends, SendsFirst, SendsAgain, draft, MarksOK
  <2>2. Added(t) \in {"sending", "failed"} /\ status' = [status EXCEPT ![t] = Added(t)]
    BY <1>2 DEF Sends, SendTextGuarded, Added
  <2>3. status' \in [Text -> {"none", "sending", "failed"}]
    BY <2>2 DEF MarksOK
  <2>4. newer' \subseteq Text \X Text
    BY <1>2 DEF Sends, SendTextGuarded, MarksOK, Shows
  <2>5. ASSUME NEW p \in newer'
        PROVE "none" \notin {status'[p[1]], status'[p[2]]} /\ typed'[p[1]] = typed'[p[2]]
    <3>1. CASE p \in newer /\ t \notin {p[1], p[2]}
      BY <2>1, <2>2, <2>4, <3>1 DEF MarksOK
    <3>2. CASE p \in {t} \X (Shows(ch) \ {t})
      <4>1. p[1] = t /\ p[2] \in Text /\ p[2] # t /\ status[p[2]] # "none" /\ typed[p[2]] = ch
        BY <3>2 DEF Shows
      <4>2. QED
        BY <2>1, <2>2, <4>1 DEF MarksOK
    <3>3. QED
      BY <1>2, <3>1, <3>2 DEF Sends, SendTextGuarded
  <2>6. WireOK'
    BY <1>2 DEF Sends, SendTextGuarded, WireOK
  <2>7. QED
    BY <2>1, <2>3, <2>4, <2>5, <2>6 DEF MarksOK
<1>3. ASSUME NEW n, NEW t \in Text, Carry(n, t) PROVE MarksOK' /\ WireOK'
  BY <1>3 DEF Carry, pages, wire, MarksOK, WireOK
<1>4. ASSUME NEW t \in Text, Seal(t) PROVE MarksOK' /\ WireOK'
  BY <1>4 DEF Seal, pages, draft, MarksOK, WireOK
<1>5. ASSUME NEW t \in Text, SendTimeout(t) PROVE MarksOK' /\ WireOK'
  <2>1. WireOK'
    BY <1>5 DEF SendTimeout, wire, WireOK
  <2>2. MarksOK'
    BY <1>5 DEF SendTimeout, draft, MarksOK
  <2>3. QED
    BY <2>1, <2>2
<1>6. CASE Die \/ OnClose
  <2>1. MarksOK'
    BY <1>6 DEF Die, OnClose, draft, pages, MarksOK
  <2>2. out' = <<>> /\ echoes' = <<>>
    BY <1>6 DEF Die, OnClose
  <2>3. socket' \in {"open", "dead", "closed"} /\ UNCHANGED <<sealing, stored>>
    BY <1>6 DEF Die, OnClose
  <2>4. QED
    BY <2>1, <2>2, <2>3, EmptyLine DEF WireOK
<1>7. CASE OnOpen
  <2>1. WireOK'
    BY <1>7 DEF OnOpen, FailedTexts, WireOK
  <2>2. status' \in [Text -> {"none", "sending", "failed"}] /\ typed' = typed
    BY <1>7 DEF OnOpen, draft, MarksOK
  <2>3. \A t \in Text : status[t] # "none" => status'[t] # "none"
    BY <1>7 DEF OnOpen, MarksOK
  <2>4. ASSUME NEW p \in newer'
        PROVE /\ p \in Text \X Text
              /\ "none" \notin {status[p[1]], status[p[2]]} /\ typed[p[1]] = typed[p[2]]
    <3> DEFINE F == FailedTexts
    <3>0. /\ p \in Text \X Text
          /\ IF p[2] \in F THEN p[1] \in F /\ <<p[2], p[1]>> \in newer
             ELSE IF p[1] \in F THEN p[2] \in Shows(typed[p[1]]) ELSE p \in newer
      BY <1>7 DEF OnOpen, Retried
    <3>1. CASE p[2] \in F
      BY <3>0, <3>1 DEF MarksOK
    <3>2. CASE p[2] \notin F /\ p[1] \in F
      <4>1. p[2] \in Shows(typed[p[1]]) /\ status[p[1]] # "none"
        BY <3>0, <3>2 DEF FailedTexts
      <4>2. QED
        BY <3>0, <4>1 DEF Shows
    <3>3. CASE p[2] \notin F /\ p[1] \notin F
      BY <3>0, <3>3 DEF MarksOK
    <3>4. QED
      BY <3>1, <3>2, <3>3
  <2>5. MarksOK'
    <3>1. \A p \in newer' : /\ p[1] \in Text /\ p[2] \in Text
                            /\ "none" \notin {status'[p[1]], status'[p[2]]}
                            /\ typed'[p[1]] = typed'[p[2]]
      BY <2>2, <2>3, <2>4
    <3>2. newer' \subseteq Text \X Text
      BY <2>4
    <3>3. QED
      BY <2>2, <3>1, <3>2 DEF MarksOK
  <2>6. QED
    BY <2>1, <2>5
<1>8. CASE HandleChatMessage
  <2>1. out' \in Seq(Text) /\ UNCHANGED <<socket, sealing>>
    BY <1>8, HeadAndTail DEF HandleChatMessage, WireOK
  <2>2. PICK e \in Echo : echoes' = echoes \/ echoes' = Append(echoes, e)
    BY <1>8, Handled
  <2>3. WireOK'
    <3>1. stored' \in [Text -> Nat]
      BY <1>8, Handled
    <3>2. echoes' \in Seq(Echo)
      <4>1. echoes \in Seq(Echo)
        BY DEF WireOK, Echo
      <4>2. Append(echoes, e) \in Seq(Echo)
        BY <4>1
      <4>3. QED
        BY <2>2, <4>1, <4>2
    <3>3. QED
      BY <2>1, <3>1, <3>2 DEF WireOK, Echo
  <2>4. MarksOK'
    BY <1>8 DEF HandleChatMessage, draft, pages, MarksOK
  <2>5. QED
    BY <2>3, <2>4
<1>9. ASSUME NEW ch \in Channel, SentElsewhere(ch) PROVE MarksOK' /\ WireOK'
  BY <1>9 DEF SentElsewhere, draft, pages, MarksOK, WireOK
<1>10. ASSUME NEW ts, Taken(ts), UNCHANGED typed PROVE MarksOK'
  <2>1. \A t \in Text : status'[t] = IF t \in ts THEN "none" ELSE status[t]
    BY <1>10 DEF Taken
  <2>2. \A p \in newer' : p \in newer /\ p[1] \notin ts /\ p[2] \notin ts
    BY <1>10 DEF Taken
  <2>3. status' \in [Text -> {"none", "sending", "failed"}]
    BY <1>10 DEF Taken, MarksOK
  <2>4. QED
    BY <1>10, <2>1, <2>2, <2>3 DEF MarksOK
<1>11. CASE OnMessage
  <2>1. WireOK'
    <3>1. Tail(echoes) \in Seq([ch : Channel, text : Text \cup {Nothing}])
      BY <1>11, HeadAndTail DEF OnMessage, WireOK
    <3>2. QED
      BY <1>11, <3>1 DEF OnMessage, WireOK
  <2>2. UNCHANGED typed /\ \E ts : Taken(ts)
    BY <1>11 DEF OnMessage, draft
  <2>3. QED
    BY <1>10, <2>1, <2>2
<1>12. ASSUME NEW ch \in Channel, Refetch(ch) PROVE MarksOK' /\ WireOK'
  <2>1. WireOK'
    BY <1>12 DEF Refetch, wire, WireOK
  <2>2. QED
    BY <1>10, <1>12, <2>1 DEF Refetch, draft
<1>13. QED
  BY <1>1, <1>2, <1>3, <1>4, <1>5, <1>6, <1>7, <1>8, <1>9, <1>11, <1>12 DEF TextStep

LEMMA TextBoundsStep == TextsTypeOK /\ TextStep => TextBoundsOK'
<1> SUFFICES ASSUME TextsTypeOK, TextStep PROVE TextBoundsOK'
  OBVIOUS
<1> USE TextBoundAssumption DEF TextsTypeOK
<1>1. CASE UNCHANGED textVars
  BY <1>1 DEF textVars, bounds, textHistory, TextBoundsOK
<1>2. ASSUME NEW t \in Text, NEW ch \in Channel, Sends(t, ch) PROVE TextBoundsOK'
  BY <1>2 DEF Sends, SendTextGuarded, textHistory, TextBoundsOK
<1>3. ASSUME NEW n, NEW t \in Text, Carry(n, t) PROVE TextBoundsOK'
  BY <1>3 DEF Carry, bounds, textHistory, TextBoundsOK
<1>4. ASSUME NEW t \in Text, Seal(t) \/ SendTimeout(t) PROVE TextBoundsOK'
  <2>1. disturbed' \in BOOLEAN
    BY <1>4 DEF Seal, SendTimeout
  <2>2. QED
    BY <1>4, <2>1 DEF Seal, SendTimeout, bounds, TextBoundsOK
<1>5. CASE Die \/ OnClose
  <2>1. disturbed' \in BOOLEAN
    BY <1>5 DEF Die, OnClose
  <2>2. QED
    BY <1>5, <2>1 DEF Die, OnClose, TextBoundsOK
<1>6. CASE OnOpen
  BY <1>6 DEF OnOpen, textHistory, TextBoundsOK
<1>7. CASE HandleChatMessage
  BY <1>7 DEF HandleChatMessage, bounds, textHistory, TextBoundsOK
<1>8. CASE OnMessage
  <2>1. \A ch : OldestPending(ch) \subseteq Text
    BY DEF OldestPending, Sending, Shows
  <2>2. disturbed' \in BOOLEAN
    BY <1>8 DEF OnMessage
  <2>3. QED
    BY <1>8, <2>1, <2>2 DEF OnMessage, bounds, TextBoundsOK
<1>9. ASSUME NEW ch \in Channel, SentElsewhere(ch) \/ Refetch(ch) PROVE TextBoundsOK'
  <2>1. disturbed' \in BOOLEAN /\ Shows(ch) \subseteq Text
    BY <1>9 DEF SentElsewhere, Refetch, Shows
  <2>2. QED
    BY <1>9, <2>1 DEF SentElsewhere, Refetch, bounds, TextBoundsOK
<1>10. QED
  BY <1>1, <1>2, <1>3, <1>4, <1>5, <1>6, <1>7, <1>8, <1>9 DEF TextStep

\* A step begins or ends one batch at most.
LEMMA BatchesStep ==
  ASSUME TypeOK, [Next]_vars
  PROVE  \E n : DOMAIN batches' = DOMAIN batches \/ DOMAIN batches' = DOMAIN batches \cup {n}
                                                 \/ DOMAIN batches' = DOMAIN batches \ {n}
<1>1. ASSUME NEW fs, Start(fs) PROVE DOMAIN batches' = DOMAIN batches \cup {begun'}
  <2>1. PICK todo \in SetToSeqs(Waiting) :
          batches' = [m \in DOMAIN batches \cup {begun'} |->
                        IF m = begun' THEN [ch |-> shown, todo |-> todo] ELSE batches[m]]
    BY <1>1 DEF Start
  <2>2. QED
    BY <2>1
<1>2. ASSUME NEW n \in DOMAIN batches, NEW st, Proceed(n, st)
      PROVE  DOMAIN batches' = DOMAIN batches \/ DOMAIN batches' = DOMAIN batches \ {n}
  BY <1>2 DEF Proceed, TypeOK, BatchesOK
<1>3. QED
  BY <1>1, <1>2 DEF Next, AddFile, RemoveFile, RetryFile, VoiceUploaded, VoiceSent, VoiceNotSent, SendVoice,
     OpenChannel, SetOnline, HandleSend, Uploaded, FileSent, NotSent, SendVideo, RejectVideo, VideoDone, vars,
     work

LEMMA CarriedStep ==
  TypeOK /\ TextsTypeOK /\ [ChatNext]_<<inputVars, textVars>> /\ [Next]_vars => CarriedOK'
<1> SUFFICES ASSUME TypeOK, TextsTypeOK, [ChatNext]_<<inputVars, textVars>>, [Next]_vars
             PROVE  CarriedOK'
  OBVIOUS
<1> USE DEF TextsTypeOK
<1>1. CASE UNCHANGED carried /\ DOMAIN carried \cap (DOMAIN batches \ DOMAIN batches') = {}
  BY <1>1 DEF CarriedOK
<1>2. ASSUME NEW n \in DOMAIN batches' \ DOMAIN batches, NEW t \in Text, Carry(n, t) PROVE CarriedOK'
  <2>1. DOMAIN batches \subseteq DOMAIN batches'
    BY <1>2, BatchesStep
  <2>2. carried' = [m \in DOMAIN carried \cup {n} |-> IF m = n THEN t ELSE carried[m]]
    BY <1>2 DEF Carry
  <2>3. QED
    BY <1>2, <2>1, <2>2 DEF CarriedOK
<1>3. ASSUME NEW n \in (DOMAIN batches \ DOMAIN batches') \cap DOMAIN carried, Release(n)
      PROVE  CarriedOK'
  <2>1. DOMAIN batches \ {n} \subseteq DOMAIN batches'
    BY <1>3, BatchesStep
  <2>2. carried' = [m \in DOMAIN carried \ {n} |-> carried[m]]
    BY <1>3 DEF Release
  <2>3. QED
    BY <2>1, <2>2 DEF CarriedOK
<1>4. CASE WithFiles
  <2>1. CASE UNCHANGED textVars /\ (DOMAIN batches \ DOMAIN batches') \cap DOMAIN carried = {}
    BY <1>1, <2>1 DEF textVars, draft
  <2>2. QED
    BY <1>2, <1>3, <1>4, <2>1 DEF WithFiles
<1>5. CASE TextOnline /\ online' # online
  <2>1. UNCHANGED batches
    BY <1>5 DEF Next, AddFile, RemoveFile, RetryFile, VoiceUploaded, VoiceSent, VoiceNotSent, SendVoice,
       OpenChannel, SetOnline, HandleSend, Uploaded, FileSent, NotSent, SendVideo, RejectVideo, VideoDone,
       vars, work
  <2>2. UNCHANGED carried
    BY <1>5 DEF TextOnline, OnClose, OnOpen, draft
  <2>3. QED
    BY <1>1, <2>1, <2>2
<1>6. CASE UNCHANGED inputVars /\ (TextEvent \/ TextClick)
  <2>1. UNCHANGED batches
    BY <1>6 DEF inputVars, vars, work
  <2>2. UNCHANGED carried
    BY <1>6 DEF TextEvent, TextClick, Type, Retry, Seal, SendTimeout, Die, HandleChatMessage,
       OnMessage, SentElsewhere, Refetch, draft
  <2>3. QED
    BY <1>1, <2>1, <2>2
<1>7. CASE UNCHANGED <<inputVars, textVars>>
  BY <1>1, <1>7 DEF inputVars, textVars, draft, vars, work
<1>8. QED
  BY <1>4, <1>5, <1>6, <1>7 DEF ChatNext

-----------------------------------------------------------------------------
(* Texts are sent once *)

LEMMA UnsentStep ==
  ASSUME TextsTypeOK, TextsOK, TextStep
  PROVE  TextsOK'
<1> USE DEF TextsTypeOK, MarksOK, WireOK, OnItsWay
<1>1. CASE UNCHANGED textVars
  BY <1>1 DEF textVars, draft, pages, wire, TextsOK, Unsent
<1>2. ASSUME NEW t \in Text, NEW ch \in Channel, Sends(t, ch) PROVE TextsOK'
  <2>1. ch # Nothing /\ (\A u \in Text : typed'[u] = IF u = t THEN ch ELSE typed[u])
    BY <1>2, NothingAssumption DEF Sends, SendsFirst, SendsAgain, draft
  <2>2. \A u \in Text \ {t} : status'[u] = status[u] /\ (u \in sealing' <=> u \in sealing)
    BY <1>2 DEF Sends, SendTextGuarded
  <2>3. status'[t] = "failed" => t \notin sealing'
    <3>1. CASE Connected
      BY <1>2, <3>1 DEF Sends, SendTextGuarded, Added
    <3>2. CASE ~Connected
      BY <1>2, <3>2 DEF Sends, SendTextGuarded, SendsFirst, SendsAgain, TextsOK, Unsent
    <3>3. QED
      BY <3>1, <3>2
  <2>4. UNCHANGED <<out, stored>>
    BY <1>2 DEF Sends
  <2>5. \A n \in DOMAIN carried' : /\ n \in DOMAIN carried /\ carried'[n] = carried[n]
                                   /\ carried[n] # t
    <3>1. CASE SendsFirst(t, ch)
      BY <3>1 DEF SendsFirst
    <3>2. CASE SendsAgain(t, ch)
      BY <2>1, <3>2 DEF SendsAgain, draft, TextsOK
    <3>3. QED
      BY <1>2, <3>1, <3>2 DEF Sends
  <2>6. \A n \in DOMAIN carried' : typed'[carried'[n]] = Nothing
    BY <2>1, <2>5 DEF TextsOK, CarriedOK
  <2>7. QED
    BY <2>1, <2>2, <2>3, <2>4, <2>5, <2>6 DEF TextsOK, Unsent
<1>3. ASSUME NEW n, NEW t \in Text, Carry(n, t) PROVE TextsOK'
  <2>1. carried' = [m \in DOMAIN carried \cup {n} |-> IF m = n THEN t ELSE carried[m]]
    BY <1>3 DEF Carry
  <2>2. typed[t] = Nothing /\ \A m \in DOMAIN carried : carried[m] # t
    BY <1>3 DEF Carry, Range
  <2>3. QED
    BY <1>3, <2>1, <2>2 DEF Carry, pages, wire, TextsOK, Unsent
<1>4. ASSUME NEW t \in Text, Seal(t) PROVE TextsOK'
  <2>1. \A u \in Text : u \in Range(out') => u \in Range(out) \/ u = t
    BY <1>4, Appended DEF Seal
  <2>2. typed[t] # Nothing
    BY <1>4 DEF Seal, TextsOK, Unsent
  <2>3. QED
    BY <1>4, <2>1, <2>2 DEF Seal, draft, pages, TextsOK, Unsent
<1>5. ASSUME NEW t \in Text, SendTimeout(t) PROVE TextsOK'
  BY <1>5 DEF SendTimeout, draft, wire, TextsOK, Unsent
<1>6. CASE Die \/ OnClose
  <2>1. \A u : u \notin Range(out')
    BY <1>6 DEF Die, OnClose, Range
  <2>2. QED
    BY <1>6, <2>1 DEF Die, OnClose, draft, pages, TextsOK, Unsent
<1>7. CASE OnOpen
  BY <1>7 DEF OnOpen, FailedTexts, draft, TextsOK, Unsent
<1>8. CASE HandleChatMessage
  <2>1. Head(out) \in Text /\ Head(out) \in Range(out) /\ \A u : u \in Range(out') => u \in Range(out)
    BY <1>8, HeadAndTail DEF HandleChatMessage
  <2>2. QED
    BY <1>8, <2>1 DEF HandleChatMessage, draft, pages, TextsOK, Unsent
<1>9. ASSUME NEW ch \in Channel, SentElsewhere(ch) PROVE TextsOK'
  BY <1>9 DEF SentElsewhere, draft, pages, TextsOK, Unsent
<1>10. ASSUME NEW ts, Taken(ts), UNCHANGED <<draft, sealing, out, stored>> PROVE TextsOK'
  BY <1>10 DEF Taken, draft, TextsOK, Unsent
<1>11. CASE OnMessage
  BY <1>10, <1>11 DEF OnMessage
<1>12. ASSUME NEW ch \in Channel, Refetch(ch) PROVE TextsOK'
  BY <1>10, <1>12 DEF Refetch, wire
<1>13. QED
  BY <1>1, <1>2, <1>3, <1>4, <1>5, <1>6, <1>7, <1>8, <1>9, <1>11, <1>12 DEF TextStep

\* A text nobody gave up too early is at one place at most.
OnePlace(t) ==
  /\ t \in sealing => t \notin Range(out)
  /\ OnItsWay(t) => stored[t] = 0
  /\ stored[t] <= 1
  /\ \A i, j \in DOMAIN out : out[i] = t /\ out[j] = t => i = j
  /\ status[t] = "failed" => ~OnItsWay(t) /\ stored[t] = 0

PlacesOK == \A t \in Text \ doubtful : OnePlace(t)

LEMMA PlacesStep ==
  ASSUME TextsTypeOK, TextsOK, PlacesOK, TextStep
  PROVE  PlacesOK'
<1> USE DEF TextsTypeOK, MarksOK, WireOK, OnItsWay
<1>1. CASE UNCHANGED textVars
  BY <1>1 DEF textVars, pages, wire, textHistory, PlacesOK, OnePlace
<1>2. ASSUME NEW t \in Text, NEW ch \in Channel, Sends(t, ch) PROVE PlacesOK'
  <2>1. UNCHANGED <<out, stored, doubtful>>
    BY <1>2 DEF Sends, textHistory
  <2>2. \A u \in Text \ {t} : status'[u] = status[u] /\ (u \in sealing' <=> u \in sealing)
    BY <1>2 DEF Sends, SendTextGuarded
  <2>3. t \in doubtful \/ (stored[t] = 0 /\ t \notin Range(out) /\ t \notin sealing)
    BY <1>2 DEF Sends, SendsFirst, SendsAgain, TextsOK, Unsent, PlacesOK, OnePlace
  <2>4. status'[t] = "failed" => t \notin sealing' \/ t \in doubtful
    <3>1. CASE Connected
      BY <1>2, <3>1 DEF Sends, SendTextGuarded, Added
    <3>2. CASE ~Connected
      BY <1>2, <2>3, <3>2 DEF Sends, SendTextGuarded
    <3>3. QED
      BY <3>1, <3>2
  <2>5. \A i \in DOMAIN out : t \in doubtful \/ out[i] # t
    BY <2>3 DEF Range
  <2>6. t \in doubtful \/ OnePlace(t)'
    BY <2>1, <2>3, <2>4, <2>5 DEF OnePlace
  <2>7. QED
    BY <2>1, <2>2, <2>6 DEF PlacesOK, OnePlace
<1>3. ASSUME NEW n, NEW t \in Text, Carry(n, t) PROVE PlacesOK'
  BY <1>3 DEF Carry, pages, wire, textHistory, PlacesOK, OnePlace
<1>4. ASSUME NEW t \in Text, Seal(t) PROVE PlacesOK'
  <2>1. CASE socket = "open"
    <3>1. \A u \in Text \ doubtful : OnePlace(u)'
      <4> TAKE u \in Text \ doubtful
      <4>1. OnePlace(u) /\ out' = Append(out, t) /\ sealing' = sealing \ {t}
        BY <1>4, <2>1 DEF Seal, PlacesOK
      <4>2. CASE u = t
        <5>1. u \notin Range(out) /\ stored[u] = 0 /\ status[u] # "failed" /\ \A i \in DOMAIN out : out[i] # u
          BY <1>4, <4>1, <4>2 DEF OnePlace, Seal, Range
        <5>2. QED
          BY <1>4, <4>1, <4>2, <5>1, Appended DEF Seal, pages, OnePlace
      <4>3. CASE u # t
        <5>1. /\ u \in Range(out') <=> u \in Range(out)
              /\ \A i \in DOMAIN out' : out'[i] = u => i \in DOMAIN out /\ out[i] = u
          BY <4>1, <4>3, Appended
        <5>2. QED
          BY <1>4, <4>1, <4>3, <5>1 DEF Seal, pages, OnePlace
      <4>4. QED
        BY <4>2, <4>3
    <3>2. QED
      BY <1>4, <3>1 DEF Seal, PlacesOK
  <2>2. CASE socket # "open"
    BY <1>4, <2>2 DEF Seal, pages, PlacesOK, OnePlace
  <2>3. QED
    BY <2>1, <2>2
<1>5. ASSUME NEW t \in Text, SendTimeout(t) PROVE PlacesOK'
  BY <1>5 DEF SendTimeout, wire, PlacesOK, OnePlace
<1>6. CASE Die \/ OnClose
  <2>1. DOMAIN out' = {} /\ \A u : u \notin Range(out')
    BY <1>6 DEF Die, OnClose, Range
  <2>2. QED
    BY <1>6, <2>1 DEF Die, OnClose, pages, PlacesOK, OnePlace
<1>7. CASE OnOpen
  BY <1>7 DEF OnOpen, FailedTexts, textHistory, PlacesOK, OnePlace, TextsOK
<1>8. CASE HandleChatMessage
  <2>1. /\ Head(out) \in Range(out) /\ Head(out) = out[1] /\ 1 \in DOMAIN out
        /\ out' \in Seq(Text) /\ \A u : u \in Range(out') => u \in Range(out)
        /\ \A i \in DOMAIN out' : i + 1 \in DOMAIN out /\ out'[i] = out[i + 1] /\ 1 < i + 1
    BY <1>8, HeadAndTail DEF HandleChatMessage
  <2>2. /\ \A u \in Text : u # Head(out) => stored'[u] = stored[u]
        /\ \A u \in Text : stored'[u] = stored[u] \/ stored'[u] = stored[u] + 1
    BY <1>8, Handled
  <2>5. UNCHANGED <<pages, sealing, doubtful>>
    BY <1>8 DEF HandleChatMessage
  <2>3. \A u \in Text \ doubtful : OnePlace(u)'
    <3> TAKE u \in Text \ doubtful
    <3>1. OnePlace(u) /\ \A i, j \in DOMAIN out' : out'[i] = u /\ out'[j] = u => i = j
      BY <2>1, <2>2 DEF PlacesOK, OnePlace
    <3>2. CASE u = Head(out)
      <4>1. stored[u] = 0 /\ u \notin sealing /\ status[u] # "failed"
        BY <2>1, <3>1, <3>2 DEF OnePlace
      <4>2. \A i \in DOMAIN out' : out'[i] # u
        BY <2>1, <3>1, <3>2 DEF OnePlace
      <4>3. u \notin Range(out')
        BY <4>2 DEF Range
      <4>4. QED
        BY <2>2, <2>5, <3>1, <4>1, <4>3 DEF pages, OnePlace
    <3>3. CASE u # Head(out)
      BY <2>1, <2>2, <2>5, <3>1, <3>3 DEF pages, OnePlace
    <3>4. QED
      BY <3>2, <3>3
  <2>4. QED
    BY <2>3, <2>5 DEF PlacesOK
<1>9. ASSUME NEW ch \in Channel, SentElsewhere(ch) PROVE PlacesOK'
  BY <1>9 DEF SentElsewhere, pages, PlacesOK, OnePlace
<1>10. ASSUME NEW ts, Taken(ts), UNCHANGED <<sealing, out, stored, doubtful>> PROVE PlacesOK'
  BY <1>10 DEF Taken, PlacesOK, OnePlace
<1>11. CASE OnMessage
  BY <1>10, <1>11 DEF OnMessage
<1>12. ASSUME NEW ch \in Channel, Refetch(ch) PROVE PlacesOK'
  BY <1>10, <1>12 DEF Refetch, wire
<1>13. QED
  BY <1>1, <1>2, <1>3, <1>4, <1>5, <1>6, <1>7, <1>8, <1>9, <1>11, <1>12 DEF TextStep

-----------------------------------------------------------------------------
(* Texts are kept *)

EchoesOK == \A i \in DOMAIN echoes : echoes[i].text # Nothing => stored[echoes[i].text] > 0

\* Under way or not, a text that was sent and is not stored has a placeholder, if nothing
\* took its place.
ShownOK == \A t \in Text : typed[t] # Nothing =>
             stored[t] > 0 \/ status[t] # "none" \/ t \in mistaken \cup wiped

LEMMA ShownStep ==
  ASSUME TextsTypeOK, TextsOK, EchoesOK, ShownOK, TextStep
  PROVE  EchoesOK' /\ ShownOK'
<1> USE DEF TextsTypeOK, MarksOK, WireOK
<1>1. CASE UNCHANGED textVars
  BY <1>1 DEF textVars, draft, pages, wire, textHistory, EchoesOK, ShownOK
<1>2. ASSUME NEW t \in Text, NEW ch \in Channel, Sends(t, ch) PROVE EchoesOK' /\ ShownOK'
  <2>1. UNCHANGED <<stored, echoes, mistaken, wiped>>
    BY <1>2 DEF Sends, textHistory
  <2>2. \A u \in Text \ {t} : status'[u] = status[u] /\ typed'[u] = typed[u]
    BY <1>2 DEF Sends, SendsFirst, SendsAgain, SendTextGuarded, draft
  <2>3. status'[t] # "none"
    BY <1>2 DEF Sends, SendTextGuarded, Added
  <2>4. QED
    BY <2>1, <2>2, <2>3 DEF EchoesOK, ShownOK
<1>3. ASSUME NEW n, NEW t \in Text, Carry(n, t) PROVE EchoesOK' /\ ShownOK'
  BY <1>3 DEF Carry, pages, wire, textHistory, EchoesOK, ShownOK
<1>4. ASSUME NEW t \in Text, Seal(t) PROVE EchoesOK' /\ ShownOK'
  BY <1>4 DEF Seal, draft, pages, EchoesOK, ShownOK
<1>5. ASSUME NEW t \in Text, SendTimeout(t) PROVE EchoesOK' /\ ShownOK'
  BY <1>5 DEF SendTimeout, draft, wire, EchoesOK, ShownOK
<1>6. CASE Die \/ OnClose
  <2>1. DOMAIN echoes' = {}
    BY <1>6 DEF Die, OnClose
  <2>2. QED
    BY <1>6, <2>1 DEF Die, OnClose, draft, pages, EchoesOK, ShownOK
<1>7. CASE OnOpen
  BY <1>7 DEF OnOpen, draft, textHistory, EchoesOK, ShownOK
<1>8. CASE HandleChatMessage
  <2>1. PICK h \in Text, e \in Echo :
          /\ h = Head(out) /\ h \in Range(out) /\ e = [ch |-> typed[h], text |-> h]
          /\ stored' \in [Text -> Nat] /\ (\A u \in Text \ {h} : stored'[u] = stored[u])
          /\ stored'[h] = stored[h] \/ stored'[h] = stored[h] + 1
          /\ echoes' = echoes \/ (echoes' = Append(echoes, e) /\ stored'[h] = stored[h] + 1)
    BY <1>8, Handled
  <2>2. UNCHANGED <<draft, pages, mistaken, wiped>>
    BY <1>8 DEF HandleChatMessage
  <2>3. (\A t \in Text : stored'[t] >= stored[t]) /\ (echoes' # echoes => stored'[h] > 0)
    BY <2>1
  <2>4. \A i \in DOMAIN echoes' : \/ i \in DOMAIN echoes /\ echoes'[i] = echoes[i]
                                  \/ echoes'[i] = e /\ echoes' # echoes
    <3>1. CASE echoes' = echoes
      BY <3>1
    <3>2. CASE echoes' # echoes
      <4>1. echoes \in Seq(Echo) /\ echoes' = Append(echoes, e)
        BY <2>1, <3>2 DEF Echo
      <4>2. QED
        BY <3>2, <4>1, Appended
    <3>3. QED
      BY <3>1, <3>2
  <2>5. \A i \in DOMAIN echoes : echoes[i].text \in Text \cup {Nothing}
    <3>1. echoes \in Seq([ch : Channel, text : Text \cup {Nothing}])
      OBVIOUS
    <3>2. \A i \in DOMAIN echoes : echoes[i] \in [ch : Channel, text : Text \cup {Nothing}]
      BY <3>1, EntriesOfSeq
    <3>3. QED
      BY <3>2
  <2>6. EchoesOK'
    <3>1. ASSUME NEW i \in DOMAIN echoes', echoes'[i].text # Nothing PROVE stored'[echoes'[i].text] > 0
      <4>1. CASE i \in DOMAIN echoes /\ echoes'[i] = echoes[i]
        <5>1. echoes[i].text \in Text /\ stored[echoes[i].text] > 0
          BY <2>5, <3>1, <4>1 DEF EchoesOK
        <5>2. QED
          <6>1. PICK t \in Text : t = echoes[i].text
            BY <5>1
          <6>2. stored'[t] >= stored[t] /\ stored'[t] \in Nat /\ stored[t] \in Nat /\ stored[t] > 0
            BY <2>1, <2>3, <5>1, <6>1
          <6>3. echoes'[i].text = t
            BY <4>1, <6>1
          <6>4. QED
            BY <6>2, <6>3
      <4>2. CASE echoes'[i] = e /\ echoes' # echoes
        BY <2>3, <4>2, <2>1
      <4>3. QED
        BY <2>4, <4>1, <4>2
    <3>2. QED
      BY <3>1 DEF EchoesOK
  <2>7. ShownOK'
    <3>1. \A t \in Text : stored[t] > 0 => stored'[t] > 0
      BY <2>1, <2>3
    <3>2. QED
      BY <2>2, <3>1 DEF draft, pages, ShownOK
  <2>8. QED
    BY <2>6, <2>7
<1>9. ASSUME NEW ch \in Channel, SentElsewhere(ch) PROVE EchoesOK' /\ ShownOK'
  <2> DEFINE e == [ch |-> ch, text |-> Nothing]
  <2>1. echoes' = Append(echoes, e) /\ e \in [ch : Channel, text : Text \cup {Nothing}]
    BY <1>9 DEF SentElsewhere
  <2>2. \A i \in DOMAIN echoes' : (i \in DOMAIN echoes /\ echoes'[i] = echoes[i]) \/ echoes'[i] = e
    BY <2>1, Appended
  <2>3. QED
    BY <1>9, <2>2 DEF SentElsewhere, draft, pages, EchoesOK, ShownOK
<1>10. CASE OnMessage
  <2> DEFINE e == Head(echoes)
             old == IF e.ch = shown THEN OldestPending(shown) ELSE {}
  <2>1. /\ 1 \in DOMAIN echoes /\ e = echoes[1]
        /\ \A i \in DOMAIN echoes' : i + 1 \in DOMAIN echoes /\ echoes'[i] = echoes[i + 1]
    BY <1>10, HeadAndTail DEF OnMessage
  <2>2. /\ UNCHANGED <<draft, stored, wiped>> /\ mistaken' = mistaken \cup (old \ {e.text})
        /\ status' = [t \in Text |-> IF t \in old THEN "none" ELSE status[t]]
    BY <1>10 DEF OnMessage, Taken
  <2>3. EchoesOK'
    BY <2>1, <2>2 DEF EchoesOK
  <2>4. \A t \in old : t \in mistaken' \/ (t = e.text /\ t \in Text)
    BY <2>2 DEF OldestPending, Sending, Shows
  <2>5. ASSUME NEW t \in Text, t = e.text PROVE stored'[t] > 0
    BY <2>1, <2>2, <2>5, NothingAssumption DEF EchoesOK
  <2>6. ShownOK'
    <3> HIDE DEF old, e
    <3>1. QED
      BY <2>2, <2>4, <2>5 DEF draft, ShownOK
  <2>7. QED
    BY <2>3, <2>6
<1>11. ASSUME NEW ch \in Channel, Refetch(ch) PROVE EchoesOK' /\ ShownOK'
  BY <1>11 DEF Refetch, Taken, draft, wire, EchoesOK, ShownOK
<1>12. QED
  BY <1>1, <1>2, <1>3, <1>4, <1>5, <1>6, <1>7, <1>8, <1>9, <1>10, <1>11 DEF TextStep

TextInv == TextsTypeOK /\ TextsOK /\ PlacesOK /\ EchoesOK /\ ShownOK

LEMMA TextInvInit == ChatInit => TextInv
<1> SUFFICES ASSUME ChatInit PROVE TextInv
  OBVIOUS
<1> USE TextBoundAssumption DEF ChatInit, TextsInit
<1>1. DOMAIN carried = {} /\ carried \in [DOMAIN carried -> Text]
  OBVIOUS
<1>2. DOMAIN echoes = {} /\ DOMAIN out = {} /\ Range(out) = {}
  BY DEF Range
<1>3. out \in Seq(Text) /\ echoes \in Seq([ch : Channel, text : Text \cup {Nothing}])
  BY EmptyLine
<1>4. CarriedOK /\ MarksOK /\ TextBoundsOK
  <2>1. CarriedOK
    BY <1>1 DEF CarriedOK
  <2>2. MarksOK
    BY DEF MarksOK
  <2>3. TextBoundsOK
    <3>1. tries \in [Text -> 0 .. MaxTries] /\ foreign \in 0 .. MaxForeign /\ cuts \in 0 .. MaxCuts
      OBVIOUS
    <3>2. mistaken \cup wiped \cup doubtful \subseteq Text
      OBVIOUS
    <3>3. disturbed \in BOOLEAN
      OBVIOUS
    <3>4. QED
      BY <3>1, <3>2, <3>3 DEF TextBoundsOK
  <2>4. QED
    BY <2>1, <2>2, <2>3
<1>5. WireOK
  BY <1>3 DEF WireOK
<1>6. TextsOK /\ PlacesOK
  BY <1>1, <1>2 DEF TextsOK, Unsent, OnItsWay, PlacesOK, OnePlace
<1>7. EchoesOK /\ ShownOK
  BY <1>2 DEF EchoesOK, ShownOK
<1>8. QED
  BY <1>4, <1>5, <1>6, <1>7 DEF TextInv, TextsTypeOK

LEMMA TextInvStep ==
  TypeOK /\ TextInv /\ [ChatNext]_<<inputVars, textVars>> /\ [Next]_vars => TextInv'
<1> SUFFICES ASSUME TypeOK, TextInv, [ChatNext]_<<inputVars, textVars>>, [Next]_vars
             PROVE  TextInv'
  OBVIOUS
<1>1. TextStep
  BY TextSteps DEF TextInv
<1>2. TextsTypeOK'
  BY <1>1, MarksStep, TextBoundsStep, CarriedStep DEF TextInv, TextsTypeOK
<1>3. TextsOK'
  BY <1>1, UnsentStep DEF TextInv
<1>4. PlacesOK'
  BY <1>1, PlacesStep DEF TextInv
<1>5. EchoesOK' /\ ShownOK'
  BY <1>1, ShownStep DEF TextInv
<1>6. QED
  BY <1>2, <1>3, <1>4, <1>5 DEF TextInv

LEMMA TextInvAlways == ChatSpec => [](TypeOK /\ TextInv)
<1>1. ChatSpec => [][Next]_vars /\ []TypeOK
  BY ChatImplementsInput, InputImplementsComposer, TypeCorrect, PTL DEF Spec
<1>2. QED
  BY <1>1, TextInvInit, TextInvStep, PTL DEF ChatSpec

\* The state of the texts has its type: marks, frames, echoes and the order of the lists are
\* of texts that were sent, and two texts in order stand in one channel.
THEOREM TextTypesCorrect == ChatSpec => []TextsTypeOK
<1>1. TextInv => TextsTypeOK
  BY DEF TextInv
<1>2. QED
  BY <1>1, TextInvAlways, PTL

\* Whatever is handed to a socket that is not open was handed to a connection that ended.
CutsOK ==
  /\ socket # "open" => cuts > 0
  /\ \A f \in File : lost[f] > 0 => cuts > 0

LEMMA CutsStep ==
  TextsTypeOK /\ CutsOK /\ TextStep /\ (lost' # lost => socket # "open") => CutsOK'
<1> SUFFICES ASSUME TextsTypeOK, CutsOK, TextStep, lost' # lost => socket # "open"
             PROVE  CutsOK'
  OBVIOUS
<1>1. cuts \in Nat
  BY TextBoundAssumption DEF TextsTypeOK, TextBoundsOK
<1>2. ASSUME cuts' >= cuts, cuts' \in Nat, socket' # "open" => socket # "open" \/ cuts' > 0
      PROVE  CutsOK'
  <2>1. socket' # "open" => cuts' > 0
    BY <1>1, <1>2 DEF CutsOK
  <2>2. ASSUME NEW f \in File, lost'[f] > 0 PROVE cuts' > 0
    <3>1. CASE lost' = lost
      BY <1>1, <1>2, <2>2, <3>1 DEF CutsOK
    <3>2. CASE lost' # lost
      BY <1>1, <1>2, <3>2 DEF CutsOK
    <3>3. QED
      BY <3>1, <3>2
  <2>3. QED
    BY <2>1, <2>2 DEF CutsOK
<1>3. CASE Die \/ OnClose
  BY <1>1, <1>2, <1>3 DEF Die, OnClose
<1>4. CASE UNCHANGED <<socket, cuts>>
  BY <1>1, <1>2, <1>4
<1>5. CASE OnOpen
  BY <1>1, <1>2, <1>5 DEF OnOpen
<1>6. QED
  BY <1>3, <1>4, <1>5 DEF TextStep, Sends, Carry, Seal, SendTimeout, HandleChatMessage, OnMessage,
     SentElsewhere, Refetch, Taken, textVars, wire, bounds

\* No file and no text gets lost on its way out, but by what is known to cross it; and what is
\* only lost because nobody looked at the socket again was handed over after a connection ended.
THEOREM EverythingKeptCorrect == ChatSpec => []EverythingIsKept
<1>1. TextInv /\ KeptUntilSent /\ CutsOK => EverythingIsKept
  BY DEF TextInv, ShownOK, EverythingIsKept, LostOnlyByMistake, Accounted, CutsOK
<1>2. ChatInit => CutsOK
  BY DEF ChatInit, InputInit, Init, TextsInit, CutsOK
<1>3. TypeOK /\ TextInv /\ CutsOK /\ [ChatNext]_<<inputVars, textVars>> => CutsOK'
  <2> SUFFICES ASSUME TypeOK, TextInv, CutsOK, [ChatNext]_<<inputVars, textVars>> PROVE CutsOK'
    OBVIOUS
  <2>1. TextStep
    BY TextSteps DEF TextInv
  <2>2. lost' # lost => socket # "open"
    BY DEF ChatNext, FilesReach, inputVars, vars
  <2>3. QED
    BY <2>1, <2>2, CutsStep DEF TextInv
<1>4. ChatSpec => []CutsOK
  BY <1>2, <1>3, TextInvAlways, PTL DEF ChatSpec
<1>5. QED
  BY <1>1, <1>4, TextInvAlways, ChatImplementsInput, InputCorrect, PTL

\* No file and no text goes out twice, unless two batches cross or the text was given up.
THEOREM EverythingOnceCorrect == ChatSpec => []EverythingOnce
<1>1. TextInv => TextsSentOnce
  BY DEF TextInv, TextsTypeOK, WireOK, PlacesOK, OnePlace, TextsSentOnce
<1>2. TextsSentOnce /\ SentOnce => EverythingOnce
  BY DEF EverythingOnce
<1>3. QED
  BY <1>1, <1>2, TextInvAlways, ChatImplementsInput, InputCorrect, PTL

-----------------------------------------------------------------------------
(* Echoes and placeholders *)

OrderOK == \A p \in newer : <<p[2], p[1]>> \notin newer

LEMMA OrderStep ==
  ASSUME TextsTypeOK, OrderOK, TextStep
  PROVE  OrderOK'
<1> USE DEF TextsTypeOK, MarksOK
<1>1. CASE UNCHANGED newer
  BY <1>1 DEF OrderOK
<1>2. ASSUME NEW t \in Text, NEW ch \in Channel, Sends(t, ch) PROVE OrderOK'
  <2>1. newer' = {p \in newer : t \notin {p[1], p[2]}} \cup ({t} \X (Shows(ch) \ {t}))
    BY <1>2 DEF Sends, SendTextGuarded
  <2>2. QED
    BY <2>1 DEF OrderOK
<1>3. CASE OnOpen
  <2>1. newer' = Retried(FailedTexts)
    BY <1>3 DEF OnOpen
  <2>2. \A p \in newer' :
          /\ p[1] \in Text /\ p[2] \in Text
          /\ IF p[2] \in FailedTexts THEN p[1] \in FailedTexts /\ <<p[2], p[1]>> \in newer
             ELSE p[1] \in FailedTexts \/ p \in newer
    BY <2>1 DEF Retried
  <2>3. \A t, u \in Text : <<t, u>> \in newer =>  <<u, t>> \notin newer
    BY DEF OrderOK
  <2>4. \A t, u \in Text : <<t, u>> \in newer' =>  <<u, t>> \notin newer'
    BY <2>2, <2>3
  <2>5. \A p \in newer' : p = <<p[1], p[2]>>
    BY <2>1 DEF Retried
  <2>6. QED
    BY <2>2, <2>4, <2>5 DEF OrderOK
<1>4. ASSUME newer' \subseteq newer PROVE OrderOK'
  BY <1>4 DEF OrderOK
<1>5. CASE OnMessage \/ (\E ch \in Channel : Refetch(ch))
  BY <1>4, <1>5 DEF OnMessage, Refetch, Taken
<1>6. QED
  BY <1>1, <1>2, <1>3, <1>5 DEF TextStep, textVars, Carry, Seal, SendTimeout, Die, OnClose,
     HandleChatMessage, SentElsewhere, pages

Echoed(t) == \E i \in DOMAIN echoes : echoes[i].text = t

\* On its way to the server and back.
InLine(t) == t \in sealing \/ t \in Range(out) \/ Echoed(t)

\* As long as nothing is lost, late or from elsewhere, what is being sent is exactly what is
\* sealed, under way to the server or echoed,
LineOK ==
  /\ \A i \in DOMAIN echoes : echoes[i].text \in Text /\ typed[echoes[i].text] = echoes[i].ch
  /\ \A t \in Text : status[t] = "sending" <=> InLine(t)

Above(t, u) == typed[t] = typed[u] => <<t, u>> \in newer

\* and the list has it in that order: the next echo is that of the oldest placeholder.
QueueOK ==
  /\ \A i, j \in DOMAIN echoes : i < j => Above(echoes[j].text, echoes[i].text)
  /\ \A i, j \in DOMAIN out : i < j => Above(out[j], out[i])
  /\ \A i \in DOMAIN echoes : \A t \in sealing \cup Range(out) : Above(t, echoes[i].text)
  /\ \A t \in sealing, u \in Range(out) : Above(t, u)

ClosedOK == socket = "closed" => out = <<>> /\ echoes = <<>>

Undisturbed == mistaken = {} /\ LineOK /\ QueueOK /\ ClosedOK

EchoInv == OrderOK /\ (disturbed \/ Undisturbed)

\* What is in line has a place in it.
LEMMA LineIsText ==
  ASSUME TextsTypeOK, LineOK
  PROVE  /\ \A i \in DOMAIN echoes : echoes[i].text \in Text /\ InLine(echoes[i].text)
         /\ \A i \in DOMAIN out : out[i] \in Text /\ InLine(out[i])
         /\ \A t \in sealing \cup Range(out) : t \in Text /\ InLine(t)
<1>1. \A i \in DOMAIN out : out[i] \in Text
  BY EntriesOfSeq DEF TextsTypeOK, WireOK
<1>2. QED
  BY <1>1 DEF TextsTypeOK, WireOK, LineOK, InLine, Echoed, Range

\* A line that only gains texts above all others, or loses some of those being sealed, keeps
\* its order.
LEMMA QueueKept ==
  ASSUME TextsTypeOK, LineOK, QueueOK, UNCHANGED <<out, echoes>>, NEW new,
         \A t \in sealing' : t \in sealing \/ t = new,
         \A t \in Text : InLine(t) => typed'[t] = typed[t],
         \A t, u \in Text : InLine(t) /\ InLine(u) /\ <<t, u>> \in newer => <<t, u>> \in newer',
         new \in sealing' \ sealing =>
           \A u \in Text : InLine(u) /\ typed'[new] = typed'[u] => <<new, u>> \in newer'
  PROVE  QueueOK'
<1>1. \A t, u \in Text : InLine(t) /\ InLine(u) /\ Above(t, u) => Above(t, u)'
  BY DEF Above
<1>2. new \in sealing' \ sealing => \A u \in Text : InLine(u) => Above(new, u)'
  BY DEF Above
<1>3. /\ \A i \in DOMAIN echoes : echoes[i].text \in Text /\ InLine(echoes[i].text)
      /\ \A i \in DOMAIN out : out[i] \in Text /\ InLine(out[i])
      /\ \A t \in sealing \cup Range(out) : t \in Text /\ InLine(t)
  BY LineIsText
<1>4. \A i, j \in DOMAIN echoes' : i < j => Above(echoes[j].text, echoes[i].text)'
  BY <1>1, <1>3 DEF QueueOK
<1>5. \A i, j \in DOMAIN out' : i < j => Above(out[j], out[i])'
  BY <1>1, <1>3 DEF QueueOK
<1>6. \A i \in DOMAIN echoes' : \A t \in sealing' \cup Range(out') : Above(t, echoes[i].text)'
  BY <1>1, <1>2, <1>3 DEF QueueOK
<1>7. \A t \in sealing', u \in Range(out') : Above(t, u)'
  BY <1>1, <1>2, <1>3 DEF QueueOK
<1>8. QED
  BY <1>4, <1>5, <1>6, <1>7 DEF QueueOK

LEMMA EchoSends ==
  ASSUME TextInv, OrderOK, Undisturbed, NEW t \in Text, NEW ch \in Channel, Sends(t, ch)
  PROVE  Undisturbed'
<1> USE DEF TextInv, TextsTypeOK, MarksOK, WireOK
<1>1. ~InLine(t)
  BY DEF Sends, SendsFirst, SendsAgain, TextsOK, Unsent, OnItsWay, EchoesOK, Undisturbed, LineOK, InLine, Echoed
<1>2. /\ \A u \in Text \ {t} : typed'[u] = typed[u] /\ status'[u] = status[u]
      /\ typed'[t] = ch /\ status'[t] = IF Connected THEN "sending" ELSE "failed"
      /\ sealing' = IF Connected THEN sealing \cup {t} ELSE sealing
      /\ newer' = {p \in newer : t \notin {p[1], p[2]}} \cup ({t} \X (Shows(ch) \ {t}))
      /\ UNCHANGED <<out, echoes, socket, mistaken>>
  BY DEF Sends, SendsFirst, SendsAgain, SendTextGuarded, Added, draft, textHistory
<1>3. \A u \in Text : InLine(u) => u # t /\ status[u] = "sending"
  BY <1>1 DEF Undisturbed, LineOK
<1>4. \A u \in Text : InLine(u)' <=> InLine(u) \/ (u = t /\ Connected)
  BY <1>2 DEF InLine, Echoed
<1>5. LineOK'
  <2>1. \A i \in DOMAIN echoes : echoes[i].text \in Text /\ echoes[i].text # t
    BY <1>1 DEF Undisturbed, LineOK, InLine, Echoed
  <2>2. \A u \in Text : status'[u] = "sending" <=> InLine(u)'
    BY <1>1, <1>2, <1>4 DEF Undisturbed, LineOK
  <2>3. QED
    BY <1>2, <2>1, <2>2 DEF Undisturbed, LineOK
<1>6. QueueOK'
  <2>1. \A u, v \in Text : InLine(u) /\ InLine(v) /\ <<u, v>> \in newer => <<u, v>> \in newer'
    BY <1>2, <1>3
  <2>2. \A u \in Text : InLine(u) /\ typed'[t] = typed'[u] => <<t, u>> \in newer'
    BY <1>2, <1>3 DEF Shows
  <2>3. \A u \in sealing' : u \in sealing \/ u = t
    BY <1>2
  <2>4. \A u \in Text : InLine(u) => typed'[u] = typed[u]
    BY <1>2, <1>3
  <2>5. UNCHANGED <<out, echoes>>
    BY <1>2
  <2>6. QED
    BY <2>1, <2>2, <2>3, <2>4, <2>5, QueueKept DEF Undisturbed
<1>7. QED
  BY <1>2, <1>5, <1>6 DEF Undisturbed, ClosedOK

\* The order of a line that moves: the head of one part comes to the end of the next.
LEMMA EchoMoves ==
  ASSUME TextInv, OrderOK, Undisturbed,
         HandleChatMessage \/ (\E t \in Text : Seal(t)), ~disturbed'
  PROVE  Undisturbed'
<1> USE DEF TextInv, TextsTypeOK, MarksOK, WireOK
<1>1. CASE HandleChatMessage
  <2> DEFINE h == Head(out)
             e == [ch |-> typed[h], text |-> h]
  <2>1. /\ h \in Text /\ h = out[1] /\ 1 \in DOMAIN out /\ out' \in Seq(Text)
        /\ \A i \in DOMAIN out' : i + 1 \in DOMAIN out /\ out'[i] = out[i + 1] /\ 1 < i + 1
        /\ \A y : y \in Range(out) <=> y \in Range(out') \/ y = h
    BY <1>1, HeadAndTail DEF HandleChatMessage
  <2>2. /\ echoes' = Append(echoes, e) /\ UNCHANGED <<typed, status, newer, socket, sealing, mistaken>>
        /\ out # <<>>
    BY <1>1 DEF HandleChatMessage, draft, pages
  <2>3. InLine(h) /\ h \in Range(out)
    BY <2>1 DEF InLine
  <2>4. e \in [ch : Channel, text : Text \cup {Nothing}]
    BY <2>1, <2>3 DEF TextsOK, Unsent, OnItsWay
  <2>5. /\ DOMAIN echoes' = DOMAIN echoes \cup {Len(echoes) + 1} /\ Len(echoes) + 1 \notin DOMAIN echoes
        /\ \A i \in DOMAIN echoes : i < Len(echoes) + 1 /\ echoes'[i] = echoes[i]
        /\ echoes'[Len(echoes) + 1] = e
    BY <2>2, <2>4, Appended
  <2> HIDE DEF h
  <2>6. \A u \in Text : InLine(u)' <=> InLine(u)
    <3>1. \A u : Echoed(u)' <=> Echoed(u) \/ u = h
      BY <2>5 DEF Echoed
    <3>2. QED
      BY <2>1, <2>2, <2>3, <3>1 DEF InLine
  <2>7. LineOK'
    BY <2>1, <2>2, <2>5, <2>6 DEF Undisturbed, LineOK
  <2>8. \A u, v : Above(u, v)' <=> Above(u, v)
    BY <2>2 DEF Above
  <2>9. QueueOK'
    <3>1. \A i, j \in DOMAIN echoes' : i < j => Above(echoes'[j].text, echoes'[i].text)
      <4>1. \A i, j \in DOMAIN echoes : i < j => Above(echoes'[j].text, echoes'[i].text)
        BY <2>5 DEF Undisturbed, QueueOK
      <4>2. \A i \in DOMAIN echoes : Above(h, echoes[i].text)
        BY <2>3 DEF Undisturbed, QueueOK
      <4>3. QED
        BY <2>5, <4>1, <4>2
    <3>2. \A i, j \in DOMAIN out' : i < j => Above(out'[j], out'[i])
      BY <2>1 DEF Undisturbed, QueueOK
    <3>3. \A i \in DOMAIN echoes' : \A t \in sealing' \cup Range(out') : Above(t, echoes'[i].text)
      <4>1. \A i \in DOMAIN echoes : \A t \in sealing' \cup Range(out') : Above(t, echoes'[i].text)
        BY <2>1, <2>2, <2>5 DEF Undisturbed, QueueOK
      <4>2. \A t \in sealing' : Above(t, h)
        BY <2>2, <2>3 DEF Undisturbed, QueueOK
      <4>3. \A t \in Range(out') : Above(t, h)
        BY <2>1 DEF Undisturbed, QueueOK, Range
      <4>4. QED
        BY <2>5, <4>1, <4>2, <4>3
    <3>4. \A t \in sealing', u \in Range(out') : Above(t, u)
      BY <2>1, <2>2 DEF Undisturbed, QueueOK
    <3>5. QED
      BY <2>8, <3>1, <3>2, <3>3, <3>4 DEF QueueOK
  <2>10. QED
    BY <2>2, <2>7, <2>9 DEF Undisturbed, ClosedOK
<1>2. ASSUME NEW t \in Text, Seal(t) PROVE Undisturbed'
  <2>1. /\ socket = "open" /\ sealing = {t} /\ sealing' = {} /\ out' = Append(out, t)
        /\ UNCHANGED <<typed, status, newer, socket, echoes, mistaken>>
    BY <1>2 DEF Seal, draft, pages
  <2>2. /\ DOMAIN out' = DOMAIN out \cup {Len(out) + 1} /\ Len(out) + 1 \notin DOMAIN out
        /\ \A i \in DOMAIN out : i < Len(out) + 1 /\ out'[i] = out[i]
        /\ out'[Len(out) + 1] = t
        /\ \A y : y \in Range(out') <=> y \in Range(out) \/ y = t
    BY <2>1, Appended
  <2>3. \A u \in Text : InLine(u)' <=> InLine(u)
    BY <2>1, <2>2 DEF InLine, Echoed
  <2>4. LineOK'
    BY <2>1, <2>3 DEF Undisturbed, LineOK
  <2>5. \A u, v : Above(u, v)' <=> Above(u, v)
    BY <2>1 DEF Above
  <2>6. QueueOK'
    <3>1. \A i, j \in DOMAIN echoes' : i < j => Above(echoes'[j].text, echoes'[i].text)
      BY <2>1 DEF Undisturbed, QueueOK
    <3>2. \A i, j \in DOMAIN out' : i < j => Above(out'[j], out'[i])
      <4>1. \A i, j \in DOMAIN out : i < j => Above(out'[j], out'[i])
        BY <2>2 DEF Undisturbed, QueueOK
      <4>2. \A i \in DOMAIN out : Above(t, out[i])
        BY <2>1 DEF Undisturbed, QueueOK, Range
      <4>3. QED
        BY <2>2, <4>1, <4>2
    <3>3. \A i \in DOMAIN echoes' : \A u \in sealing' \cup Range(out') : Above(u, echoes'[i].text)
      BY <2>1, <2>2 DEF Undisturbed, QueueOK
    <3>4. \A u \in sealing', v \in Range(out') : Above(u, v)
      BY <2>1
    <3>5. QED
      BY <2>5, <3>1, <3>2, <3>3, <3>4 DEF QueueOK
  <2>7. QED
    BY <2>1, <2>4, <2>6 DEF Undisturbed, ClosedOK
<1>3. QED
  BY <1>1, <1>2

\* An echo in the channel shown takes the placeholder of its text, and nothing else.
LEMMA EchoTakesItsOwn ==
  ASSUME TextInv, OrderOK, Undisturbed, OnMessage, ~disturbed'
  PROVE  Undisturbed'
<1> USE DEF TextInv, TextsTypeOK, MarksOK, WireOK
<1> DEFINE x == echoes[1].text
<1>1. /\ echoes # <<>> /\ echoes' = Tail(echoes) /\ Head(echoes) = echoes[1] /\ 1 \in DOMAIN echoes
      /\ \A i \in DOMAIN echoes' : i + 1 \in DOMAIN echoes /\ echoes'[i] = echoes[i + 1] /\ 1 < i + 1
      /\ \A i \in DOMAIN echoes : i = 1 \/ (i - 1 \in DOMAIN echoes' /\ echoes'[i - 1] = echoes[i])
  BY HeadAndTail DEF OnMessage
<1>2. /\ echoes[1].ch = shown
      /\ Taken(OldestPending(shown)) /\ mistaken' = mistaken \cup (OldestPending(shown) \ {x})
      /\ UNCHANGED <<typed, socket, sealing, out>>
  BY <1>1 DEF OnMessage, draft
<1>3. x \in Text /\ typed[x] = shown /\ InLine(x) /\ status[x] = "sending"
  BY <1>1, <1>2 DEF Undisturbed, LineOK, InLine, Echoed
<1>4. ASSUME NEW u \in Text, Above(u, x), typed[u] = shown PROVE u # x /\ <<u, x>> \in newer
  BY <1>3, <1>4 DEF Above, OrderOK
<1>5. /\ \A u \in sealing \cup Range(out) : Above(u, x)
      /\ \A i \in DOMAIN echoes : i # 1 => Above(echoes[i].text, x)
  BY <1>1 DEF Undisturbed, QueueOK
<1>6. /\ x \notin sealing /\ x \notin Range(out)
      /\ \A i \in DOMAIN echoes' : echoes'[i].text # x
  <2>1. \A u \in Text : typed[u] = shown /\ Above(u, x) => u # x
    BY <1>4
  <2>2. ~Above(x, x)
    BY <1>3, <2>1
  <2>3. \A i \in DOMAIN echoes' : Above(echoes'[i].text, x)
    BY <1>1, <1>5
  <2>4. QED
    BY <1>5, <2>2, <2>3
<1> HIDE DEF x
<1>7. OldestPending(shown) = {x}
  <2>1. ASSUME NEW u \in Sending(shown), u # x PROVE <<u, x>> \in newer
    <3>1. u \in Text /\ InLine(u) /\ typed[u] = shown
      BY <2>1 DEF Sending, Shows, Undisturbed, LineOK
    <3>2. Above(u, x)
      <4>1. CASE Echoed(u)
        BY <1>5, <2>1, <4>1 DEF Echoed, x
      <4>2. QED
        BY <1>5, <3>1, <4>1 DEF InLine
    <3>3. QED
      BY <1>4, <3>1, <3>2
  <2>2. x \in Sending(shown)
    BY <1>3 DEF Sending, Shows
  <2>3. ASSUME NEW v \in OldestPending(shown), v # x PROVE FALSE
    <3>1. v \in Sending(shown) /\ <<x, v>> \in newer
      BY <2>2, <2>3 DEF OldestPending
    <3>2. <<v, x>> \in newer
      BY <2>1, <2>3, <3>1
    <3>3. QED
      BY <3>1, <3>2 DEF OrderOK
  <2>4. x \in OldestPending(shown)
    BY <2>1, <2>2 DEF OldestPending
  <2>5. QED
    BY <2>3, <2>4
<1>8. /\ mistaken' = {}
      /\ \A u \in Text : status'[u] = IF u = x THEN "none" ELSE status[u]
      /\ newer' = {p \in newer : p[1] # x /\ p[2] # x}
  BY <1>2, <1>7 DEF Taken, Undisturbed
<1>9. \A u \in Text : InLine(u)' <=> InLine(u) /\ u # x
  <2>1. \A u : Echoed(u)' <=> Echoed(u) /\ u # x
    <3>1. ASSUME NEW u, Echoed(u)' PROVE Echoed(u) /\ u # x
      BY <1>1, <1>6, <3>1 DEF Echoed
    <3>2. ASSUME NEW u, Echoed(u), u # x PROVE Echoed(u)'
      <4>1. PICK i \in DOMAIN echoes : echoes[i].text = u
        BY <3>2 DEF Echoed
      <4>2. i # 1
        BY <3>2, <4>1 DEF x
      <4>3. i - 1 \in DOMAIN echoes' /\ echoes'[i - 1].text = u
        BY <1>1, <4>1, <4>2
      <4>4. QED
        BY <4>3 DEF Echoed
    <3>3. QED
      BY <3>1, <3>2
  <2>2. QED
    BY <1>2, <1>6, <2>1 DEF InLine
<1>10. LineOK'
  <2>1. \A i \in DOMAIN echoes' : echoes'[i].text \in Text /\ typed'[echoes'[i].text] = echoes'[i].ch
    BY <1>1, <1>2 DEF Undisturbed, LineOK
  <2>2. \A u \in Text : status'[u] = "sending" <=> InLine(u)'
    BY <1>8, <1>9 DEF Undisturbed, LineOK
  <2>3. QED
    BY <2>1, <2>2 DEF LineOK
<1>11. QueueOK'
  <2>1. \A u, v : Above(u, v) /\ u # x /\ v # x => Above(u, v)'
    BY <1>2, <1>8 DEF Above
  <2>2. /\ \A i \in DOMAIN out : out[i] # x
        /\ \A u \in sealing \cup Range(out) : u # x
    BY <1>6 DEF Range
  <2>3. /\ \A i, j \in DOMAIN echoes' : i < j => Above(echoes'[j].text, echoes'[i].text)
        /\ \A i \in DOMAIN echoes' : \A u \in sealing \cup Range(out) : Above(u, echoes'[i].text)
    BY <1>1 DEF Undisturbed, QueueOK
  <2>4. /\ \A i, j \in DOMAIN out : i < j => Above(out[j], out[i])
        /\ \A t \in sealing, u \in Range(out) : Above(t, u)
    BY DEF Undisturbed, QueueOK
  <2>5. \A i, j \in DOMAIN echoes' : i < j => Above(echoes[j].text, echoes[i].text)'
    BY <1>6, <2>1, <2>3
  <2>6. \A i \in DOMAIN echoes' : \A u \in sealing' \cup Range(out') : Above(u, echoes[i].text)'
    BY <1>2, <1>6, <2>1, <2>2, <2>3
  <2>7. QED
    BY <1>2, <2>1, <2>2, <2>4, <2>5, <2>6 DEF QueueOK
<1>12. QED
  BY <1>1, <1>2, <1>8, <1>10, <1>11 DEF Undisturbed, ClosedOK

\* The other steps either disturb the line or leave it, or the line was empty.
LEMMA EchoRests ==
  ASSUME TextInv, OrderOK, Undisturbed, ~disturbed',
         \/ UNCHANGED textVars
         \/ \E n \in DOMAIN batches', t \in Text : Carry(n, t)
         \/ \E t \in Text : SendTimeout(t)
         \/ Die \/ OnClose \/ OnOpen
         \/ \E ch \in Channel : SentElsewhere(ch) \/ Refetch(ch)
  PROVE  Undisturbed'
<1> USE DEF TextInv, TextsTypeOK, MarksOK, WireOK
<1>1. ASSUME UNCHANGED <<typed, status, newer, sealing, out, echoes, mistaken>>, ClosedOK'
      PROVE  Undisturbed'
  BY <1>1 DEF Undisturbed, LineOK, QueueOK, InLine, Echoed, Above
<1>2. CASE \/ UNCHANGED textVars
           \/ \E n \in DOMAIN batches', t \in Text : Carry(n, t)
  BY <1>1, <1>2 DEF textVars, draft, pages, wire, textHistory, Carry, Undisturbed, ClosedOK
<1>3. CASE \E t \in Text : SendTimeout(t)
  <2>1. PICK t \in Text : SendTimeout(t)
    BY <1>3
  <2>2. /\ status[t] = "sending" /\ t \notin sealing
        /\ ~(t \in Range(out) \/ stored[t] > 0)
    <3> HIDE DEF TextInv, TextsTypeOK, MarksOK, WireOK
    <3> QED
      BY <2>1, Zenon DEF SendTimeout
  <2>6. InLine(t) /\ stored[t] = 0
    BY <2>2 DEF Undisturbed, LineOK
  <2>3. PICK i \in DOMAIN echoes : echoes[i].text = t
    BY <2>2, <2>6 DEF InLine, Echoed
  <2>4. t # Nothing
    BY NothingAssumption
  <2>5. QED
    BY <2>3, <2>4, <2>6 DEF EchoesOK
<1>4. CASE Die \/ (\E ch \in Channel : SentElsewhere(ch))
  BY <1>4 DEF Die, SentElsewhere
<1>5. CASE OnClose
  BY <1>1, <1>5 DEF OnClose, draft, pages, ClosedOK
<1>6. CASE OnOpen
  <2>1. /\ out = <<>> /\ echoes = <<>> /\ DOMAIN echoes = {} /\ DOMAIN out = {}
        /\ sealing' = sealing \cup FailedTexts /\ socket' = "open"
        /\ \A t \in Text : status'[t] = IF t \in FailedTexts THEN "sending" ELSE status[t]
        /\ UNCHANGED <<out, echoes, typed, mistaken>>
    BY <1>6 DEF OnOpen, Undisturbed, ClosedOK, draft, textHistory
  <2>2. \A t \in Text : InLine(t) <=> t \in sealing
    BY <2>1 DEF InLine, Echoed, Range
  <2>3. \A t \in Text : InLine(t)' <=> t \in sealing'
    BY <2>1 DEF InLine, Echoed, Range
  <2>4. LineOK'
    BY <2>1, <2>2, <2>3 DEF Undisturbed, LineOK, FailedTexts
  <2>5. QueueOK'
    BY <2>1 DEF QueueOK, Range
  <2>6. QED
    BY <2>1, <2>4, <2>5 DEF Undisturbed, ClosedOK
<1>7. ASSUME NEW ch \in Channel, Refetch(ch) PROVE Undisturbed'
  <2>1. /\ Sending(ch) = {} /\ Taken(Shows(ch))
        /\ UNCHANGED <<typed, socket, sealing, out, echoes, mistaken>>
    BY <1>7 DEF Refetch, draft, wire
  <2>2. \A t \in Text : /\ status'[t] = IF t \in Shows(ch) THEN "none" ELSE status[t]
                        /\ status[t] = "sending" => t \notin Shows(ch)
    BY <2>1 DEF Taken, Sending
  <2>3. \A t \in Text : InLine(t)' <=> InLine(t)
    BY <2>1 DEF InLine, Echoed
  <2>4. LineOK'
    BY <2>1, <2>2, <2>3 DEF Undisturbed, LineOK
  <2>5. \A t, u \in Text : InLine(t) /\ InLine(u) /\ <<t, u>> \in newer => <<t, u>> \in newer'
    BY <2>1, <2>2 DEF Taken, Undisturbed, LineOK
  <2>6. QueueOK'
    BY <2>1, <2>5, QueueKept DEF Undisturbed
  <2>7. QED
    BY <2>1, <2>4, <2>6 DEF Undisturbed, ClosedOK
<1>8. QED
  BY <1>2, <1>3, <1>4, <1>5, <1>6, <1>7

LEMMA EchoInit == ChatInit => EchoInv
<1> SUFFICES ASSUME ChatInit PROVE EchoInv
  OBVIOUS
<1>1. /\ newer = {} /\ sealing = {} /\ out = <<>> /\ echoes = <<>> /\ mistaken = {}
      /\ socket = "open" /\ \A t \in Text : status[t] = "none"
      /\ DOMAIN out = {} /\ DOMAIN echoes = {}
  BY DEF ChatInit, TextsInit
<1>2. QED
  BY <1>1 DEF EchoInv, OrderOK, Undisturbed, LineOK, QueueOK, ClosedOK, InLine, Echoed, Range

LEMMA EchoStep == TextInv /\ EchoInv /\ TextStep => EchoInv'
<1> SUFFICES ASSUME TextInv, EchoInv, TextStep PROVE EchoInv'
  OBVIOUS
<1>1. OrderOK'
  BY OrderStep DEF TextInv, EchoInv
<1>2. ASSUME ~disturbed' PROVE Undisturbed'
  <2>1. Undisturbed
    BY <1>2 DEF TextStep, EchoInv, textVars, textHistory, Sends, Carry, Seal, SendTimeout, Die, OnClose,
       OnOpen, HandleChatMessage, OnMessage, SentElsewhere, Refetch
  <2>2. QED
    BY <1>2, <2>1, EchoSends, EchoMoves, EchoTakesItsOwn, EchoRests DEF TextStep, EchoInv
<1>3. QED
  BY <1>1, <1>2 DEF EchoInv

\* Nothing lost, late, overtaken or from elsewhere: every echo that came took the placeholder
\* of its own text, for any number of texts under way at once.
THEOREM EchoCorrect == ChatSpec => []EchoFindsItsOwn
<1>1. TypeOK /\ TextInv /\ EchoInv /\ [ChatNext]_<<inputVars, textVars>> => EchoInv'
  BY TextSteps, EchoStep DEF TextInv
<1>2. EchoInv => EchoFindsItsOwn
  BY DEF EchoInv, Undisturbed, EchoFindsItsOwn
<1>3. QED
  BY <1>1, <1>2, EchoInit, TextInvAlways, PTL DEF ChatSpec
=============================================================================
