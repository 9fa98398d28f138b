-------------------------- MODULE VideoLoop_proofs --------------------------
(***************************************************************************)
(* Theorems about the rounds of module VideoLoop, from the lemmas of        *)
(* Video_proofs on the operations a round is made of.                       *)
(***************************************************************************)
EXTENDS VideoLoop, Video_proofs

Counters ==
    /\ pc \in {"top", "mode", "get", "dequeue", "shot", "clear", "send",
               "client", "reget", "redequeue", "needs", "resize"}
    /\ left \in 0..MaxClients
    /\ sent \in BOOLEAN
    /\ host \in Sizes \cup {NoSignal}
    /\ wants \in BOOLEAN
    /\ scrnshotFlag \in BOOLEAN /\ asked \in BOOLEAN
    /\ picture \in Pictures
    /\ faults \in 0..MaxFaults

(* Between needsResize() and resize() the camera may be short of buffers,   *)
(* those needsResize() took out of buffersDone: it must be ready then.      *)
CameraInv ==
    /\ Consistent(cam)
    /\ pc # "resize" => Accounted(cam)
    /\ pc = "resize" => ReadyToResize(cam)

IInv == Counters /\ CameraInv /\ NoPartialScreenshot

LEMMA InitIInv == Init => IInv
<1> SUFFICES ASSUME Init PROVE IInv
  OBVIOUS
<1>1. CameraInv
  BY NewCameraSound DEF Init, CameraInv, Sound
<1>2. left \in 0..MaxClients /\ faults \in 0..MaxFaults
  BY LoopAssumption DEF Init
<1>3. Counters
  BY <1>2 DEF Init, Counters, Pictures
<1>4. QED
  BY <1>1, <1>3 DEF Init, IInv, NoPartialScreenshot

(* A step that leaves a sound camera, away from resize, keeps CameraInv.    *)
LEMMA SoundStep ==
  ASSUME Sound(cam'), pc' # "resize"
  PROVE  CameraInv'
  BY DEF Sound, CameraInv

LEMMA SoundBefore ==
  ASSUME IInv, pc # "resize"
  PROVE  Sound(cam) /\ Consistent(cam)
  BY DEF IInv, CameraInv, Sound

LEMMA Detected ==
  ASSUME NEW d \in Detectable
  PROVE  d \in FrameSizes
  BY DEF Detectable, FrameSizes

LEMMA ReleaseStep ==
  ASSUME IInv, pc # "resize", ReleaseFrames
  PROVE  Sound(cam') /\ faults' \in 0..MaxFaults
<1>1. PICK ok \in BOOLEAN : Fault(~ok) /\ cam' = ReleaseFramesOp(cam, ok)
  BY DEF ReleaseFrames
<1>2. faults' \in 0..MaxFaults
  BY <1>1, LoopAssumption DEF Fault, IInv, Counters
<1>3. QED
  BY <1>1, <1>2, SoundBefore, ReleaseSound

LEMMA DequeueStep ==
  ASSUME IInv, NEW here \in {"dequeue", "redequeue"},
         NEW return \in {"shot", "client"}, Dequeue(here, return)
  PROVE  IInv'
<1>1. PICK b \in cam.outgoing, ok \in BOOLEAN :
          /\ Fault(~ok)
          /\ cam' = DequeueOp(cam, b, ok)
          /\ pc' \in {here, return}
  BY DEF Dequeue
<1>2. pc # "resize" /\ pc' # "resize"
  BY <1>1 DEF Dequeue
<1>3. Sound(cam')
  BY <1>1, <1>2, SoundBefore, DequeueSound
<1>4. CameraInv'
  BY <1>2, <1>3, SoundStep
<1>5. Counters'
  BY <1>1, LoopAssumption DEF Dequeue, Fault, IInv, Counters, world, shots
<1>6. QED
  BY <1>4, <1>5 DEF IInv, NoPartialScreenshot, Dequeue

(* Steps of the video thread's round that only move on.                     *)
LEMMA MoveOn ==
  ASSUME IInv, cam' = cam, pc # "resize", pc' # "resize", Counters',
         picture' # "partial"
  PROVE  IInv'
  BY DEF IInv, CameraInv, NoPartialScreenshot

LEMMA GetFrameStep ==
  ASSUME IInv, GetRoundFrame \/ GetNextFrame
  PROVE  IInv'
<1>1. CASE \/ Dequeue("dequeue", "shot") \/ Dequeue("redequeue", "client")
  BY <1>1, DequeueStep
<1>2. CASE \/ GetFrame("get", "dequeue", "shot")
           \/ GetFrame("reget", "redequeue", "client")
           \/ DequeueEnds("dequeue", "shot")
           \/ DequeueEnds("redequeue", "client")
  <2>1. cam' = cam /\ pc # "resize" /\ pc' # "resize" /\ Counters'
    BY <1>2 DEF GetFrame, DequeueEnds, Goto, IInv, Counters, world, shots
  <2>2. picture' # "partial"
    BY <1>2 DEF GetFrame, DequeueEnds, IInv, NoPartialScreenshot
  <2>3. QED
    BY <2>1, <2>2, MoveOn
<1>3. QED
  BY <1>1, <1>2 DEF GetRoundFrame, GetNextFrame

(* The head of the round, up to the choice of the format.                   *)
LEMMA HeadStep ==
  ASSUME IInv, BeginRound \/ SkipRound \/ ChooseFormat
  PROVE  IInv'
<1>1. pc # "resize" /\ pc' # "resize" /\ Counters'
  BY DEF BeginRound, SkipRound, ChooseFormat, Goto, IInv, Counters, world, shots
<1>2. Sound(cam) /\ Consistent(cam)
  BY <1>1, SoundBefore
<1>3. Sound(cam')
  <2>1. CASE BeginRound
    BY <1>2, <2>1, StartSound, Detected DEF BeginRound
  <2>2. CASE SkipRound
    BY <1>2, <2>2, StopIdle, IdleSound DEF SkipRound
  <2>3. CASE ChooseFormat
    <3>1. WantedFormat \in Formats
      BY <1>2, VideoAssumption
         DEF WantedFormat, Formats, Consistent, Camera
    <3>2. QED
      BY <1>2, <2>3, <3>1, FormatChangeSound, Detected DEF ChooseFormat
  <2>4. QED
    BY <2>1, <2>2, <2>3
<1>4. CameraInv'
  BY <1>1, <1>3, SoundStep
<1>5. picture' = picture
  BY DEF BeginRound, SkipRound, ChooseFormat
<1>6. QED
  BY <1>1, <1>4, <1>5 DEF IInv, NoPartialScreenshot

(* What is photographed was taken in the format now set, the full one.      *)
LEMMA ScreenShotStep == IInv /\ ScreenShot => IInv'
<1> SUFFICES ASSUME IInv, ScreenShot PROVE IInv'
  OBVIOUS
<1>1. cam' = cam /\ pc # "resize" /\ pc' # "resize"
  BY DEF ScreenShot, Goto
<1>2. "partial" \notin Shots
  <2> SUFFICES ASSUME cam.done # <<>>
               PROVE  cam.frame[Head(cam.done)].format # Partial
    BY DEF Shots, IInv, NoPartialScreenshot
  <2>1. Consistent(cam) /\ cam.format # Partial
    BY <1>1, SoundBefore DEF ScreenShot
  <2>2. cam.done \in Seq(Buffers) /\ Len(cam.done) > 0
    BY <2>1 DEF Consistent, Camera
  <2>3. Head(cam.done) \in Elements(cam.done)
    BY <2>2 DEF Elements
  <2>4. QED
    BY <2>1, <2>3 DEF Consistent, TakenAsSet
<1>3. picture' # "partial" /\ picture' \in Pictures
  BY <1>2 DEF ScreenShot, Shots, Pictures, IInv, Counters
<1>4. Counters'
  BY <1>3 DEF ScreenShot, Goto, IInv, Counters, world, shots
<1>5. QED
  BY <1>1, <1>3, <1>4, MoveOn

LEMMA QuietStep ==
  ASSUME IInv, \/ NoScreenShot \/ ClearRequest \/ SendFrame \/ PassClient
               \/ ServeClient
  PROVE  IInv'
<1>1. cam' = cam /\ pc # "resize" /\ pc' # "resize" /\ picture' # "partial"
  BY DEF NoScreenShot, ClearRequest, SendFrame, PassClient, ServeClient,
     NextClient, Goto, IInv, NoPartialScreenshot
<1>2. Counters'
  <2>1. CASE NoScreenShot \/ ClearRequest
    BY <2>1 DEF NoScreenShot, ClearRequest, Goto, IInv, Counters, world, shots
  <2>2. CASE SendFrame
    <3>1. left' \in 0..MaxClients
      BY <2>2, LoopAssumption DEF SendFrame
    <3>2. QED
      BY <2>2, <3>1 DEF SendFrame, Goto, IInv, Counters, world, shots
  <2>3. CASE PassClient \/ ServeClient
    <3>1. left' \in 0..MaxClients
      BY <2>3, LoopAssumption
         DEF PassClient, ServeClient, NextClient, IInv, Counters
    <3>2. QED
      BY <2>3, <3>1
         DEF PassClient, ServeClient, NextClient, Goto, IInv, Counters, world, shots
  <2>4. QED
    BY <2>1, <2>2, <2>3
<1>3. QED
  BY <1>1, <1>2, MoveOn

(* The three places that release a frame.                                   *)
LEMMA ReleasingStep ==
  ASSUME IInv, DropFrame \/ RefuseFrame \/ EndSend
  PROVE  IInv'
<1>1. pc # "resize" /\ pc' # "resize" /\ picture' = picture
  BY DEF DropFrame, RefuseFrame, EndSend, NextClient, Goto
<1>2. Sound(cam') /\ faults' \in 0..MaxFaults
  <2>1. CASE ReleaseFrames
    BY <1>1, <2>1, ReleaseStep
  <2>2. CASE UNCHANGED <<cam, faults>>
    BY <1>1, <2>2, SoundBefore DEF IInv, Counters
  <2>3. QED
    BY <2>1, <2>2 DEF DropFrame, RefuseFrame, EndSend
<1>3. Counters'
  BY <1>2, LoopAssumption DEF DropFrame, RefuseFrame, EndSend, NextClient, Goto,
     IInv, Counters, world, shots
<1>4. QED
  BY <1>1, <1>2, <1>3, SoundStep DEF IInv, NoPartialScreenshot

LEMMA NeedsResizeStep == IInv /\ NeedsResize => IInv'
<1> SUFFICES ASSUME IInv, NeedsResize PROVE IInv'
  OBVIOUS
<1>1. pc # "resize" /\ Counters' /\ picture' = picture
  BY DEF NeedsResize, Goto, IInv, Counters, world, shots
<1>2. Sound(cam) /\ Consistent(cam)
  BY <1>1, SoundBefore
<1>3. CameraInv'
  <2>1. CASE cam.fd /\ cam.resizeAfterOpen /\ pc' = "resize" /\ cam' = cam
    BY <1>2, <2>1 DEF CameraInv, ReadyToResize, Sound
  <2>2. CASE pc' = "top" /\ \E d \in Detectable : cam' = RestartOp(cam, d)
    BY <1>2, <2>2, RestartSound, Detected, SoundStep
  <2>3. CASE /\ ~cam.resizeAfterOpen /\ pc' = "resize"
             /\ host \notin {NoSignal, cam.size} /\ cam' = AdoptSize(cam, host)
    <3>1. host \in Sizes
      BY <2>3 DEF IInv, Counters
    <3>2. Consistent(cam') /\ ReadyToResize(cam')
      BY <1>2, <2>3, <3>1, AdoptSizeReady
    <3>3. QED
      BY <2>3, <3>2 DEF CameraInv
  <2>4. CASE pc' = "top" /\ cam' = cam
    BY <1>2, <2>4, SoundStep
  <2>5. QED
    BY <2>1, <2>2, <2>3, <2>4 DEF NeedsResize, Goto
<1>4. QED
  BY <1>1, <1>3 DEF IInv, NoPartialScreenshot

LEMMA ResizeStep == IInv /\ Resize => IInv'
<1> SUFFICES ASSUME IInv, Resize PROVE IInv'
  OBVIOUS
<1>1. PICK d \in Detectable : cam' = ResizeOp(cam, host, d)
  BY DEF Resize
<1>2. Consistent(cam) /\ ReadyToResize(cam) /\ host \in Sizes \cup {NoSignal}
  BY DEF Resize, Goto, IInv, CameraInv, Counters
<1>3. Sound(cam')
  BY <1>1, <1>2, ResizeSound, Detected
<1>4. pc' # "resize" /\ Counters' /\ picture' = picture
  BY DEF Resize, Goto, IInv, Counters, world, shots
<1>5. QED
  BY <1>3, <1>4, SoundStep DEF IInv, NoPartialScreenshot

LEMMA VideoStepIInv == IInv /\ VideoStep => IInv'
  BY HeadStep, GetFrameStep, ScreenShotStep, QuietStep, ReleasingStep,
     NeedsResizeStep, ResizeStep DEF VideoStep

(* The host, the driver, the other threads and a restart.                   *)
LEMMA WorldStepIInv ==
  ASSUME IInv,
         HostChanges \/ Capture \/ ClientsChange \/ RequestScreenshot \/ Crash
  PROVE  IInv'
<1>1. CASE HostChanges \/ ClientsChange \/ RequestScreenshot
  BY <1>1 DEF HostChanges, ClientsChange, RequestScreenshot, IInv, Counters,
     CameraInv, NoPartialScreenshot, loop, world, shots
<1>2. CASE Capture
  <2>1. PICK b \in cam.incoming, flawed \in BOOLEAN :
            Fault(flawed) /\ cam' = Filled(cam, b, flawed)
    BY <1>2 DEF Capture
  <2>2. pc' = pc /\ picture' = picture
    BY <1>2 DEF Capture, loop
  <2>3. CameraInv'
    BY <2>1, <2>2, FilledSound DEF IInv, CameraInv
  <2>4. Counters'
    BY <1>2, <2>1, LoopAssumption
       DEF Capture, Fault, IInv, Counters, loop, world, shots
  <2>5. QED
    BY <2>2, <2>3, <2>4 DEF IInv, NoPartialScreenshot
<1>3. CASE Crash
  <2>1. Sound(cam') /\ pc' # "resize" /\ picture' = picture
    BY <1>3, NewCameraSound DEF Crash
  <2>2. Counters'
    <3>1. left' \in 0..MaxClients /\ faults' \in 0..MaxFaults
      BY <1>3, LoopAssumption DEF Crash, Fault, IInv, Counters
    <3>2. QED
      BY <1>3, <3>1 DEF Crash, IInv, Counters
  <2>3. QED
    BY <2>1, <2>2, SoundStep DEF IInv, NoPartialScreenshot
<1>4. QED
  BY <1>1, <1>2, <1>3

LEMMA StutterIInv == IInv /\ UNCHANGED vars => IInv'
  BY DEF IInv, Counters, CameraInv, NoPartialScreenshot, vars, shots

THEOREM IInvHolds == Spec => []IInv
<1>1. IInv /\ [Next]_vars => IInv'
  BY VideoStepIInv, WorldStepIInv, StutterIInv DEF Next
<1>2. QED
  BY InitIInv, <1>1, PTL DEF Spec

-----------------------------------------------------------------------------
(* Every variable keeps its type, the counters their bounds.                *)
THEOREM TypeCorrect == Spec => []TypeOK
<1>1. IInv => TypeOK
  BY DEF IInv, Counters, CameraInv, Consistent, TypeOK
<1>2. QED
  BY IInvHolds, <1>1, PTL

(* The queued flags are the driver's, for any number of buffers.            *)
THEOREM QueuedFlagsTrue == Spec => []QueuedMeansQueued
<1>1. IInv => QueuedMeansQueued
  BY DEF IInv, CameraInv, Consistent, QueuedMeansQueued
<1>2. QED
  BY IInvHolds, <1>1, PTL

(* No buffer is leaked or owned twice, for any number of buffers, clients   *)
(* and faults.                                                              *)
THEOREM BuffersKept == Spec => []BuffersAccounted
<1>1. IInv => BuffersAccounted
  BY DEF IInv, CameraInv, Consistent, BuffersAccounted
<1>2. QED
  BY IInvHolds, <1>1, PTL

(* The frames waiting to be sent are those of the present stream.           *)
THEOREM FramesCurrent == Spec => []FramesMatchStream
<1>1. IInv => FramesMatchStream
  BY DEF IInv, CameraInv, Consistent, TakenAsSet, FramesMatchStream
<1>2. QED
  BY IInvHolds, <1>1, PTL

(* No screenshot of a partial frame.                                        *)
THEOREM ScreenshotsWhole == Spec => []NoPartialScreenshot
<1>1. IInv => NoPartialScreenshot
  BY DEF IInv
<1>2. QED
  BY IInvHolds, <1>1, PTL
=============================================================================
