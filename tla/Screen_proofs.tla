---------------------------- MODULE Screen_proofs ----------------------------
(***************************************************************************)
(* Theorems about the framebuffer and the clients of module Screen, for any *)
(* finite set of clients and any frame rate.                                *)
(***************************************************************************)
EXTENDS Screen, Video_proofs, FiniteSetTheorems

(* The types of everything but the camera and the sets of clients; the gate *)
(* of sendFrame() stays shut, as only the video thread defers a resize.     *)
Control ==
    /\ HandOff!TypeOK
    /\ spc \in {"events", "new", "count", "gone", "tail", "clear", "end",
                "idle"}
    /\ vpc \in {"top", "send", "client", "needs", "wait", "video", "server",
                "done"}
    /\ host \in Sizes \cup {NoSignal}
    /\ skip \in [Clients -> 0..FrameRate]
    /\ unseen \in SUBSET Clients
    /\ linked \in SUBSET Clients
    /\ connected \in BOOLEAN
    /\ framebuffer \in FrameSizes
    /\ pendingResize \in BOOLEAN
    /\ frameCounter \in 0..FrameRate + 1
    /\ dropped \in BOOLEAN
    /\ vpc = "client" => ~pendingResize

(* The camera is sound but between needsResize() and Video::resize().       *)
CameraInv ==
    /\ Consistent(cam)
    /\ vpc \notin {"wait", "video"} => Accounted(cam)
    /\ vpc \in {"wait", "video"} => ReadyToResize(cam)

(* A resize is on its way to the framebuffer, or was dropped.               *)
Owed ==
    \/ cam.resizeAfterOpen \/ dropped
    \/ vpc \in {"wait", "video", "server"}

(* A framebuffer that differs from the camera's size is made up for, by     *)
(* run() or by the resize under way; run() is done with its own once it     *)
(* clears pendingResize, and no other can have been deferred by then.       *)
Fits ==
    /\ framebuffer # cam.size => Owed \/ (pendingResize /\ spc # "clear")
    /\ spc = "clear" => frameCounter > FrameRate

(* The list and the ClientData differ by the one client a hook runs for.    *)
Hooks ==
    /\ spc = "new" => \E c \in Clients : /\ hooked = {c} /\ c \notin known
                                         /\ linked = known \cup {c}
    /\ spc = "gone" => \E c \in Clients : /\ hooked = {c} /\ c \in known
                                          /\ linked = known \ {c}
    /\ spc = "count" => \E c \in Clients : /\ hooked = {c} /\ c \in known
                                           /\ linked = known
    /\ spc \notin {"new", "count", "gone"} => hooked = {} /\ linked = known
    /\ known \in SUBSET Clients

IInv == Control /\ CameraInv /\ Fits /\ Hooks /\ ClientsCounted

LEMMA FirstSkipType == FirstSkip \in 0..FrameRate
<1>1. FrameRate \in Nat
  BY ScreenAssumption
<1>2. FrameRate % 8 \in 0..FrameRate
  BY <1>1
<1>3. QED
  BY <1>1, <1>2 DEF FirstSkip

LEMMA DetectedSize ==
  ASSUME NEW d \in Detectable
  PROVE  d \in FrameSizes
  BY DEF Detectable, FrameSizes

LEMMA InitIInv == Init => IInv
<1> SUFFICES ASSUME Init PROVE IInv
  OBVIOUS
<1>1. Control
  <2>1. framebuffer \in FrameSizes
    BY DEF Init, NewCamera, FrameSizes
  <2>2. skip \in [Clients -> 0..FrameRate] /\ frameCounter \in 0..FrameRate + 1
    BY ScreenAssumption DEF Init
  <2>3. QED
    BY <2>1, <2>2 DEF Init, Control, HandOff!Init, HandOff!TypeOK
<1>2. CameraInv
  BY NewCameraSound DEF Init, CameraInv, Sound
<1>3. Hooks
  BY DEF Init, Hooks
<1>4. ClientsCounted
  BY FS_EmptySet DEF Init, ClientsCounted
<1>5. Fits
  BY DEF Init, Fits
<1>6. QED
  BY <1>1, <1>2, <1>3, <1>4, <1>5 DEF IInv

-----------------------------------------------------------------------------
(* The camera's size changes only with resizeAfterOpen set, but for         *)
(* needsResize().                                                           *)
LEMMA StartKeepsSize ==
  ASSUME NEW c \in Camera, NEW d \in FrameSizes
  PROVE  StartOp(c, d).resizeAfterOpen \/ StartOp(c, d).size = c.size
<1>1. CASE c.fd
  BY <1>1 DEF StartOp
<1>2. CASE ~c.fd
  <2> DEFINE o == [c EXCEPT !.fd = TRUE, !.active = d, !.size = d]
  <2>1. o \in Camera /\ o.size = d
    BY DEF Camera
  <2> HIDE DEF o
  <2>2. ResizeUnmapped(o) \in Camera /\ ResizeUnmapped(o).size = d
    BY <2>1 DEF ResizeUnmapped, Allocate, Camera, FrameSizes, Formats, Blank
  <2>3. Opened(c, d) \in Camera /\ Opened(c, d).size = d
    BY <2>2 DEF Opened, o
  <2>4. CASE c.size = d
    BY <1>2, <2>3, <2>4 DEF StartOp
  <2>5. CASE c.size # d
    <3>1. [Opened(c, d) EXCEPT !.resizeAfterOpen = TRUE].resizeAfterOpen
      BY <2>3 DEF Camera
    <3>2. QED
      BY <1>2, <2>5, <3>1 DEF StartOp
  <2>6. QED
    BY <2>4, <2>5
<1>3. QED
  BY <1>1, <1>2

LEMMA StopKeepsSize ==
  ASSUME NEW c \in Camera
  PROVE  StopOp(c).size = c.size
  BY DEF StopOp, Unmap, StreamOff, Camera

LEMMA StopKeepsFlag ==
  ASSUME NEW c \in Camera
  PROVE  StopOp(c).resizeAfterOpen = c.resizeAfterOpen
  BY DEF StopOp, Unmap, StreamOff, Camera

LEMMA RestartKeepsSize ==
  ASSUME NEW c, Consistent(c), NEW d \in FrameSizes
  PROVE  RestartOp(c, d).resizeAfterOpen \/ RestartOp(c, d).size = c.size
<1>1. c \in Camera /\ StopOp(c) \in Camera
  BY StopIdle DEF Consistent, Idle
<1>2. QED
  BY <1>1, StopKeepsSize, StartKeepsSize DEF RestartOp

LEMMA FormatChangeKeepsSize ==
  ASSUME NEW c, Consistent(c), NEW new \in Formats, NEW d \in FrameSizes
  PROVE  \/ FormatChangeOp(c, new, d).resizeAfterOpen
         \/ FormatChangeOp(c, new, d).size = c.size
<1> DEFINE n == [StopOp(c) EXCEPT !.format = new]
<1>1. c \in Camera /\ StopOp(c) \in Camera
  BY StopIdle DEF Consistent, Idle
<1>2. n \in Camera /\ n.size = StopOp(c).size
  BY <1>1 DEF Camera
<1>3. QED
  BY <1>1, <1>2, StopKeepsSize, StartKeepsSize DEF FormatChangeOp

LEMMA WantedFormatType ==
  ASSUME NEW f \in Formats, NEW shot \in BOOLEAN
  PROVE  WantedFormat(f, shot) \in Formats
  BY VideoAssumption DEF WantedFormat, Formats

-----------------------------------------------------------------------------
(* The server thread's steps, by what they change.                          *)
LEMMA ServerControl ==
  ASSUME IInv, ServerStep \/ \E c \in Clients : Link(c) \/ Unlink(c)
  PROVE  Control'
<1> USE DEF IInv, Control, Sgoto, people, screen, handoff, HandOff!TypeOK,
     HandOff!vars
<1>1. cam.size \in FrameSizes
  BY DEF CameraInv, Consistent, Camera
<1>2. FrameRate \in Nat /\ FirstSkip \in 0..FrameRate
  BY ScreenAssumption, FirstSkipType
<1>3. CASE BeginRun
  BY <1>3 DEF BeginRun, HandOff!BeginRfb
<1>4. CASE EndEvents
  <2>1. frameCounter' \in 0..FrameRate + 1
    BY <1>2, <1>4 DEF EndEvents
  <2>2. QED
    BY <1>4, <2>1 DEF EndEvents
<1>5. CASE DeferredResize
  <2>1. skip' \in [Clients -> 0..FrameRate]
    BY <1>2, <1>5 DEF DeferredResize, DoResize
  <2>2. QED
    BY <1>1, <1>5, <2>1 DEF DeferredResize, DoResize
<1>6. CASE ClearPending
  BY <1>6 DEF ClearPending
<1>7. CASE EndRun
  BY <1>7 DEF EndRun, HandOff!EndRfb
<1>8. CASE NewClient
  <2>1. skip' \in [Clients -> 0..FrameRate]
    BY <1>2, <1>8 DEF NewClient
  <2>2. QED
    BY <1>8, <2>1 DEF NewClient
<1>9. CASE ClientGone
  BY <1>9 DEF ClientGone
<1>10. CASE \E c \in Clients : Link(c) \/ Unlink(c)
  BY <1>10 DEF Link, Unlink
<1>11. CASE CountClient
  <2>1. frameCounter' \in 0..FrameRate + 1
    BY <1>2, <1>11 DEF CountClient
  <2>2. QED
    BY <1>11, <2>1 DEF CountClient
<1>12. QED
  BY <1>3, <1>4, <1>5, <1>6, <1>7, <1>8, <1>9, <1>10, <1>11 DEF ServerStep

(* No step of the server thread touches the camera or the video thread.     *)
LEMMA ServerCamera ==
  ASSUME IInv, ServerStep \/ \E c \in Clients : Link(c) \/ Unlink(c)
  PROVE  CameraInv'
<1>1. cam' = cam /\ vpc' = vpc
  BY DEF ServerStep, BeginRun, EndEvents, DeferredResize, ClearPending, EndRun,
     NewClient, CountClient, ClientGone, Link, Unlink
<1>2. QED
  BY <1>1 DEF IInv, CameraInv

(* run() clears pendingResize only after a resize that none can have been   *)
(* deferred after; newClient() clears it and drops what was deferred.       *)
LEMMA ServerFits ==
  ASSUME IInv, ServerStep \/ \E c \in Clients : Link(c) \/ Unlink(c)
  PROVE  Fits'
<1> USE DEF IInv, Fits, Owed, Sgoto
<1>1. FrameRate \in Nat /\ frameCounter \in 0..FrameRate + 1
  BY ScreenAssumption DEF Control
<1>2. CASE BeginRun
  BY <1>2 DEF BeginRun, screen
<1>3. CASE EndEvents
  BY <1>1, <1>3 DEF EndEvents
<1>4. CASE DeferredResize
  BY <1>1, <1>4 DEF DeferredResize, DoResize
<1>5. CASE ClearPending
  BY <1>5 DEF ClearPending
<1>6. CASE EndRun
  BY <1>6 DEF EndRun, screen
<1>7. CASE NewClient
  BY <1>7 DEF NewClient
<1>8. CASE CountClient
  BY <1>8 DEF CountClient
<1>9. CASE ClientGone
  BY <1>9 DEF ClientGone, screen
<1>10. CASE \E c \in Clients : Link(c) \/ Unlink(c)
  BY <1>10 DEF Link, Unlink, screen
<1>11. QED
  BY <1>2, <1>3, <1>4, <1>5, <1>6, <1>7, <1>8, <1>9, <1>10 DEF ServerStep

(* The steps that run a hook, or decide to.                                 *)
LEMMA HookSteps ==
  ASSUME IInv,
         \/ NewClient \/ CountClient \/ ClientGone
         \/ \E c \in Clients : Link(c) \/ Unlink(c)
  PROVE  Hooks' /\ ClientsCounted'
<1> USE DEF Sgoto
<1>1. ASSUME NEW c \in Clients, Link(c) PROVE Hooks' /\ ClientsCounted'
  BY <1>1 DEF IInv, Link, Hooks, ClientsCounted
<1>2. ASSUME NEW c \in Clients, Unlink(c) PROVE Hooks' /\ ClientsCounted'
  BY <1>2 DEF IInv, Unlink, Hooks, ClientsCounted
<1>3. IsFiniteSet(known) /\ Cardinality(known) \in Nat
  BY ScreenAssumption, FS_Subset, FS_CardinalityType DEF IInv, Hooks
<1>4. CASE NewClient
  <2>1. PICK c \in Clients : /\ hooked = {c} /\ c \notin known
                             /\ linked = known \cup {c}
    BY <1>4 DEF NewClient, IInv, Hooks
  <2>2. /\ known' = known \cup {c} /\ hooked' = {c} /\ linked' = linked
        /\ spc' = "count"
    BY <1>4, <2>1 DEF NewClient
  <2>3. Hooks'
    BY <2>1, <2>2 DEF IInv, Hooks
  <2>4. known' \ hooked' = known
    BY <2>1, <2>2
  <2>5. QED
    BY <1>4, <2>2, <2>3, <2>4 DEF NewClient, IInv, ClientsCounted
<1>7. CASE CountClient
  <2>1. PICK c \in Clients : hooked = {c} /\ c \in known /\ linked = known
    BY <1>7 DEF CountClient, IInv, Hooks
  <2>2. /\ known' = known /\ hooked' = {} /\ linked' = linked
        /\ spc = "count" /\ spc' = "events"
    BY <1>7 DEF CountClient
  <2>3. Hooks'
    BY <2>1, <2>2 DEF IInv, Hooks
  <2>4. Cardinality(known \ {c}) = Cardinality(known) - 1
    BY <1>3, <2>1, FS_RemoveElement
  <2>5. numClients = Cardinality(known) - 1
    BY <2>1, <2>2, <2>4 DEF IInv, ClientsCounted
  <2>6. numClients' = Cardinality(known')
    BY <1>3, <1>7, <2>2, <2>5 DEF CountClient
  <2>7. numClients \in Nat
    <3>1. IsFiniteSet(known \ {c})
      BY <1>3, FS_Subset
    <3>2. QED
      BY <2>4, <2>5, <3>1, FS_CardinalityType
  <2>8. connected' /\ numClients' > 0
    BY <1>7, <2>7 DEF CountClient, IInv, ClientsCounted
  <2>9. QED
    BY <2>2, <2>3, <2>6, <2>8 DEF ClientsCounted
<1>5. CASE ClientGone
  <2>1. PICK c \in Clients : /\ hooked = {c} /\ c \in known
                             /\ linked = known \ {c}
    BY <1>5 DEF ClientGone, IInv, Hooks
  <2>2. known' = known \ {c} /\ hooked' = {} /\ linked' = linked
    BY <1>5, <2>1 DEF ClientGone
  <2>9. spc = "gone" /\ spc' = "events"
    BY <1>5 DEF ClientGone
  <2>3. Hooks'
    BY <2>1, <2>2, <2>9 DEF IInv, Hooks
  <2>4. Cardinality(known') = Cardinality(known) - 1
    BY <1>3, <2>1, <2>2, FS_RemoveElement
  <2>5. Cardinality(known') \in Nat
    BY <1>3, <2>2, FS_RemoveElement, FS_CardinalityType
  <2>6. numClients' = Cardinality(known')
    BY <1>5, <2>4, <2>9 DEF ClientGone, IInv, ClientsCounted
  <2>7. connected' <=> numClients' > 0
    BY <1>3, <1>5, <2>4, <2>5, <2>6, <2>9 DEF ClientGone, IInv, ClientsCounted
  <2>8. QED
    BY <2>3, <2>6, <2>7, <2>9 DEF ClientsCounted
<1>6. QED
  BY <1>1, <1>2, <1>4, <1>5, <1>7

(* No other step changes the list, the ClientData or the count.             *)
LEMMA OtherSteps ==
  ASSUME IInv, UNCHANGED people,
         spc' = spc \/ {spc, spc'} \cap {"new", "count", "gone"} = {}
  PROVE  Hooks' /\ ClientsCounted'
  BY DEF IInv, people, Hooks, ClientsCounted

LEMMA ServerStepIInv ==
  ASSUME IInv, ServerStep \/ \E c \in Clients : Link(c) \/ Unlink(c)
  PROVE  IInv'
<1>1. CASE BeginRun \/ EndEvents \/ DeferredResize \/ ClearPending \/ EndRun
  <2>1. UNCHANGED people /\ {spc, spc'} \cap {"new", "count", "gone"} = {}
    BY <1>1 DEF BeginRun, EndEvents, DeferredResize, ClearPending, EndRun, Sgoto
  <2>2. QED
    BY <2>1, ServerControl, ServerCamera, ServerFits, OtherSteps DEF IInv
<1>2. CASE \/ NewClient \/ CountClient \/ ClientGone
           \/ \E c \in Clients : Link(c) \/ Unlink(c)
  BY <1>2, ServerControl, ServerCamera, ServerFits, HookSteps DEF IInv
<1>3. QED
  BY <1>1, <1>2 DEF ServerStep

-----------------------------------------------------------------------------
(* The video thread's steps.                                                *)
LEMMA VideoControl == IInv /\ VideoStep => Control'
<1> SUFFICES ASSUME IInv, VideoStep PROVE Control'
  OBVIOUS
<1> USE DEF IInv, Control, Vgoto, people, screen, handoff, HandOff!TypeOK,
     HandOff!vars
<1>1. FrameRate \in Nat /\ cam.size \in FrameSizes
  BY ScreenAssumption DEF CameraInv, Consistent, Camera
<1>2. CASE BeginRound \/ SkipRound
  BY <1>2 DEF BeginRound, SkipRound
<1>3. CASE SendFrame
  BY <1>3 DEF SendFrame
<1>4. CASE PassClient
  <2>1. PICK c \in unseen :
          /\ unseen' = unseen \ {c}
          /\ skip' = IF c \in known /\ skip[c] > 0
                     THEN [skip EXCEPT ![c] = @ - 1] ELSE skip
    BY <1>4 DEF PassClient
  <2>2. skip' \in [Clients -> 0..FrameRate]
    BY <1>1, <2>1
  <2>3. QED
    BY <1>4, <2>1, <2>2 DEF PassClient
<1>5. CASE ServeClient
  BY <1>5 DEF ServeClient
<1>6. CASE EndSend
  BY <1>6 DEF EndSend
<1>7. CASE NeedsResize
  BY <1>7 DEF NeedsResize
<1>8. CASE EndRound
  BY <1>8 DEF EndRound, HandOff!EndVideoRound
<1>9. CASE BeginResize
  BY <1>9 DEF BeginResize, HandOff!BeginResize
<1>10. CASE VideoResize
  BY <1>10 DEF VideoResize
<1>11. CASE ServerResize
  <2>1. skip' \in [Clients -> 0..FrameRate]
    BY <1>1, <1>11 DEF ServerResize, DoResize
  <2>2. QED
    BY <1>1, <1>11, <2>1 DEF ServerResize, DoResize, HandOff!EndResize
<1>12. QED
  BY <1>2, <1>3, <1>4, <1>5, <1>6, <1>7, <1>8, <1>9, <1>10, <1>11 DEF VideoStep

(* A step that leaves a sound camera, away from a resize, keeps CameraInv.  *)
LEMMA SoundStep ==
  ASSUME Sound(cam'), vpc' \notin {"wait", "video"}
  PROVE  CameraInv'
  BY DEF Sound, CameraInv

LEMMA NeedsResizeCamera == IInv /\ NeedsResize => CameraInv'
<1> SUFFICES ASSUME IInv, NeedsResize PROVE CameraInv'
  OBVIOUS
<1>1. Sound(cam) /\ Consistent(cam) /\ host \in Sizes \cup {NoSignal}
  BY DEF NeedsResize, Vgoto, IInv, CameraInv, Sound, Control
<1>2. CASE cam.fd /\ cam.resizeAfterOpen /\ vpc' = "wait" /\ cam' = cam
  BY <1>1, <1>2 DEF CameraInv, ReadyToResize, Sound
<1>3. CASE vpc' = "done" /\ \E d \in Detectable : cam' = RestartOp(cam, d)
  BY <1>1, <1>3, RestartSound, DetectedSize, SoundStep
<1>4. CASE /\ ~cam.resizeAfterOpen /\ vpc' = "wait"
           /\ host \notin {NoSignal, cam.size} /\ cam' = AdoptSize(cam, host)
  <2>1. Consistent(cam') /\ ReadyToResize(cam')
    BY <1>1, <1>4, AdoptSizeReady
  <2>2. QED
    BY <1>4, <2>1 DEF CameraInv
<1>5. CASE vpc' = "done" /\ cam' = cam
  BY <1>1, <1>5, SoundStep
<1>6. QED
  BY <1>2, <1>3, <1>4, <1>5 DEF NeedsResize, Vgoto

LEMMA VideoCamera == IInv /\ VideoStep => CameraInv'
<1> SUFFICES ASSUME IInv, VideoStep PROVE CameraInv'
  OBVIOUS
<1>1. CASE BeginRound
  <2>1. Sound(cam) /\ vpc' \notin {"wait", "video"}
    BY <1>1 DEF BeginRound, Vgoto, IInv, CameraInv, Sound
  <2>2. PICK shot \in BOOLEAN, d \in Detectable :
          LET started == StartOp(cam, d)
              format == WantedFormat(started.format, shot)
          IN  cam' = IF format = started.format THEN started
                     ELSE FormatChangeOp(started, format, d)
    BY <1>1 DEF BeginRound
  <2> DEFINE started == StartOp(cam, d)
  <2>3. Sound(started) /\ Consistent(started)
    BY <2>1, StartSound, DetectedSize DEF Sound
  <2>4. WantedFormat(started.format, shot) \in Formats
    BY <2>3, WantedFormatType DEF Consistent, Camera
  <2>5. Sound(FormatChangeOp(started, WantedFormat(started.format, shot), d))
    BY <2>3, <2>4, FormatChangeSound, DetectedSize
  <2>6. QED
    BY <2>1, <2>2, <2>3, <2>5, SoundStep
<1>7. CASE SkipRound
  <2>1. Consistent(cam) /\ vpc' \notin {"wait", "video"} /\ cam' = StopOp(cam)
    BY <1>7 DEF SkipRound, Vgoto, IInv, CameraInv
  <2>2. QED
    BY <2>1, StopIdle, IdleSound, SoundStep
<1>2. CASE SendFrame \/ PassClient \/ ServeClient \/ EndSend \/ EndRound
           \/ ServerResize
  <2>1. cam' = cam /\ {vpc, vpc'} \cap {"wait", "video"} = {}
    BY <1>2 DEF SendFrame, PassClient, ServeClient, EndSend, EndRound,
       ServerResize, Vgoto
  <2>2. QED
    BY <2>1 DEF IInv, CameraInv
<1>3. CASE NeedsResize
  BY <1>3, NeedsResizeCamera
<1>4. CASE BeginResize
  <2>1. cam' = cam /\ {vpc, vpc'} \subseteq {"wait", "video"}
    BY <1>4 DEF BeginResize, Vgoto
  <2>2. QED
    BY <2>1 DEF IInv, CameraInv
<1>5. CASE VideoResize
  <2>1. PICK d \in Detectable : cam' = ResizeOp(cam, host, d)
    BY <1>5 DEF VideoResize
  <2>2. /\ Consistent(cam) /\ ReadyToResize(cam)
        /\ host \in Sizes \cup {NoSignal}
    BY <1>5 DEF VideoResize, Vgoto, IInv, CameraInv, Control
  <2>3. Sound(cam')
    BY <2>1, <2>2, ResizeSound, DetectedSize
  <2>4. QED
    BY <1>5, <2>3, SoundStep DEF VideoResize, Vgoto
<1>6. QED
  BY <1>1, <1>2, <1>3, <1>4, <1>5, <1>7 DEF VideoStep

(* A start() that finds a new mode leaves resizeAfterOpen set; a second one *)
(* in the round may clear it, which drops the resize.                       *)
LEMMA BeginRoundFits == IInv /\ BeginRound => Fits'
<1> SUFFICES ASSUME IInv, BeginRound PROVE Fits'
  OBVIOUS
<1>1. PICK shot \in BOOLEAN, d \in Detectable :
        LET started == StartOp(cam, d)
            format == WantedFormat(started.format, shot)
        IN  /\ cam' = IF format = started.format THEN started
                      ELSE FormatChangeOp(started, format, d)
            /\ dropped' = \/ dropped
                          \/ /\ cam.resizeAfterOpen \/ started.resizeAfterOpen
                             /\ ~cam'.resizeAfterOpen
  BY DEF BeginRound
<1> DEFINE started == StartOp(cam, d)
           format == WantedFormat(started.format, shot)
<1>2. Sound(cam) /\ cam \in Camera /\ d \in FrameSizes
  BY DetectedSize DEF BeginRound, Vgoto, IInv, CameraInv, Sound, Consistent
<1>3. Consistent(started)
  BY <1>2, StartSound DEF Sound
<1>4. format \in Formats
  BY <1>3, WantedFormatType DEF Consistent, Camera
<1>5. started.resizeAfterOpen \/ started.size = cam.size
  BY <1>2, StartKeepsSize
<1>6. \/ FormatChangeOp(started, format, d).resizeAfterOpen
      \/ FormatChangeOp(started, format, d).size = started.size
  BY <1>2, <1>3, <1>4, FormatChangeKeepsSize
<1>7. cam'.resizeAfterOpen \/ cam'.size = started.size
  BY <1>1, <1>6
<1>8. \/ cam'.resizeAfterOpen
      \/ dropped'
      \/ ~cam.resizeAfterOpen /\ ~dropped /\ cam'.size = cam.size
  BY <1>1, <1>5, <1>7
<1>9. /\ vpc = "top" /\ vpc' = "send" /\ spc' = spc
      /\ UNCHANGED <<framebuffer, pendingResize, frameCounter>>
  BY DEF BeginRound, Vgoto
<1>10. QED
  BY <1>8, <1>9 DEF IInv, Fits, Owed

LEMMA NeedsResizeFits == IInv /\ NeedsResize => Fits'
<1> SUFFICES ASSUME IInv, NeedsResize PROVE Fits'
  OBVIOUS
<1>1. UNCHANGED <<spc, screen>> /\ vpc = "needs" /\ Consistent(cam)
  BY DEF NeedsResize, Vgoto, IInv, CameraInv
<1>2. CASE vpc' = "wait"
  BY <1>1, <1>2 DEF IInv, Fits, Owed, screen
<1>3. CASE cam' = cam
  BY <1>1, <1>3 DEF IInv, Fits, Owed, screen
<1>4. CASE ~cam.resizeAfterOpen /\ \E d \in Detectable : cam' = RestartOp(cam, d)
  <2>1. cam'.resizeAfterOpen \/ cam'.size = cam.size
    BY <1>1, <1>4, RestartKeepsSize, DetectedSize
  <2>2. QED
    BY <1>1, <1>4, <2>1 DEF IInv, Fits, Owed, screen
<1>5. QED
  BY <1>2, <1>3, <1>4 DEF NeedsResize, Vgoto

LEMMA VideoFits == IInv /\ VideoStep => Fits'
<1> SUFFICES ASSUME IInv, VideoStep PROVE Fits'
  OBVIOUS
<1>1. CASE BeginRound
  BY <1>1, BeginRoundFits
<1>2. CASE SkipRound
  <2>1. cam'.size = cam.size /\ cam'.resizeAfterOpen = cam.resizeAfterOpen
    BY <1>2, StopKeepsSize, StopKeepsFlag
       DEF SkipRound, IInv, CameraInv, Consistent
  <2>2. QED
    BY <1>2, <2>1 DEF SkipRound, Vgoto, screen, IInv, Fits, Owed
<1>3. CASE SendFrame \/ PassClient \/ ServeClient \/ EndSend \/ EndRound
           \/ BeginResize
  <2>1. /\ UNCHANGED <<cam, spc, framebuffer, pendingResize, frameCounter,
                       dropped>>
        /\ vpc \in {"wait", "video", "server"}
               => vpc' \in {"wait", "video", "server"}
    BY <1>3 DEF SendFrame, PassClient, ServeClient, EndSend, EndRound,
       BeginResize, Vgoto, screen
  <2>2. QED
    BY <2>1 DEF IInv, Fits, Owed
<1>4. CASE NeedsResize
  BY <1>4, NeedsResizeFits
<1>5. CASE VideoResize
  BY <1>5 DEF VideoResize, Vgoto, screen, IInv, Fits, Owed
<1>6. CASE ServerResize
  <2>1. FrameRate \in Nat /\ frameCounter \in 0..FrameRate + 1
    BY ScreenAssumption DEF IInv, Control
  <2>2. QED
    BY <1>6, <2>1 DEF ServerResize, DoResize, IInv, Fits, Owed
<1>7. QED
  BY <1>1, <1>2, <1>3, <1>4, <1>5, <1>6 DEF VideoStep

LEMMA VideoStepIInv == IInv /\ VideoStep => IInv'
<1> SUFFICES ASSUME IInv, VideoStep PROVE IInv'
  OBVIOUS
<1>1. UNCHANGED people /\ spc' = spc
  BY DEF VideoStep, BeginRound, SkipRound, SendFrame, PassClient, ServeClient,
     EndSend, NeedsResize, EndRound, BeginResize, VideoResize, ServerResize
<1>2. QED
  BY <1>1, VideoControl, VideoCamera, VideoFits, OtherSteps DEF IInv

(* The barrier, the host, and no step.                                      *)
LEMMA WorldStepIInv ==
  ASSUME IInv, RaiseBarrier \/ HostChanges \/ UNCHANGED vars
  PROVE  IInv'
<1>1. UNCHANGED <<people, screen>> /\ spc' = spc /\ cam' = cam /\ vpc' = vpc
  BY DEF RaiseBarrier, HostChanges, vars
<1>2. Control'
  <2> USE DEF IInv, Control, people, screen, handoff, HandOff!TypeOK
  <2>1. CASE RaiseBarrier
    BY <2>1 DEF RaiseBarrier, HandOff!RaiseBarrier
  <2>2. CASE HostChanges
    BY <2>2 DEF HostChanges
  <2>3. CASE UNCHANGED vars
    BY <2>3 DEF vars
  <2>4. QED
    BY <2>1, <2>2, <2>3
<1>3. CameraInv'
  BY <1>1 DEF IInv, CameraInv
<1>4. Fits'
  BY <1>1 DEF IInv, Fits, Owed, screen
<1>5. QED
  BY <1>1, <1>2, <1>3, <1>4, OtherSteps DEF IInv

LEMMA StepIInv == IInv /\ [Next]_vars => IInv'
  BY ServerStepIInv, VideoStepIInv, WorldStepIInv DEF Next

THEOREM IInvHolds == Spec => []IInv
  BY InitIInv, StepIInv, PTL DEF Spec

-----------------------------------------------------------------------------
(* Every variable keeps its type; numClients stays within the clients there *)
(* are.                                                                     *)
THEOREM TypeCorrect == Spec => []TypeOK
<1>1. IInv => TypeOK
  <2> SUFFICES ASSUME IInv PROVE TypeOK
    OBVIOUS
  <2>1. hooked \in SUBSET Clients /\ known \in SUBSET Clients
    BY DEF IInv, Hooks, Control
  <2>2. numClients \in 0..Cardinality(Clients)
    BY <2>1, ScreenAssumption, FS_Subset, FS_CardinalityType
       DEF IInv, ClientsCounted
  <2>3. connected \in BOOLEAN
    BY DEF IInv, Control
  <2>4. QED
    BY <2>1, <2>2, <2>3 DEF IInv, Control, CameraInv, Consistent, TypeOK
<1>2. QED
  BY IInvHolds, <1>1, PTL

(* numClients is the number of clients with a ClientData, and the gadget is *)
(* connected while there is one, for any number of clients.                 *)
THEOREM CountCorrect == Spec => []ClientsCounted
<1>1. IInv => ClientsCounted
  BY DEF IInv
<1>2. QED
  BY IInvHolds, <1>1, PTL

(* A client is sent frames in the framebuffer's size, unless start() found  *)
(* a new mode in this round or a resize was dropped, for any number of      *)
(* clients, any modes and any frame rate.                                   *)
THEOREM FramesFit == Spec => FramesFitScreen
<1>1. ASSUME IInv, [Next]_vars
      PROVE  [ServeClient => framebuffer = cam.size \/ cam.resizeAfterOpen
                                \/ dropped]_vars
  <2>1. ServeClient => ~pendingResize /\ vpc = "client"
    BY <1>1 DEF IInv, Control, ServeClient, Vgoto
  <2>2. ServeClient => framebuffer = cam.size \/ cam.resizeAfterOpen \/ dropped
    BY <1>1, <2>1 DEF IInv, Fits, Owed
  <2>3. QED
    BY <2>2
<1>2. QED
  BY IInvHolds, <1>1, PTL DEF Spec, FramesFitScreen
=============================================================================
