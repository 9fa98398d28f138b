------------------------------ MODULE VideoLoop ------------------------------
(***************************************************************************)
(* The rounds of Manager::statusUpdateThread on the camera of module Video, *)
(* with what runs beside it: the host that changes mode, the driver that    *)
(* fills buffers, the clients (server thread) and the screenshot requests   *)
(* (D-Bus callbacks of the main thread).  The hand-off with the server      *)
(* thread (module Manager) only delays steps here.                          *)
(***************************************************************************)
EXTENDS Video

CONSTANTS
    MaxClients,    \* bound: clients one sendFrame() visits
    MaxFaults      \* bound: flawed frames, failed QBUFs, crashes

ASSUME LoopAssumption == MaxClients \in Nat /\ MaxFaults \in Nat

VARIABLES
    pc,             \* where the video thread is in its round
    cam,            \* the camera
    left,           \* clients that this sendFrame() has yet to visit
    sent,           \* sendFrame()'s frame_sent
    host,           \* the mode the host drives, or NoSignal
    wants,          \* Server::wantsFrame()
    scrnshotFlag,
    asked,          \* a request no picture was taken for since, see below
    picture,        \* what the last screenshot file was made from
    faults

shots == <<scrnshotFlag, asked>>
vars == <<pc, cam, left, sent, host, wants, shots, picture, faults>>
loop == <<pc, left, sent>>
world == <<host, wants>>

Pictures == {"none", "placeholder", "whole", "partial", "garbage"}

TypeOK ==
    /\ pc \in {"top", "mode", "get", "dequeue", "shot", "clear", "send",
               "client", "reget", "redequeue", "needs", "resize"}
    /\ cam \in Camera
    /\ left \in 0..MaxClients
    /\ sent \in BOOLEAN
    /\ host \in Sizes \cup {NoSignal}
    /\ wants \in BOOLEAN
    /\ scrnshotFlag \in BOOLEAN /\ asked \in BOOLEAN
    /\ picture \in Pictures
    /\ faults \in 0..MaxFaults

Init ==
    /\ pc = "top"
    /\ cam = NewCamera
    /\ left = 0
    /\ sent = FALSE
    /\ host \in Sizes \cup {NoSignal}
    /\ wants = FALSE
    /\ scrnshotFlag = FALSE /\ asked = FALSE
    /\ picture = "none"
    /\ faults = 0

(* What open() may find: the host's mode or, without one, any.              *)
Detectable == IF host \in Sizes THEN {host} ELSE FrameSizes

Goto(from, to) == pc = from /\ pc' = to

(* An ioctl that may fail, once more, within the bound.                     *)
Fault(happens) ==
    /\ happens => faults < MaxFaults
    /\ faults' = IF happens THEN faults + 1 ELSE faults

-----------------------------------------------------------------------------
(* The head of a round: start() for a client or a screenshot, or stop().    *)
BeginRound ==
    /\ wants \/ scrnshotFlag
    /\ Goto("top", "mode")
    /\ \E d \in Detectable : cam' = StartOp(cam, d)
    /\ UNCHANGED <<left, sent, world, shots, picture, faults>>

SkipRound ==
    /\ ~wants /\ ~scrnshotFlag
    /\ Goto("top", "needs")
    /\ cam' = StopOp(cam)
    /\ UNCHANGED <<left, sent, world, shots, picture, faults>>

(* Faulty variant: the original format is never set back.                   *)
WantedFormatStays ==
    IF scrnshotFlag /\ cam.format = Partial THEN 0 ELSE cam.format

(* A screenshot is taken in the full format, clients get the original one.  *)
WantedFormat ==
    IF scrnshotFlag THEN IF cam.format = Partial THEN 0 ELSE cam.format
    ELSE OriginalFormat

ChooseFormat ==
    /\ Goto("mode", "get")
    /\ IF WantedFormat = cam.format THEN UNCHANGED cam
       ELSE \E d \in Detectable : cam' = FormatChangeOp(cam, WantedFormat, d)
    /\ UNCHANGED <<left, sent, world, shots, picture, faults>>

-----------------------------------------------------------------------------
(* getFrame(): return at once, time out in select(), or go and dequeue.     *)
GetFrame(from, dequeue, return) ==
    /\ IF cam.fd /\ cam.done = <<>> /\ cam.outgoing # {}
       THEN Goto(from, dequeue) ELSE Goto(from, return)
    /\ UNCHANGED <<cam, left, sent, world, shots, picture, faults>>

(* One VIDIOC_DQBUF; a failed VIDIOC_G_SELECTION ends the loop, its frame   *)
(* kept.                                                                    *)
Dequeue(here, return) ==
    /\ pc = here
    /\ \E b \in cam.outgoing, ok \in BOOLEAN :
          /\ ok \/ b \in cam.flawed
          /\ Fault(~ok)
          /\ cam' = DequeueOp(cam, b, ok)
          /\ pc' \in IF cam.format = Partial /\ b \notin cam.flawed
                     THEN {here, return} ELSE {here}
    /\ UNCHANGED <<left, sent, world, shots, picture>>

(* VIDIOC_DQBUF fails: no filled buffer.                                    *)
DequeueEnds(here, return) ==
    /\ cam.outgoing = {}
    /\ Goto(here, return)
    /\ UNCHANGED <<cam, left, sent, world, shots, picture, faults>>

GetRoundFrame ==
    \/ GetFrame("get", "dequeue", "shot")
    \/ Dequeue("dequeue", "shot")
    \/ DequeueEnds("dequeue", "shot")

-----------------------------------------------------------------------------
(* What screenShot() may leave as the picture: the old one if the file      *)
(* cannot be made, an image of its own without a signal, the front frame.   *)
(* With no frame, front() is undefined: it yields any index.                *)
Shots ==
    {picture, "placeholder"} \cup
    IF host = NoSignal THEN {}
    ELSE IF cam.done = <<>> THEN {"garbage"}
    ELSE IF cam.frame[Head(cam.done)].format = Partial THEN {"partial"}
    ELSE {"whole"}

ScreenShot ==
    /\ scrnshotFlag /\ cam.format # Partial
    /\ Goto("shot", "clear")
    /\ picture' \in Shots
    /\ asked' = FALSE
    /\ UNCHANGED <<cam, left, sent, world, scrnshotFlag, faults>>

(* Faulty variant: the request is taken back in every round.                *)
NoScreenShotTakesBack ==
    /\ ~(scrnshotFlag /\ cam.format # Partial)
    /\ Goto("shot", "send")
    /\ scrnshotFlag' = FALSE
    /\ UNCHANGED <<cam, left, sent, world, asked, picture, faults>>

NoScreenShot ==
    /\ ~(scrnshotFlag /\ cam.format # Partial)
    /\ Goto("shot", "send")
    /\ UNCHANGED <<cam, left, sent, world, shots, picture, faults>>

(* The request is taken back after the picture, whatever came between.      *)
ClearRequest ==
    /\ Goto("clear", "send")
    /\ scrnshotFlag' = FALSE
    /\ UNCHANGED <<cam, left, sent, world, asked, picture, faults>>

-----------------------------------------------------------------------------
(* releaseFrames(), whose VIDIOC_QBUF may fail.                             *)
ReleaseFrames ==
    \E ok \in BOOLEAN :
        /\ ok \/ cam.done # <<>>
        /\ Fault(~ok)
        /\ cam' = ReleaseFramesOp(cam, ok)

DropFrame ==
    /\ ~wants
    /\ Goto("send", "needs")
    /\ ReleaseFrames
    /\ UNCHANGED <<left, sent, world, shots, picture>>

(* sendFrame() returns at once without a frame, or while the server's       *)
(* resize is pending, which is up to the server here.                       *)
SendFrame ==
    /\ wants
    /\ sent' = FALSE
    /\ \/ /\ Goto("send", "needs")
          /\ left' = 0
       \/ /\ cam.done # <<>>
          /\ Goto("send", "client")
          /\ left' \in 1..MaxClients
    /\ UNCHANGED <<cam, world, shots, picture, faults>>

(* Faulty variant: the iteration goes on past the last client.              *)
NextClientUnchecked(to) ==
    /\ left' = left - 1
    /\ Goto("client", to)

NextClient(to) ==
    /\ left > 0
    /\ left' = left - 1
    /\ Goto("client", to)

(* A client that is closed, skips frames, or asked for no update.           *)
PassClient ==
    /\ NextClient("client")
    /\ UNCHANGED <<cam, sent, world, shots, picture, faults>>

ServeClient ==
    /\ NextClient("client")
    /\ sent' = TRUE
    /\ UNCHANGED <<cam, world, shots, picture, faults>>

(* A truncated JPEG, or one this client has: the frame goes back and        *)
(* getFrame() fetches another.                                              *)
RefuseFrame ==
    /\ NextClient("reget")
    /\ ReleaseFrames
    /\ UNCHANGED <<sent, world, shots, picture>>

GetNextFrame ==
    \/ GetFrame("reget", "redequeue", "client")
    \/ Dequeue("redequeue", "client")
    \/ DequeueEnds("redequeue", "client")

EndSend ==
    /\ left = 0
    /\ Goto("client", "needs")
    /\ IF sent THEN ReleaseFrames ELSE UNCHANGED <<cam, faults>>
    /\ UNCHANGED <<left, sent, world, shots, picture>>

-----------------------------------------------------------------------------
(* Faulty variant: the new mode is noticed, the resize is not asked for.    *)
NeedsResizeIgnoresMode ==
    /\ \/ /\ cam.fd /\ cam.resizeAfterOpen
          /\ Goto("needs", "resize")
          /\ UNCHANGED cam
       \/ /\ cam.fd /\ ~cam.resizeAfterOpen /\ host = NoSignal
          /\ Goto("needs", "top")
          /\ \E d \in Detectable : cam' = RestartOp(cam, d)
       \/ /\ ~cam.fd \/ (~cam.resizeAfterOpen /\ host # NoSignal)
          /\ Goto("needs", "top")
          /\ UNCHANGED cam
    /\ UNCHANGED <<left, sent, world, shots, picture, faults>>

(* needsResize().                                                           *)
NeedsResize ==
    /\ \/ /\ cam.fd /\ cam.resizeAfterOpen
          /\ Goto("needs", "resize")
          /\ UNCHANGED cam
       \/ /\ cam.fd /\ ~cam.resizeAfterOpen /\ host = NoSignal
          /\ Goto("needs", "top")
          /\ \E d \in Detectable : cam' = RestartOp(cam, d)
       \/ /\ cam.fd /\ ~cam.resizeAfterOpen /\ host \notin {NoSignal, cam.size}
          /\ Goto("needs", "resize")
          /\ cam' = AdoptSize(cam, host)
       \/ /\ ~cam.fd \/ (~cam.resizeAfterOpen /\ host = cam.size)
          /\ Goto("needs", "top")
          /\ UNCHANGED cam
    /\ UNCHANGED <<left, sent, world, shots, picture, faults>>

(* resize(), which asks the device for the mode once more.                  *)
Resize ==
    /\ Goto("resize", "top")
    /\ \E d \in Detectable : cam' = ResizeOp(cam, host, d)
    /\ UNCHANGED <<left, sent, world, shots, picture, faults>>

VideoStep ==
    \/ BeginRound \/ SkipRound \/ ChooseFormat \/ GetRoundFrame
    \/ ScreenShot \/ NoScreenShot \/ ClearRequest
    \/ DropFrame \/ SendFrame
    \/ PassClient \/ ServeClient \/ RefuseFrame \/ GetNextFrame \/ EndSend
    \/ NeedsResize \/ Resize

-----------------------------------------------------------------------------
(* The host sets another mode, or stops driving video.                      *)
HostChanges ==
    /\ host' \in (Sizes \cup {NoSignal}) \ {host}
    /\ UNCHANGED <<loop, cam, wants, shots, picture, faults>>

(* The device captures a frame while it is set to the host's mode; anything *)
(* else it gives back is flawed.                                            *)
Capture ==
    /\ cam.streaming
    /\ \E b \in cam.incoming, flawed \in BOOLEAN :
          /\ flawed \/ host = cam.active
          /\ Fault(flawed)
          /\ cam' = Filled(cam, b, flawed)
    /\ UNCHANGED <<loop, world, shots, picture>>

(* The first client came, the last one went.                                *)
ClientsChange ==
    /\ wants' = ~wants
    /\ UNCHANGED <<loop, cam, host, shots, picture, faults>>

(* Monitor's callbacks for a BSOD event or a triggered screenshot.  One     *)
(* that comes between the picture and the store of FALSE is lost: asked     *)
(* does not count it.                                                       *)
RequestScreenshot ==
    /\ scrnshotFlag' = TRUE
    /\ asked' = (asked \/ pc # "clear")
    /\ UNCHANGED <<loop, cam, world, picture, faults>>

(* An uncaught exception or a bad access; systemd starts the daemon anew.   *)
Crash ==
    /\ Fault(TRUE)
    /\ pc' = "top" /\ left' = 0 /\ sent' = FALSE
    /\ cam' = NewCamera
    /\ wants' = FALSE
    /\ scrnshotFlag' = FALSE /\ asked' = FALSE
    /\ UNCHANGED <<host, picture>>

Next ==
    \/ VideoStep
    \/ HostChanges \/ Capture \/ ClientsChange \/ RequestScreenshot \/ Crash

Spec == Init /\ [][Next]_vars

(* The video thread keeps running: select() waits for a second at most and  *)
(* every other ioctl returns.                                               *)
FairSpec == Spec /\ WF_vars(VideoStep)

-----------------------------------------------------------------------------
(* The queued flags say exactly which buffers the driver has, through       *)
(* failed ioctls, restarts and resizes.                                     *)
QueuedMeansQueued == DriverAgrees(cam)

(* While the device is set up, every buffer is with the driver, waits in    *)
(* buffersDone, once, or was lost to a failed VIDIOC_QBUF: no path through  *)
(* a round, a retry, a restart or a resize leaks one or owns one twice.     *)
BuffersAccounted ==
    /\ OwnedOnce(cam)
    /\ pc # "resize" => Accounted(cam)

(* The frames waiting to be sent were taken with the timings and in the     *)
(* format now set, whatever format changes, restarts and resizes came       *)
(* between.                                                                 *)
FramesMatchStream == TakenAsSet(cam, Elements(cam.done))

(* A screenshot shows the whole screen, never just the part that changed    *)
(* for some client before it.                                               *)
NoPartialScreenshot == picture # "partial"

(* screenShot() is called after a request, whatever the video thread is at  *)
(* when the request comes, if it is not between the picture of an earlier   *)
(* one and the store of FALSE that takes that one back.                     *)
ScreenshotTaken == asked ~> ~asked

(* With the screenshots over, a client that stays gets the original format. *)
FormatRestored ==
    <>[](wants /\ ~scrnshotFlag) => <>[](cam.format = OriginalFormat)

(* The size the framebuffer will take follows a host that stays in a mode.  *)
SizeFollowsHost ==
    \A m \in Sizes : <>[](wants /\ host = m) => <>[](cam.size = m)

-----------------------------------------------------------------------------
(* ikvm_video.hpp:57: start() "Starts streaming from the video device"; it  *)
(* runs at the head of every round with a client, so that a client that     *)
(* stays gets a stream in the end from a host that stays.                   *)
StreamsForClient ==
    \A m \in Sizes :
        <>[](wants /\ host = m /\ ~scrnshotFlag) => <>[]cam.streaming
=============================================================================
