-------------------------------- MODULE Screen --------------------------------
(***************************************************************************)
(* The framebuffer of ikvm::Server (ikvm_server.cpp): how a resize that the *)
(* video thread asks for reaches it while clients come and go in the server *)
(* thread.  The two threads meet in the hand-off of RoundSync (implemented  *)
(* by Manager); the video thread drives the camera of Video, of which the   *)
(* size, the pending resize and the stream matter here, not the frames.     *)
(*                                                                         *)
(* libvncserver (not under src/) links a client into its list before        *)
(* calling newClient() and unlinks it before calling clientGone().          *)
(***************************************************************************)
EXTENDS Video, FiniteSets

CONSTANTS Clients, FrameRate

ASSUME ScreenAssumption == FrameRate \in Nat /\ IsFiniteSet(Clients)

VARIABLES
    rfb, fresh, video, barrier,   \* the hand-off, as RoundSync has it
    spc,             \* where the server thread is in its round
    vpc,             \* where the video thread is in its round
    cam,             \* the camera
    host,            \* the mode the host drives, or NoSignal
    linked,          \* the clients in libvncserver's list
    known,           \* the clients with a ClientData
    hooked,          \* the clients a hook is being called for
    skip,            \* their skipFrame
    unseen,          \* the clients this sendFrame() has yet to visit
    numClients,
    connected,       \* the HID gadget: Input::connect(), disconnect()
    framebuffer,     \* its size
    pendingResize,
    frameCounter,    \* bound: no further than FrameRate + 1
    dropped          \* auxiliary: a resize was dropped, none has come since

handoff == <<rfb, fresh, video, barrier>>
people == <<linked, known, hooked, numClients, connected>>
screen == <<framebuffer, pendingResize, frameCounter, skip, dropped>>
vars == <<handoff, spc, vpc, cam, host, people, screen, unseen>>

HandOff == INSTANCE RoundSync

TypeOK ==
    /\ HandOff!TypeOK
    /\ spc \in {"events", "new", "count", "gone", "tail", "clear", "end",
                "idle"}
    /\ vpc \in {"top", "send", "client", "needs", "wait", "video", "server",
                "done"}
    /\ cam \in Camera
    /\ host \in Sizes \cup {NoSignal}
    /\ linked \in SUBSET Clients
    /\ known \in SUBSET Clients
    /\ hooked \in SUBSET Clients
    /\ skip \in [Clients -> 0..FrameRate]
    /\ unseen \in SUBSET Clients
    /\ numClients \in 0..Cardinality(Clients)
    /\ connected \in BOOLEAN
    /\ framebuffer \in FrameSizes
    /\ pendingResize \in BOOLEAN
    /\ frameCounter \in 0..FrameRate + 1
    /\ dropped \in BOOLEAN

(* The constructor takes the framebuffer's size from the video's.           *)
Init ==
    /\ HandOff!Init
    /\ spc = "events"
    /\ vpc = "top"
    /\ cam = NewCamera
    /\ host \in Sizes \cup {NoSignal}
    /\ linked = {} /\ known = {} /\ hooked = {} /\ unseen = {}
    /\ skip = [c \in Clients |-> 0]
    /\ numClients = 0
    /\ connected = FALSE
    /\ framebuffer = NewCamera.size
    /\ pendingResize = FALSE
    /\ frameCounter = 0
    /\ dropped = FALSE

Detectable == IF host \in Sizes THEN {host} ELSE FrameSizes

(* ROUND_DOWN(frame rate, 8).                                               *)
FirstSkip == FrameRate - (FrameRate % 8)

Sgoto(from, to) == spc = from /\ spc' = to
Vgoto(from, to) == vpc = from /\ vpc' = to

-----------------------------------------------------------------------------
(* The server thread: server.run().                                         *)
BeginRun ==
    /\ Sgoto("idle", "events")
    /\ HandOff!BeginRfb
    /\ UNCHANGED <<vpc, cam, host, people, screen, unseen>>

(* rfbProcessEvents() accepts a client.                                     *)
Link(c) ==
    /\ c \notin linked \cup known
    /\ Sgoto("events", "new")
    /\ linked' = linked \cup {c}
    /\ hooked' = {c}
    /\ UNCHANGED <<handoff, vpc, cam, host, known, numClients, connected,
                   screen, unseen>>

(* newClient() makes the ClientData, then talks to the session manager      *)
(* (module Sessions); the video thread sees the client meanwhile.           *)
NewClient ==
    /\ Sgoto("new", "count")
    /\ known' = known \cup hooked
    /\ skip' = [c \in Clients |-> IF c \in hooked THEN FirstSkip ELSE skip[c]]
    /\ UNCHANGED <<handoff, vpc, cam, host, linked, hooked, numClients,
                   connected, framebuffer, pendingResize, frameCounter,
                   dropped, unseen>>

(* The end of newClient(); the first client's drops what was deferred.      *)
CountClient ==
    /\ Sgoto("count", "events")
    /\ hooked' = {}
    /\ numClients' = numClients + 1
    /\ IF numClients = 0
       THEN /\ connected' = TRUE /\ pendingResize' = FALSE
            /\ frameCounter' = 0
            /\ dropped' = (dropped \/ pendingResize)
       ELSE UNCHANGED <<connected, pendingResize, frameCounter, dropped>>
    /\ UNCHANGED <<handoff, vpc, cam, host, linked, known, framebuffer, skip,
                   unseen>>

(* rfbProcessEvents() finds a connection closed.                            *)
Unlink(c) ==
    /\ c \in linked
    /\ Sgoto("events", "gone")
    /\ linked' = linked \ {c}
    /\ hooked' = {c}
    /\ UNCHANGED <<handoff, vpc, cam, host, known, numClients, connected,
                   screen, unseen>>

(* Faulty variant: a client that goes is still counted.                     *)
ClientGoneStillCounted ==
    /\ Sgoto("gone", "events")
    /\ known' = known \ hooked
    /\ hooked' = {}
    /\ connected' = IF numClients = 1 THEN FALSE ELSE connected
    /\ UNCHANGED <<handoff, vpc, cam, host, linked, numClients, screen, unseen>>

(* Faulty variant: `--numClients == 1' for `numClients-- == 1'.             *)
ClientGoneEarly ==
    /\ Sgoto("gone", "events")
    /\ known' = known \ hooked
    /\ hooked' = {}
    /\ numClients' = numClients - 1
    /\ connected' = IF numClients - 1 = 1 THEN FALSE ELSE connected
    /\ UNCHANGED <<handoff, vpc, cam, host, linked, screen, unseen>>

ClientGone ==
    /\ Sgoto("gone", "events")
    /\ known' = known \ hooked
    /\ hooked' = {}
    /\ numClients' = numClients - 1
    /\ connected' = IF numClients = 1 THEN FALSE ELSE connected
    /\ UNCHANGED <<handoff, vpc, cam, host, linked, screen, unseen>>

(* doResize(), by either thread.                                            *)
DoResize ==
    /\ framebuffer' = cam.size
    /\ dropped' = FALSE
    /\ skip' = [c \in Clients |->
                  IF c \in linked \cap known THEN FrameRate ELSE skip[c]]

(* rfbProcessEvents() returns; with a client in the list the round counts.  *)
EndEvents ==
    /\ \/ /\ linked = {}
          /\ Sgoto("events", "end")
          /\ UNCHANGED frameCounter
       \/ /\ linked # {}
          /\ Sgoto("events", "tail")
          /\ frameCounter' = IF frameCounter > FrameRate THEN frameCounter
                             ELSE frameCounter + 1
    /\ UNCHANGED <<handoff, vpc, cam, host, people, framebuffer, pendingResize,
                   skip, dropped, unseen>>

(* Faulty variant: the count must be reached, not passed.                   *)
DeferredResizeNever ==
    /\ ~(pendingResize /\ frameCounter > FrameRate + 1)
    /\ Sgoto("tail", "end")
    /\ UNCHANGED <<handoff, vpc, cam, host, people, screen, unseen>>

DeferredResize ==
    /\ IF pendingResize /\ frameCounter > FrameRate
       THEN DoResize /\ Sgoto("tail", "clear")
       ELSE Sgoto("tail", "end") /\ UNCHANGED <<framebuffer, skip, dropped>>
    /\ UNCHANGED <<handoff, vpc, cam, host, people, pendingResize,
                   frameCounter, unseen>>

ClearPending ==
    /\ Sgoto("clear", "end")
    /\ pendingResize' = FALSE
    /\ UNCHANGED <<handoff, vpc, cam, host, people, framebuffer, frameCounter,
                   skip, dropped, unseen>>

EndRun ==
    /\ Sgoto("end", "idle")
    /\ HandOff!EndRfb
    /\ UNCHANGED <<vpc, cam, host, people, screen, unseen>>

ServerStep ==
    \/ BeginRun \/ EndEvents \/ DeferredResize \/ ClearPending \/ EndRun
    \/ NewClient \/ CountClient \/ ClientGone

-----------------------------------------------------------------------------
(* The format this round wants, with a screenshot asked for or not.         *)
WantedFormat(format, shot) ==
    IF ~shot THEN OriginalFormat ELSE IF format = Partial THEN 0 ELSE format

(* The video thread.  wantsFrame() only asks for a client in the list; a    *)
(* screenshot may be asked for at any time.  The host keeps its mode from   *)
(* start() to formatChange() here (VideoLoop has them apart).  A start()    *)
(* that clears resizeAfterOpen drops the resize that stood for.             *)
BeginRound ==
    \E shot \in BOOLEAN, d \in Detectable :
        LET started == StartOp(cam, d)
            format == WantedFormat(started.format, shot)
        IN  /\ linked # {} \/ shot
            /\ Vgoto("top", "send")
            /\ cam' = IF format = started.format THEN started
                      ELSE FormatChangeOp(started, format, d)
            /\ dropped' = \/ dropped
                          \/ /\ cam.resizeAfterOpen \/ started.resizeAfterOpen
                             /\ ~cam'.resizeAfterOpen
            /\ UNCHANGED <<handoff, spc, host, people, framebuffer,
                           pendingResize, frameCounter, skip, unseen>>

SkipRound ==
    /\ linked = {}
    /\ Vgoto("top", "needs")
    /\ cam' = StopOp(cam)
    /\ UNCHANGED <<handoff, spc, host, people, screen, unseen>>

(* Faulty variant: sendFrame() does not look at pendingResize.              *)
SendFrameAnyway ==
    /\ \/ Vgoto("send", "needs") /\ UNCHANGED unseen
       \/ cam.streaming /\ Vgoto("send", "client") /\ unseen' = linked
    /\ UNCHANGED <<handoff, spc, cam, host, people, screen>>

(* sendFrame() with no frame or a pending resize returns at once; a frame   *)
(* takes a stream.  With no client left, releaseFrames() is called instead. *)
SendFrame ==
    /\ \/ Vgoto("send", "needs") /\ UNCHANGED unseen
       \/ /\ cam.streaming /\ ~pendingResize
          /\ Vgoto("send", "client") /\ unseen' = linked
    /\ UNCHANGED <<handoff, spc, cam, host, people, screen>>

(* A client without ClientData, that skips, or that waits for no update.    *)
PassClient ==
    /\ Vgoto("client", "client")
    /\ \E c \in unseen :
          /\ unseen' = unseen \ {c}
          /\ skip' = IF c \in known /\ skip[c] > 0
                     THEN [skip EXCEPT ![c] = @ - 1] ELSE skip
    /\ UNCHANGED <<handoff, spc, cam, host, people, framebuffer, pendingResize,
                   frameCounter, dropped>>

ServeClient ==
    /\ Vgoto("client", "client")
    /\ \E c \in unseen \cap known :
          /\ skip[c] = 0
          /\ unseen' = unseen \ {c}
    /\ UNCHANGED <<handoff, spc, cam, host, people, screen>>

EndSend ==
    /\ unseen = {}
    /\ Vgoto("client", "needs")
    /\ UNCHANGED <<handoff, spc, cam, host, people, screen, unseen>>

(* needsResize(), as in VideoLoop.                                          *)
NeedsResize ==
    /\ \/ /\ cam.fd /\ cam.resizeAfterOpen
          /\ Vgoto("needs", "wait")
          /\ UNCHANGED cam
       \/ /\ cam.fd /\ ~cam.resizeAfterOpen /\ host = NoSignal
          /\ Vgoto("needs", "done")
          /\ \E d \in Detectable : cam' = RestartOp(cam, d)
       \/ /\ cam.fd /\ ~cam.resizeAfterOpen /\ host \notin {NoSignal, cam.size}
          /\ Vgoto("needs", "wait")
          /\ cam' = AdoptSize(cam, host)
       \/ /\ ~cam.fd \/ (~cam.resizeAfterOpen /\ host = cam.size)
          /\ Vgoto("needs", "done")
          /\ UNCHANGED cam
    /\ UNCHANGED <<handoff, spc, host, people, screen, unseen>>

EndRound ==
    /\ Vgoto("done", "top")
    /\ HandOff!EndVideoRound
    /\ UNCHANGED <<spc, cam, host, people, screen, unseen>>

BeginResize ==
    /\ Vgoto("wait", "video")
    /\ HandOff!BeginResize
    /\ UNCHANGED <<spc, cam, host, people, screen, unseen>>

RaiseBarrier ==
    /\ HandOff!RaiseBarrier
    /\ UNCHANGED <<spc, vpc, cam, host, people, screen, unseen>>

VideoResize ==
    /\ Vgoto("video", "server")
    /\ \E d \in Detectable : cam' = ResizeOp(cam, host, d)
    /\ UNCHANGED <<handoff, spc, host, people, screen, unseen>>

(* Server::resize().                                                        *)
ServerResize ==
    /\ Vgoto("server", "top")
    /\ HandOff!EndResize
    /\ IF frameCounter > FrameRate
       THEN DoResize /\ UNCHANGED pendingResize
       ELSE pendingResize' = TRUE /\ UNCHANGED <<framebuffer, skip, dropped>>
    /\ UNCHANGED <<spc, cam, host, people, frameCounter, unseen>>

VideoStep ==
    \/ BeginRound \/ SkipRound
    \/ SendFrame \/ PassClient \/ ServeClient \/ EndSend
    \/ NeedsResize \/ EndRound \/ BeginResize \/ VideoResize \/ ServerResize

HostChanges ==
    /\ host' \in (Sizes \cup {NoSignal}) \ {host}
    /\ UNCHANGED <<handoff, spc, vpc, cam, people, screen, unseen>>

Next ==
    \/ ServerStep \/ VideoStep \/ RaiseBarrier \/ HostChanges
    \/ \E c \in Clients : Link(c) \/ Unlink(c)

Spec == Init /\ [][Next]_vars

(* Both threads run; rfbProcessEvents() returns although clients may come   *)
(* and go without end.                                                      *)
FairSpec ==
    /\ Spec
    /\ SF_vars(EndEvents)
    /\ WF_vars(ServerStep)
    /\ WF_vars(VideoStep)

-----------------------------------------------------------------------------
(* numClients counts the clients that have a ClientData but for the one     *)
(* that newClient() has yet to count, whatever order the hooks run in, and  *)
(* the HID gadget is connected while it is not 0.                           *)
ClientsCounted ==
    /\ numClients = Cardinality(IF spc = "count" THEN known \ hooked ELSE known)
    /\ connected <=> numClients > 0

(* A client is sent frames in the framebuffer's size, although the camera   *)
(* takes a new one in the video thread and the framebuffer may have to wait *)
(* for it in the server thread.  Two things break it, and nothing else: the *)
(* round in which start() found a new mode, whose resize comes at its end,  *)
(* and a resize dropped by the first client's newClient() or by resize()    *)
(* inside start().                                                          *)
FramesFitScreen ==
    [][ServeClient =>
          framebuffer = cam.size \/ cam.resizeAfterOpen \/ dropped]_vars

(* A deferred resize is not deferred for ever while someone watches.        *)
PendingEnds == <>[](linked # {}) => []<>~pendingResize

-----------------------------------------------------------------------------
(* ikvm_server.hpp:65: resize() "Resizes the RFB framebuffer": the screen   *)
(* of clients that stay takes the size of a host that stays in its mode.    *)
ScreenFollowsHost ==
    \A m \in Sizes :
        <>[](linked # {} /\ host = m) => <>[](framebuffer = m)
=============================================================================
