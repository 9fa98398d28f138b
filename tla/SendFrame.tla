------------------------------ MODULE SendFrame ------------------------------
(***************************************************************************)
(* Server::sendFrame() (ikvm_server.cpp) as the video thread calls it in    *)
(* each round, on the frames themselves: which buffer's data a client is    *)
(* sent, and what its picture becomes.  Beside it run the server thread's   *)
(* hooks (clients come, go and ask for updates) and the V4L2 driver.        *)
(*                                                                         *)
(* A screen is a row of Width strips.  A frame is the strips of its         *)
(* bounding box, from `left' on; its JPEG data is their pixels, and nothing  *)
(* of use when it was cut short, without its end marker.  The CRC is taken  *)
(* of the data, so it is the pixels, wherever on the screen they belong.    *)
(*                                                                         *)
(* Elsewhere: failing ioctls and format changes (VideoLoop), resizes        *)
(* (Screen), the clients sendFrame() closes (Sessions, Idle), the fake key  *)
(* events (Keyboard).                                                       *)
(***************************************************************************)
EXTENDS Integers, Sequences, FiniteSets

CONSTANTS
    Clients,
    OneAtATime,    \* no client comes before the one before it has gone
    Buffers,       \* the buffers VIDIOC_REQBUFS grants
    Width,         \* strips of the screen
    Pixels,        \* what a strip may show
    Blank,         \* what it shows before: the framebuffer's zeros
    Partial,       \* Args::getFormat() = 2
    CalcCRC,       \* Args::getCalcFrameCRC()
    FirstSkip,     \* ROUND_DOWN(frameRate, 8)
    None           \* no client, no buffer

ASSUME SendFrameAssumption ==
    /\ OneAtATime \in BOOLEAN /\ Partial \in BOOLEAN /\ CalcCRC \in BOOLEAN
    /\ Width \in Nat \ {0}
    /\ FirstSkip \in Nat
    /\ IsFiniteSet(Buffers)
    /\ Blank \notin Pixels /\ None \notin Clients \cup Buffers

Strips == 1..Width
Screens == [Strips -> Pixels]
Pictures == [Strips -> Pixels \cup {Blank}]
Data == UNION {[1..n -> Pixels] : n \in Strips}
NoCrc == <<>>                           \* -1
Odd == <<Blank>>                        \* the CRC of a wrong length
Crcs == Data \cup {NoCrc, Odd}
Frames == [left : Strips, pixels : Data \cup {<<>>}]
Cut == [left |-> 1, pixels |-> <<>>]    \* no end marker

VARIABLES
    pc,             \* where the video thread is in its round
    linked,         \* the clients in libvncserver's list, with a ClientData
    needUpdate, skipFrame, last_crc,     \* members of ClientData
    view,           \* the picture each client shows
    todo,           \* the clients the iterator has yet to reach
    current,        \* the client being sent to
    data, front,    \* sendFrame()'s data, and i while it sends
    frame_crc, frame_sent,
    buffersDone,
    filled,         \* the driver's filled buffers, in the order of capture
    memory,         \* what each buffer holds
    screen,         \* what the host shows
    captured        \* what the driver captured last

clients == <<linked, needUpdate, skipFrame, last_crc>>
loop == <<todo, current, data, front, frame_crc, frame_sent>>
driver == <<filled, memory, captured>>
vars == <<pc, clients, view, loop, buffersDone, driver, screen>>

Elements(s) == {s[n] : n \in 1..Len(s)}

(* Faulty variant: a buffer is with the driver again once it was dequeued.   *)
IncomingAtOnce == Buffers \ Elements(filled)

(* The buffers the driver may write to.                                     *)
Incoming == Buffers \ (Elements(buffersDone) \cup Elements(filled))

TypeOK ==
    /\ pc \in {"get", "send", "visit", "reget", "sending"}
    /\ linked \in SUBSET Clients
    /\ needUpdate \in [Clients -> BOOLEAN]
    /\ skipFrame \in [Clients -> 0..FirstSkip]
    /\ last_crc \in [Clients -> Crcs]
    /\ view \in [Clients -> Pictures]
    /\ todo \in SUBSET linked
    /\ current \in Clients \cup {None}
    /\ data \in Buffers \cup {None} /\ front \in Buffers \cup {None}
    /\ frame_crc \in Crcs
    /\ frame_sent \in BOOLEAN
    /\ buffersDone \in Seq(Buffers)
    /\ filled \in Seq(Buffers)
    /\ memory \in [Buffers -> Frames]
    /\ screen \in Screens
    /\ captured \in Pictures

BlankView == [p \in Strips |-> Blank]

Init ==
    /\ pc = "get"
    /\ linked = {}
    /\ needUpdate = [c \in Clients |-> FALSE]
    /\ skipFrame = [c \in Clients |-> 0]
    /\ last_crc = [c \in Clients |-> NoCrc]
    /\ view = [c \in Clients |-> BlankView]
    /\ todo = {} /\ current = None
    /\ data = None /\ front = None
    /\ frame_crc = NoCrc /\ frame_sent = FALSE
    /\ buffersDone = <<>> /\ filled = <<>>
    /\ screen \in Screens
    /\ memory = [b \in Buffers |-> Cut]
    /\ captured = BlankView

Goto(from, to) == pc = from /\ pc' = to

-----------------------------------------------------------------------------
(* getFrame(): nothing while frames wait; else some of the filled buffers,  *)
(* oldest first, or none when select() times out.                           *)
GetFrame(from, to) ==
    /\ Goto(from, to)
    /\ \/ /\ buffersDone # <<>> \/ filled = <<>>
          /\ UNCHANGED <<buffersDone, filled>>
       \/ /\ buffersDone = <<>>
          /\ \E n \in 1..Len(filled) :
                /\ buffersDone' = SubSeq(filled, 1, n)
                /\ filled' = SubSeq(filled, n + 1, Len(filled))
    /\ UNCHANGED <<clients, view, loop, memory, captured, screen>>

BeginRound == linked # {} /\ GetFrame("get", "send")

(* No client: stop(), and start() with all buffers queued for the next one. *)
Stop ==
    /\ linked = {}
    /\ pc = "get"
    /\ buffersDone # <<>> \/ filled # <<>> \/ captured # BlankView
    /\ buffersDone' = <<>> /\ filled' = <<>>
    /\ captured' = BlankView
    /\ memory' = [b \in Buffers |-> Cut]
    /\ UNCHANGED <<pc, clients, view, loop, screen>>

(* releaseFrames(): the oldest waiting buffer goes back to the driver.      *)
Released == IF buffersDone = <<>> THEN <<>> ELSE Tail(buffersDone)

(* sendFrame() takes the data pointer once; with no client left the frame   *)
(* is dropped.                                                              *)
BeginSend ==
    \/ /\ linked = {}
       /\ Goto("send", "get")
       /\ buffersDone' = Released
       /\ UNCHANGED <<clients, view, loop, driver, screen>>
    \/ /\ linked # {} /\ buffersDone = <<>>
       /\ Goto("send", "get")
       /\ UNCHANGED <<clients, view, loop, buffersDone, driver, screen>>
    \/ /\ linked # {} /\ buffersDone # <<>>
       /\ Goto("send", "visit")
       /\ data' = Head(buffersDone)
       /\ frame_crc' = NoCrc /\ frame_sent' = FALSE
       /\ todo' = linked
       /\ UNCHANGED <<clients, view, current, front, buffersDone, driver,
                      screen>>

-----------------------------------------------------------------------------
(* buffersDone.front() as each client reads it: any index when it is empty. *)
Fronts == IF buffersDone = <<>> THEN Buffers ELSE {Head(buffersDone)}

(* Whether data ends with the marker at the size of buffer i: with another  *)
(* buffer's size any two bytes are looked at.                               *)
EndMarks(i) == IF i = data THEN {memory[data] # Cut} ELSE BOOLEAN

(* The frame's CRC, taken for the first client that gets there and kept.    *)
FrameCrcs(i) ==
    IF frame_crc # NoCrc THEN {frame_crc}
    ELSE IF i = data THEN {memory[data].pixels}
    ELSE {Odd} \cup ({memory[data].pixels} \ {NoCrc})

Visit(c) ==
    /\ pc = "visit"
    /\ c \in todo
    /\ todo' = todo \ {c}

(* Faulty variant: the counter goes on below zero.                          *)
SkipFrameUnchecked(c) ==
    /\ Visit(c)
    /\ skipFrame' = [skipFrame EXCEPT ![c] = @ - 1]
    /\ UNCHANGED <<pc, linked, needUpdate, last_crc, view, current, data,
                   front, frame_crc, frame_sent, buffersDone, driver, screen>>

SkipFrameOf(c) ==
    /\ Visit(c)
    /\ skipFrame[c] > 0
    /\ skipFrame' = [skipFrame EXCEPT ![c] = @ - 1]
    /\ UNCHANGED <<pc, linked, needUpdate, last_crc, view, current, data,
                   front, frame_crc, frame_sent, buffersDone, driver, screen>>

(* Faulty variant: the CRC is compared and kept before needUpdate is looked *)
(* at.                                                                      *)
PassOverRemembers(c) ==
    /\ Visit(c)
    /\ skipFrame[c] = 0 /\ ~needUpdate[c]
    /\ last_crc' = [last_crc EXCEPT ![c] = memory[data].pixels]
    /\ UNCHANGED <<pc, linked, needUpdate, skipFrame, view, current, data,
                   front, frame_crc, frame_sent, buffersDone, driver, screen>>

PassOver(c) ==
    /\ Visit(c)
    /\ skipFrame[c] = 0 /\ ~needUpdate[c]
    /\ UNCHANGED <<pc, clients, view, current, data, front, frame_crc,
                   frame_sent, buffersDone, driver, screen>>

Waiting(c) == skipFrame[c] = 0 /\ needUpdate[c]

(* A frame that is cut short goes back, another is fetched.                 *)
RefuseCut(c) ==
    /\ Visit(c)
    /\ Waiting(c)
    /\ \E i \in Fronts : FALSE \in EndMarks(i)
    /\ pc' = "reget"
    /\ buffersDone' = Released
    /\ UNCHANGED <<clients, view, current, data, front, frame_crc,
                   frame_sent, driver, screen>>

(* Faulty variant: a frame the client has is not given back.                *)
RefuseSameKeepsFrame(c) ==
    /\ Visit(c)
    /\ Waiting(c)
    /\ CalcCRC
    /\ last_crc[c] = memory[data].pixels /\ last_crc[c] # NoCrc
    /\ frame_crc' = last_crc[c]
    /\ pc' = "reget"
    /\ UNCHANGED <<clients, view, current, data, front, frame_sent,
                   buffersDone, driver, screen>>

(* So does one whose CRC is that of the last frame this client was sent.    *)
RefuseSame(c) ==
    /\ Visit(c)
    /\ Waiting(c)
    /\ CalcCRC
    /\ \E i \in Fronts :
          /\ TRUE \in EndMarks(i)
          /\ last_crc[c] \in FrameCrcs(i)
          /\ last_crc[c] # NoCrc
    /\ frame_crc' = last_crc[c]
    /\ pc' = "reget"
    /\ buffersDone' = Released
    /\ UNCHANGED <<clients, view, current, data, front, frame_sent, driver,
                   screen>>

(* Faulty variant: the frame is given back before it is sent.               *)
ServeReleasesFirst(c) ==
    /\ Visit(c)
    /\ Waiting(c)
    /\ memory[data] # Cut
    /\ last_crc[c] # memory[data].pixels
    /\ last_crc' = [last_crc EXCEPT ![c] = memory[data].pixels]
    /\ needUpdate' = [needUpdate EXCEPT ![c] = FALSE]
    /\ frame_crc' = memory[data].pixels
    /\ front' = data
    /\ buffersDone' = Released
    /\ frame_sent' = FALSE
    /\ current' = c
    /\ pc' = "sending"
    /\ UNCHANGED <<linked, skipFrame, view, data, driver, screen>>

(* Any other is sent: the client's request is answered.                     *)
Serve(c) ==
    /\ Visit(c)
    /\ Waiting(c)
    /\ \E i \in Fronts :
          /\ TRUE \in EndMarks(i)
          /\ IF CalcCRC
             THEN \E crc \in FrameCrcs(i) \ {last_crc[c]} :
                     /\ frame_crc' = crc
                     /\ last_crc' = [last_crc EXCEPT ![c] = crc]
             ELSE UNCHANGED <<frame_crc, last_crc>>
          /\ front' = i
    /\ needUpdate' = [needUpdate EXCEPT ![c] = FALSE]
    /\ frame_sent' = TRUE
    /\ current' = c
    /\ pc' = "sending"
    /\ UNCHANGED <<linked, skipFrame, view, data, buffersDone, driver, screen>>

(* The picture after `pixels' are drawn from strip `left' on.               *)
Paint(picture, left, pixels) ==
    [p \in Strips |-> IF p - left + 1 \in DOMAIN pixels
                      THEN pixels[p - left + 1] ELSE picture[p]]

(* rfbSendCompressedDataTight() copies the data as it is by now, under the  *)
(* header of the bounding box of buffer i.                                  *)
Send ==
    /\ Goto("sending", "visit")
    /\ view' = [view EXCEPT ![current] =
                  Paint(@, memory[front].left, memory[data].pixels)]
    /\ current' = None
    /\ UNCHANGED <<clients, todo, data, front, frame_crc, frame_sent,
                   buffersDone, driver, screen>>

(* sendFrame()'s variables end with it, and so does all interest in what is *)
(* in buffers that the driver has.                                          *)
Return ==
    /\ data' = None /\ front' = None
    /\ frame_crc' = NoCrc /\ frame_sent' = FALSE
    /\ memory' = [b \in Buffers |->
                     IF b \in Elements(buffersDone') \cup Elements(filled)
                     THEN memory[b] ELSE Cut]
    /\ UNCHANGED <<todo, current, filled, captured>>

EndSend ==
    /\ todo = {}
    /\ Goto("visit", "get")
    /\ buffersDone' = IF frame_sent THEN Released ELSE buffersDone
    /\ Return
    /\ UNCHANGED <<clients, view, screen>>

VideoStep ==
    \/ BeginRound \/ Stop \/ BeginSend
    \/ \E c \in Clients :
          SkipFrameOf(c) \/ PassOver(c) \/ RefuseCut(c) \/ RefuseSame(c)
          \/ Serve(c)
    \/ GetFrame("reget", "visit")
    \/ Send \/ EndSend

-----------------------------------------------------------------------------
(* The server thread: newClient().                                          *)
NewClient(c) ==
    /\ c \notin linked
    /\ OneAtATime => linked = {}
    /\ linked' = linked \cup {c}
    /\ needUpdate' = [needUpdate EXCEPT ![c] = FALSE]
    /\ skipFrame' = [skipFrame EXCEPT ![c] = FirstSkip]
    /\ last_crc' = [last_crc EXCEPT ![c] = NoCrc]
    /\ view' = [view EXCEPT ![c] = BlankView]
    /\ UNCHANGED <<pc, loop, buffersDone, driver, screen>>

(* clientGone(); not in the middle of this client's visit, where deleting   *)
(* its ClientData is undefined behaviour.                                   *)
ClientGone(c) ==
    /\ c \in linked /\ c # current
    /\ linked' = linked \ {c}
    /\ todo' = todo \ {c}
    /\ needUpdate' = [needUpdate EXCEPT ![c] = FALSE]
    /\ skipFrame' = [skipFrame EXCEPT ![c] = 0]
    /\ last_crc' = [last_crc EXCEPT ![c] = NoCrc]
    /\ view' = [view EXCEPT ![c] = BlankView]
    /\ UNCHANGED <<pc, current, data, front, frame_crc, frame_sent,
                   buffersDone, driver, screen>>

(* clientFramebufferUpdateRequest(), at any time.                           *)
RequestUpdate(c) ==
    /\ c \in linked
    /\ needUpdate' = [needUpdate EXCEPT ![c] = TRUE]
    /\ UNCHANGED <<pc, linked, skipFrame, last_crc, view, loop, buffersDone,
                   driver, screen>>

-----------------------------------------------------------------------------
HostDraws ==
    /\ screen' \in Screens \ {screen}
    /\ UNCHANGED <<pc, clients, view, loop, buffersDone, driver>>

(* The boxes the driver may capture: the whole screen, or, in the partial   *)
(* format, what covers the change since the last capture.                   *)
Boxes ==
    {b \in Strips \X Strips :
        /\ b[1] <= b[2]
        /\ ~Partial => b = <<1, Width>>
        /\ \A p \in Strips : screen[p] # captured[p] => p \in b[1]..b[2]}

CaptureFrame(frame) ==
    /\ linked # {}
    /\ \E b \in Incoming :
          /\ memory' = [memory EXCEPT ![b] = frame]
          /\ filled' = Append(filled, b)
    /\ captured' = screen
    /\ UNCHANGED <<pc, clients, view, loop, buffersDone, screen>>

FrameOf(box) ==
    [left |-> box[1],
     pixels |-> [n \in 1..box[2] - box[1] + 1 |-> screen[box[1] + n - 1]]]

(* The driver fills a buffer, perhaps not to the end.                       *)
Capture == \E box \in Boxes : CaptureFrame(FrameOf(box))

CaptureCut == CaptureFrame(Cut)

(* An I frame, which the driver takes at intervals in the partial format.   *)
CaptureWhole == CaptureFrame(FrameOf(<<1, Width>>))

Next ==
    \/ VideoStep
    \/ \E c \in Clients : NewClient(c) \/ ClientGone(c) \/ RequestUpdate(c)
    \/ HostDraws \/ Capture \/ CaptureCut

Spec == Init /\ [][Next]_vars

(* The video thread runs, a client that stays keeps asking, and the driver  *)
(* captures the whole screen again and again.                               *)
FairSpec ==
    /\ Spec
    /\ WF_vars(VideoStep)
    /\ SF_vars(CaptureWhole)
    /\ \A c \in Clients : WF_vars(RequestUpdate(c))

-----------------------------------------------------------------------------
(* ikvm_server.hpp:66: sendFrame() "Sends pending video frame to clients":  *)
(* what a client is being sent is the oldest frame that waits, not a buffer *)
(* that the driver may be writing to.                                       *)
SendsPendingFrame ==
    pc = "sending" => /\ buffersDone # <<>>
                      /\ data = Head(buffersDone)

(* The frame a refusal gives back.                                          *)
GivenBack == memory[Head(buffersDone)]

(* ikvm_server.hpp:139, "Identical frames detection": a frame of the whole  *)
(* screen is kept from a client for its CRC only if the client shows just   *)
(* that, whatever parts were sent, cut short or lost in between.            *)
WithheldIsShown ==
    [][\A c \in Clients :
          RefuseSame(c) /\ buffersDone # <<>> /\ GivenBack.pixels \in Screens
          => view[c] = GivenBack.pixels]_vars

(* The frames on their way, oldest first, are a queue: they reach sendFrame()*)
(* in the order of capture, each once and as it was captured, whoever comes *)
(* and goes; a buffer is not written to before its frame was given back.    *)
Pending == buffersDone \o filled
FramesIn(m, s) == [n \in 1..Len(s) |-> m[s[n]]]

Queue == INSTANCE FrameQueue WITH
    queue <- FramesIn(memory, Pending),
    watched <- linked # {},
    Capacity <- Cardinality(Buffers)

ImplementsFrameQueue == Queue!Spec

(* A client that stays shows in the end what a host that stays shows,       *)
(* although frames are skipped, cut short, withheld, or taken while the     *)
(* client had not asked.                                                    *)
ViewConverges ==
    \A c \in Clients, s \in Screens :
        <>[](c \in linked /\ screen = s) => <>[](view[c] = s)
=============================================================================
