-------------------------------- MODULE Video --------------------------------
(***************************************************************************)
(* Class ikvm::Video (ikvm_video.cpp, ami/src/ikvm_video_ami.cpp) and the   *)
(* V4L2 device it drives, as operations on one record, the camera:          *)
(*                                                                         *)
(*   fd, size, format, resizeAfterOpen     the members of the same name     *)
(*                        (size stands for the pair width, height)          *)
(*   mapped, queued       the buffers whose data is mapped, whose queued    *)
(*                        flag is set                                       *)
(*   done                 buffersDone                                       *)
(*   lost                 the mapped buffers a failed VIDIOC_QBUF left with *)
(*                        nobody (no code reads this)                       *)
(*                                                                         *)
(* and, in the kernel (no code under src/; as the ioctls here use it):      *)
(*                                                                         *)
(*   streaming, active    between STREAMON and STREAMOFF; the timings set   *)
(*   incoming, outgoing   the buffers the driver may fill, has filled       *)
(*   flawed               those of outgoing with V4L2_BUF_FLAG_ERROR        *)
(*   frame                what each buffer's memory holds                   *)
(*                                                                         *)
(* An ioctl whose failure throws ends the process: Crash in VideoLoop.      *)
(***************************************************************************)
EXTENDS Naturals, Sequences

CONSTANTS
    Buffers,          \* the buffers VIDIOC_REQBUFS grants
    Sizes,            \* the modes the host may set
    DefaultSize,      \* 800x600, before the device is first opened
    NoSignal,         \* the host drives no video
    OriginalFormat    \* Args::getFormat()

Formats == {0, 2}     \* what Args accepts: standard and partial JPEG
Partial == 2

ASSUME VideoAssumption ==
    /\ Buffers # {}
    /\ NoSignal \notin Sizes
    /\ OriginalFormat \in Formats

FrameSizes == Sizes \cup {DefaultSize}

Blank == [size |-> DefaultSize, format |-> 0]

(* The set of the elements of buffersDone.                                  *)
Elements(s) == {s[i] : i \in 1..Len(s)}

Camera == [fd : BOOLEAN, size : FrameSizes, format : Formats,
           resizeAfterOpen : BOOLEAN,
           mapped : SUBSET Buffers, queued : SUBSET Buffers,
           done : Seq(Buffers), lost : SUBSET Buffers,
           streaming : BOOLEAN, active : FrameSizes,
           incoming : SUBSET Buffers, outgoing : SUBSET Buffers,
           flawed : SUBSET Buffers,
           frame : [Buffers -> [size : FrameSizes, format : Formats]]]

(* The constructor, on a device nobody has open.                            *)
NewCamera ==
    [fd |-> FALSE, size |-> DefaultSize, format |-> OriginalFormat,
     resizeAfterOpen |-> FALSE,
     mapped |-> {}, queued |-> {}, done |-> <<>>, lost |-> {},
     streaming |-> FALSE, active |-> DefaultSize,
     incoming |-> {}, outgoing |-> {}, flawed |-> {},
     frame |-> [b \in Buffers |-> Blank]]

-----------------------------------------------------------------------------
(* VIDIOC_STREAMOFF takes every buffer back from the driver.                *)
StreamOff(c) ==
    [c EXCEPT !.streaming = FALSE, !.incoming = {}, !.outgoing = {},
              !.flawed = {}]

(* munmap() and the reset of the queued flags.                              *)
Unmap(c) == [c EXCEPT !.mapped = {}, !.queued = {}, !.lost = {}]

(* REQBUFS, QUERYBUF, mmap(), QBUF of every buffer and STREAMON.            *)
Allocate(c) ==
    [c EXCEPT !.mapped = Buffers, !.queued = Buffers,
              !.incoming = Buffers, !.streaming = TRUE,
              !.frame = [b \in Buffers |-> Blank]]

StopOp(c) ==
    IF ~c.fd THEN c
    ELSE [Unmap(StreamOff(c)) EXCEPT !.done = <<>>, !.fd = FALSE]

(* resize() when no buffer is mapped.                                       *)
ResizeUnmapped(c) ==
    IF c.resizeAfterOpen THEN [c EXCEPT !.resizeAfterOpen = FALSE]
    ELSE Allocate(c)

(* open() detects the host's mode, which G_FMT then returns.                *)
Opened(c, detected) ==
    ResizeUnmapped([c EXCEPT !.fd = TRUE, !.active = detected,
                             !.size = detected])

(* start(): no buffer is mapped while the device is closed.                 *)
StartOp(c, detected) ==
    IF c.fd THEN c
    ELSE IF c.size # detected
         THEN [Opened(c, detected) EXCEPT !.resizeAfterOpen = TRUE]
         ELSE Opened(c, detected)

RestartOp(c, detected) == StartOp(StopOp(c), detected)

(* resize(), given the answer of its own VIDIOC_QUERY_DV_TIMINGS.           *)
ResizeOp(c, timings, detected) ==
    IF ~c.fd THEN c
    ELSE IF c.resizeAfterOpen \/ c.mapped = {} THEN ResizeUnmapped(c)
    ELSE LET off == Unmap(StreamOff(c))
         IN IF timings = NoSignal THEN RestartOp(off, detected)
            ELSE Allocate([off EXCEPT !.active = timings])

(* Faulty variant: the format is set without stopping the stream.           *)
FormatChangeInPlace(c, new, detected) ==
    StartOp([c EXCEPT !.format = new], detected)

FormatChangeOp(c, new, detected) ==
    StartOp([StopOp(c) EXCEPT !.format = new], detected)

(* Faulty variant: the frames taken in the old mode are kept.               *)
AdoptSizeKeepsFrames(c, timings) == [c EXCEPT !.size = timings]

(* needsResize() on a new mode.                                             *)
AdoptSize(c, timings) == [c EXCEPT !.size = timings, !.done = <<>>]

-----------------------------------------------------------------------------
(* Faulty variant: qbuf() marks the buffer before the ioctl succeeds.       *)
QbufMarksFirst(c, b, ok) ==
    IF b \in c.queued THEN c
    ELSE IF ok THEN [c EXCEPT !.queued = @ \cup {b}, !.incoming = @ \cup {b}]
    ELSE [c EXCEPT !.queued = @ \cup {b}]

(* qbuf(); ok: the ioctl succeeds.                                          *)
Qbuf(c, b, ok) ==
    IF b \in c.queued THEN c
    ELSE IF ok THEN [c EXCEPT !.queued = @ \cup {b}, !.incoming = @ \cup {b}]
    ELSE [c EXCEPT !.lost = @ \cup {b}]

ReleaseFramesOp(c, ok) ==
    IF c.done = <<>> THEN c
    ELSE Qbuf([c EXCEPT !.done = Tail(@)], Head(c.done), ok)

(* VIDIOC_DQBUF hands a filled buffer over.                                 *)
Dequeued(c, b) ==
    [c EXCEPT !.queued = @ \ {b}, !.outgoing = @ \ {b}, !.flawed = @ \ {b}]

(* Faulty variant: a frame with an error is dropped, not requeued.          *)
DequeueOpDrops(c, b, ok) ==
    IF b \in c.flawed THEN Dequeued(c, b)
    ELSE [Dequeued(c, b) EXCEPT !.done = Append(@, b)]

(* One pass of getFrame()'s loop that dequeues b.                           *)
DequeueOp(c, b, ok) ==
    IF b \in c.flawed THEN Qbuf(Dequeued(c, b), b, ok)
    ELSE [Dequeued(c, b) EXCEPT !.done = Append(@, b)]

(* The driver fills a buffer with what the device captures.                 *)
Filled(c, b, flawed) ==
    [c EXCEPT !.incoming = @ \ {b}, !.outgoing = @ \cup {b},
              !.flawed = IF flawed THEN @ \cup {b} ELSE @,
              !.frame[b] = [size |-> c.active, format |-> c.format]]
-----------------------------------------------------------------------------
(* What the operations keep true of the camera.                             *)

(* The queued flags say exactly which buffers the driver has.               *)
DriverAgrees(c) ==
    /\ c.queued = c.incoming \cup c.outgoing
    /\ c.incoming \cap c.outgoing = {}
    /\ c.flawed \subseteq c.outgoing

(* No mapped buffer has two owners.                                         *)
OwnedOnce(c) ==
    /\ \A i, j \in 1..Len(c.done) : c.done[i] = c.done[j] => i = j
    /\ Elements(c.done) \cap c.queued = {}
    /\ Elements(c.done) \cup c.queued \cup c.lost \subseteq c.mapped

(* Every mapped buffer has an owner, or was lost to a failed VIDIOC_QBUF.   *)
Accounted(c) == c.mapped \subseteq Elements(c.done) \cup c.queued \cup c.lost

(* The frames of these buffers were taken as the device is set now.         *)
TakenAsSet(c, bs) ==
    \A b \in bs : c.frame[b] = [size |-> c.active, format |-> c.format]
=============================================================================
