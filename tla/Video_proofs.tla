---------------------------- MODULE Video_proofs ----------------------------
(***************************************************************************)
(* What each operation of class Video does to a sound camera: one whose     *)
(* buffers each have one owner, the one the code thinks, and whose frames   *)
(* are those of the present stream.                                         *)
(***************************************************************************)
EXTENDS Video, TLAPS

Consistent(c) ==
    /\ c \in Camera
    /\ DriverAgrees(c)
    /\ OwnedOnce(c)
    /\ ~c.fd => c.mapped = {}
    /\ TakenAsSet(c, Elements(c.done) \cup c.outgoing)

Sound(c) == Consistent(c) /\ Accounted(c)

(* What resize() may be called on: needsResize() emptied buffersDone, or    *)
(* only resizeAfterOpen is taken back.                                      *)
ReadyToResize(c) ==
    IF c.resizeAfterOpen THEN Accounted(c) ELSE Elements(c.done) = {}

LEMMA NewCameraSound == Sound(NewCamera)
  BY VideoAssumption DEF NewCamera, Sound, Consistent, Camera, FrameSizes,
     Formats, Blank, DriverAgrees, OwnedOnce, Accounted, TakenAsSet, Elements

(* A camera with no buffer mapped has none anywhere.                        *)
Idle(c) ==
    /\ c \in Camera
    /\ c.mapped = {} /\ c.queued = {} /\ c.lost = {}
    /\ c.incoming = {} /\ c.outgoing = {} /\ c.flawed = {}
    /\ Elements(c.done) = {}

LEMMA UnmappedIsIdle ==
  ASSUME NEW c, Consistent(c), c.mapped = {}
  PROVE  Idle(c)
  BY DEF Consistent, Camera, DriverAgrees, OwnedOnce, Idle

LEMMA IdleSound == ASSUME NEW c, Idle(c) PROVE Sound(c)
<1>1. \A i \in 1..Len(c.done) : FALSE
  BY DEF Idle, Elements
<1>2. QED
  BY <1>1 DEF Idle, Sound, Consistent, DriverAgrees, OwnedOnce, Accounted,
     TakenAsSet

(* An idle camera stays idle whatever its settings become.                  *)
LEMMA IdleOpened ==
  ASSUME NEW c, Idle(c), NEW d \in FrameSizes
  PROVE  LET o == [c EXCEPT !.fd = TRUE, !.active = d, !.size = d]
         IN  Idle(o) /\ o.fd
  BY DEF Idle, Camera

LEMMA IdleTimings ==
  ASSUME NEW c, Idle(c), c.fd, NEW d \in FrameSizes
  PROVE  LET o == [c EXCEPT !.active = d] IN Idle(o) /\ o.fd
  BY DEF Idle, Camera

LEMMA IdleFormat ==
  ASSUME NEW c, Idle(c), NEW f \in Formats
  PROVE  Idle([c EXCEPT !.format = f])
  BY DEF Idle, Camera

LEMMA IdleFlag ==
  ASSUME NEW c, Idle(c), NEW r \in BOOLEAN
  PROVE  Idle([c EXCEPT !.resizeAfterOpen = r])
  BY DEF Idle, Camera

(* resizeAfterOpen says nothing of the buffers.                             *)
LEMMA FlagSound ==
  ASSUME NEW c, Sound(c), NEW r \in BOOLEAN
  PROVE  Sound([c EXCEPT !.resizeAfterOpen = r])
<1> DEFINE n == [c EXCEPT !.resizeAfterOpen = r]
<1>1. /\ n \in Camera
      /\ n.fd = c.fd /\ n.format = c.format /\ n.active = c.active
      /\ n.mapped = c.mapped /\ n.queued = c.queued /\ n.lost = c.lost
      /\ n.incoming = c.incoming /\ n.outgoing = c.outgoing
      /\ n.flawed = c.flawed /\ n.done = c.done /\ n.frame = c.frame
  BY DEF Sound, Consistent, Camera
<1> HIDE DEF n
<1>2. Sound(n)
  BY <1>1 DEF Sound, Consistent, DriverAgrees, OwnedOnce, Accounted, TakenAsSet
<1>3. QED
  BY <1>2 DEF n

(* STREAMOFF and munmap() leave no buffer but those in buffersDone.         *)
LEMMA OffFields ==
  ASSUME NEW c \in Camera
  PROVE  LET off == Unmap(StreamOff(c)) IN
         /\ off \in Camera
         /\ off.mapped = {} /\ off.queued = {} /\ off.lost = {}
         /\ off.incoming = {} /\ off.outgoing = {} /\ off.flawed = {}
         /\ off.done = c.done /\ off.fd = c.fd
<1> DEFINE s == StreamOff(c)
<1>1. /\ s \in Camera /\ s.incoming = {} /\ s.outgoing = {} /\ s.flawed = {}
      /\ s.done = c.done /\ s.fd = c.fd
  BY DEF StreamOff, Camera
<1> HIDE DEF s
<1>2. LET off == Unmap(s) IN
         /\ off \in Camera
         /\ off.mapped = {} /\ off.queued = {} /\ off.lost = {}
         /\ off.incoming = {} /\ off.outgoing = {} /\ off.flawed = {}
         /\ off.done = c.done /\ off.fd = c.fd
  BY <1>1 DEF Unmap, Camera
<1>3. QED
  BY <1>2 DEF s

LEMMA ClosedFields ==
  ASSUME NEW c \in Camera, NEW e \in Seq(Buffers)
  PROVE  LET n == [c EXCEPT !.done = e, !.fd = FALSE] IN
         /\ n \in Camera /\ n.done = e /\ n.fd = FALSE
         /\ n.mapped = c.mapped /\ n.queued = c.queued /\ n.lost = c.lost
         /\ n.incoming = c.incoming /\ n.outgoing = c.outgoing
         /\ n.flawed = c.flawed
  BY DEF Camera

LEMMA AdoptFields ==
  ASSUME NEW c \in Camera, NEW e \in Seq(Buffers), NEW z \in FrameSizes
  PROVE  LET m == [c EXCEPT !.size = z, !.done = e] IN
         /\ m \in Camera /\ m.done = e
         /\ m.fd = c.fd /\ m.format = c.format /\ m.active = c.active
         /\ m.mapped = c.mapped /\ m.queued = c.queued /\ m.lost = c.lost
         /\ m.incoming = c.incoming /\ m.outgoing = c.outgoing
         /\ m.flawed = c.flawed /\ m.frame = c.frame
         /\ m.resizeAfterOpen = c.resizeAfterOpen
  BY DEF Camera

LEMMA StopIdle ==
  ASSUME NEW c, Consistent(c)
  PROVE  Idle(StopOp(c)) /\ ~StopOp(c).fd
<1>1. CASE ~c.fd
  BY <1>1, UnmappedIsIdle DEF StopOp, Consistent
<1>2. CASE c.fd
  <2> DEFINE off == Unmap(StreamOff(c))
             n == [off EXCEPT !.done = <<>>, !.fd = FALSE]
  <2>1. /\ off \in Camera
        /\ off.mapped = {} /\ off.queued = {} /\ off.lost = {}
        /\ off.incoming = {} /\ off.outgoing = {} /\ off.flawed = {}
    BY OffFields DEF Consistent
  <2> HIDE DEF off
  <2>2. <<>> \in Seq(Buffers)
    OBVIOUS
  <2>3. /\ n \in Camera /\ n.done = <<>> /\ n.fd = FALSE
        /\ n.mapped = off.mapped /\ n.queued = off.queued /\ n.lost = off.lost
        /\ n.incoming = off.incoming /\ n.outgoing = off.outgoing
        /\ n.flawed = off.flawed
    BY <2>1, <2>2, ClosedFields
  <2> HIDE DEF n
  <2>4. Idle(n) /\ ~n.fd
    BY <2>1, <2>3 DEF Idle, Elements
  <2>5. QED
    BY <1>2, <2>4 DEF StopOp, n, off
<1>3. QED
  BY <1>1, <1>2

(* Buffers are allocated only when none is mapped, hence none in use.       *)
LEMMA AllocateSound ==
  ASSUME NEW c, Idle(c), c.fd
  PROVE  Sound(Allocate(c))
<1> DEFINE n == Allocate(c)
<1>1. n \in Camera
  BY DEF Allocate, Idle, Camera, FrameSizes, Formats, Blank
<1>2. /\ n.mapped = Buffers /\ n.queued = Buffers /\ n.incoming = Buffers
      /\ n.outgoing = {} /\ n.flawed = {} /\ n.lost = {}
      /\ n.done = c.done /\ n.fd
  BY DEF Allocate, Idle, Camera
<1> HIDE DEF n
<1>3. \A i \in 1..Len(n.done) : FALSE
  BY <1>2 DEF Idle, Elements
<1>4. Sound(n)
  BY <1>1, <1>2, <1>3 DEF Sound, Consistent, DriverAgrees, OwnedOnce,
     Accounted, TakenAsSet, Elements
<1>5. QED
  BY <1>4 DEF n

LEMMA ResizeUnmappedSound ==
  ASSUME NEW c, Idle(c), c.fd
  PROVE  Sound(ResizeUnmapped(c))
  BY AllocateSound, IdleFlag, IdleSound DEF ResizeUnmapped

LEMMA StartSound ==
  ASSUME NEW c, Sound(c), NEW d \in FrameSizes
  PROVE  Sound(StartOp(c, d))
<1>1. CASE c.fd
  BY <1>1 DEF StartOp
<1>2. CASE ~c.fd
  <2> DEFINE o == [c EXCEPT !.fd = TRUE, !.active = d, !.size = d]
  <2>1. Idle(c) /\ c \in Camera
    BY <1>2, UnmappedIsIdle DEF Sound, Consistent
  <2>2. Idle(o) /\ o.fd
    BY <2>1, IdleOpened
  <2>3. Sound(Opened(c, d))
    BY <2>2, ResizeUnmappedSound DEF Opened
  <2>4. Sound([Opened(c, d) EXCEPT !.resizeAfterOpen = TRUE])
    BY <2>3, FlagSound
  <2>5. QED
    BY <1>2, <2>3, <2>4 DEF StartOp
<1>3. QED
  BY <1>1, <1>2

LEMMA RestartSound ==
  ASSUME NEW c, Consistent(c), NEW d \in FrameSizes
  PROVE  Sound(RestartOp(c, d))
  BY StopIdle, IdleSound, StartSound DEF RestartOp

LEMMA FormatChangeSound ==
  ASSUME NEW c, Consistent(c), NEW new \in Formats, NEW d \in FrameSizes
  PROVE  Sound(FormatChangeOp(c, new, d))
<1>1. Idle([StopOp(c) EXCEPT !.format = new])
  BY StopIdle, IdleFormat
<1>2. QED
  BY <1>1, IdleSound, StartSound DEF FormatChangeOp

(* The deepest of them: memory is unmapped and granted anew only when no    *)
(* frame in it waits to be sent.                                            *)
LEMMA ResizeSound ==
  ASSUME NEW c, Consistent(c), ReadyToResize(c),
         NEW t \in Sizes \cup {NoSignal}, NEW d \in FrameSizes
  PROVE  Sound(ResizeOp(c, t, d))
<1>1. CASE ~c.fd
  BY <1>1 DEF ResizeOp, Sound, Consistent, Accounted
<1>2. CASE c.fd /\ c.mapped = {}
  BY <1>2, UnmappedIsIdle, ResizeUnmappedSound DEF ResizeOp
<1>3. CASE c.fd /\ c.resizeAfterOpen /\ c.mapped # {}
  <2>1. Sound(c)
    BY <1>3 DEF ReadyToResize, Sound
  <2>2. QED
    BY <1>3, <2>1, FlagSound DEF ResizeOp, ResizeUnmapped
<1>4. CASE c.fd /\ ~c.resizeAfterOpen /\ c.mapped # {}
  <2> DEFINE off == Unmap(StreamOff(c))
  <2>1. Idle(off) /\ off.fd
    BY <1>4, OffFields DEF ReadyToResize, Consistent, Idle
  <2> HIDE DEF off
  <2>2. CASE t = NoSignal
    <3>1. Sound(RestartOp(off, d))
      BY <2>1, IdleSound, RestartSound DEF Sound
    <3>2. QED
      BY <1>4, <2>2, <3>1 DEF ResizeOp, off
  <2>3. CASE t # NoSignal
    <3> DEFINE n == [off EXCEPT !.active = t]
    <3>1. t \in FrameSizes
      BY <2>3 DEF FrameSizes
    <3>2. Idle(n) /\ n.fd
      BY <2>1, <3>1, IdleTimings
    <3>3. Sound(Allocate(n))
      BY <3>2, AllocateSound
    <3>4. QED
      BY <1>4, <2>3, <3>3 DEF ResizeOp, off
  <2>4. QED
    BY <2>2, <2>3
<1>5. QED
  BY <1>1, <1>2, <1>3, <1>4

LEMMA AdoptSizeReady ==
  ASSUME NEW c, Consistent(c), ~c.resizeAfterOpen, NEW t \in Sizes
  PROVE  Consistent(AdoptSize(c, t)) /\ ReadyToResize(AdoptSize(c, t))
<1> DEFINE n == AdoptSize(c, t)
<1>1. /\ n \in Camera /\ n.done = <<>>
      /\ n.fd = c.fd /\ n.format = c.format /\ n.active = c.active
      /\ n.mapped = c.mapped /\ n.queued = c.queued /\ n.lost = c.lost
      /\ n.incoming = c.incoming /\ n.outgoing = c.outgoing
      /\ n.flawed = c.flawed /\ n.frame = c.frame
      /\ n.resizeAfterOpen = c.resizeAfterOpen
  <2>1. <<>> \in Seq(Buffers) /\ t \in FrameSizes /\ c \in Camera
    BY DEF FrameSizes, Consistent
  <2>2. QED
    BY <2>1, AdoptFields DEF AdoptSize
<1> HIDE DEF n
<1>2. Elements(n.done) = {} /\ Len(n.done) = 0
  BY <1>1 DEF Elements
<1>3. Consistent(n) /\ ReadyToResize(n)
  BY <1>1, <1>2 DEF ReadyToResize, Consistent, DriverAgrees, OwnedOnce,
     TakenAsSet
<1>4. QED
  BY <1>3 DEF n

-----------------------------------------------------------------------------
(* qbuf() of a buffer that is nobody's.                                     *)
LEMMA QbufSound ==
  ASSUME NEW c, Consistent(c), NEW b \in c.mapped, NEW ok \in BOOLEAN,
         b \notin c.queued, b \notin Elements(c.done),
         c.mapped \subseteq Elements(c.done) \cup c.queued \cup c.lost \cup {b}
  PROVE  Sound(Qbuf(c, b, ok))
<1> DEFINE n == Qbuf(c, b, ok)
<1>1. /\ n \in Camera /\ n.done = c.done
      /\ n.fd = c.fd /\ n.format = c.format /\ n.active = c.active
      /\ n.mapped = c.mapped /\ n.outgoing = c.outgoing
      /\ n.flawed = c.flawed /\ n.frame = c.frame
  BY DEF Qbuf, Consistent, Camera
<1>2. IF ok THEN /\ n.queued = c.queued \cup {b}
                 /\ n.incoming = c.incoming \cup {b}
                 /\ n.lost = c.lost
      ELSE /\ n.queued = c.queued
           /\ n.incoming = c.incoming
           /\ n.lost = c.lost \cup {b}
  BY DEF Qbuf, Consistent, Camera
<1> HIDE DEF n
<1>3. DriverAgrees(n)
  BY <1>1, <1>2 DEF DriverAgrees, Consistent
<1>4. OwnedOnce(n)
  BY <1>1, <1>2 DEF OwnedOnce, Consistent
<1>5. Accounted(n)
  BY <1>1, <1>2 DEF Accounted
<1>6. TakenAsSet(n, Elements(n.done) \cup n.outgoing)
  BY <1>1 DEF TakenAsSet, Consistent
<1>7. QED
  BY <1>1, <1>3, <1>4, <1>5, <1>6 DEF Sound, Consistent, n

LEMMA ReleaseSound ==
  ASSUME NEW c, Sound(c), NEW ok \in BOOLEAN
  PROVE  Sound(ReleaseFramesOp(c, ok))
<1>1. CASE c.done = <<>>
  BY <1>1 DEF ReleaseFramesOp
<1>2. CASE c.done # <<>>
  <2> DEFINE b == Head(c.done)
             p == [c EXCEPT !.done = Tail(@)]
  <2>1. c.done \in Seq(Buffers) /\ Len(c.done) > 0
    BY <1>2 DEF Sound, Consistent, Camera
  <2>2. /\ Tail(c.done) \in Seq(Buffers)
        /\ Len(Tail(c.done)) = Len(c.done) - 1
        /\ \A i \in 1..Len(Tail(c.done)) : Tail(c.done)[i] = c.done[i + 1]
        /\ b = c.done[1]
    BY <2>1
  <2>3. /\ Elements(c.done) = Elements(Tail(c.done)) \cup {b}
        /\ b \notin Elements(Tail(c.done))
    <3>1. Elements(c.done) \subseteq Elements(Tail(c.done)) \cup {b}
      <4> SUFFICES ASSUME NEW i \in 1..Len(c.done)
                   PROVE  c.done[i] \in Elements(Tail(c.done)) \cup {b}
        BY DEF Elements
      <4>1. CASE i = 1
        BY <4>1, <2>2
      <4>2. CASE i # 1
        <5>1. i - 1 \in 1..Len(Tail(c.done)) /\ (i - 1) + 1 = i
          BY <4>2, <2>1, <2>2
        <5>2. Tail(c.done)[i - 1] = c.done[i]
          BY <5>1, <2>2
        <5>3. QED
          BY <5>1, <5>2 DEF Elements
      <4>3. QED
        BY <4>1, <4>2
    <3>2. Elements(Tail(c.done)) \cup {b} \subseteq Elements(c.done)
      BY <2>1, <2>2 DEF Elements
    <3>3. b \notin Elements(Tail(c.done))
      BY <2>1, <2>2 DEF Elements, Sound, Consistent, OwnedOnce
    <3>4. QED
      BY <3>1, <3>2, <3>3
  <2>4. \A i, j \in 1..Len(Tail(c.done)) :
            Tail(c.done)[i] = Tail(c.done)[j] => i = j
    BY <2>1, <2>2 DEF Sound, Consistent, OwnedOnce
  <2>5. p \in Camera /\ p.done = Tail(c.done)
    BY <2>1, <2>2 DEF Sound, Consistent, Camera
  <2>6. Consistent(p)
    BY <2>3, <2>4, <2>5 DEF Sound, Consistent, DriverAgrees, OwnedOnce,
       TakenAsSet, Camera
  <2>7. /\ b \in p.mapped /\ b \notin p.queued /\ b \notin Elements(p.done)
        /\ p.mapped \subseteq
             Elements(p.done) \cup p.queued \cup p.lost \cup {b}
    BY <2>3, <2>5 DEF Sound, Consistent, OwnedOnce, Accounted, Camera
  <2>8. Sound(Qbuf(p, b, ok))
    BY <2>6, <2>7, QbufSound
  <2>9. QED
    BY <1>2, <2>8 DEF ReleaseFramesOp
<1>3. QED
  BY <1>1, <1>2

LEMMA DequeueSound ==
  ASSUME NEW c, Sound(c), NEW b \in c.outgoing, NEW ok \in BOOLEAN
  PROVE  Sound(DequeueOp(c, b, ok))
<1> DEFINE q == Dequeued(c, b)
<1>1. /\ Consistent(q) /\ b \in q.mapped /\ b \notin q.queued
      /\ b \notin Elements(q.done) /\ q.done = c.done
      /\ q.mapped \subseteq Elements(q.done) \cup q.queued \cup q.lost \cup {b}
      /\ q.frame[b] = [size |-> q.active, format |-> q.format]
  <2>1. c \in Camera /\ b \in c.queued /\ b \in c.mapped /\ b \notin Elements(c.done)
    BY DEF Sound, Consistent, DriverAgrees, OwnedOnce
  <2>2. /\ q \in Camera
        /\ q.queued = c.queued \ {b} /\ q.outgoing = c.outgoing \ {b}
        /\ q.flawed = c.flawed \ {b}
        /\ q.done = c.done /\ q.mapped = c.mapped /\ q.lost = c.lost
        /\ q.fd = c.fd /\ q.format = c.format /\ q.active = c.active
        /\ q.incoming = c.incoming /\ q.frame = c.frame
        /\ q.streaming = c.streaming
        /\ q.resizeAfterOpen = c.resizeAfterOpen
    BY <2>1 DEF Dequeued, Camera
  <2> HIDE DEF q
  <2>3. DriverAgrees(q) /\ OwnedOnce(q)
    BY <2>1, <2>2 DEF Sound, Consistent, DriverAgrees, OwnedOnce
  <2>4. Consistent(q)
    BY <2>2, <2>3 DEF Sound, Consistent, TakenAsSet
  <2>5. q.mapped \subseteq Elements(q.done) \cup q.queued \cup q.lost \cup {b}
    BY <2>2 DEF Sound, Accounted
  <2>6. q.frame[b] = [size |-> q.active, format |-> q.format]
    BY <2>2 DEF Sound, Consistent, TakenAsSet
  <2>7. QED
    BY <2>1, <2>2, <2>4, <2>5, <2>6
<1> HIDE DEF q
<1>2. CASE b \in c.flawed
  BY <1>1, <1>2, QbufSound DEF DequeueOp, q
<1>3. CASE b \notin c.flawed
  <2> DEFINE n == [q EXCEPT !.done = Append(@, b)]
  <2>1. q.done \in Seq(Buffers) /\ b \in Buffers
    BY <1>1 DEF Consistent, Camera
  <2>2. /\ Append(q.done, b) \in Seq(Buffers)
        /\ Len(Append(q.done, b)) = Len(q.done) + 1
        /\ \A i \in 1..Len(q.done) : Append(q.done, b)[i] = q.done[i]
        /\ Append(q.done, b)[Len(q.done) + 1] = b
    BY <2>1
  <2>3. Elements(Append(q.done, b)) = Elements(q.done) \cup {b}
    BY <2>1, <2>2 DEF Elements
  <2>4. \A i, j \in 1..Len(Append(q.done, b)) :
            Append(q.done, b)[i] = Append(q.done, b)[j] => i = j
    BY <1>1, <2>1, <2>2 DEF Elements, Consistent, OwnedOnce
  <2>5. /\ n \in Camera /\ n.done = Append(q.done, b)
        /\ n.fd = q.fd /\ n.format = q.format /\ n.active = q.active
        /\ n.mapped = q.mapped /\ n.queued = q.queued /\ n.lost = q.lost
        /\ n.incoming = q.incoming /\ n.outgoing = q.outgoing
        /\ n.flawed = q.flawed /\ n.frame = q.frame
    BY <1>1, <2>2 DEF Consistent, Camera
  <2> HIDE DEF n
  <2>6. Sound(n)
    BY <1>1, <2>3, <2>4, <2>5 DEF Sound, Consistent, DriverAgrees,
       OwnedOnce, Accounted, TakenAsSet
  <2>7. QED
    BY <1>3, <2>6 DEF DequeueOp, n, q
<1>4. QED
  BY <1>2, <1>3

(* The driver fills only what it was given.                                 *)
LEMMA FilledSound ==
  ASSUME NEW c, Consistent(c), NEW b \in c.incoming, NEW flawed \in BOOLEAN
  PROVE  /\ Consistent(Filled(c, b, flawed))
         /\ Accounted(c) => Accounted(Filled(c, b, flawed))
         /\ ReadyToResize(c) => ReadyToResize(Filled(c, b, flawed))
<1> DEFINE n == Filled(c, b, flawed)
           f == [size |-> c.active, format |-> c.format]
<1>1. b \in Buffers /\ f \in [size : FrameSizes, format : Formats]
  BY DEF Consistent, Camera
<1>2. /\ n \in Camera /\ n.done = c.done
      /\ n.fd = c.fd /\ n.format = c.format /\ n.active = c.active
      /\ n.mapped = c.mapped /\ n.queued = c.queued /\ n.lost = c.lost
      /\ n.resizeAfterOpen = c.resizeAfterOpen
      /\ n.incoming = c.incoming \ {b} /\ n.outgoing = c.outgoing \cup {b}
      /\ n.flawed = IF flawed THEN c.flawed \cup {b} ELSE c.flawed
      /\ n.frame = [c.frame EXCEPT ![b] = f]
  BY <1>1 DEF Filled, Consistent, Camera
<1> HIDE DEF n
<1>3. b \notin Elements(c.done) /\ b \notin c.outgoing
  BY DEF Consistent, DriverAgrees, OwnedOnce
<1>4. TakenAsSet(n, Elements(n.done) \cup n.outgoing)
  BY <1>1, <1>2, <1>3 DEF TakenAsSet, Consistent, Camera
<1>5. DriverAgrees(n) /\ OwnedOnce(n)
  BY <1>2, <1>3 DEF DriverAgrees, OwnedOnce, Consistent
<1>6. Accounted(c) => Accounted(n)
  BY <1>2 DEF Accounted
<1>7. ReadyToResize(c) => ReadyToResize(n)
  BY <1>2 DEF Accounted, ReadyToResize
<1>8. QED
  BY <1>2, <1>4, <1>5, <1>6, <1>7 DEF Consistent, n
=============================================================================
