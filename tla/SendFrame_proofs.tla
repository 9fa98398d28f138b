--------------------------- MODULE SendFrame_proofs ---------------------------
(***************************************************************************)
(* With any clients, the frames on their way are a queue (FrameQueue).      *)
(* With one client at a time, whichever it is and however often clients     *)
(* change, sendFrame() keeps a whole frame from a client only if it shows   *)
(* that frame: the first refusal of a frame then ends the iteration, before *)
(* the data pointer it took can be used again.  The code does not keep to   *)
(* one client; what it does with two, SendFrameShared.cfg shows.            *)
(***************************************************************************)
EXTENDS SendFrame, SequenceTheorems, FiniteSetTheorems, TLAPS

(* Within a call of sendFrame() the data pointer is of a buffer, and so is   *)
(* the index while a client is sent to.                                     *)
Bound ==
    /\ pc \in {"visit", "reget", "sending"} => data \in Buffers
    /\ pc = "sending" => current \in Clients /\ front \in Buffers

TInv == TypeOK /\ Bound

Alone == \A c, d \in linked : c = d

(* Clients are left to visit only between the steps of the iteration, and   *)
(* then no frame of this call was refused or sent yet.                      *)
Untouched ==
    todo # {} => /\ pc = "visit"
                 /\ buffersDone # <<>>
                 /\ data = Head(buffersDone)
                 /\ frame_crc = NoCrc

(* What is being sent is the front frame, and its CRC has been noted.       *)
Sending ==
    pc = "sending" => /\ buffersDone # <<>>
                      /\ data = Head(buffersDone)
                      /\ front = data
                      /\ current \in linked
                      /\ CalcCRC => last_crc[current] = memory[data].pixels

WholeFromTheLeft ==
    \A b \in Buffers : memory[b].pixels \in Screens => memory[b].left = 1

(* A client whose noted CRC is of a whole screen shows that screen.         *)
CrcShown ==
    \A c \in Clients :
        last_crc[c] \in Screens /\ ~(pc = "sending" /\ c = current)
        => view[c] = last_crc[c]

NoCrcs == ~CalcCRC => \A c \in Clients : last_crc[c] = NoCrc

IInv ==
    /\ TInv /\ Alone /\ Untouched /\ Sending
    /\ WholeFromTheLeft /\ CrcShown /\ NoCrcs

-----------------------------------------------------------------------------
LEMMA NoCrcIsNoScreen == NoCrc \notin Screens
<1>1. 1 \in Strips
  BY SendFrameAssumption DEF Strips
<1>2. \A f \in Screens : 1 \in DOMAIN f
  BY <1>1 DEF Screens
<1>3. DOMAIN <<>> = {}
  OBVIOUS
<1> QED BY <1>2, <1>3 DEF NoCrc

(* The picture drawn by a frame is a picture, and the frame itself if that  *)
(* is of the whole screen.                                                  *)
LEMMA PaintType ==
    ASSUME NEW picture \in Pictures, NEW f \in Frames
    PROVE  Paint(picture, f.left, f.pixels) \in Pictures
<1>1. \A n \in DOMAIN f.pixels : f.pixels[n] \in Pixels
  <2>1. CASE f.pixels = <<>>
    BY <2>1
  <2>2. CASE f.pixels \in Data
    <3>1. PICK n \in Strips : f.pixels \in [1..n -> Pixels]
      BY <2>2 DEF Data
    <3> QED BY <3>1
  <2> QED BY <2>1, <2>2 DEF Frames
<1>2. \A p \in Strips : picture[p] \in Pixels \cup {Blank}
  BY DEF Pictures
<1> QED BY <1>1, <1>2 DEF Paint, Pictures

LEMMA PaintWhole ==
    ASSUME NEW picture \in Pictures, NEW pixels \in Screens
    PROVE  Paint(picture, 1, pixels) = pixels
<1>1. \A p \in Strips : p - 1 + 1 = p
  BY SendFrameAssumption DEF Strips
<1>2. DOMAIN pixels = Strips
  BY DEF Screens
<1>3. Paint(picture, 1, pixels) = [p \in Strips |-> pixels[p]]
  BY <1>1, <1>2 DEF Paint
<1> QED BY <1>3 DEF Screens

LEMMA FrameOfType ==
    ASSUME screen \in Screens, NEW lo \in Strips, NEW hi \in Strips, lo <= hi
    PROVE  /\ FrameOf(<<lo, hi>>) \in Frames
           /\ FrameOf(<<lo, hi>>).pixels \in Screens
              => FrameOf(<<lo, hi>>).left = 1
<1> DEFINE k == hi - lo + 1
           f == [n \in 1..k |-> screen[lo + n - 1]]
<1>1. /\ lo \in Int /\ hi \in Int /\ 1 <= lo /\ hi <= Width /\ Width \in Nat
      /\ k \in Strips
  BY SendFrameAssumption DEF Strips
<1>2. \A n \in 1..k : lo + n - 1 \in Strips
  BY <1>1 DEF Strips
<1>3. f \in [1..k -> Pixels]
  BY <1>2 DEF Screens
<1>4. f \in Data
  BY <1>1, <1>3 DEF Data
<1>5. FrameOf(<<lo, hi>>) = [left |-> lo, pixels |-> f]
  BY DEF FrameOf
<1>6. ASSUME f \in Screens PROVE lo = 1
  <2>1. DOMAIN f = Strips
    BY <1>6 DEF Screens
  <2>2. 1..k = 1..Width
    BY <2>1 DEF Strips
  <2>3. Width \in 1..Width
    BY SendFrameAssumption
  <2>4. Width \in 1..k
    BY <2>2, <2>3
  <2>5. Width <= k
    BY <2>4, <1>1
  <2> QED BY <2>5, <1>1
<1>7. [left |-> lo, pixels |-> f] \in Frames
  BY <1>4 DEF Frames
<1> HIDE DEF f
<1> QED BY <1>5, <1>6, <1>7

LEMMA HeadAndTail ==
    ASSUME NEW s \in Seq(Buffers), s # <<>>
    PROVE  /\ Head(s) \in Buffers
           /\ Head(s) \in Elements(s)
           /\ Tail(s) \in Seq(Buffers)
  BY DEF Elements

LEMMA ReleasedType ==
    ASSUME TypeOK
    PROVE  Released \in Seq(Buffers)
  BY HeadAndTail DEF Released, TypeOK

LEMMA InitType == Init => TInv
<1> SUFFICES ASSUME Init PROVE TInv
  OBVIOUS
<1>1. BlankView \in Pictures /\ 1 \in Strips
  BY SendFrameAssumption DEF BlankView, Pictures, Strips
<1>2. Cut \in Frames
  BY <1>1 DEF Cut, Frames
<1>3. NoCrc \in Crcs /\ 0 \in 0..FirstSkip /\ <<>> \in Seq(Buffers)
  BY SendFrameAssumption DEF Crcs
<1>4. TypeOK
  BY <1>1, <1>2, <1>3 DEF Init, TypeOK
<1> QED BY <1>4 DEF Init, TInv, Bound

(* What a step of sendFrame() may take for the CRC is one.                  *)
LEMMA FrameCrcsType ==
    ASSUME TypeOK, data \in Buffers, NEW i
    PROVE  FrameCrcs(i) \subseteq Crcs
<1>1. memory[data].pixels \in Data \cup {NoCrc}
  BY DEF TypeOK, Frames, NoCrc
<1>2. frame_crc \in Crcs
  BY DEF TypeOK
<1> QED BY <1>1, <1>2 DEF FrameCrcs, Crcs

LEMMA FrontsType ==
    ASSUME TypeOK
    PROVE  Fronts \subseteq Buffers
  BY HeadAndTail DEF Fronts, TypeOK

LEMMA GetFrameType ==
    ASSUME TInv, NEW from, NEW to \in {"send", "visit"}, GetFrame(from, to),
           to = "visit" => from = "reget"
    PROVE  TInv'
<1>1. buffersDone' \in Seq(Buffers) /\ filled' \in Seq(Buffers)
  <2>1. CASE UNCHANGED <<buffersDone, filled>>
    BY <2>1 DEF TInv, TypeOK
  <2>2. ASSUME NEW n \in 1..Len(filled),
               buffersDone' = SubSeq(filled, 1, n),
               filled' = SubSeq(filled, n + 1, Len(filled))
        PROVE  buffersDone' \in Seq(Buffers) /\ filled' \in Seq(Buffers)
    BY <2>2 DEF TInv, TypeOK
  <2> QED BY <2>1, <2>2 DEF GetFrame
<1>2. TypeOK'
  BY <1>1 DEF TInv, TypeOK, GetFrame, Goto, clients, loop
<1> QED BY <1>2 DEF TInv, Bound, GetFrame, Goto, loop

LEMMA CaptureType ==
    ASSUME TInv, NEW frame \in Frames, CaptureFrame(frame)
    PROVE  TInv'
<1>1. PICK b \in Incoming :
            /\ memory' = [memory EXCEPT ![b] = frame]
            /\ filled' = Append(filled, b)
  BY DEF CaptureFrame
<1>2. b \in Buffers
  BY DEF Incoming
<1>3. memory' \in [Buffers -> Frames] /\ filled' \in Seq(Buffers)
  BY <1>1, <1>2 DEF TInv, TypeOK
<1>4. captured' \in Pictures
  BY DEF CaptureFrame, TInv, TypeOK, Screens, Pictures
<1> QED BY <1>3, <1>4 DEF TInv, TypeOK, Bound, CaptureFrame, clients, loop

LEMMA BoxFrameType ==
    ASSUME TypeOK, NEW box \in Boxes
    PROVE  /\ FrameOf(box) \in Frames
           /\ FrameOf(box).pixels \in Screens => FrameOf(box).left = 1
<1>1. /\ box = <<box[1], box[2]>> /\ box[1] \in Strips /\ box[2] \in Strips
      /\ box[1] <= box[2]
  BY DEF Boxes
<1> QED BY <1>1, FrameOfType DEF TypeOK

LEMMA CutIsFrame == Cut \in Frames /\ Cut.pixels \notin Screens
<1>1. 1 \in Strips
  BY SendFrameAssumption DEF Strips
<1> QED BY <1>1, NoCrcIsNoScreen DEF Cut, Frames, NoCrc

LEMMA NextType ==
    ASSUME TInv, [Next]_vars
    PROVE  TInv'
<1>1. CASE BeginRound
  BY <1>1, GetFrameType DEF BeginRound
<1>2. CASE Stop
  <2>1. Cut \in Frames /\ BlankView \in Pictures
    BY CutIsFrame DEF BlankView, Pictures
  <2> QED BY <1>2, <2>1 DEF Stop, TInv, TypeOK, Bound, clients, loop
<1>3. CASE BeginSend
  <2>1. Released \in Seq(Buffers)
    BY ReleasedType DEF TInv
  <2>2. buffersDone # <<>> => Head(buffersDone) \in Buffers
    BY HeadAndTail DEF TInv, TypeOK
  <2>3. NoCrc \in Crcs
    BY DEF Crcs
  <2>4. TypeOK'
    BY <1>3, <2>1, <2>2, <2>3
       DEF BeginSend, Goto, TInv, TypeOK, clients, loop, driver
  <2> QED BY <1>3, <2>2, <2>4 DEF BeginSend, Goto, TInv, Bound, loop
<1>4. ASSUME NEW c \in Clients, SkipFrameOf(c)
      PROVE  TInv'
  <2>1. skipFrame' \in [Clients -> 0..FirstSkip]
    BY <1>4, SendFrameAssumption DEF SkipFrameOf, TInv, TypeOK
  <2> QED BY <1>4, <2>1
          DEF SkipFrameOf, Visit, TInv, TypeOK, Bound, driver
<1>5. ASSUME NEW c \in Clients, PassOver(c)
      PROVE  TInv'
  BY <1>5 DEF PassOver, Visit, TInv, TypeOK, Bound, clients, driver
<1>6. ASSUME NEW c \in Clients, RefuseCut(c)
      PROVE  TInv'
  BY <1>6, ReleasedType
     DEF RefuseCut, Visit, TInv, TypeOK, Bound, clients, driver
<1>7. ASSUME NEW c \in Clients, RefuseSame(c)
      PROVE  TInv'
  BY <1>7, ReleasedType
     DEF RefuseSame, Visit, TInv, TypeOK, Bound, clients, driver
<1>8. ASSUME NEW c \in Clients, Serve(c)
      PROVE  TInv'
  <2>1. PICK i \in Fronts :
            /\ IF CalcCRC
               THEN \E crc \in FrameCrcs(i) \ {last_crc[c]} :
                       /\ frame_crc' = crc
                       /\ last_crc' = [last_crc EXCEPT ![c] = crc]
               ELSE UNCHANGED <<frame_crc, last_crc>>
            /\ front' = i
    BY <1>8 DEF Serve
  <2>2. i \in Buffers
    BY <2>1, FrontsType DEF TInv
  <2>3. FrameCrcs(i) \subseteq Crcs
    BY <1>8, FrameCrcsType DEF Serve, Visit, TInv, Bound
  <2>4. frame_crc' \in Crcs /\ last_crc' \in [Clients -> Crcs]
    BY <2>1, <2>3 DEF TInv, TypeOK
  <2>5. TypeOK'
    BY <1>8, <2>1, <2>2, <2>4 DEF Serve, Visit, TInv, TypeOK, driver
  <2> QED BY <1>8, <2>1, <2>2, <2>5 DEF Serve, Visit, TInv, Bound
<1>9. CASE GetFrame("reget", "visit")
  BY <1>9, GetFrameType
<1>10. CASE Send
  <2>1. /\ current \in Clients /\ view[current] \in Pictures
        /\ memory[front] \in Frames /\ memory[data] \in Frames
    BY <1>10 DEF Send, Goto, TInv, TypeOK, Bound
  <2>2. memory[front].left \in Strips
    BY <2>1 DEF Frames
  <2>3. [left |-> memory[front].left, pixels |-> memory[data].pixels] \in Frames
    BY <2>1, <2>2 DEF Frames
  <2>4. Paint(view[current], memory[front].left, memory[data].pixels)
          \in Pictures
    BY <2>1, <2>3, PaintType
  <2>5. view' \in [Clients -> Pictures]
    BY <1>10, <2>1, <2>4 DEF Send, TInv, TypeOK
  <2> QED BY <1>10, <2>5 DEF Send, Goto, TInv, TypeOK, Bound, clients, driver
<1>11. CASE EndSend
  <2>1. buffersDone' \in Seq(Buffers)
    BY <1>11, ReleasedType DEF EndSend, TInv, TypeOK
  <2>2. memory' \in [Buffers -> Frames] /\ NoCrc \in Crcs
    BY <1>11, CutIsFrame DEF EndSend, Return, TInv, TypeOK, Crcs
  <2> QED BY <1>11, <2>1, <2>2
          DEF EndSend, Return, Goto, TInv, TypeOK, Bound, clients
<1>12. ASSUME NEW c \in Clients, NewClient(c)
       PROVE  TInv'
  <2>1. BlankView \in Pictures /\ NoCrc \in Crcs /\ FirstSkip \in 0..FirstSkip
    BY SendFrameAssumption DEF BlankView, Pictures, Crcs
  <2> QED BY <1>12, <2>1 DEF NewClient, TInv, TypeOK, Bound, loop, driver
<1>13. ASSUME NEW c \in Clients, ClientGone(c)
       PROVE  TInv'
  <2>1. BlankView \in Pictures /\ NoCrc \in Crcs /\ 0 \in 0..FirstSkip
    BY SendFrameAssumption DEF BlankView, Pictures, Crcs
  <2> QED BY <1>13, <2>1 DEF ClientGone, TInv, TypeOK, Bound, driver
<1>14. ASSUME NEW c \in Clients, RequestUpdate(c)
       PROVE  TInv'
  BY <1>14 DEF RequestUpdate, TInv, TypeOK, Bound, loop, driver
<1>15. CASE HostDraws
  BY <1>15 DEF HostDraws, TInv, TypeOK, Bound, clients, loop, driver
<1>16. CASE Capture
  BY <1>16, BoxFrameType, CaptureType DEF Capture, TInv
<1>17. CASE CaptureCut
  BY <1>17, CutIsFrame, CaptureType DEF CaptureCut
<1>18. CASE UNCHANGED vars
  BY <1>18 DEF vars, clients, loop, driver, TInv, TypeOK, Bound
<1> QED BY <1>1, <1>2, <1>3, <1>4, <1>5, <1>6, <1>7, <1>8, <1>9, <1>10, <1>11,
           <1>12, <1>13, <1>14, <1>15, <1>16, <1>17, <1>18 DEF Next, VideoStep

(* Every variable keeps its type, with any number of clients: in particular *)
(* skipFrame, which is a plain int, never runs below zero.                  *)
THEOREM TypeCorrect == Spec => []TypeOK
<1>1. Spec => []TInv
  BY InitType, NextType, PTL DEF Spec
<1>2. TInv => TypeOK
  BY DEF TInv
<1> QED BY <1>1, <1>2, PTL

-----------------------------------------------------------------------------
LEMMA InitInv == Init => IInv
<1> SUFFICES ASSUME Init PROVE IInv
  OBVIOUS
<1>1. TInv
  BY InitType
<1>2. WholeFromTheLeft
  BY DEF Init, WholeFromTheLeft, Cut
<1>3. CrcShown
  BY NoCrcIsNoScreen DEF Init, CrcShown
<1> QED BY <1>1, <1>2, <1>3 DEF Init, IInv, Alone, Untouched, Sending, NoCrcs

(* The one client there is is the last of the iteration, and sees the frame *)
(* that waits.                                                              *)
LEMMA OnlyVisit ==
    ASSUME IInv, NEW c \in Clients, Visit(c)
    PROVE  /\ todo' = {} /\ pc = "visit" /\ c \in linked
           /\ buffersDone # <<>> /\ data = Head(buffersDone)
           /\ Fronts = {data}
           /\ FrameCrcs(data) = {memory[data].pixels}
<1>1. todo = {c} /\ c \in linked
  BY DEF Visit, IInv, TInv, TypeOK, Alone
<1>2. /\ buffersDone # <<>> /\ data = Head(buffersDone)
      /\ frame_crc = NoCrc
  BY <1>1 DEF IInv, Untouched
<1> QED BY <1>1, <1>2 DEF Visit, Fronts, FrameCrcs

(* A buffer the driver writes to is not the one that waits in front.        *)
LEMMA CaptureInv ==
    ASSUME IInv, NEW frame \in Frames, CaptureFrame(frame),
           frame.pixels \in Screens => frame.left = 1
    PROVE  IInv'
<1>1. TInv'
  BY CaptureType DEF IInv
<1>2. PICK b \in Incoming : memory' = [memory EXCEPT ![b] = frame]
  BY DEF CaptureFrame
<1>3. b \in Buffers /\ memory \in [Buffers -> Frames]
  BY DEF Incoming, IInv, TInv, TypeOK
<1>4. Untouched'
  BY DEF CaptureFrame, loop, IInv, Untouched
<1>5. Sending'
  <2> SUFFICES ASSUME pc = "sending" PROVE Sending'
    BY DEF Sending, CaptureFrame
  <2>1. buffersDone # <<>> /\ data = Head(buffersDone) /\ data \in Buffers
    BY DEF IInv, Sending, TInv, Bound
  <2>2. data \in Elements(buffersDone)
    BY <2>1, HeadAndTail DEF IInv, TInv, TypeOK
  <2>3. memory'[data] = memory[data]
    BY <1>2, <1>3, <2>1, <2>2 DEF Incoming
  <2> QED BY <2>3 DEF Sending, IInv, CaptureFrame, loop, clients
<1>6. WholeFromTheLeft'
  BY <1>2, <1>3 DEF WholeFromTheLeft, IInv
<1> QED BY <1>1, <1>4, <1>5, <1>6
        DEF IInv, Alone, CrcShown, NoCrcs, CaptureFrame, clients, loop

LEMMA NextInv ==
    ASSUME OneAtATime, IInv, [Next]_vars
    PROVE  IInv'
<1>0. TInv'
  BY NextType DEF IInv
<1> USE <1>0 DEF IInv
<1>1. CASE BeginRound
  BY <1>1 DEF BeginRound, GetFrame, Goto, clients, loop, Alone, Untouched,
              Sending, WholeFromTheLeft, CrcShown, NoCrcs
<1>2. CASE Stop
  <2>1. WholeFromTheLeft'
    BY <1>2 DEF Stop, WholeFromTheLeft, Cut
  <2> QED BY <1>2, <2>1 DEF Stop, clients, loop, Alone, Untouched, Sending,
                            CrcShown, NoCrcs
<1>3. CASE BeginSend
  BY <1>3 DEF BeginSend, Goto, clients, loop, driver, Alone, Untouched,
              Sending, WholeFromTheLeft, CrcShown, NoCrcs
<1>4. ASSUME NEW c \in Clients, SkipFrameOf(c)
      PROVE  IInv'
  <2>1. todo' = {} /\ pc = "visit"
    BY <1>4, OnlyVisit DEF SkipFrameOf
  <2> QED BY <1>4, <2>1
          DEF SkipFrameOf, driver, Alone, Untouched, Sending,
              WholeFromTheLeft, CrcShown, NoCrcs
<1>5. ASSUME NEW c \in Clients, PassOver(c)
      PROVE  IInv'
  <2>1. todo' = {} /\ pc = "visit"
    BY <1>5, OnlyVisit DEF PassOver
  <2> QED BY <1>5, <2>1
          DEF PassOver, clients, driver, Alone, Untouched, Sending,
              WholeFromTheLeft, CrcShown, NoCrcs
<1>6. ASSUME NEW c \in Clients, RefuseCut(c) \/ RefuseSame(c)
      PROVE  IInv'
  <2>1. todo' = {} /\ pc = "visit"
    BY <1>6, OnlyVisit DEF RefuseCut, RefuseSame
  <2> QED BY <1>6, <2>1
          DEF RefuseCut, RefuseSame, clients, driver, Alone, Untouched,
              Sending, WholeFromTheLeft, CrcShown, NoCrcs
<1>7. ASSUME NEW c \in Clients, Serve(c)
      PROVE  IInv'
  <2>1. /\ todo' = {} /\ pc = "visit" /\ c \in linked
        /\ buffersDone # <<>> /\ data = Head(buffersDone)
        /\ Fronts = {data} /\ FrameCrcs(data) = {memory[data].pixels}
    BY <1>7, OnlyVisit DEF Serve
  <2>2. /\ front' = data
        /\ CalcCRC => last_crc' = [last_crc EXCEPT ![c] = memory[data].pixels]
        /\ ~CalcCRC => last_crc' = last_crc
    BY <1>7, <2>1 DEF Serve
  <2>3. last_crc \in [Clients -> Crcs]
    BY DEF TInv, TypeOK
  <2>4. Sending'
    BY <1>7, <2>1, <2>2, <2>3 DEF Serve, Sending, driver
  <2>5. CrcShown' /\ NoCrcs'
    BY <1>7, <2>1, <2>2, <2>3 DEF Serve, CrcShown, NoCrcs
  <2> QED BY <1>7, <2>1, <2>4, <2>5
          DEF Serve, driver, Alone, Untouched, WholeFromTheLeft
<1>8. CASE GetFrame("reget", "visit")
  BY <1>8 DEF GetFrame, Goto, clients, loop, Alone, Untouched, Sending,
              WholeFromTheLeft, CrcShown, NoCrcs
<1>9. CASE Send
  <2>1. /\ pc = "sending" /\ front = data /\ current \in Clients
        /\ data \in Buffers /\ view \in [Clients -> Pictures]
        /\ CalcCRC => last_crc[current] = memory[data].pixels
    BY <1>9 DEF Send, Goto, Sending, TInv, TypeOK, Bound
  <2>2. ASSUME last_crc[current] \in Screens
        PROVE  view'[current] = last_crc[current]
    <3>1. last_crc[current] = memory[data].pixels
      BY <2>1, <2>2, NoCrcIsNoScreen DEF NoCrcs
    <3>2. memory[front].left = 1
      BY <2>1, <2>2, <3>1 DEF WholeFromTheLeft
    <3>3. view'[current] = Paint(view[current], 1, memory[data].pixels)
      BY <1>9, <2>1, <3>2 DEF Send
    <3>4. Paint(view[current], 1, memory[data].pixels) = memory[data].pixels
      BY <2>1, <2>2, <3>1, PaintWhole
    <3> QED BY <3>1, <3>3, <3>4
  <2>3. \A c \in Clients \ {current} : view'[c] = view[c]
    BY <1>9, <2>1 DEF Send
  <2>4. CrcShown'
    BY <1>9, <2>1, <2>2, <2>3 DEF CrcShown, Send, Goto, clients
  <2> QED BY <1>9, <2>4 DEF Send, Goto, clients, driver, Alone, Untouched,
                            Sending, WholeFromTheLeft, NoCrcs
<1>10. CASE EndSend
  <2>1. WholeFromTheLeft'
    BY <1>10, CutIsFrame DEF EndSend, Return, WholeFromTheLeft
  <2> QED BY <1>10, <2>1 DEF EndSend, Return, Goto, clients, Alone, Untouched,
                             Sending, CrcShown, NoCrcs
<1>11. ASSUME NEW c \in Clients, NewClient(c)
       PROVE  IInv'
  <2>1. linked = {} /\ linked' = {c} /\ todo = {}
    BY <1>11 DEF NewClient, TInv, TypeOK
  <2>2. pc # "sending"
    BY <2>1 DEF Sending
  <2>3. last_crc' = [last_crc EXCEPT ![c] = NoCrc]
        /\ view' = [view EXCEPT ![c] = BlankView]
        /\ last_crc \in [Clients -> Crcs] /\ view \in [Clients -> Pictures]
    BY <1>11 DEF NewClient, TInv, TypeOK
  <2>4. CrcShown' /\ NoCrcs'
    BY <1>11, <2>2, <2>3, NoCrcIsNoScreen DEF NewClient, CrcShown, NoCrcs
  <2> QED BY <1>11, <2>1, <2>2, <2>4
          DEF NewClient, loop, driver, Alone, Untouched, Sending,
              WholeFromTheLeft
<1>12. ASSUME NEW c \in Clients, ClientGone(c)
       PROVE  IInv'
  <2>1. last_crc' = [last_crc EXCEPT ![c] = NoCrc]
        /\ view' = [view EXCEPT ![c] = BlankView]
        /\ last_crc \in [Clients -> Crcs] /\ view \in [Clients -> Pictures]
    BY <1>12 DEF ClientGone, TInv, TypeOK
  <2>2. CrcShown' /\ NoCrcs'
    BY <1>12, <2>1, NoCrcIsNoScreen DEF ClientGone, CrcShown, NoCrcs
  <2>3. Sending'
    BY <1>12, <2>1 DEF ClientGone, Sending, driver, TInv, Bound
  <2> QED BY <1>12, <2>2, <2>3
          DEF ClientGone, driver, Alone, Untouched, WholeFromTheLeft
<1>13. ASSUME NEW c \in Clients, RequestUpdate(c)
       PROVE  IInv'
  BY <1>13 DEF RequestUpdate, loop, driver, Alone, Untouched, Sending,
               WholeFromTheLeft, CrcShown, NoCrcs
<1>14. CASE HostDraws
  BY <1>14 DEF HostDraws, clients, loop, driver, Alone, Untouched, Sending,
               WholeFromTheLeft, CrcShown, NoCrcs
<1>15. CASE Capture
  BY <1>15, BoxFrameType, CaptureInv DEF Capture, TInv
<1>16. CASE CaptureCut
  BY <1>16, CutIsFrame, CaptureInv DEF CaptureCut
<1>17. CASE UNCHANGED vars
  BY <1>17 DEF vars, clients, loop, driver, Alone, Untouched, Sending,
               WholeFromTheLeft, CrcShown, NoCrcs
<1> QED BY <1>1, <1>2, <1>3, <1>4, <1>5, <1>6, <1>7, <1>8, <1>9, <1>10, <1>11,
           <1>12, <1>13, <1>14, <1>15, <1>16, <1>17 DEF Next, VideoStep

LEMMA Invariance == ASSUME OneAtATime PROVE Spec => []IInv
  BY InitInv, NextInv, PTL DEF Spec

(* With one client at a time, a frame of the whole screen that sendFrame()  *)
(* withholds for its CRC is what the client shows, whatever was sent, cut   *)
(* short, lost or withheld before and whatever clients there were.          *)
THEOREM OneClientWithheld ==
    ASSUME OneAtATime PROVE Spec => WithheldIsShown
<1>1. ASSUME IInv, NEW c \in Clients, RefuseSame(c), buffersDone # <<>>,
             GivenBack.pixels \in Screens
      PROVE  view[c] = GivenBack.pixels
  <2>1. /\ pc = "visit" /\ data = Head(buffersDone) /\ Fronts = {data}
        /\ FrameCrcs(data) = {memory[data].pixels}
    BY <1>1, OnlyVisit DEF RefuseSame
  <2>2. last_crc[c] = GivenBack.pixels
    BY <1>1, <2>1 DEF RefuseSame, GivenBack
  <2> QED BY <1>1, <2>1, <2>2 DEF IInv, CrcShown
<1>2. IInv /\ [Next]_vars
      => [\A c \in Clients :
            RefuseSame(c) /\ buffersDone # <<>> /\ GivenBack.pixels \in Screens
            => view[c] = GivenBack.pixels]_vars
  BY <1>1
<1> QED BY <1>2, Invariance, PTL DEF Spec, WithheldIsShown

-----------------------------------------------------------------------------
(* No buffer is pending twice: then a buffer the driver gives is none that  *)
(* sendFrame() has, and all pending ones fit in the device.                 *)
Distinct(s) == \A m, n \in 1..Len(s) : s[m] = s[n] => m = n

QInv == TInv /\ Distinct(Pending)

LEMMA ConcatFacts ==
    ASSUME NEW s \in Seq(Buffers), NEW t \in Seq(Buffers)
    PROVE  /\ s \o t \in Seq(Buffers)
           /\ Elements(s \o t) = Elements(s) \cup Elements(t)
           /\ \A b \in Buffers : s \o Append(t, b) = Append(s \o t, b)
           /\ s # <<>> => s \o t # <<>> /\ Tail(s) \o t = Tail(s \o t)
<1>1. /\ s \o t \in Seq(Buffers)
      /\ Len(s \o t) = Len(s) + Len(t)
      /\ \A i \in 1..Len(s) + Len(t) :
            (s \o t)[i] = IF i <= Len(s) THEN s[i] ELSE t[i - Len(s)]
  BY ConcatProperties
<1>2. Elements(s \o t) \subseteq Elements(s) \cup Elements(t)
  <2> SUFFICES ASSUME NEW i \in 1..Len(s) + Len(t)
               PROVE  (s \o t)[i] \in Elements(s) \cup Elements(t)
    BY <1>1 DEF Elements
  <2>1. CASE i <= Len(s)
    BY <1>1, <2>1 DEF Elements
  <2>2. CASE ~(i <= Len(s))
    <3>1. i - Len(s) \in 1..Len(t)
      BY <2>2
    <3> QED BY <1>1, <2>2, <3>1 DEF Elements
  <2> QED BY <2>1, <2>2
<1>3. Elements(s) \cup Elements(t) \subseteq Elements(s \o t)
  <2>1. ASSUME NEW i \in 1..Len(s) PROVE s[i] \in Elements(s \o t)
    <3>1. i \in 1..Len(s) + Len(t) /\ (s \o t)[i] = s[i]
      BY <1>1
    <3> QED BY <1>1, <3>1 DEF Elements
  <2>2. ASSUME NEW i \in 1..Len(t) PROVE t[i] \in Elements(s \o t)
    <3>1. /\ Len(s) + i \in 1..Len(s) + Len(t)
          /\ (s \o t)[Len(s) + i] = t[i]
      BY <1>1
    <3> QED BY <1>1, <3>1 DEF Elements
  <2> QED BY <2>1, <2>2 DEF Elements
<1>4. ASSUME NEW b \in Buffers
      PROVE  s \o Append(t, b) = Append(s \o t, b)
  <2>1. <<b>> \in Seq(Buffers) /\ Append(t, b) = t \o <<b>>
    BY AppendIsConcat
  <2>2. Append(s \o t, b) = (s \o t) \o <<b>>
    BY <1>1, AppendIsConcat
  <2> QED BY <2>1, <2>2, ConcatAssociative
<1>5. ASSUME s # <<>>
      PROVE  s \o t # <<>> /\ Tail(s) \o t = Tail(s \o t)
  <2>1. /\ Len(s) \in Nat \ {0} /\ Tail(s) \in Seq(Buffers)
        /\ Len(Tail(s)) = Len(s) - 1
        /\ \A i \in 1..Len(Tail(s)) : Tail(s)[i] = s[i + 1]
    BY <1>5, HeadTailProperties, EmptySeq
  <2>2. s \o t # <<>>
    BY <1>1, <2>1, EmptySeq
  <2>3. /\ Tail(s \o t) \in Seq(Buffers)
        /\ Len(Tail(s \o t)) = Len(s) + Len(t) - 1
        /\ \A i \in 1..Len(Tail(s \o t)) : Tail(s \o t)[i] = (s \o t)[i + 1]
    BY <1>1, <2>2, HeadTailProperties
  <2>4. /\ Tail(s) \o t \in Seq(Buffers)
        /\ Len(Tail(s) \o t) = Len(s) - 1 + Len(t)
        /\ \A i \in 1..Len(s) - 1 + Len(t) :
              (Tail(s) \o t)[i] = IF i <= Len(s) - 1 THEN Tail(s)[i]
                                  ELSE t[i - (Len(s) - 1)]
    BY <2>1, ConcatProperties
  <2>5. ASSUME NEW i \in 1..Len(s) - 1 + Len(t)
        PROVE  (Tail(s) \o t)[i] = Tail(s \o t)[i]
    BY <1>1, <2>1, <2>3, <2>4
  <2> QED BY <2>2, <2>3, <2>4, <2>5, SeqEqual
<1> QED BY <1>1, <1>2, <1>3, <1>4, <1>5

LEMMA FramesInFacts ==
    ASSUME NEW s \in Seq(Buffers), NEW m
    PROVE  /\ Len(FramesIn(m, s)) = Len(s)
           /\ FramesIn(m, <<>>) = <<>>
           /\ s # <<>> => /\ FramesIn(m, s) # <<>>
                          /\ FramesIn(m, Tail(s)) = Tail(FramesIn(m, s))
           /\ \A b \in Buffers :
                 FramesIn(m, Append(s, b)) = Append(FramesIn(m, s), m[b])
<1> DEFINE V == {m[b] : b \in Buffers}
           f(r) == FramesIn(m, r)
<1>1. ASSUME NEW r \in Seq(Buffers)
      PROVE  /\ f(r) \in Seq(V) /\ Len(f(r)) = Len(r)
             /\ \A i \in 1..Len(r) : f(r)[i] = m[r[i]]
  <2>1. Len(r) \in Nat /\ \A i \in 1..Len(r) : r[i] \in Buffers
    BY LenProperties
  <2> QED BY <2>1 DEF FramesIn
<1> HIDE DEF f
<1>2. f(<<>>) = <<>>
  BY DEF FramesIn, f
<1>3. ASSUME s # <<>>
      PROVE  f(s) # <<>> /\ f(Tail(s)) = Tail(f(s))
  <2>1. /\ Len(s) \in Nat \ {0} /\ Tail(s) \in Seq(Buffers)
        /\ Len(Tail(s)) = Len(s) - 1
        /\ \A i \in 1..Len(Tail(s)) : Tail(s)[i] = s[i + 1]
    BY <1>3, HeadTailProperties, EmptySeq
  <2>2. f(s) # <<>>
    BY <1>1, <2>1, EmptySeq
  <2>3. /\ Tail(f(s)) \in Seq(V)
        /\ Len(Tail(f(s))) = Len(s) - 1
        /\ \A i \in 1..Len(Tail(f(s))) : Tail(f(s))[i] = f(s)[i + 1]
    BY <1>1, <2>2, HeadTailProperties
  <2>4. /\ f(Tail(s)) \in Seq(V) /\ Len(f(Tail(s))) = Len(s) - 1
        /\ \A i \in 1..Len(s) - 1 : f(Tail(s))[i] = m[Tail(s)[i]]
    BY <1>1, <2>1
  <2>5. ASSUME NEW i \in 1..Len(s) - 1
        PROVE  f(Tail(s))[i] = Tail(f(s))[i]
    BY <1>1, <2>1, <2>3, <2>4
  <2> QED BY <2>2, <2>3, <2>4, <2>5, SeqEqual
<1>4. ASSUME NEW b \in Buffers
      PROVE  f(Append(s, b)) = Append(f(s), m[b])
  <2>1. /\ Append(s, b) \in Seq(Buffers)
        /\ Len(Append(s, b)) = Len(s) + 1
        /\ \A i \in 1..Len(s) : Append(s, b)[i] = s[i]
        /\ Append(s, b)[Len(s) + 1] = b
    BY AppendProperties
  <2>2. /\ Append(f(s), m[b]) \in Seq(V)
        /\ Len(Append(f(s), m[b])) = Len(s) + 1
        /\ \A i \in 1..Len(s) : Append(f(s), m[b])[i] = f(s)[i]
        /\ Append(f(s), m[b])[Len(s) + 1] = m[b]
    <3>1. m[b] \in V /\ f(s) \in Seq(V) /\ Len(f(s)) = Len(s)
      BY <1>1
    <3> HIDE DEF V
    <3> QED BY <3>1, AppendProperties
  <2>3. /\ f(Append(s, b)) \in Seq(V) /\ Len(f(Append(s, b))) = Len(s) + 1
        /\ \A i \in 1..Len(s) + 1 : f(Append(s, b))[i] = m[Append(s, b)[i]]
    BY <1>1, <2>1
  <2>4. ASSUME NEW i \in 1..Len(s) + 1
        PROVE  f(Append(s, b))[i] = Append(f(s), m[b])[i]
    BY <1>1, <2>1, <2>2, <2>3
  <2> QED BY <2>2, <2>3, <2>4, SeqEqual
<1> QED BY <1>1, <1>2, <1>3, <1>4 DEF f

LEMMA FramesInSame ==
    ASSUME NEW s, NEW m, NEW n, \A b \in Elements(s) : m[b] = n[b]
    PROVE  FramesIn(m, s) = FramesIn(n, s)
  BY DEF FramesIn, Elements

LEMMA DistinctFacts ==
    ASSUME NEW s \in Seq(Buffers), Distinct(s)
    PROVE  /\ s # <<>> => Distinct(Tail(s))
           /\ \A b \in Buffers \ Elements(s) : Distinct(Append(s, b))
           /\ Len(s) <= Cardinality(Buffers)
<1>1. ASSUME s # <<>> PROVE Distinct(Tail(s))
  <2>1. /\ Len(s) \in Nat \ {0} /\ Len(Tail(s)) = Len(s) - 1
        /\ \A i \in 1..Len(Tail(s)) : Tail(s)[i] = s[i + 1]
    BY <1>1, HeadTailProperties, EmptySeq
  <2>2. \A i \in 1..Len(s) - 1 : i + 1 \in 1..Len(s)
    BY <2>1
  <2>3. ASSUME NEW i \in 1..Len(s) - 1, NEW j \in 1..Len(s) - 1,
               s[i + 1] = s[j + 1]
        PROVE  i = j
    <3>1. i + 1 = j + 1
      BY <2>2, <2>3 DEF Distinct
    <3> QED BY <3>1
  <2> QED BY <2>1, <2>3 DEF Distinct
<1>2. ASSUME NEW b \in Buffers \ Elements(s) PROVE Distinct(Append(s, b))
  <2>1. /\ Len(s) \in Nat /\ Len(Append(s, b)) = Len(s) + 1
        /\ \A i \in 1..Len(s) : Append(s, b)[i] = s[i]
        /\ Append(s, b)[Len(s) + 1] = b
    BY AppendProperties
  <2>2. \A i \in 1..Len(s) : s[i] # b
    BY DEF Elements
  <2>3. \A i \in 1..Len(s) + 1 : i \in 1..Len(s) \/ i = Len(s) + 1
    BY <2>1
  <2> QED BY <2>1, <2>2, <2>3 DEF Distinct
<1>3. Len(s) <= Cardinality(Buffers)
  <2>1. Len(s) \in Nat /\ s \in [1..Len(s) -> Buffers]
    BY LenProperties
  <2>2. s \in Injection(1..Len(s), Buffers)
    BY <2>1 DEF Distinct, Injection, IsInjective
  <2>3. Cardinality(1..Len(s)) <= Cardinality(Buffers)
    BY <2>2, SendFrameAssumption, FS_Injection
  <2>4. Cardinality(1..Len(s)) = IF 1 > Len(s) THEN 0 ELSE Len(s) - 1 + 1
    BY <2>1, FS_Interval
  <2>5. Cardinality(1..Len(s)) = Len(s)
    BY <2>1, <2>4
  <2> QED BY <2>3, <2>5
<1> QED BY <1>1, <1>2, <1>3

(* getFrame() moves frames within the queue.                                *)
LEMMA GetFrameQueue ==
    ASSUME TInv, NEW from, NEW to, GetFrame(from, to)
    PROVE  UNCHANGED <<Pending, memory, linked>>
<1>0. buffersDone \in Seq(Buffers) /\ filled \in Seq(Buffers)
  BY DEF TInv, TypeOK
<1>1. ASSUME buffersDone = <<>>, NEW n \in 1..Len(filled),
             buffersDone' = SubSeq(filled, 1, n),
             filled' = SubSeq(filled, n + 1, Len(filled))
      PROVE  Pending' = Pending
  <2>1. /\ 1 \in 1..Len(filled) + 1 /\ n \in (1 - 1)..Len(filled)
        /\ Len(filled) \in n..Len(filled)
    BY <1>0, LenProperties
  <2>2. SubSeq(filled, 1, n) \o SubSeq(filled, n + 1, Len(filled))
          = SubSeq(filled, 1, Len(filled))
    BY <1>0, <2>1, ConcatAdjacentSubSeq
  <2>3. SubSeq(filled, 1, Len(filled)) = filled
    BY <1>0, SubSeqFull
  <2>4. <<>> \o filled = filled
    BY <1>0, ConcatEmptySeq
  <2> QED BY <1>1, <2>2, <2>3, <2>4 DEF Pending
<1>2. CASE UNCHANGED <<buffersDone, filled>>
  BY <1>2 DEF Pending, GetFrame, clients
<1> QED BY <1>1, <1>2 DEF GetFrame, clients

(* A frame that is given back is the oldest.                                *)
LEMMA TakeQueue ==
    ASSUME QInv, buffersDone' \in {buffersDone, Released}, filled' = filled,
           \A b \in Elements(buffersDone') \cup Elements(filled) :
              memory'[b] = memory[b],
           UNCHANGED linked
    PROVE  Distinct(Pending)' /\ [Queue!Next]_(Queue!vars)
<1>0. buffersDone \in Seq(Buffers) /\ filled \in Seq(Buffers)
  BY DEF QInv, TInv, TypeOK
<1>1. Pending \in Seq(Buffers)
  BY <1>0, ConcatFacts DEF Pending
<1>2. \/ Pending' = Pending
      \/ Pending # <<>> /\ Pending' = Tail(Pending)
  BY <1>0, ConcatFacts DEF Pending, Released
<1>3. FramesIn(memory', Pending') = FramesIn(memory, Pending')
  <2>1. buffersDone' \in Seq(Buffers)
    BY <1>0, ReleasedType DEF QInv, TInv
  <2>2. Elements(Pending') = Elements(buffersDone') \cup Elements(filled)
    BY <1>0, <2>1, ConcatFacts DEF Pending
  <2> QED BY <2>2, FramesInSame
<1>4. Distinct(Pending)'
  <2>1. Distinct(Pending')
    BY <1>1, <1>2, DistinctFacts DEF QInv
  <2> QED BY <2>1 DEF Distinct
<1>5. CASE Pending' = Pending
  BY <1>3, <1>4, <1>5 DEF Queue!vars
<1>6. CASE Pending # <<>> /\ Pending' = Tail(Pending)
  <2>1. /\ FramesIn(memory, Pending) # <<>>
        /\ FramesIn(memory', Pending') = Tail(FramesIn(memory, Pending))
    BY <1>1, <1>3, <1>6, FramesInFacts
  <2>2. Queue!Take
    BY <2>1 DEF Queue!Take
  <2> QED BY <1>4, <2>2 DEF Queue!Next
<1> QED BY <1>2, <1>5, <1>6

(* A buffer that the driver fills was not pending.                          *)
LEMMA PutQueue ==
    ASSUME QInv, NEW frame \in Frames, CaptureFrame(frame)
    PROVE  Distinct(Pending)' /\ Queue!Put(frame)
<1>0. buffersDone \in Seq(Buffers) /\ filled \in Seq(Buffers)
  BY DEF QInv, TInv, TypeOK
<1>1. Pending \in Seq(Buffers)
      /\ Elements(Pending) = Elements(buffersDone) \cup Elements(filled)
  BY <1>0, ConcatFacts DEF Pending
<1>2. PICK b \in Buffers \ Elements(Pending) :
            /\ memory' = [memory EXCEPT ![b] = frame]
            /\ filled' = Append(filled, b)
  BY <1>1 DEF CaptureFrame, Incoming
<1>3. Pending' = Append(Pending, b)
  BY <1>0, <1>2, ConcatFacts DEF Pending, CaptureFrame
<1>4. Append(Pending, b) \in Seq(Buffers)
      /\ Len(Append(Pending, b)) = Len(Pending) + 1
  BY <1>1, AppendProperties
<1>5. Distinct(Append(Pending, b))
  BY <1>1, DistinctFacts DEF QInv
<1>6. Len(Pending) + 1 <= Cardinality(Buffers)
  BY <1>4, <1>5, DistinctFacts
<1>7. FramesIn(memory', Pending') = Append(FramesIn(memory, Pending), frame)
  <2>1. memory'[b] = frame /\ \A c \in Elements(Pending) : memory'[c] = memory[c]
    BY <1>1, <1>2 DEF QInv, TInv, TypeOK, Elements
  <2>2. FramesIn(memory', Pending) = FramesIn(memory, Pending)
    BY <2>1, FramesInSame
  <2>3. FramesIn(memory', Append(Pending, b))
          = Append(FramesIn(memory', Pending), memory'[b])
    BY <1>1, FramesInFacts
  <2> QED BY <1>3, <2>1, <2>2, <2>3
<1>8. Len(FramesIn(memory, Pending)) < Cardinality(Buffers)
  <2>1. Len(FramesIn(memory, Pending)) = Len(Pending) /\ Len(Pending) \in Nat
    BY <1>1, FramesInFacts, LenProperties
  <2>2. Cardinality(Buffers) \in Nat
    BY SendFrameAssumption, FS_CardinalityType
  <2> QED BY <1>6, <2>1, <2>2
<1>9. linked # {} /\ linked' = linked
  BY DEF CaptureFrame, clients
<1>10. Distinct(Pending)'
  BY <1>3, <1>5 DEF Distinct
<1> QED BY <1>7, <1>8, <1>9, <1>10 DEF Queue!Put

(* Without a client stop() forgets what was pending.                        *)
LEMMA ForgetQueue ==
    ASSUME Stop
    PROVE  Distinct(Pending)' /\ Queue!Forget
<1>1. Pending' = <<>>
  BY DEF Stop, Pending
<1>2. FramesIn(memory', Pending') = <<>> /\ Distinct(<<>>)
  BY <1>1 DEF FramesIn, Distinct
<1> QED BY <1>1, <1>2 DEF Stop, clients, Queue!Forget, Distinct

LEMMA WatchQueue ==
    ASSUME QInv, UNCHANGED <<Pending, memory>>
    PROVE  Distinct(Pending)' /\ [Queue!Next]_(Queue!vars)
<1>1. FramesIn(memory', Pending') = FramesIn(memory, Pending)
  OBVIOUS
<1>2. Distinct(Pending)'
  BY DEF QInv, Distinct
<1>3. CASE (linked # {})' = (linked # {})
  BY <1>1, <1>2, <1>3 DEF Queue!vars
<1>4. CASE (linked # {})' = ~(linked # {})
  BY <1>1, <1>2, <1>4 DEF Queue!Next, Queue!Watch
<1> QED BY <1>3, <1>4

LEMMA StepQueue ==
    ASSUME QInv, [Next]_vars
    PROVE  QInv' /\ [Queue!Next]_(Queue!vars)
<1>0. TInv'
  BY NextType DEF QInv
<1> SUFFICES Distinct(Pending)' /\ [Queue!Next]_(Queue!vars)
  BY <1>0 DEF QInv
<1>1. CASE BeginRound \/ GetFrame("reget", "visit")
  BY <1>1, GetFrameQueue, WatchQueue DEF BeginRound, QInv
<1>2. CASE Stop
  BY <1>2, ForgetQueue DEF Queue!Next
<1>3. CASE BeginSend \/ EndSend
  <2>1. \A b \in Elements(buffersDone') \cup Elements(filled) :
           memory'[b] = memory[b]
    <3>1. CASE BeginSend
      BY <3>1 DEF BeginSend, driver
    <3>2. CASE EndSend
      <4>1. Elements(buffersDone') \cup Elements(filled) \subseteq Buffers
        BY <1>0 DEF TInv, TypeOK, Elements, QInv
      <4> QED BY <3>2, <4>1 DEF EndSend, Return
    <3> QED BY <1>3, <3>1, <3>2
  <2>2. buffersDone' \in {buffersDone, Released} /\ UNCHANGED <<filled, linked>>
    BY <1>3 DEF BeginSend, EndSend, Return, clients, driver
  <2> QED BY <2>1, <2>2, TakeQueue
<1>4. ASSUME NEW c \in Clients, RefuseCut(c) \/ RefuseSame(c)
      PROVE  Distinct(Pending)' /\ [Queue!Next]_(Queue!vars)
  BY <1>4, TakeQueue DEF RefuseCut, RefuseSame, clients, driver
<1>5. ASSUME NEW c \in Clients, SkipFrameOf(c) \/ PassOver(c) \/ Serve(c)
      PROVE  Distinct(Pending)' /\ [Queue!Next]_(Queue!vars)
  BY <1>5, WatchQueue DEF SkipFrameOf, PassOver, Serve, driver, Pending
<1>6. ASSUME NEW c \in Clients,
             NewClient(c) \/ ClientGone(c) \/ RequestUpdate(c)
      PROVE  Distinct(Pending)' /\ [Queue!Next]_(Queue!vars)
  BY <1>6, WatchQueue DEF NewClient, ClientGone, RequestUpdate, driver, Pending
<1>7. CASE Send \/ HostDraws \/ UNCHANGED vars
  BY <1>7, WatchQueue DEF Send, HostDraws, vars, driver, Pending
<1>8. CASE Capture \/ CaptureCut
  <2>1. PICK frame \in Frames : CaptureFrame(frame)
    BY <1>8, BoxFrameType, CutIsFrame DEF Capture, CaptureCut, QInv, TInv
  <2> QED BY <2>1, PutQueue DEF Queue!Next
<1> QED BY <1>1, <1>2, <1>3, <1>4, <1>5, <1>6, <1>7, <1>8 DEF Next, VideoStep

(* The frames on their way to sendFrame() are a queue with the room of the  *)
(* driver's buffers, however many clients there are: a frame leaves only as *)
(* the oldest, and is not overwritten before it left.                       *)
THEOREM RefinesFrameQueue == Spec => ImplementsFrameQueue
<1>1. Init => QInv /\ Queue!Init
  <2> SUFFICES ASSUME Init PROVE QInv /\ Queue!Init
    OBVIOUS
  <2>1. Pending = <<>>
    BY DEF Init, Pending
  <2>2. FramesIn(memory, Pending) = <<>> /\ Distinct(Pending)
    BY <2>1 DEF FramesIn, Distinct
  <2> QED BY <2>2, InitType DEF QInv, Init, Queue!Init
<1>2. QInv /\ [Next]_vars => QInv' /\ [Queue!Next]_(Queue!vars)
  BY StepQueue
<1> QED BY <1>1, <1>2, PTL DEF Spec, ImplementsFrameQueue, Queue!Spec
=============================================================================
