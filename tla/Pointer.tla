------------------------------- MODULE Pointer -------------------------------
(***************************************************************************)
(* The pointer of class ikvm::Input (ikvm_input.cpp): the server thread      *)
(* turns the clients' pointer events into reports for the host and connects *)
(* and disconnects the HID gadget; the video thread sends a report of its   *)
(* own to wake the host, and changes the size by which the server thread    *)
(* scales a position (Video).  Only a write() is under ptrMutex; between    *)
(* its tries the mutex is free.                                             *)
(*                                                                         *)
(* Of the two coordinates x stands for both.  Each read of the size is of   *)
(* some whole value that it has: a screen without pixels ends the process.  *)
(***************************************************************************)
EXTENDS Input, Integers

CONSTANTS
    Xs,            \* what the clients may send for x
    Masks,         \* and for buttonMask
    Widths,        \* of the modes of the host
    Extent         \* SHRT_MAX + 1: positions of the HID pointer

ASSUME PointerAssumption ==
    /\ Xs \subseteq Nat
    /\ Masks \subseteq 0..31
    /\ Widths \subseteq Nat \ {0} /\ Widths # {}
    /\ Extent \in Nat \ {0}

VARIABLES
    pointerFd,       \* open
    pointerReport,   \* the bytes: buttons (0), position (1-4), wheel (5)
    width,           \* Video::getWidth()
    ppc,             \* of pointerEvent() or sendWakeupPacket(), by thread
    ptries,          \* writePointer()'s retryCount
    x,               \* pointerEvent()'s
    aimed,           \* the x that was last scaled, and the width it was by
    hostPointer,     \* the last report the host has
    pmissed          \* since the last pointerReport it got: the host was
                     \* sent another report, none, or reset

pthreads == <<ppc, ptries, x, aimed>>
phost == <<hostPointer, pmissed>>
pvars == <<pointerFd, pointerReport, width, watched, pthreads, phost>>

(* A position is a uint16_t, and Extent half of what that holds.            *)
Positions == 0..2 * Extent - 1
Reports == [buttons : 0..7, position : Positions, wheel : {0, 1, 255}]

NoPointer == [buttons |-> 0, position |-> 0, wheel |-> 0]
MiddlePointer == [NoPointer EXCEPT !.position = (Extent - 1) \div 2]

PointerTypeOK ==
    /\ pointerFd \in BOOLEAN
    /\ pointerReport \in Reports
    /\ width \in Widths
    /\ watched \in BOOLEAN
    /\ ppc \in [Threads -> {"idle", "scale", "write"}]
    /\ ptries \in [Threads -> 0..RetryMax]
    /\ x \in Xs \cup {0}
    /\ aimed \in [x : Xs \cup {0}, width : Widths]
    /\ hostPointer \in Reports
    /\ pmissed \in BOOLEAN

PointerInit ==
    /\ pointerFd = FALSE
    /\ pointerReport = NoPointer
    /\ width \in Widths
    /\ watched = FALSE
    /\ ppc = [t \in Threads |-> "idle"]
    /\ ptries = [t \in Threads |-> 0]
    /\ x = 0
    /\ aimed = [x |-> 0, width |-> width]
    /\ hostPointer = NoPointer
    /\ pmissed = FALSE

Pgoto(t, from, to) == ppc[t] = from /\ ppc' = [ppc EXCEPT ![t] = to]

(* The video thread's needsResize() finds the host in another mode.         *)
ChangeWidth ==
    /\ width' \in Widths \ {width}
    /\ UNCHANGED <<pointerFd, pointerReport, watched, pthreads, phost>>

-----------------------------------------------------------------------------
(* connect() for the first client, returning early when the gadget cannot   *)
(* be connected; disconnect() for the last.                                 *)
ConnectPointer ==
    /\ ~watched /\ ppc[Server] = "idle"
    /\ watched' = TRUE
    /\ pointerFd' \in BOOLEAN
    /\ hostPointer' = NoPointer
    /\ pmissed' = TRUE
    /\ UNCHANGED <<pointerReport, width, pthreads>>

DisconnectPointer ==
    /\ watched /\ ppc[Server] = "idle"
    /\ watched' = FALSE
    /\ pointerFd' = FALSE
    /\ hostPointer' = NoPointer
    /\ pmissed' = TRUE
    /\ UNCHANGED <<pointerReport, width, pthreads>>

Bit(mask, b) == (mask \div b) % 2

(* Left, middle and right of the mask; left, right and middle of the report.*)
Buttons(mask) ==
    IF mask > 4 THEN 0
    ELSE 2 * Bit(mask, 4) + 4 * Bit(mask, 2) + Bit(mask, 1)

(* Any other mask above 4 leaves the wheel as the last event had it.        *)
Wheel(mask, old) ==
    IF mask = 8 THEN 1 ELSE IF mask = 16 THEN 255
    ELSE IF mask > 4 THEN old ELSE 0

(* Faulty variant: an event outside of the screen is not sent.              *)
PointerEventInside(mask, newX) ==
    /\ watched /\ pointerFd
    /\ Pgoto(Server, "idle", IF newX < width THEN "scale" ELSE "idle")
    /\ x' = newX
    /\ pointerReport' = [pointerReport EXCEPT
                           !.buttons = Buttons(mask),
                           !.wheel = Wheel(mask, @)]
    /\ ptries' = [ptries EXCEPT ![Server] = RetryMax]
    /\ UNCHANGED <<pointerFd, width, watched, aimed, phost>>

(* pointerEvent(), up to the test of x.  Without an open device it returns. *)
PointerEvent(mask, newX) ==
    /\ watched /\ pointerFd
    /\ Pgoto(Server, "idle", IF newX < width THEN "scale" ELSE "write")
    /\ x' = newX
    /\ pointerReport' = [pointerReport EXCEPT
                           !.buttons = Buttons(mask),
                           !.wheel = Wheel(mask, @)]
    /\ ptries' = [ptries EXCEPT ![Server] = RetryMax]
    /\ UNCHANGED <<pointerFd, width, watched, aimed, phost>>

(* Faulty variant: scaled to the largest position, and one more.            *)
ScaledUp(n, w) == (((n + 1) * Extent) \div w) % (2 * Extent)

(* Faulty variant: in more than 16 bits.                                    *)
ScaledWide(n, w) == (n * Extent) \div w

Scaled(n, w) == ((n * Extent) \div w) % (2 * Extent)

(* The width is read again to scale x by it.                                *)
ScaleX ==
    /\ Pgoto(Server, "scale", "write")
    /\ pointerReport' = [pointerReport EXCEPT !.position = Scaled(x, width)]
    /\ aimed' = [x |-> x, width |-> width]
    /\ UNCHANGED <<pointerFd, width, watched, ptries, x, phost>>

-----------------------------------------------------------------------------
(* Faulty variant: the count starts anew when it has run out.               *)
WriteForever(t, report, lost) ==
    /\ ppc[t] = "write"
    /\ \/ /\ pointerFd
          /\ Pgoto(t, "write", "idle")
          /\ hostPointer' = report
          /\ pmissed' = lost
          /\ ptries' = [ptries EXCEPT ![t] = 0]
       \/ /\ pointerFd
          /\ ptries' = [ptries EXCEPT ![t] = IF @ > 1 THEN @ - 1 ELSE RetryMax]
          /\ UNCHANGED <<ppc, phost>>
       \/ /\ Pgoto(t, "write", "idle")
          /\ pmissed' = TRUE
          /\ ptries' = [ptries EXCEPT ![t] = 0]
          /\ UNCHANGED hostPointer
    /\ UNCHANGED <<pointerFd, pointerReport, width, watched, x, aimed>>

(* One try of writePointer(report): success, which also tells a report of   *)
(* pointerReport from another; EAGAIN, to try again while tries are left;   *)
(* any other error, or the last EAGAIN, ends it.                            *)
WritePointer(t, report, lost) ==
    /\ ppc[t] = "write"
    /\ \/ /\ pointerFd
          /\ Pgoto(t, "write", "idle")
          /\ hostPointer' = report
          /\ pmissed' = lost
          /\ ptries' = [ptries EXCEPT ![t] = 0]
       \/ /\ pointerFd /\ ptries[t] > 1
          /\ ptries' = [ptries EXCEPT ![t] = @ - 1]
          /\ UNCHANGED <<ppc, phost>>
       \/ /\ Pgoto(t, "write", "idle")
          /\ pmissed' = TRUE
          /\ ptries' = [ptries EXCEPT ![t] = 0]
          /\ UNCHANGED hostPointer
    /\ UNCHANGED <<pointerFd, pointerReport, width, watched, x, aimed>>

WriteEvent == WritePointer(Server, pointerReport, FALSE)

(* sendWakeupPacket(): the pointer goes to the middle.                      *)
BeginMiddle ==
    /\ pointerFd
    /\ Pgoto(Video, "idle", "write")
    /\ ptries' = [ptries EXCEPT ![Video] = RetryMax]
    /\ UNCHANGED <<pointerFd, pointerReport, width, watched, x, aimed, phost>>

WriteMiddle == WritePointer(Video, MiddlePointer, TRUE)

PointerNext ==
    \/ ChangeWidth \/ ConnectPointer \/ DisconnectPointer
    \/ \E mask \in Masks, n \in Xs : PointerEvent(mask, n)
    \/ ScaleX \/ WriteEvent \/ BeginMiddle \/ WriteMiddle

PointerSpec == PointerInit /\ [][PointerNext]_pvars

(* A thread in pointerEvent() or sendWakeupPacket() runs.                   *)
PointerFairSpec ==
    /\ PointerSpec
    /\ WF_pvars(ScaleX \/ WriteEvent)
    /\ WF_pvars(WriteMiddle)

-----------------------------------------------------------------------------
(* The host, which maps a position onto its mode, has the pointer at the    *)
(* pixel the client pointed to or the one before, and within the            *)
(* descriptor's range (create_usbhid.sh:96), for any mode; unless the width *)
(* fell to x or below between its two reads.                                *)
PointsAtPixel ==
    aimed.x < aimed.width /\ aimed.width <= Extent =>
        /\ pointerReport.position < Extent
        /\ (pointerReport.position * aimed.width) \div Extent
              \in {aimed.x - 1, aimed.x}

(* With both threads out of the pointer's code the host has the report of   *)
(* the last event, whichever thread wrote last, unless it was sent another  *)
(* or none since.                                                           *)
HostHasPointer ==
    (\A t \in Threads : ppc[t] = "idle") /\ ~pmissed
        => hostPointer = pointerReport

(* A host that takes no report does not hold a thread.                      *)
PointerEventsEnd == \A t \in Threads : ppc[t] # "idle" ~> ppc[t] = "idle"
=============================================================================
