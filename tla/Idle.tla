--------------------------------- MODULE Idle ---------------------------------
(***************************************************************************)
(* The idle timeout of the clients: the server thread and, with the fake    *)
(* key events, the video thread write a client's lastActivityTime           *)
(* (ikvm_input.cpp), sendFrame() compares it with timeoutValue              *)
(* (ikvm_server.cpp), which the main thread of Monitor keeps up to date.    *)
(*                                                                         *)
(* Time passes in ticks, Second of which make a second; a point of time is  *)
(* how long ago it was.  sendFrame() reads the clock first and the time of  *)
(* the last activity later; between the two the thread may be kept from     *)
(* running for up to MaxLag.  The reads themselves are of whole values.     *)
(*                                                                         *)
(* When a frame comes and for whom it is sent is in Screen and SendFrame:   *)
(* here any visit may end either way.                                       *)
(***************************************************************************)
EXTENDS Monitor, Integers, FiniteSets

CONSTANTS
    Clients,
    Second,        \* ticks per second
    Modulus,       \* 2^64, of the unsigned seconds of the comparison
    MaxAge,        \* bound: an activity longer ago is that long ago
    MaxLag         \* bound: of a delay between the two reads

ASSUME IdleAssumption ==
    /\ Second \in Nat \ {0} /\ Modulus \in Nat \ {0}
    /\ MaxLag \in Nat /\ MaxAge \in Nat
    /\ \A v \in Timeouts \cup {Default} :
          /\ v < Modulus
          /\ MaxAge >= v * Second + MaxLag

VARIABLES
    linked,            \* the clients in libvncserver's list, with ClientData
    closed,            \* those that rfbCloseClient() was called for
    quiet,             \* how long ago their lastActivityTime is
    ledKnown,          \* keyboardLedState is not INITIAL_LED_STATE
    pc,                \* where the video thread is
    todo,              \* the clients the iterator has yet to reach
    visited,           \* the client of this visit, in a set
    lag                \* how long ago currentTime is

clients == <<linked, closed, quiet, ledKnown>>
visit == <<pc, todo, visited, lag>>
vars == <<monitor, clients, visit>>

TypeOK ==
    /\ MonitorTypeOK
    /\ linked \in SUBSET Clients
    /\ closed \in SUBSET linked
    /\ quiet \in [Clients -> 0..MaxAge]
    /\ ledKnown \in BOOLEAN
    /\ pc \in {"round", "next", "compare"}
    /\ todo \in SUBSET linked
    /\ visited \in SUBSET Clients /\ Cardinality(visited) <= 1
    /\ lag \in 0..MaxLag

IdleInit ==
    /\ linked = {} /\ closed = {}
    /\ quiet = [c \in Clients |-> 0]
    /\ ledKnown = FALSE
    /\ pc = "round" /\ todo = {} /\ visited = {} /\ lag = 0

Init == MonitorInit /\ IdleInit

Goto(from, to) == pc = from /\ pc' = to

(* The other threads run once the main thread has started them.             *)
Running == boot = "run"

Crash ==
    /\ Restart
    /\ linked' = {} /\ closed' = {}
    /\ quiet' = [c \in Clients |-> 0]
    /\ ledKnown' = FALSE
    /\ pc' = "round" /\ todo' = {} /\ visited' = {} /\ lag' = 0

-----------------------------------------------------------------------------
(* The server thread.                                                       *)
NewClient(c) ==
    /\ Running
    /\ c \notin linked
    /\ linked' = linked \cup {c}
    /\ quiet' = [quiet EXCEPT ![c] = 0]
    /\ UNCHANGED <<monitor, closed, ledKnown, visit>>

(* Faulty variant: a client that has gone stays marked as closed.           *)
ClientGoneStaysClosed(c) ==
    /\ c \in linked \ visited
    /\ linked' = linked \ {c}
    /\ todo' = todo \ {c}
    /\ quiet' = [quiet EXCEPT ![c] = 0]
    /\ UNCHANGED <<monitor, closed, ledKnown, pc, visited, lag>>

(* clientGone(), for a client that was closed or left; not in the middle of *)
(* its visit, where deleting its ClientData is undefined behaviour.         *)
ClientGone(c) ==
    /\ c \in linked \ visited
    /\ linked' = linked \ {c}
    /\ closed' = closed \ {c}
    /\ todo' = todo \ {c}
    /\ quiet' = [quiet EXCEPT ![c] = 0]
    /\ UNCHANGED <<monitor, ledKnown, pc, visited, lag>>

(* keyEvent() and pointerEvent(), with effect or without.                   *)
UserEvent(c) ==
    /\ c \in linked \ closed
    /\ quiet[c] # 0
    /\ quiet' = [quiet EXCEPT ![c] = 0]
    /\ UNCHANGED <<monitor, linked, closed, ledKnown, visit>>

(* The host reports the state of its LEDs.                                  *)
LedReport ==
    /\ Running
    /\ ~ledKnown
    /\ ledKnown' = TRUE
    /\ UNCHANGED <<monitor, linked, closed, quiet, visit>>

-----------------------------------------------------------------------------
(* The video thread in sendFrame(), with a frame.                           *)
BeginSend ==
    /\ linked # {}
    /\ Goto("round", "next")
    /\ todo' = linked \ closed
    /\ UNCHANGED <<monitor, clients, visited, lag>>

(* The visit of a client begins with reading the clock.                     *)
ReadClock(c) ==
    /\ c \in todo
    /\ Goto("next", "compare")
    /\ todo' = todo \ {c}
    /\ visited' = {c}
    /\ lag' = 0
    /\ UNCHANGED <<monitor, clients>>

EndVisit ==
    /\ pc' = "next"
    /\ visited' = {} /\ lag' = 0

(* Faulty variant: rounded up.                                              *)
WholeSecondsUp(t) == (t + Second - 1) \div Second

(* duration_cast drops the fraction, towards zero.                          *)
WholeSeconds(t) == IF t >= 0 THEN t \div Second ELSE -((-t) \div Second)

(* The comparison is one of uint64_t.                                       *)
timeSinceLastActive(c) == WholeSeconds(quiet[c] - lag) % Modulus

Idle(c) == timeSinceLastActive(c) >= timeoutValue

CloseIdle(c) ==
    /\ pc = "compare" /\ c \in visited
    /\ Idle(c)
    /\ closed' = closed \cup {c}
    /\ EndVisit
    /\ UNCHANGED <<monitor, linked, quiet, ledKnown, todo>>

(* Faulty variant: fake key events with every frame that is sent.           *)
FakeKeysAlways(c) == [quiet EXCEPT ![c] = 0]

(* Before the LED state is known each frame sent comes with four key events *)
(* in the name of the client it is sent to.                                 *)
FakeKeys(c) == IF ledKnown THEN quiet ELSE [quiet EXCEPT ![c] = 0]

(* A client that is not idle is sent the frame, or not.                     *)
KeepActive(c) ==
    /\ pc = "compare" /\ c \in visited
    /\ ~Idle(c)
    /\ quiet' \in {quiet, FakeKeys(c)}
    /\ EndVisit
    /\ UNCHANGED <<monitor, linked, closed, ledKnown, todo>>

EndSend ==
    /\ todo = {}
    /\ Goto("next", "round")
    /\ UNCHANGED <<monitor, clients, todo, visited, lag>>

Visit(c) == ReadClock(c) \/ CloseIdle(c) \/ KeepActive(c)

Tick ==
    /\ pc = "compare" => lag < MaxLag
    /\ lag' = IF pc = "compare" THEN lag + 1 ELSE 0
    /\ quiet' = [c \in Clients |->
                   IF c \in linked /\ quiet[c] < MaxAge THEN quiet[c] + 1
                   ELSE quiet[c]]
    /\ UNCHANGED <<monitor, linked, closed, ledKnown, pc, todo, visited>>

(* A step of Monitor's.                                                     *)
Others(step) == step /\ UNCHANGED <<clients, visit>>

Next ==
    \/ Others(MonitorNext)
    \/ Crash
    \/ \E c \in Clients :
          NewClient(c) \/ ClientGone(c) \/ UserEvent(c) \/ Visit(c)
    \/ LedReport \/ BeginSend \/ EndSend \/ Tick

Spec == Init /\ [][Next]_vars

(* The three threads run, time passes, and frames keep coming.              *)
FairSpec ==
    /\ Spec
    /\ WF_vars(Others(StartUp))
    /\ WF_vars(Others(timeoutCallback))
    /\ \A c \in Clients : WF_vars(Visit(c))
    /\ WF_vars(EndSend) /\ WF_vars(Tick)
    /\ SF_vars(BeginSend)

-----------------------------------------------------------------------------
(* ikvm_server.cpp:138: no client is closed before it has been inactive for *)
(* the timeout.  One case is excepted, an activity that comes a second or   *)
(* more after the clock was read: the unsigned comparison takes it for an   *)
(* eternity.                                                                *)
ActiveStays ==
    [][\A c \in Clients :
          c \in closed' \ closed
          => \/ quiet[c] >= timeoutValue * Second
             \/ lag - quiet[c] >= Second]_vars

(* A client whose user does nothing any more is closed in the end, however  *)
(* the timeout is changed, if frames are still sent and the host has once   *)
(* told the state of its LEDs.                                              *)
IdleIsClosed ==
    \A c \in Clients :
        <>[]ledKnown /\ <>[][~UserEvent(c)]_vars
        => []<>(c \notin linked \/ c \in closed)
=============================================================================
