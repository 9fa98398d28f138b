------------------------------- MODULE Keyboard -------------------------------
(***************************************************************************)
(* The keyboard of class ikvm::Input (ikvm_input.cpp, ikvm_input_ami.cpp)    *)
(* between the RFB clients and the host.  Two threads use it: the server     *)
(* thread for the clients' key events and to connect and disconnect the HID  *)
(* gadget, the video thread for the fake NumLock events of sendFrame() and   *)
(* the wakeup packet of Video::start().  Only a write() of a report is under *)
(* keyMutex; between its tries the mutex is free.                            *)
(*                                                                         *)
(* Nothing locks keyboardReport and keysDown: the other thread may come      *)
(* between keyEvent()'s test whether a key is down, its search for a free    *)
(* place and the taking of it, which are steps of their own here.  Two calls *)
(* of std::map in the same moment, and a key that both threads release in    *)
(* the same moment, are undefined behaviour and not modelled.                *)
(***************************************************************************)
EXTENDS KeyMap, Input

CONSTANTS
    Keys,          \* the keysyms the clients send
    Slots          \* the report's places for a key: 2..7 in the code

ASSUME KeyboardAssumption ==
    /\ Keys \subseteq Nat
    /\ Slots \subseteq 2..7

VARIABLES
    keyboardFd,      \* open
    keyboardReport,  \* the modifier bits and the usage in each place
    keysDown,        \* a function from some keysyms to places
    ledKnown,        \* keyboardLedState is not INITIAL_LED_STATE
    pc,              \* of keyEvent() or sendWakeupPacket(), by thread
    event,           \* the key event a thread handles
    place,           \* the free place it has found for it; 0: none
    tries,           \* writeKeyboard()'s retryCount
    fakes,           \* the fake events the video thread has yet to make
    hostReport,      \* the last report the host has
    missed,          \* since the last keyboardReport it got: the host was
                     \* sent another report, none, or reset
    overlapped       \* both threads were between their test of the map and
                     \* the taking of a place at once

input == <<keyboardFd, keyboardReport, keysDown>>
threads == <<pc, event, place, tries, fakes>>
host == <<hostReport, missed>>
vars == <<input, ledKnown, watched, threads, host, overlapped>>

Usages == {KeyToScancode(k) : k \in Keys \cup {XK_Num_Lock}}
Modifiers == {KeyToMod(k) : k \in Keys \cup {XK_Num_Lock, XK_Shift_L}} \ {0}
Report == [mods : SUBSET Modifiers, keys : [Slots -> Usages \cup {0}]]
Events == [down : BOOLEAN, key : Keys \cup {XK_Num_Lock}]

NoEvent == [down |-> FALSE, key |-> XK_Num_Lock]
NoReport == [mods |-> {}, keys |-> [s \in Slots |-> 0]]
WakeupReport == [NoReport EXCEPT !.mods = {KeyToMod(XK_Shift_L)}]

TypeOK ==
    /\ keyboardFd \in BOOLEAN
    /\ keyboardReport \in Report
    /\ DOMAIN keysDown \subseteq Keys \cup {XK_Num_Lock}
    /\ \A k \in DOMAIN keysDown : keysDown[k] \in Slots
    /\ ledKnown \in BOOLEAN
    /\ watched \in BOOLEAN
    /\ pc \in [Threads -> {"idle", "leds", "change", "find", "take", "write",
                           "readback", "shift", "noshift"}]
    /\ event \in [Threads -> Events]
    /\ place \in [Threads -> Slots \cup {0}]
    /\ tries \in [Threads -> 0..RetryMax]
    /\ fakes \in 0..4
    /\ hostReport \in Report
    /\ missed \in BOOLEAN /\ overlapped \in BOOLEAN

Init ==
    /\ keyboardFd = FALSE
    /\ keyboardReport = NoReport
    /\ keysDown = <<>>
    /\ ledKnown = FALSE
    /\ watched = FALSE
    /\ pc = [t \in Threads |-> "idle"]
    /\ event = [t \in Threads |-> NoEvent]
    /\ place = [t \in Threads |-> 0]
    /\ tries = [t \in Threads |-> 0]
    /\ fakes = 0
    /\ hostReport = NoReport
    /\ missed = FALSE /\ overlapped = FALSE

Goto(t, from, to) == pc[t] = from /\ pc' = [pc EXCEPT ![t] = to]

-----------------------------------------------------------------------------
(* connect() for the first client.  It returns early when the gadget cannot *)
(* be connected; a device that cannot be opened throws, and ends the        *)
(* process.                                                                 *)
Connect ==
    /\ ~watched /\ pc[Server] = "idle"
    /\ watched' = TRUE
    /\ keyboardFd' \in BOOLEAN
    /\ hostReport' = NoReport
    /\ missed' = TRUE
    /\ UNCHANGED <<keyboardReport, keysDown, ledKnown, threads, overlapped>>

(* disconnect() for the last client.                                        *)
Disconnect ==
    /\ watched /\ pc[Server] = "idle"
    /\ watched' = FALSE
    /\ keyboardFd' = FALSE
    /\ hostReport' = NoReport
    /\ missed' = TRUE
    /\ UNCHANGED <<keyboardReport, keysDown, ledKnown, threads, overlapped>>

(* keyEvent() begins.                                                       *)
KeyEvent(t, e) ==
    /\ IF keyboardFd
       THEN /\ Goto(t, "idle", "leds")
            /\ event' = [event EXCEPT ![t] = e]
       ELSE Goto(t, "idle", "idle") /\ UNCHANGED event
    /\ UNCHANGED <<input, ledKnown, watched, place, tries, host, overlapped>>

ClientKeyEvent ==
    /\ watched
    /\ \E k \in Keys, d \in BOOLEAN : KeyEvent(Server, [down |-> d, key |-> k])
    /\ UNCHANGED fakes

(* sendFrame() with the LED state still initial: NumLock twice.             *)
BeginFakes ==
    /\ watched /\ ~ledKnown
    /\ pc[Video] = "idle" /\ fakes = 0
    /\ fakes' = 4
    /\ UNCHANGED <<input, ledKnown, watched, pc, event, place, tries, host,
                   overlapped>>

FakeKeyEvent ==
    /\ fakes > 0
    /\ fakes' = fakes - 1
    /\ KeyEvent(Video, [down |-> fakes % 2 = 0, key |-> XK_Num_Lock])

(* readKeyBoardOutReport() returns, from a select() without a timeout, when *)
(* the host has reported its LEDs or standard input is readable.            *)
ReadKeyBoardOutReport(t) ==
    /\ \/ Goto(t, "leds", "change")
       \/ Goto(t, "readback", "idle")
    /\ ledKnown' \in {ledKnown, TRUE}
    /\ UNCHANGED <<input, watched, event, place, tries, fakes, host, overlapped>>

-----------------------------------------------------------------------------
(* Faulty variant: the places are not checked for a key they have.          *)
AnyPlace == Slots

Free == {s \in Slots : keyboardReport.keys[s] = 0}

FirstFree == CHOOSE s \in Free : \A r \in Free : s <= r

PressModifier(k) ==
    /\ keyboardReport' = [keyboardReport EXCEPT !.mods = @ \cup {KeyToMod(k)}]
    /\ UNCHANGED keysDown

(* Faulty variant: the key is not erased but kept with no place.            *)
ReleaseKeepsPlace(k) ==
    /\ keyboardReport' = [keyboardReport EXCEPT !.keys[keysDown[k]] = 0]
    /\ keysDown' = [keysDown EXCEPT ![k] = 0]

Release(k) ==
    /\ keyboardReport' = [keyboardReport EXCEPT !.keys[keysDown[k]] = 0]
    /\ keysDown' = [j \in DOMAIN keysDown \ {k} |-> keysDown[j]]

ReleaseModifier(k) ==
    /\ keyboardReport' = [keyboardReport EXCEPT !.mods = @ \ {KeyToMod(k)}]
    /\ UNCHANGED keysDown

(* What the event changes, if anything, is to be written.                   *)
ToWrite(t, from) ==
    /\ Goto(t, from, "write")
    /\ tries' = [tries EXCEPT ![t] = RetryMax]
    /\ event' = [event EXCEPT ![t] = NoEvent]
    /\ place' = [place EXCEPT ![t] = 0]

Nothing(t, from) ==
    /\ Goto(t, from, "idle")
    /\ event' = [event EXCEPT ![t] = NoEvent]
    /\ UNCHANGED <<keyboardReport, keysDown, place, tries>>

(* The test of a key with a usage that is pressed: it is not down.          *)
NewKey(t) ==
    LET k == event[t].key
    IN /\ event[t].down /\ KeyToScancode(k) # 0 /\ k \notin DOMAIN keysDown
       /\ Goto(t, "change", "find")
       /\ overlapped' = (overlapped \/ \E u \in Threads : pc[u] \in {"find", "take"})
       /\ UNCHANGED <<input, ledKnown, watched, event, place, tries, fakes, host>>

(* A modifier or a release.                                                 *)
ChangeReport(t) ==
    LET k == event[t].key
        mod == KeyToMod(k)
        down == event[t].down
    IN /\ ToWrite(t, "change")
       /\ \/ down /\ KeyToScancode(k) = 0 /\ mod # 0 /\ PressModifier(k)
          \/ ~down /\ k \in DOMAIN keysDown /\ Release(k)
          \/ ~down /\ k \notin DOMAIN keysDown /\ mod # 0 /\ ReleaseModifier(k)
       /\ UNCHANGED <<keyboardFd, ledKnown, watched, fakes, host, overlapped>>

(* A key that is down already, or one without usage and modifier.           *)
IgnoreEvent(t) ==
    LET k == event[t].key
        known == k \in DOMAIN keysDown
    IN /\ IF event[t].down /\ KeyToScancode(k) # 0 THEN known
          ELSE KeyToMod(k) = 0 /\ (event[t].down \/ ~known)
       /\ Nothing(t, "change")
       /\ UNCHANGED <<keyboardFd, ledKnown, watched, fakes, host, overlapped>>

(* The search for a free place, as of one moment.                           *)
FindPlace(t) ==
    /\ \/ /\ Free # {}
          /\ Goto(t, "find", "take")
          /\ place' = [place EXCEPT ![t] = FirstFree]
          /\ UNCHANGED <<keyboardReport, keysDown, event, tries>>
       \/ /\ Free = {}
          /\ Nothing(t, "find")
    /\ UNCHANGED <<keyboardFd, ledKnown, watched, fakes, host, overlapped>>

(* Faulty variant: a key that takes a place is not sent.                    *)
TakePlaceQuietly(t) ==
    LET k == event[t].key
    IN /\ Goto(t, "take", "idle")
       /\ keyboardReport' =
             [keyboardReport EXCEPT !.keys[place[t]] = KeyToScancode(k)]
       /\ keysDown' = [j \in DOMAIN keysDown \cup {k} |->
                         IF j \in DOMAIN keysDown THEN keysDown[j] ELSE place[t]]
       /\ event' = [event EXCEPT ![t] = NoEvent]
       /\ place' = [place EXCEPT ![t] = 0]
       /\ UNCHANGED <<keyboardFd, ledKnown, watched, tries, fakes, host,
                      overlapped>>

(* std::map::insert leaves a key that is there.                             *)
TakePlace(t) ==
    LET k == event[t].key
    IN /\ ToWrite(t, "take")
       /\ keyboardReport' =
             [keyboardReport EXCEPT !.keys[place[t]] = KeyToScancode(k)]
       /\ keysDown' = [j \in DOMAIN keysDown \cup {k} |->
                         IF j \in DOMAIN keysDown THEN keysDown[j] ELSE place[t]]
       /\ UNCHANGED <<keyboardFd, ledKnown, watched, fakes, host, overlapped>>

-----------------------------------------------------------------------------
(* One try of writeKeyboard(report): success, which reset tells from a       *)
(* report of keyboardReport; EAGAIN, to try again while tries are left; any  *)
(* other error, or the last EAGAIN, ends it.                                 *)
Written(t, report, lost) ==
    /\ keyboardFd
    /\ hostReport' = report
    /\ missed' = lost
    /\ tries' = [tries EXCEPT ![t] = 0]

WriteAgain(t) ==
    /\ tries[t] > 1
    /\ tries' = [tries EXCEPT ![t] = @ - 1]
    /\ UNCHANGED <<pc, host>>

GiveUp(t) ==
    /\ missed' = TRUE
    /\ tries' = [tries EXCEPT ![t] = 0]
    /\ UNCHANGED hostReport

WriteKeyboard(t) ==
    /\ pc[t] = "write"
    /\ \/ Goto(t, "write", "readback") /\ Written(t, keyboardReport, FALSE)
       \/ keyboardFd /\ WriteAgain(t)
       \/ Goto(t, "write", "readback") /\ GiveUp(t)
    /\ UNCHANGED <<input, ledKnown, watched, event, place, fakes, overlapped>>

(* sendWakeupPacket(): Shift down, and up if that was written.              *)
BeginWakeup ==
    /\ keyboardFd /\ fakes = 0
    /\ Goto(Video, "idle", "shift")
    /\ tries' = [tries EXCEPT ![Video] = RetryMax]
    /\ UNCHANGED <<input, ledKnown, watched, event, place, fakes, host,
                   overlapped>>

PressShift ==
    /\ pc[Video] = "shift"
    /\ \/ /\ keyboardFd
          /\ Goto(Video, "shift", "noshift")
          /\ tries' = [tries EXCEPT ![Video] = RetryMax]
          /\ hostReport' = WakeupReport
          /\ missed' = TRUE
       \/ keyboardFd /\ WriteAgain(Video)
       \/ Goto(Video, "shift", "idle") /\ GiveUp(Video)
    /\ UNCHANGED <<input, ledKnown, watched, event, place, fakes, overlapped>>

ReleaseShift ==
    /\ pc[Video] = "noshift"
    /\ \/ Goto(Video, "noshift", "idle") /\ Written(Video, NoReport, TRUE)
       \/ keyboardFd /\ WriteAgain(Video)
       \/ Goto(Video, "noshift", "idle") /\ GiveUp(Video)
    /\ UNCHANGED <<input, ledKnown, watched, event, place, fakes, overlapped>>

ThreadStep(t) ==
    \/ NewKey(t) \/ ChangeReport(t) \/ IgnoreEvent(t)
    \/ FindPlace(t) \/ TakePlace(t) \/ WriteKeyboard(t)
    \/ t = Video /\ (FakeKeyEvent \/ PressShift \/ ReleaseShift)

Next ==
    \/ Connect \/ Disconnect \/ ClientKeyEvent \/ BeginFakes \/ BeginWakeup
    \/ \E t \in Threads : ThreadStep(t) \/ ReadKeyBoardOutReport(t)

Spec == Init /\ [][Next]_vars

-----------------------------------------------------------------------------
(* keysDown and the report agree: each key down has a place of its own with *)
(* its usage in it, and every other place is free.  A key pressed twice, a  *)
(* key too many and the release of a key that is not down leave it so, also *)
(* when the other thread comes between the test of the map and the taking   *)
(* of a place; only two threads there at once do not: both may take the     *)
(* same place, for two keys or for one.                                     *)
KeysDownMatchReport ==
    ~overlapped =>
        /\ \A j, k \in DOMAIN keysDown : keysDown[j] = keysDown[k] => j = k
        /\ \A k \in DOMAIN keysDown :
              keyboardReport.keys[keysDown[k]] = KeyToScancode(k)
        /\ \A s \in Slots \ {keysDown[k] : k \in DOMAIN keysDown} :
              keyboardReport.keys[s] = 0

(* With both threads out of keyEvent() the host has the report as it is now, *)
(* whichever thread wrote last and also when both had changed it at once,   *)
(* unless it was sent another or none since.                                *)
HostHasReport ==
    (\A t \in Threads : pc[t] = "idle") /\ ~missed
        => hostReport = keyboardReport
=============================================================================
