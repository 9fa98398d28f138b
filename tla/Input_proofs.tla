----------------------------- MODULE Input_proofs -----------------------------
(***************************************************************************)
(* Theorems about class ikvm::Input: first the keyboard's report, for any   *)
(* set of keysyms, then the pointer's, for any positions of the clients, any *)
(* modes of the host and any range of the HID pointer.                      *)
(***************************************************************************)
EXTENDS Keyboard, Pointer, TLAPS

(* The tables of keyToScancode(): its ranges, and the cases of its switch.  *)
LEMMA RunUsages ==
  ASSUME NEW r \in Runs, NEW k \in r[1]..r[2]
  PROVE  /\ r[3] + (k - r[1]) \in 1..UsageMaximum
         /\ k \in \h31..\h7A \/ k \in \hFF91..\hFF94 \/ k \in \hFFB1..\hFFC9
         /\ k # XK_KP_Equal
  BY DEF Runs, UsageMaximum, XK_KP_Equal

LEMMA CaseUsages ==
  ASSUME NEW c \in Keys101, NEW k \in c[1]
  PROVE  /\ k \in Nat /\ c[2] \in Nat \ {0}
         /\ c[2] > UsageMaximum <=> k = XK_KP_Equal
         /\ k \notin \hFFE1..\hFFE4 /\ k \notin \hFFE7..\hFFEA
  BY DEF Keys101, UsageMaximum, XK_KP_Equal

(* One key, KP_Equal, has a usage beyond those of the report descriptor;    *)
(* and keyEvent(), which asks for a usage first, hides no modifier by that. *)
LEMMA Scancodes ==
  ASSUME NEW k
  PROVE  /\ KeyToScancode(k) > UsageMaximum <=> k = XK_KP_Equal
         /\ KeyToScancode(k) # 0 => KeyToMod(k) = 0
         /\ KeyToScancode(k) \in Nat
<1> DEFINE run == {r \in Runs : k \in r[1]..r[2]}
           keys == {c \in Keys101 : k \in c[1]}
<1>1. CASE run # {}
  <2>1. PICK r \in run : KeyToScancode(k) = r[3] + (k - r[1])
    BY <1>1 DEF KeyToScancode
  <2>2. r \in Runs /\ k \in r[1]..r[2]
    BY <2>1
  <2>3. /\ k \in \h31..\h7A \/ k \in \hFF91..\hFF94 \/ k \in \hFFB1..\hFFC9
        /\ r[3] + (k - r[1]) \in 1..UsageMaximum
        /\ k # XK_KP_Equal
    BY <2>2, RunUsages
  <2>4. k \notin \hFFE1..\hFFE4 /\ k \notin \hFFE7..\hFFEA
    BY <2>3
  <2>5. QED
    BY <2>1, <2>3, <2>4 DEF KeyToMod, UsageMaximum
<1>2. CASE run = {} /\ keys # {}
  <2>1. PICK c \in keys : KeyToScancode(k) = c[2]
    BY <1>2 DEF KeyToScancode
  <2>2. c \in Keys101 /\ k \in c[1]
    BY <2>1
  <2>3. QED
    BY <2>1, <2>2, CaseUsages DEF KeyToMod
<1>3. CASE run = {} /\ keys = {}
  <2>1. KeyToScancode(k) = 0
    BY <1>3 DEF KeyToScancode
  <2>2. <<{\hFFBD}, \h67>> \in Keys101
    BY DEF Keys101
  <2>3. k # XK_KP_Equal
    BY <1>3, <2>2 DEF XK_KP_Equal
  <2>4. QED
    BY <2>1, <2>3 DEF UsageMaximum
<1>4. QED
  BY <1>1, <1>2, <1>3

KeySyms == Keys \cup {XK_Num_Lock}

(* What keyEvent() works on, whatever overlaps.                             *)
ReportTypes ==
    /\ keyboardReport \in Report
    /\ DOMAIN keysDown \subseteq KeySyms
    /\ \A k \in DOMAIN keysDown :
          keysDown[k] \in Slots /\ KeyToScancode(k) # 0

InMap(t) == pc[t] \in {"find", "take"}

(* A thread that has tested the map has a key with a usage.                 *)
Taking ==
    \A t \in Threads :
        /\ InMap(t) => KeyToScancode(event[t].key) # 0
        /\ pc[t] = "take" => place[t] \in Slots

(* Without an overlap one thread at most has tested the map; its key is     *)
(* still not in it, and the place it has found is still free.               *)
Alone ==
    ~overlapped =>
        /\ \A t, u \in Threads : InMap(t) /\ InMap(u) => t = u
        /\ \A t \in Threads :
              /\ InMap(t) => event[t].key \notin DOMAIN keysDown
              /\ pc[t] = "take" => keyboardReport.keys[place[t]] = 0

ReportSound == ReportTypes /\ Taking /\ Alone /\ KeysDownMatchReport

PCs == {"idle", "leds", "change", "find", "take", "write", "readback", "shift",
        "noshift"}

Progress ==
    /\ keyboardFd \in BOOLEAN
    /\ ledKnown \in BOOLEAN
    /\ watched \in BOOLEAN
    /\ pc \in [Threads -> PCs]
    /\ event \in [Threads -> Events]
    /\ place \in [Threads -> Slots \cup {0}]
    /\ tries \in [Threads -> 0..RetryMax]
    /\ fakes \in 0..4
    /\ hostReport \in Report
    /\ missed \in BOOLEAN /\ overlapped \in BOOLEAN

(* HostHasReport but for a change that a thread has yet to write.           *)
ReportArrives ==
    ~missed /\ (\A t \in Threads : pc[t] # "write")
        => hostReport = keyboardReport

IInv == ReportSound /\ Progress /\ ReportArrives

LEMMA NoReportType == NoReport \in Report
  BY DEF NoReport, Report

LEMMA WakeupReportType == WakeupReport \in Report
<1>1. KeyToMod(XK_Shift_L) # 0
  BY DEF KeyToMod, XK_Shift_L, shiftCtrlMap
<1>2. {KeyToMod(XK_Shift_L)} \subseteq Modifiers
  BY <1>1 DEF Modifiers
<1>3. QED
  BY <1>2, NoReportType DEF WakeupReport, NoReport, Report

LEMMA InitIInv == Init => IInv
<1> SUFFICES ASSUME Init PROVE IInv
  OBVIOUS
<1>1. DOMAIN keysDown = {}
  BY DEF Init
<1>2. ReportSound
  BY <1>1, NoReportType DEF Init, ReportSound, ReportTypes, Taking, Alone, InMap,
     KeysDownMatchReport, NoReport
<1>3. Progress
  <2>1. tries \in [Threads -> 0..RetryMax]
    BY KeyboardAssumption, InputAssumption DEF Init
  <2>2. event \in [Threads -> Events]
    BY DEF Init, NoEvent, Events
  <2>3. pc \in [Threads -> PCs] /\ place \in [Threads -> Slots \cup {0}]
    BY DEF Init, PCs
  <2>4. hostReport \in Report
    BY NoReportType DEF Init
  <2>5. fakes \in 0..4
    BY DEF Init
  <2>6. /\ keyboardFd \in BOOLEAN /\ ledKnown \in BOOLEAN
        /\ watched \in BOOLEAN /\ missed \in BOOLEAN
        /\ overlapped \in BOOLEAN
    BY DEF Init
  <2>7. QED
    BY <2>1, <2>2, <2>3, <2>4, <2>5, <2>6 DEF Progress
<1>4. QED
  BY <1>2, <1>3 DEF Init, IInv, ReportArrives

-----------------------------------------------------------------------------
(* The search for a free place finds one when there is one.                 *)
LEMMA FirstFreeIsFree ==
  ASSUME Free # {}
  PROVE  FirstFree \in Slots /\ keyboardReport.keys[FirstFree] = 0
<1>1. Free \subseteq 2..7
  BY KeyboardAssumption, InputAssumption DEF Free
<1>2. \E s \in Free : \A r \in Free : s <= r
  <2>1. CASE 2 \in Free
    BY <1>1, <2>1
  <2>2. CASE 2 \notin Free /\ 3 \in Free
    BY <1>1, <2>2
  <2>3. CASE Free \cap {2, 3} = {} /\ 4 \in Free
    BY <1>1, <2>3
  <2>4. CASE Free \cap {2, 3, 4} = {} /\ 5 \in Free
    BY <1>1, <2>4
  <2>5. CASE Free \cap {2, 3, 4, 5} = {} /\ 6 \in Free
    BY <1>1, <2>5
  <2>6. CASE Free \cap {2, 3, 4, 5, 6} = {}
    <3>1. \A r \in Free : r \in 2..7 /\ r \notin {2, 3, 4, 5, 6}
      BY <1>1, <2>6
    <3>2. \A r \in Free : r = 7
      BY <3>1
    <3>3. QED
      BY <3>2
  <2>7. QED
    BY <2>1, <2>2, <2>3, <2>4, <2>5, <2>6
<1>3. FirstFree \in Free
  BY <1>2 DEF FirstFree
<1>4. QED
  BY <1>3 DEF Free

(* A place taken without an overlap.                                        *)
LEMMA TakeMatches ==
  ASSUME ReportTypes, KeysDownMatchReport, ~overlapped, ~overlapped',
         NEW k \in KeySyms, KeyToScancode(k) # 0, k \notin DOMAIN keysDown,
         NEW s \in Slots, keyboardReport.keys[s] = 0,
         keyboardReport' =
            [keyboardReport EXCEPT !.keys[s] = KeyToScancode(k)],
         keysDown' = [j \in DOMAIN keysDown \cup {k} |->
                        IF j \in DOMAIN keysDown THEN keysDown[j] ELSE s]
  PROVE  KeysDownMatchReport'
<1>1. keyboardReport.keys \in [Slots -> Usages \cup {0}]
  BY DEF ReportTypes, Report
<1>2. keyboardReport'.keys = [keyboardReport.keys EXCEPT ![s] = KeyToScancode(k)]
  BY DEF ReportTypes, Report
<1>3. /\ DOMAIN keysDown' = DOMAIN keysDown \cup {k}
      /\ keysDown'[k] = s
      /\ \A j \in DOMAIN keysDown : keysDown'[j] = keysDown[j]
  OBVIOUS
<1>4. \A j \in DOMAIN keysDown : keysDown[j] # s
  <2> SUFFICES ASSUME NEW j \in DOMAIN keysDown, keysDown[j] = s PROVE FALSE
    OBVIOUS
  <2>1. keyboardReport.keys[s] = KeyToScancode(j) /\ KeyToScancode(j) # 0
    BY DEF ReportTypes, KeysDownMatchReport
  <2>2. QED
    BY <2>1
<1>5. QED
  BY <1>1, <1>2, <1>3, <1>4 DEF ReportTypes, KeysDownMatchReport

LEMMA ReleaseSound ==
  ASSUME ReportTypes, NEW k \in DOMAIN keysDown, Release(k)
  PROVE  /\ ReportTypes'
         /\ keyboardReport'.keys = [keyboardReport.keys EXCEPT ![keysDown[k]] = 0]
         /\ DOMAIN keysDown' \subseteq DOMAIN keysDown
         /\ overlapped' = overlapped /\ KeysDownMatchReport
            => KeysDownMatchReport'
<1> DEFINE s == keysDown[k]
<1>1. s \in Slots /\ k \in KeySyms
  BY DEF ReportTypes
<1>2. /\ keyboardReport'.mods = keyboardReport.mods
      /\ keyboardReport'.keys = [keyboardReport.keys EXCEPT ![s] = 0]
      /\ keyboardReport' \in Report
  BY <1>1 DEF Release, ReportTypes, Report
<1>3. /\ DOMAIN keysDown' = DOMAIN keysDown \ {k}
      /\ \A j \in DOMAIN keysDown' : keysDown'[j] = keysDown[j]
  BY DEF Release
<1>4. keyboardReport.keys \in [Slots -> Usages \cup {0}]
  BY DEF ReportTypes, Report
<1>5. ReportTypes'
  BY <1>2, <1>3 DEF ReportTypes
<1>6. ASSUME overlapped' = overlapped, KeysDownMatchReport, ~overlapped'
      PROVE  KeysDownMatchReport'
  <2>1. \A j \in DOMAIN keysDown' : keysDown[j] # s
    BY <1>1, <1>3, <1>6 DEF ReportTypes, KeysDownMatchReport
  <2> HIDE DEF s
  <2>2. \A p \in Slots \ {keysDown'[j] : j \in DOMAIN keysDown'} :
           keyboardReport'.keys[p] = 0
    <3> SUFFICES ASSUME NEW p \in Slots,
                        p \notin {keysDown'[j] : j \in DOMAIN keysDown'}
                 PROVE  keyboardReport'.keys[p] = 0
      OBVIOUS
    <3>1. CASE p = s
      BY <1>1, <1>2, <1>4, <3>1
    <3>2. CASE p # s
      <4>1. p \notin {keysDown[j] : j \in DOMAIN keysDown}
        BY <1>3, <3>2 DEF s
      <4>2. QED
        BY <1>2, <1>4, <1>6, <3>2, <4>1 DEF KeysDownMatchReport
    <3>3. QED
      BY <3>1, <3>2
  <2>3. QED
    BY <1>2, <1>3, <1>4, <1>6, <2>1, <2>2 DEF ReportTypes, KeysDownMatchReport
<1>7. KeysDownMatchReport' \/ ~overlapped'
  BY DEF KeysDownMatchReport
<1>8. QED
  BY <1>2, <1>3, <1>5, <1>6, <1>7

LEMMA ModifierSound ==
  ASSUME ReportTypes, NEW k \in KeySyms, KeyToMod(k) # 0,
         PressModifier(k) \/ ReleaseModifier(k)
  PROVE  /\ ReportTypes'
         /\ keysDown' = keysDown /\ keyboardReport'.keys = keyboardReport.keys
<1>1. KeyToMod(k) \in Modifiers /\ keysDown' = keysDown
  BY DEF PressModifier, ReleaseModifier, Modifiers, KeySyms
<1>2. keyboardReport'.keys = keyboardReport.keys /\ keyboardReport' \in Report
  BY <1>1 DEF PressModifier, ReleaseModifier, ReportTypes, Report
<1>3. QED
  BY <1>1, <1>2 DEF ReportTypes

-----------------------------------------------------------------------------
(* A step of one thread that leaves the other where it is.                  *)
LEMMA OtherThread ==
  ASSUME Progress, NEW t \in Threads, NEW to, pc' = [pc EXCEPT ![t] = to]
  PROVE  /\ pc'[t] = to
         /\ \A u \in Threads \ {t} : pc'[u] = pc[u]
         /\ to \in PCs => pc' \in [Threads -> PCs]
  BY DEF Progress

LEMMA EventKey ==
  ASSUME Progress, NEW t \in Threads
  PROVE  event[t].key \in KeySyms /\ NoEvent \in Events
  BY DEF Progress, Events, KeySyms, NoEvent

LEMMA ToWriteProgress ==
  ASSUME Progress, NEW t \in Threads, NEW from, ToWrite(t, from),
         UNCHANGED <<keyboardFd, ledKnown, watched, fakes, host, overlapped>>
  PROVE  /\ Progress'
         /\ pc'[t] = "write" /\ \A u \in Threads \ {t} : pc'[u] = pc[u]
         /\ \A u \in Threads \ {t} : event'[u] = event[u] /\ place'[u] = place[u]
<1>1. tries' \in [Threads -> 0..RetryMax]
  BY InputAssumption DEF ToWrite, Progress
<1>2. /\ event' \in [Threads -> Events]
      /\ place' \in [Threads -> Slots \cup {0}]
  BY EventKey DEF ToWrite, Progress
<1>3. /\ pc' \in [Threads -> PCs]
      /\ pc'[t] = "write" /\ \A u \in Threads \ {t} : pc'[u] = pc[u]
  BY OtherThread DEF ToWrite, Goto, PCs
<1>4. QED
  BY <1>1, <1>2, <1>3 DEF ToWrite, host, Progress

LEMMA NothingProgress ==
  ASSUME Progress, NEW t \in Threads, NEW from, Nothing(t, from),
         UNCHANGED <<keyboardFd, ledKnown, watched, fakes, host, overlapped>>
  PROVE  /\ Progress'
         /\ pc'[t] = "idle" /\ \A u \in Threads \ {t} : pc'[u] = pc[u]
         /\ \A u \in Threads \ {t} : event'[u] = event[u] /\ place'[u] = place[u]
<1>1. event' \in [Threads -> Events]
  BY EventKey DEF Nothing, Progress
<1>2. /\ pc' \in [Threads -> PCs]
      /\ pc'[t] = "idle" /\ \A u \in Threads \ {t} : pc'[u] = pc[u]
  BY OtherThread DEF Nothing, Goto, PCs
<1>3. QED
  BY <1>1, <1>2 DEF Nothing, host, Progress

LEMMA NewKeyIInv ==
  ASSUME IInv, NEW t \in Threads, NewKey(t)
  PROVE  IInv'
<1> USE DEF IInv
<1>1. /\ pc'[t] = "find" /\ pc[t] = "change"
      /\ \A u \in Threads \ {t} : pc'[u] = pc[u]
      /\ pc' \in [Threads -> PCs]
  BY OtherThread DEF NewKey, Goto, PCs
<1>2. /\ UNCHANGED <<keyboardReport, keysDown, event, place, host>>
      /\ KeyToScancode(event[t].key) # 0 /\ event[t].key \notin DOMAIN keysDown
      /\ overlapped' = (overlapped \/ \E u \in Threads : InMap(u))
  BY DEF NewKey, input, InMap
<1>3. Progress'
  BY <1>1, <1>2 DEF NewKey, input, host, Progress
<1>4. ReportTypes' /\ Taking'
  BY <1>1, <1>2 DEF ReportSound, ReportTypes, Taking, InMap
<1>5. Alone' /\ KeysDownMatchReport'
  BY <1>1, <1>2 DEF ReportSound, Alone, InMap, KeysDownMatchReport
<1>6. ReportArrives'
  BY <1>1, <1>2 DEF host, ReportArrives
<1>7. QED
  BY <1>3, <1>4, <1>5, <1>6 DEF ReportSound

(* The step in which a thread changes the report leaves it about to write.  *)
LEMMA ChangeReportIInv ==
  ASSUME IInv, NEW t \in Threads, ChangeReport(t)
  PROVE  IInv'
<1> USE DEF IInv
<1>1. /\ Progress' /\ pc'[t] = "write" /\ overlapped' = overlapped
      /\ \A u \in Threads \ {t} :
            pc'[u] = pc[u] /\ event'[u] = event[u] /\ place'[u] = place[u]
  BY ToWriteProgress DEF ChangeReport
<1>2. /\ ReportTypes'
      /\ DOMAIN keysDown' \subseteq DOMAIN keysDown
      /\ \A s \in Slots : keyboardReport.keys[s] = 0
                           => keyboardReport'.keys[s] = 0
      /\ KeysDownMatchReport'
  <2>1. event[t].key \in KeySyms
    BY EventKey
  <2>2. CASE /\ KeyToMod(event[t].key) # 0
             /\ PressModifier(event[t].key) \/ ReleaseModifier(event[t].key)
    <3>1. /\ ReportTypes' /\ keysDown' = keysDown
          /\ keyboardReport'.keys = keyboardReport.keys
      BY <2>1, <2>2, ModifierSound DEF ReportSound
    <3>2. QED
      BY <1>1, <3>1 DEF ReportSound, KeysDownMatchReport
  <2>3. CASE event[t].key \in DOMAIN keysDown /\ Release(event[t].key)
    <3>1. /\ ReportTypes' /\ KeysDownMatchReport'
          /\ keyboardReport'.keys
                = [keyboardReport.keys EXCEPT ![keysDown[event[t].key]] = 0]
          /\ DOMAIN keysDown' \subseteq DOMAIN keysDown
      BY <1>1, <2>3, ReleaseSound DEF ReportSound
    <3>2. keyboardReport.keys \in [Slots -> Usages \cup {0}]
      BY DEF ReportSound, ReportTypes, Report
    <3>3. QED
      BY <3>1, <3>2
  <2>4. QED
    BY <2>2, <2>3 DEF ChangeReport
<1>3. Taking' /\ Alone'
  BY <1>1, <1>2 DEF ReportSound, Taking, Alone, InMap
<1>4. ReportArrives'
  BY <1>1 DEF ReportArrives
<1>5. QED
  BY <1>1, <1>2, <1>3, <1>4 DEF ReportSound

LEMMA IgnoreEventIInv ==
  ASSUME IInv, NEW t \in Threads, IgnoreEvent(t)
  PROVE  IInv'
<1> USE DEF IInv
<1>1. /\ Progress' /\ pc'[t] = "idle"
      /\ \A u \in Threads \ {t} :
            pc'[u] = pc[u] /\ event'[u] = event[u] /\ place'[u] = place[u]
  BY NothingProgress DEF IgnoreEvent
<1>2. /\ UNCHANGED <<keyboardReport, keysDown, host, overlapped>>
      /\ pc[t] = "change"
  BY DEF IgnoreEvent, Nothing, Goto
<1>3. ReportSound'
  BY <1>1, <1>2 DEF ReportSound, ReportTypes, Taking, Alone, InMap,
     KeysDownMatchReport
<1>4. ReportArrives'
  BY <1>1, <1>2 DEF host, ReportArrives
<1>5. QED
  BY <1>1, <1>3, <1>4

LEMMA FindPlaceIInv ==
  ASSUME IInv, NEW t \in Threads, FindPlace(t)
  PROVE  IInv'
<1> USE DEF IInv
<1>0. /\ UNCHANGED <<keyboardReport, keysDown, host, overlapped>>
      /\ pc[t] = "find"
  BY DEF FindPlace, Nothing, Goto
<1>1. CASE Free = {}
  <2>1. /\ Progress' /\ pc'[t] = "idle"
        /\ \A u \in Threads \ {t} :
              pc'[u] = pc[u] /\ event'[u] = event[u] /\ place'[u] = place[u]
    BY <1>1, NothingProgress DEF FindPlace
  <2>2. ReportSound'
    BY <1>0, <2>1 DEF ReportSound, ReportTypes, Taking, Alone, InMap,
       KeysDownMatchReport
  <2>3. ReportArrives'
    BY <1>0, <2>1 DEF host, ReportArrives
  <2>4. QED
    BY <2>1, <2>2, <2>3
<1>2. CASE Free # {}
  <2>1. /\ pc'[t] = "take" /\ event' = event
        /\ place' = [place EXCEPT ![t] = FirstFree]
        /\ \A u \in Threads \ {t} : pc'[u] = pc[u]
        /\ pc' \in [Threads -> PCs]
    BY <1>2, OtherThread DEF FindPlace, Goto, PCs
  <2>2. FirstFree \in Slots /\ keyboardReport.keys[FirstFree] = 0
    BY <1>2, FirstFreeIsFree
  <2>3. /\ place' \in [Threads -> Slots \cup {0}] /\ place'[t] = FirstFree
        /\ \A u \in Threads \ {t} : place'[u] = place[u]
    BY <2>1, <2>2 DEF Progress
  <2>4. Progress'
    BY <1>2, <2>1, <2>3 DEF FindPlace, host, Progress
  <2>5. ReportTypes' /\ KeysDownMatchReport'
    BY <1>0 DEF ReportSound, ReportTypes, KeysDownMatchReport
  <2>6. Taking' /\ Alone'
    BY <1>0, <2>1, <2>2, <2>3 DEF ReportSound, Taking, Alone, InMap
  <2>7. ReportArrives'
    BY <1>0, <2>1 DEF host, ReportArrives
  <2>8. QED
    BY <2>4, <2>5, <2>6, <2>7 DEF ReportSound
<1>3. QED
  BY <1>1, <1>2

LEMMA TakePlaceIInv ==
  ASSUME IInv, NEW t \in Threads, TakePlace(t)
  PROVE  IInv'
<1> USE DEF IInv
<1> DEFINE k == event[t].key
           s == place[t]
<1>1. /\ Progress' /\ pc'[t] = "write" /\ overlapped' = overlapped
      /\ \A u \in Threads \ {t} :
            pc'[u] = pc[u] /\ event'[u] = event[u] /\ place'[u] = place[u]
  BY ToWriteProgress DEF TakePlace
<1>2. /\ pc[t] = "take"
      /\ keyboardReport' = [keyboardReport EXCEPT !.keys[s] = KeyToScancode(k)]
      /\ keysDown' = [j \in DOMAIN keysDown \cup {k} |->
                        IF j \in DOMAIN keysDown THEN keysDown[j] ELSE s]
  BY DEF TakePlace, ToWrite, Goto
<1>3. k \in KeySyms /\ KeyToScancode(k) # 0 /\ s \in Slots
  BY <1>2, EventKey DEF ReportSound, Taking, InMap
<1> HIDE DEF k, s
<1>4. ReportTypes'
  <2>1. KeyToScancode(k) \in Usages
    BY <1>3 DEF Usages, KeySyms
  <2>2. keyboardReport' \in Report
    BY <1>2, <1>3, <2>1 DEF ReportSound, ReportTypes, Report
  <2>3. QED
    BY <1>2, <1>3, <2>2 DEF ReportSound, ReportTypes
<1>5. Taking'
  BY <1>1 DEF ReportSound, Taking, InMap
<1>6. Alone'
  BY <1>1, <1>2 DEF ReportSound, Alone, InMap
<1>7. KeysDownMatchReport'
  <2>1. CASE overlapped
    BY <1>1, <2>1 DEF KeysDownMatchReport
  <2>2. CASE ~overlapped
    <3>1. k \notin DOMAIN keysDown /\ keyboardReport.keys[s] = 0
      BY <1>2, <2>2 DEF ReportSound, Alone, InMap, k, s
    <3>2. QED
      BY <1>1, <1>2, <1>3, <2>2, <3>1, TakeMatches DEF ReportSound
  <2>3. QED
    BY <2>1, <2>2
<1>8. ReportArrives'
  BY <1>1 DEF ReportArrives
<1>9. QED
  BY <1>1, <1>4, <1>5, <1>6, <1>7, <1>8 DEF ReportSound

(* All other steps leave the report and the map alone, and what a thread    *)
(* between its test and the taking has found.                               *)
LEMMA ReportKept ==
  ASSUME IInv, UNCHANGED <<keyboardReport, keysDown, place, overlapped>>,
         \A t \in Threads :
            /\ InMap(t)' => pc'[t] = pc[t]
            /\ InMap(t)' => event'[t] = event[t]
  PROVE  ReportSound'
  BY DEF IInv, ReportSound, ReportTypes, Taking, Alone, InMap,
     KeysDownMatchReport

(* A try of writeKeyboard().                                                *)
LEMMA WriteIInv ==
  ASSUME IInv, NEW t \in Threads, WriteKeyboard(t)
  PROVE  IInv'
<1>1. /\ UNCHANGED <<keyboardReport, keysDown, event, place, overlapped>>
      /\ pc' \in [Threads -> PCs]
      /\ \A u \in Threads : pc'[u] # pc[u] => pc'[u] = "readback"
  BY DEF WriteKeyboard, WriteAgain, Goto, input, IInv, Progress, PCs
<1>2. ReportSound'
  BY <1>1, ReportKept DEF InMap
<1>3. Progress'
  <2>1. tries' \in [Threads -> 0..RetryMax]
    BY KeyboardAssumption, InputAssumption
       DEF WriteKeyboard, Written, WriteAgain, GiveUp, IInv, Progress
  <2>2. hostReport' \in Report /\ missed' \in BOOLEAN
    BY DEF WriteKeyboard, Written, WriteAgain, GiveUp, host, IInv, Progress,
       ReportSound, ReportTypes
  <2>3. QED
    BY <1>1, <2>1, <2>2 DEF WriteKeyboard, input, IInv, Progress
<1>4. ReportArrives'
  BY <1>1 DEF WriteKeyboard, Written, WriteAgain, GiveUp, Goto, host, IInv,
     Progress, ReportArrives
<1>5. QED
  BY <1>2, <1>3, <1>4 DEF IInv

(* The wakeup packet: the host then has another report than keyboardReport. *)
LEMMA WakeupIInv ==
  ASSUME IInv, BeginWakeup \/ PressShift \/ ReleaseShift
  PROVE  IInv'
<1>1. /\ UNCHANGED <<keyboardReport, keysDown, event, place, overlapped>>
      /\ pc' \in [Threads -> PCs]
      /\ \A u \in Threads :
            pc'[u] # pc[u] => pc'[u] \in {"shift", "noshift", "idle"}
  BY DEF BeginWakeup, PressShift, ReleaseShift, WriteAgain, Goto, input, IInv,
     Progress, PCs
<1>2. ReportSound'
  BY <1>1, ReportKept DEF InMap
<1>3. Progress'
  <2>1. tries' \in [Threads -> 0..RetryMax]
    BY KeyboardAssumption, InputAssumption DEF BeginWakeup, PressShift,
       ReleaseShift, Written, WriteAgain, GiveUp, IInv, Progress
  <2>2. hostReport' \in Report /\ missed' \in BOOLEAN
    BY NoReportType, WakeupReportType DEF BeginWakeup, PressShift, ReleaseShift,
       Written, WriteAgain, GiveUp, host, IInv, Progress
  <2>3. QED
    BY <1>1, <2>1, <2>2 DEF BeginWakeup, PressShift, ReleaseShift, input, IInv,
       Progress
<1>4. ReportArrives'
  BY <1>1 DEF BeginWakeup, PressShift, ReleaseShift, Written, WriteAgain, GiveUp,
     Goto, host, IInv, Progress, ReportArrives, Threads
<1>5. QED
  BY <1>2, <1>3, <1>4 DEF IInv

(* The gadget comes and goes: the host starts with an empty report.         *)
LEMMA GadgetIInv ==
  ASSUME IInv, Connect \/ Disconnect
  PROVE  IInv'
<1>1. ReportSound'
  BY ReportKept DEF Connect, Disconnect, threads
<1>2. Progress'
  BY NoReportType DEF Connect, Disconnect, threads, IInv, Progress
<1>3. ReportArrives'
  BY DEF Connect, Disconnect, ReportArrives
<1>4. QED
  BY <1>1, <1>2, <1>3 DEF IInv

(* A key event of a client or a fake one begins.                            *)
LEMMA KeyEventIInv ==
  ASSUME IInv, NEW t \in Threads, NEW e \in Events, KeyEvent(t, e),
         fakes' \in 0..4
  PROVE  IInv'
<1>1. /\ UNCHANGED <<input, watched, ledKnown, place, tries, host, overlapped>>
      /\ pc' \in [Threads -> PCs] /\ event' \in [Threads -> Events]
      /\ \A u \in Threads : pc'[u] # pc[u] => pc'[u] = "leds"
      /\ \A u \in Threads : event'[u] # event[u] => pc'[u] = "leds"
      /\ \A u \in Threads : pc'[u] = "write" <=> pc[u] = "write"
  BY DEF KeyEvent, Goto, IInv, Progress, PCs
<1>2. ReportSound'
  BY <1>1, ReportKept DEF InMap, input
<1>3. Progress'
  BY <1>1 DEF input, host, IInv, Progress
<1>4. ReportArrives'
  BY <1>1 DEF input, host, IInv, ReportArrives
<1>5. QED
  BY <1>2, <1>3, <1>4 DEF IInv

LEMMA EventIInv ==
  ASSUME IInv, ClientKeyEvent \/ FakeKeyEvent
  PROVE  IInv'
<1>1. CASE ClientKeyEvent
  <2>1. PICK k \in Keys, d \in BOOLEAN : KeyEvent(Server, [down |-> d, key |-> k])
    BY <1>1 DEF ClientKeyEvent
  <2>2. [down |-> d, key |-> k] \in Events /\ Server \in Threads
    BY DEF Events, Threads
  <2>3. fakes' \in 0..4
    BY <1>1 DEF ClientKeyEvent, IInv, Progress
  <2>4. QED
    BY <2>1, <2>2, <2>3, KeyEventIInv
<1>2. CASE FakeKeyEvent
  <2> DEFINE e == [down |-> fakes % 2 = 0, key |-> XK_Num_Lock]
  <2>1. e \in Events /\ Video \in Threads
    BY DEF Events, Threads
  <2>2. KeyEvent(Video, e)
    BY <1>2 DEF FakeKeyEvent
  <2>3. fakes' \in 0..4
    BY <1>2 DEF FakeKeyEvent, IInv, Progress
  <2> HIDE DEF e
  <2>4. QED
    BY <2>1, <2>2, <2>3, KeyEventIInv
<1>3. QED
  BY <1>1, <1>2

(* The LED report comes, between the steps of keyEvent() or after them.     *)
LEMMA ReadIInv ==
  ASSUME IInv, NEW t \in Threads, ReadKeyBoardOutReport(t)
  PROVE  IInv'
<1>1. /\ UNCHANGED <<input, watched, event, place, tries, fakes, host, overlapped>>
      /\ pc' \in [Threads -> PCs] /\ ledKnown' \in BOOLEAN
      /\ \A u \in Threads : pc'[u] # pc[u] => pc'[u] \in {"change", "idle"}
      /\ \A u \in Threads : pc'[u] = "write" <=> pc[u] = "write"
  BY DEF ReadKeyBoardOutReport, Goto, IInv, Progress, PCs
<1>2. ReportSound'
  BY <1>1, ReportKept DEF InMap, input
<1>3. Progress'
  BY <1>1 DEF input, host, IInv, Progress
<1>4. ReportArrives'
  BY <1>1 DEF input, host, IInv, ReportArrives
<1>5. QED
  BY <1>2, <1>3, <1>4 DEF IInv

LEMMA RestIInv ==
  ASSUME IInv, BeginFakes \/ UNCHANGED vars
  PROVE  IInv'
<1>1. /\ UNCHANGED <<input, ledKnown, watched, pc, event, place, tries, host,
                     overlapped>>
      /\ fakes' \in 0..4
  BY DEF BeginFakes, threads, vars, IInv, Progress
<1>2. ReportSound'
  BY <1>1, ReportKept DEF input
<1>3. Progress' /\ ReportArrives'
  BY <1>1 DEF input, host, IInv, Progress, ReportArrives
<1>4. QED
  BY <1>2, <1>3 DEF IInv

LEMMA StepIInv == IInv /\ [Next]_vars => IInv'
  BY GadgetIInv, EventIInv, NewKeyIInv, ChangeReportIInv, IgnoreEventIInv,
     FindPlaceIInv, TakePlaceIInv, WriteIInv, WakeupIInv, ReadIInv, RestIInv
     DEF Next, ThreadStep

THEOREM IInvHolds == Spec => []IInv
  BY InitIInv, StepIInv, PTL DEF Spec

-----------------------------------------------------------------------------
(* Every variable keeps its type: keys keep to their places, tries to their *)
(* number.                                                                  *)
THEOREM TypeCorrect == Spec => []TypeOK
<1>1. IInv => TypeOK
  BY DEF IInv, ReportSound, ReportTypes, Progress, PCs, KeySyms, TypeOK
<1>2. QED
  BY IInvHolds, <1>1, PTL

(* keysDown and the report agree, for any set of keysyms and places,        *)
(* wherever in keyEvent() a thread is when the other changes them, until    *)
(* both are between the test of the map and the taking of a place at once.  *)
THEOREM ReportMatches == Spec => []KeysDownMatchReport
<1>1. IInv => KeysDownMatchReport
  BY DEF IInv, ReportSound
<1>2. QED
  BY IInvHolds, <1>1, PTL

(* The host has the report once both threads are done, unless it was told   *)
(* something else or nothing since.                                         *)
THEOREM ReportReachesHost == Spec => []HostHasReport
<1>1. IInv => HostHasReport
  BY DEF IInv, ReportArrives, HostHasReport
<1>2. QED
  BY IInvHolds, <1>1, PTL

(* Of all keysyms a client may send only KP_Equal makes keyEvent() report a *)
(* usage that the descriptor of create_usbhid.sh:61 does not have.          *)
THEOREM UsagesDescribed ==
  ASSUME XK_KP_Equal \notin Keys
  PROVE  Spec => [](\A s \in Slots : hostReport.keys[s] <= UsageMaximum)
<1>1. ASSUME NEW u \in Usages \cup {0}
      PROVE  u <= UsageMaximum
  <2>1. CASE u = 0
    BY <2>1 DEF UsageMaximum
  <2>2. CASE u \in Usages
    <3>1. PICK k \in Keys \cup {XK_Num_Lock} : u = KeyToScancode(k)
      BY <2>2 DEF Usages
    <3>2. k # XK_KP_Equal
      BY DEF XK_Num_Lock, XK_KP_Equal
    <3>3. u \in Nat
      BY <3>1, Scancodes DEF Usages
    <3>4. QED
      BY <3>1, <3>2, <3>3, Scancodes DEF UsageMaximum
  <2>3. QED
    BY <2>1, <2>2
<1>2. IInv => \A s \in Slots : hostReport.keys[s] <= UsageMaximum
  BY <1>1 DEF IInv, Progress, Report
<1>3. QED
  BY IInvHolds, <1>2, PTL

-----------------------------------------------------------------------------
(* The position is the one that was scaled last, and the report the host    *)
(* has is the pointer's unless the server thread has it to change or write. *)
Aim ==
    /\ PointerTypeOK
    /\ pointerReport.position = Scaled(aimed.x, aimed.width)
    /\ ~pmissed /\ ppc[Server] = "idle" => hostPointer = pointerReport

(* What is left of a product after the division and the narrowing to 16     *)
(* bits is a position.                                                      *)
LEMMA ScaledType ==
  ASSUME NEW n \in Nat, NEW w \in Nat \ {0}
  PROVE  Scaled(n, w) \in Positions
<1>1. n * Extent \in Nat /\ 2 * Extent \in Nat \ {0}
  BY PointerAssumption
<1>2. \A a \in Nat : a \div w \in Nat
  OBVIOUS
<1>3. \A a \in Nat, m \in Nat \ {0} : a % m \in 0..m - 1
  OBVIOUS
<1>4. QED
  BY <1>1, <1>2, <1>3 DEF Scaled, Positions

(* Scaling to the HID range and back loses less than one pixel, in a mode   *)
(* that is no wider than the range.                                         *)
LEMMA ScaledBack ==
  ASSUME NEW n \in Nat, NEW w \in Nat, n < w, w <= Extent
  PROVE  /\ Scaled(n, w) < Extent
         /\ (Scaled(n, w) * w) \div Extent \in {n - 1, n}
<1> DEFINE a == n * Extent
           p == a \div w
<1>1. Extent \in Nat \ {0} /\ a \in Nat /\ p \in Nat
  BY PointerAssumption
<1>2. p * w <= a /\ a < p * w + w
  <2>1. \A k \in Nat : (k \div w) * w <= k /\ k < (k \div w) * w + w
    OBVIOUS
  <2>2. QED
    BY <1>1, <2>1
<1>3. p < Extent
  <2>1. a < w * Extent
    BY <1>1
  <2>2. Extent <= p => w * Extent <= p * w
    BY <1>1
  <2>3. w * Extent \in Nat /\ p * w \in Nat
    BY <1>1
  <2>4. QED
    BY <1>1, <1>2, <2>1, <2>2, <2>3
<1>4. Scaled(n, w) = p
  <2>1. \A k \in Nat, m \in Nat \ {0} : k < m => k % m = k
    OBVIOUS
  <2>2. QED
    BY <1>1, <1>3, <2>1 DEF Scaled
<1> HIDE DEF p
<1>5. n * Extent - Extent < p * w /\ p * w <= n * Extent
  BY <1>1, <1>2
<1>6. (p * w) \div Extent \in {n - 1, n}
  <2> DEFINE q == (p * w) \div Extent
  <2>1. q \in Nat /\ q * Extent <= p * w /\ p * w < q * Extent + Extent
    <3>1. \A k \in Nat : /\ k \div Extent \in Nat
                         /\ (k \div Extent) * Extent <= k
                         /\ k < (k \div Extent) * Extent + Extent
      BY <1>1
    <3>2. p * w \in Nat
      BY <1>1
    <3>3. QED
      BY <3>1, <3>2
  <2> HIDE DEF q
  <2>2. p * w \in Nat /\ q * Extent \in Nat /\ n * Extent \in Nat
    BY <1>1, <2>1
  <2>3. q * Extent <= n * Extent /\ n * Extent < (q + 2) * Extent
    <3>1. (q + 2) * Extent = q * Extent + Extent + Extent
      BY <1>1, <2>1
    <3>2. QED
      BY <1>1, <1>5, <2>1, <2>2, <3>1
  <2>4. q <= n
    <3>1. n < q => n * Extent < q * Extent
      BY <1>1, <2>1
    <3>2. QED
      BY <2>1, <2>2, <2>3, <3>1
  <2>5. n < q + 2
    <3>1. q + 2 <= n => (q + 2) * Extent <= n * Extent
      BY <1>1, <2>1
    <3>2. (q + 2) * Extent \in Nat
      BY <1>1, <2>1
    <3>3. QED
      BY <2>1, <2>2, <2>3, <3>1, <3>2
  <2>6. QED
    BY <2>1, <2>4, <2>5 DEF q
<1>7. QED
  BY <1>3, <1>4, <1>6

LEMMA ButtonsType ==
  ASSUME NEW mask \in 0..31
  PROVE  Buttons(mask) \in 0..7
<1>1. \A b \in {1, 2, 4} : Bit(mask, b) \in 0..1
  BY DEF Bit
<1>2. QED
  BY <1>1 DEF Buttons

LEMMA PointerReportTypes ==
  /\ NoPointer \in Reports /\ NoPointer.position = 0
  /\ MiddlePointer \in Reports
<1>1. 0 \in Positions /\ (Extent - 1) \div 2 \in Positions
  BY PointerAssumption DEF Positions
<1>2. QED
  BY <1>1 DEF NoPointer, MiddlePointer, Reports

LEMMA TriesStart ==
  ASSUME NEW old \in [Threads -> 0..RetryMax], NEW t
  PROVE  [old EXCEPT ![t] = RetryMax] \in [Threads -> 0..RetryMax]
<1>1. RetryMax \in 0..RetryMax
  BY InputAssumption
<1>2. QED
  BY <1>1

LEMMA PointerInitAim == PointerInit => Aim
<1> SUFFICES ASSUME PointerInit PROVE Aim
  OBVIOUS
<1>1. PointerTypeOK
  <2>1. ptries \in [Threads -> 0..RetryMax]
    BY InputAssumption DEF PointerInit
  <2>2. QED
    BY <2>1, PointerReportTypes DEF PointerInit, PointerTypeOK
<1>2. Scaled(0, width) = 0
  <2>1. width \in Nat \ {0} /\ 2 * Extent \in Nat \ {0} /\ 0 * Extent = 0
    BY PointerAssumption DEF PointerInit
  <2>2. \A w \in Nat \ {0} : 0 \div w = 0 /\ 0 % w = 0
    OBVIOUS
  <2>3. QED
    BY <2>1, <2>2 DEF Scaled
<1>3. QED
  BY <1>1, <1>2, PointerReportTypes DEF PointerInit, Aim

(* An event of a client: new buttons, and a position that stays or is yet   *)
(* to be scaled.                                                            *)
LEMMA PointerEventAim ==
  ASSUME Aim, NEW mask \in Masks, NEW n \in Xs, PointerEvent(mask, n)
  PROVE  Aim'
<1>1. /\ Buttons(mask) \in 0..7
      /\ Wheel(mask, pointerReport.wheel) \in {0, 1, 255}
  BY ButtonsType, PointerAssumption DEF Wheel, Aim, PointerTypeOK, Reports
<1>2. pointerReport' \in Reports /\ pointerReport'.position = pointerReport.position
  BY <1>1 DEF PointerEvent, Aim, PointerTypeOK, Reports
<1>3. ppc' \in [Threads -> {"idle", "scale", "write"}] /\ ppc'[Server] # "idle"
  BY DEF PointerEvent, Pgoto, Aim, PointerTypeOK, Threads
<1>4. ptries' \in [Threads -> 0..RetryMax]
  BY TriesStart DEF PointerEvent, Aim, PointerTypeOK
<1>5. PointerTypeOK'
  BY <1>2, <1>3, <1>4 DEF PointerEvent, phost, Aim, PointerTypeOK
<1>6. QED
  BY <1>2, <1>3, <1>5 DEF PointerEvent, Aim

LEMMA ScaleAim ==
  ASSUME Aim, ScaleX
  PROVE  Aim'
<1>1. x \in Nat /\ width \in Nat \ {0} /\ x \in Xs \cup {0} /\ width \in Widths
  BY PointerAssumption DEF Aim, PointerTypeOK
<1>2. Scaled(x, width) \in Positions
  BY <1>1, ScaledType
<1>3. /\ pointerReport' \in Reports
      /\ pointerReport'.position = Scaled(x, width)
  BY <1>2 DEF ScaleX, Aim, PointerTypeOK, Reports
<1>4. ppc' \in [Threads -> {"idle", "scale", "write"}] /\ ppc'[Server] = "write"
  BY DEF ScaleX, Pgoto, Aim, PointerTypeOK, Threads
<1>5. aimed' \in [x : Xs \cup {0}, width : Widths]
      /\ aimed'.x = x /\ aimed'.width = width
  BY <1>1 DEF ScaleX
<1>6. PointerTypeOK'
  BY <1>3, <1>4, <1>5 DEF ScaleX, phost, Aim, PointerTypeOK
<1>7. QED
  BY <1>3, <1>4, <1>5, <1>6 DEF Aim

(* A try of writePointer(), of the report itself or of another.             *)
LEMMA WritePointerAim ==
  ASSUME Aim, NEW t \in Threads, NEW report \in Reports, NEW lost \in BOOLEAN,
         WritePointer(t, report, lost), lost \/ report = pointerReport
  PROVE  Aim'
<1>1. /\ hostPointer' \in Reports /\ pmissed' \in BOOLEAN
      /\ ppc' \in [Threads -> {"idle", "scale", "write"}]
  BY DEF WritePointer, Pgoto, phost, Aim, PointerTypeOK
<1>2. ptries' \in [Threads -> 0..RetryMax]
  BY InputAssumption DEF WritePointer, Aim, PointerTypeOK
<1>3. PointerTypeOK'
  BY <1>1, <1>2 DEF WritePointer, Aim, PointerTypeOK
<1>4. ~pmissed' /\ ppc'[Server] = "idle" => hostPointer' = pointerReport
  BY DEF WritePointer, Pgoto, phost, Aim, PointerTypeOK, Threads
<1>5. QED
  BY <1>3, <1>4 DEF WritePointer, Aim

LEMMA PointerStepAim == Aim /\ [PointerNext]_pvars => Aim'
<1> SUFFICES ASSUME Aim, [PointerNext]_pvars PROVE Aim'
  OBVIOUS
<1>1. CASE ChangeWidth
  BY <1>1 DEF ChangeWidth, pthreads, phost, Aim, PointerTypeOK
<1>2. CASE ConnectPointer \/ DisconnectPointer
  BY <1>2, PointerReportTypes
     DEF ConnectPointer, DisconnectPointer, pthreads, Aim, PointerTypeOK
<1>3. ASSUME NEW mask \in Masks, NEW n \in Xs, PointerEvent(mask, n)
      PROVE  Aim'
  BY <1>3, PointerEventAim
<1>4. CASE ScaleX
  BY <1>4, ScaleAim
<1>5. CASE WriteEvent
  BY <1>5, WritePointerAim DEF WriteEvent, Aim, PointerTypeOK, Threads
<1>6. CASE BeginMiddle
  <2>1. /\ ppc' \in [Threads -> {"idle", "scale", "write"}]
        /\ ppc'[Server] = ppc[Server]
    BY <1>6, InputAssumption DEF BeginMiddle, Pgoto, Aim, PointerTypeOK, Threads
  <2>2. ptries' \in [Threads -> 0..RetryMax]
    BY <1>6, TriesStart DEF BeginMiddle, Aim, PointerTypeOK
  <2>3. QED
    BY <1>6, <2>1, <2>2 DEF BeginMiddle, phost, Aim, PointerTypeOK
<1>7. CASE WriteMiddle
  BY <1>7, WritePointerAim, PointerReportTypes DEF WriteMiddle, Threads
<1>8. CASE UNCHANGED pvars
  BY <1>8 DEF pvars, pthreads, phost, Aim, PointerTypeOK
<1>9. QED
  BY <1>1, <1>2, <1>3, <1>4, <1>5, <1>6, <1>7, <1>8 DEF PointerNext

THEOREM AimHolds == PointerSpec => []Aim
  BY PointerInitAim, PointerStepAim, PTL DEF PointerSpec

-----------------------------------------------------------------------------
(* Every variable of the pointer keeps its type: positions to 16 bits,      *)
(* tries to their number, whatever the clients send in whatever mode.       *)
THEOREM PointerTypeCorrect == PointerSpec => []PointerTypeOK
<1>1. Aim => PointerTypeOK
  BY DEF Aim
<1>2. QED
  BY AimHolds, <1>1, PTL

(* pointerEvent() reports the pixel the client pointed to, or the one       *)
(* before, within the descriptor's range, in every mode up to that range    *)
(* and whenever the mode changes, but between the two reads of the width.   *)
THEOREM PointerOnPixel == PointerSpec => []PointsAtPixel
<1>1. Aim => PointsAtPixel
  <2> SUFFICES ASSUME Aim, aimed.x < aimed.width, aimed.width <= Extent
               PROVE  /\ pointerReport.position < Extent
                      /\ (pointerReport.position * aimed.width) \div Extent
                            \in {aimed.x - 1, aimed.x}
    BY DEF PointsAtPixel
  <2>1. aimed.x \in Nat /\ aimed.width \in Nat
    <3>1. aimed.x \in Xs \cup {0} /\ aimed.width \in Widths
      BY DEF Aim, PointerTypeOK
    <3>2. Xs \cup {0} \subseteq Nat /\ Widths \subseteq Nat
      BY PointerAssumption
    <3>3. QED
      BY <3>1, <3>2
  <2>2. QED
    BY <2>1, ScaledBack DEF Aim
<1>2. QED
  BY AimHolds, <1>1, PTL

(* Once both threads are done with the pointer the host has its report,     *)
(* whoever wrote last and however often a write had to be tried again,      *)
(* unless it was sent another or none since.                                *)
THEOREM PointerReachesHost == PointerSpec => []HostHasPointer
<1>1. Aim => HostHasPointer
  BY DEF Aim, HostHasPointer, Threads
<1>2. QED
  BY AimHolds, <1>1, PTL
=============================================================================
