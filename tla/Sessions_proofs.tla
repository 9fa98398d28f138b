---------------------------- MODULE Sessions_proofs ----------------------------
(***************************************************************************)
(* Theorems about the sessions of module Sessions, for any clients and any  *)
(* number of registrations: the three threads' uses of activeSessionIDs,    *)
(* the signals on their way and the crashes, in every order.                *)
(***************************************************************************)
EXTENDS Sessions, SequenceTheorems, TLAPS

(* An entry that is about to be adopted or pushed has been read.            *)
EntryRead == pc \in {"adopt", "push"} => latestEntry \in Ids

(* The last signal on its way is the list as it is.                         *)
LastIsCurrent == signals # <<>> => signals[Len(signals)] = sessions

IInv == TypeOK /\ EntryRead /\ LastIsCurrent /\ NoSessionMissing

-----------------------------------------------------------------------------
LEMMA WithoutType ==
  ASSUME NEW list \in Seq(Ids), NEW id
  PROVE  Without(list, id) \in Seq(Ids)
<1>1. CASE id \in Elements(list)
  <2>1. PICK n \in 1..Len(list) :
              /\ list[n] = id
              /\ Without(list, id)
                   = SubSeq(list, 1, n - 1) \o SubSeq(list, n + 1, Len(list))
    <3>1. \E n \in 1..Len(list) : list[n] = id
      BY <1>1 DEF Elements
    <3>2. QED
      BY <1>1, <3>1 DEF Without
  <2>2. SubSeq(list, 1, n - 1) \in Seq(Ids)
    BY SubSeqProperties
  <2>3. SubSeq(list, n + 1, Len(list)) \in Seq(Ids)
    BY SubSeqProperties
  <2>4. QED
    BY <2>1, <2>2, <2>3, ConcatProperties
<1>2. CASE id \notin Elements(list)
  BY <1>2 DEF Without
<1>3. QED
  BY <1>1, <1>2

(* A change of the session manager's list keeps what IInv says of it.       *)
LEMMA AnnounceKeeps ==
  ASSUME IInv, NEW list \in Seq(Ids), Announce(list)
  PROVE  /\ sessions' \in Seq(Ids) /\ signals' \in Seq(Seq(Ids))
         /\ LastIsCurrent'
         /\ signals' = <<>> => signals = <<>> /\ sessions' = sessions
<1> USE DEF IInv, TypeOK, LastIsCurrent
<1>1. CASE list = sessions
  BY <1>1 DEF Announce
<1>2. CASE list # sessions
  <2>1. signals' = Append(signals, list) /\ sessions' = list
    BY <1>2 DEF Announce
  <2>2. /\ signals' \in Seq(Seq(Ids)) /\ Len(signals') = Len(signals) + 1
        /\ signals'[Len(signals) + 1] = list
    BY <2>1, AppendProperties
  <2>3. signals' # <<>>
    BY <2>2, LenProperties
  <2>4. QED
    BY <2>1, <2>2, <2>3
<1>3. QED
  BY <1>1, <1>2

LEMMA InitIInv == Init => IInv
  BY SessionsAssumption DEF Init, IInv, TypeOK, EntryRead, LastIsCurrent,
     NoSessionMissing, Elements, Ids

-----------------------------------------------------------------------------
(* The steps that leave the lists and the signals alone.                    *)
LEMMA QuietStep ==
  ASSUME IInv,
         \/ AdoptSession \/ Forget
         \/ \E c \in Clients : NewClient(c) \/ ClientGone(c) \/ CloseClient(c)
  PROVE  IInv'
<1>1. CASE AdoptSession
  <2>1. latestEntry \in {0} \cup Ids
    BY DEF IInv, TypeOK
  <2>2. sessionId' \in [Clients -> {0} \cup Ids]
    BY <1>1, <2>1 DEF AdoptSession, IInv, TypeOK
  <2>3. TypeOK'
    BY <1>1, <2>2 DEF AdoptSession, IInv, TypeOK, Goto, hooks, loop, manager
  <2>4. EntryRead' /\ LastIsCurrent'
    BY <1>1 DEF AdoptSession, IInv, EntryRead, LastIsCurrent, Goto, manager
  <2>5. NoSessionMissing'
    BY <1>1 DEF AdoptSession, IInv, NoSessionMissing, Elements, manager
  <2>6. QED
    BY <2>3, <2>4, <2>5 DEF IInv
<1>2. CASE Forget
  <2>1. began' \in Seq(Ids) /\ at' \in 1..Len(began') + 1
    BY <1>2, EmptySeq DEF Forget
  <2>2. TypeOK'
    BY <1>2, <2>1 DEF Forget, IInv, TypeOK, Goto, manager
  <2>3. EntryRead' /\ LastIsCurrent'
    BY <1>2 DEF Forget, EntryRead, IInv, LastIsCurrent, Goto, manager
  <2>4. NoSessionMissing'
    BY <1>2 DEF Forget, IInv, NoSessionMissing, Elements, manager
  <2>5. QED
    BY <2>2, <2>3, <2>4 DEF IInv
<1>3. ASSUME NEW c \in Clients, NewClient(c) PROVE IInv'
  <2>1. sessionId' \in [Clients -> {0} \cup Ids]
    BY <1>3 DEF NewClient, IInv, TypeOK
  <2>2. TypeOK'
    BY <1>3, <2>1 DEF NewClient, IInv, TypeOK, Goto, loop, manager
  <2>3. EntryRead' /\ LastIsCurrent'
    BY <1>3 DEF NewClient, EntryRead, IInv, LastIsCurrent, Goto, manager
  <2>4. NoSessionMissing'
    BY <1>3 DEF NewClient, IInv, NoSessionMissing, Elements, manager
  <2>5. QED
    BY <2>2, <2>3, <2>4 DEF IInv
<1>4. ASSUME NEW c \in Clients, ClientGone(c) PROVE IInv'
  <2>1. began' \in Seq(Ids) /\ Len(began') \in Nat
    BY <1>4, LenProperties DEF ClientGone, IInv, TypeOK
  <2>2. at' \in 1..Len(began') + 1
    BY <1>4, <2>1 DEF ClientGone
  <2>3. /\ linked' \in SUBSET Clients /\ hooked' \in SUBSET Clients
        /\ closed' \in SUBSET linked'
    BY <1>4 DEF ClientGone, IInv, TypeOK
  <2>4. TypeOK'
    BY <1>4, <2>1, <2>2, <2>3 DEF ClientGone, IInv, TypeOK, Goto, manager
  <2>5. EntryRead' /\ LastIsCurrent'
    BY <1>4 DEF ClientGone, EntryRead, IInv, LastIsCurrent, Goto, manager
  <2>6. NoSessionMissing'
    BY <1>4 DEF ClientGone, IInv, NoSessionMissing, Elements, manager
  <2>7. QED
    BY <2>4, <2>5, <2>6 DEF IInv
<1>5. ASSUME NEW c \in Clients, CloseClient(c) PROVE IInv'
  <2>1. TypeOK'
    BY <1>5 DEF CloseClient, IInv, TypeOK, hooks, loop, manager
  <2>2. EntryRead' /\ LastIsCurrent'
    BY <1>5 DEF CloseClient, EntryRead, IInv, LastIsCurrent, manager
  <2>3. NoSessionMissing'
    BY <1>5 DEF CloseClient, IInv, NoSessionMissing, Elements, manager
  <2>4. QED
    BY <2>1, <2>2, <2>3 DEF IInv
<1>6. QED
  BY <1>1, <1>2, <1>3, <1>4, <1>5

LEMMA RegisterStep ==
  ASSUME IInv, Register
  PROVE  IInv'
<1>1. ASSUME lastSession < MaxSession, Goto("register", "get"),
             lastSession' = lastSession + 1,
             Announce(Append(sessions, lastSession + 1)),
             UNCHANGED <<hooks, sessionId, closed, activeSessionIDs,
                         latestEntry, loop, inherited>>
      PROVE  IInv'
  <2>1. lastSession + 1 \in Ids
    BY <1>1, SessionsAssumption DEF IInv, TypeOK, Ids
  <2>2. Append(sessions, lastSession + 1) \in Seq(Ids)
    BY <2>1, AppendProperties DEF IInv, TypeOK
  <2>3. /\ sessions' \in Seq(Ids) /\ signals' \in Seq(Seq(Ids))
        /\ LastIsCurrent'
        /\ signals' = <<>> => signals = <<>> /\ sessions' = sessions
    BY <1>1, <2>2, AnnounceKeeps
  <2>4. TypeOK'
    BY <1>1, <2>1, <2>3 DEF IInv, TypeOK, Goto, hooks, loop
  <2>5. EntryRead'
    BY <1>1 DEF EntryRead, Goto
  <2>6. NoSessionMissing'
    BY <1>1, <2>3 DEF IInv, NoSessionMissing, Elements
  <2>7. QED
    BY <2>3, <2>4, <2>5, <2>6 DEF IInv
<1>2. ASSUME Goto("register", "events"), hooked' = {},
             UNCHANGED <<linked, known, sessionId, closed, activeSessionIDs,
                         latestEntry, loop, manager>>
      PROVE  IInv'
  <2>1. TypeOK'
    BY <1>2 DEF IInv, TypeOK, Goto, loop, manager
  <2>2. EntryRead' /\ LastIsCurrent'
    BY <1>2 DEF IInv, EntryRead, LastIsCurrent, Goto, manager
  <2>3. NoSessionMissing'
    BY <1>2 DEF IInv, NoSessionMissing, Elements, manager
  <2>4. QED
    BY <2>1, <2>2, <2>3 DEF IInv
<1>3. QED
  BY <1>1, <1>2 DEF Register

LEMMA GetStep ==
  ASSUME IInv, GetSessionInfo
  PROVE  IInv'
<1>1. /\ UNCHANGED <<linked, known, sessionId, closed, activeSessionIDs,
                      loop, manager>>
      /\ hooked' \in {hooked, {}}
      /\ \/ pc' = "events"
         \/ pc' = "adopt" /\ latestEntry' \in Ids
      /\ latestEntry' \in {0} \cup Ids
  <2>1. CASE sessions = <<>>
    <3>1. /\ pc' = "events" /\ hooked' = {}
          /\ UNCHANGED <<linked, known, sessionId, closed, activeSessionIDs,
                         latestEntry, loop, manager>>
      BY <2>1 DEF GetSessionInfo, Goto
    <3>2. latestEntry' \in {0} \cup Ids
      BY <3>1 DEF IInv, TypeOK
    <3>3. QED
      BY <3>1, <3>2
  <2>2. CASE sessions # <<>>
    <3>1. sessions[Len(sessions)] \in Ids
      BY <2>2, EmptySeq, LenProperties, ElementOfSeq DEF IInv, TypeOK
    <3>2. QED
      BY <2>2, <3>1 DEF GetSessionInfo, Goto, hooks
  <2>3. QED
    BY <2>1, <2>2
<1>2. TypeOK'
  BY <1>1 DEF IInv, TypeOK, loop, manager
<1>3. EntryRead' /\ LastIsCurrent'
  BY <1>1 DEF IInv, EntryRead, LastIsCurrent, manager
<1>4. NoSessionMissing'
  BY <1>1 DEF IInv, NoSessionMissing, Elements, manager
<1>5. QED
  BY <1>2, <1>3, <1>4 DEF IInv

LEMMA PushStep ==
  ASSUME IInv, PushSession
  PROVE  IInv'
<1>1. latestEntry \in Ids
  BY DEF IInv, EntryRead, PushSession, Goto
<1>2. /\ activeSessionIDs' \in Seq(Ids)
      /\ Len(activeSessionIDs') = Len(activeSessionIDs) + 1
      /\ \A i \in 1..Len(activeSessionIDs) :
            activeSessionIDs'[i] = activeSessionIDs[i]
  BY <1>1, AppendProperties DEF PushSession, IInv, TypeOK
<1>3. Elements(activeSessionIDs) \subseteq Elements(activeSessionIDs')
  <2>1. Len(activeSessionIDs) \in Nat
    BY LenProperties DEF IInv, TypeOK
  <2>2. QED
    BY <1>2, <2>1 DEF Elements
<1>4. TypeOK'
  BY <1>2 DEF PushSession, IInv, TypeOK, Goto, loop, manager
<1>5. NoSessionMissing'
  <2>1. signals' = signals /\ sessions' = sessions /\ inherited' = inherited
    BY DEF PushSession, manager
  <2>2. Elements(sessions') = Elements(sessions)
    BY <2>1
  <2>3. QED
    BY <1>3, <2>1, <2>2 DEF IInv, NoSessionMissing
<1>6. EntryRead' /\ LastIsCurrent'
  BY DEF PushSession, IInv, EntryRead, LastIsCurrent, Goto, manager
<1>7. QED
  BY <1>4, <1>5, <1>6 DEF IInv

LEMMA UnregisterStep ==
  ASSUME IInv, Unregister
  PROVE  IInv'
<1>1. at' \in 1..Len(began') + 1
  BY LenProperties DEF Unregister, IInv, TypeOK
<1>2. /\ sessions' \in Seq(Ids) /\ signals' \in Seq(Seq(Ids))
      /\ LastIsCurrent'
      /\ signals' = <<>> => signals = <<>> /\ sessions' = sessions
  <2>1. PICK c \in hooked : \/ Announce(Without(sessions, sessionId[c]))
                            \/ UNCHANGED <<sessions, signals>>
    BY DEF Unregister
  <2>2. Without(sessions, sessionId[c]) \in Seq(Ids)
    BY WithoutType DEF IInv, TypeOK
  <2>3. CASE Announce(Without(sessions, sessionId[c]))
    BY <2>2, <2>3, AnnounceKeeps
  <2>4. CASE UNCHANGED <<sessions, signals>>
    BY <2>4 DEF IInv, TypeOK, LastIsCurrent
  <2>5. QED
    BY <2>1, <2>3, <2>4
<1>3. TypeOK'
  BY <1>1, <1>2 DEF Unregister, IInv, TypeOK, hooks
<1>4. EntryRead'
  BY DEF Unregister, IInv, EntryRead
<1>5. NoSessionMissing'
  BY <1>2 DEF Unregister, IInv, NoSessionMissing, Elements
<1>6. QED
  BY <1>2, <1>3, <1>4, <1>5 DEF IInv

LEMMA CallbackStep ==
  ASSUME IInv, SessionCallback
  PROVE  IInv'
<1>1. /\ signals \in Seq(Seq(Ids)) /\ signals # <<>>
      /\ activeSessionIDs' = Head(signals) /\ signals' = Tail(signals)
      /\ sessions' = sessions
  BY DEF SessionCallback, IInv, TypeOK
<1>2. /\ signals' \in Seq(Seq(Ids)) /\ Len(signals') = Len(signals) - 1
      /\ \A i \in 1..Len(signals') : signals'[i] = signals[i + 1]
      /\ Head(signals) = signals[1] /\ Head(signals) \in Seq(Ids)
  BY <1>1, HeadTailProperties
<1>3. Len(signals) \in Nat \ {0}
  BY <1>1, EmptySeq, LenProperties
<1>4. LastIsCurrent'
  <2>1. SUFFICES ASSUME signals' # <<>>
                 PROVE  signals'[Len(signals')] = sessions'
    BY DEF LastIsCurrent
  <2>2. Len(signals') \in Nat \ {0}
    BY <1>2, <2>1, EmptySeq, LenProperties
  <2>3. signals'[Len(signals')] = signals[Len(signals)]
    BY <1>2, <1>3, <2>2
  <2>4. QED
    BY <1>1, <2>3 DEF IInv, LastIsCurrent
<1>5. NoSessionMissing'
  <2>1. SUFFICES ASSUME signals' = <<>>
                 PROVE  Elements(sessions') \ inherited'
                           \subseteq Elements(activeSessionIDs')
    BY DEF NoSessionMissing
  <2>2. Len(signals) = 1
    BY <1>2, <1>3, <2>1
  <2>3. Head(signals) = sessions
    BY <1>1, <1>2, <2>2 DEF IInv, LastIsCurrent
  <2>4. QED
    BY <1>1, <2>3
<1>6. TypeOK' /\ EntryRead'
  BY <1>1, <1>2 DEF SessionCallback, IInv, TypeOK, EntryRead, hooks, loop
<1>7. QED
  BY <1>4, <1>5, <1>6 DEF IInv

LEMMA RevokeStep ==
  ASSUME IInv, RevokeSession
  PROVE  IInv'
<1>1. PICK id \in Elements(sessions) : Announce(Without(sessions, id))
  BY DEF RevokeSession
<1>2. Without(sessions, id) \in Seq(Ids)
  BY WithoutType DEF IInv, TypeOK
<1>3. /\ sessions' \in Seq(Ids) /\ signals' \in Seq(Seq(Ids))
      /\ LastIsCurrent'
      /\ signals' = <<>> => signals = <<>> /\ sessions' = sessions
  BY <1>1, <1>2, AnnounceKeeps
<1>4. TypeOK' /\ EntryRead'
  BY <1>3 DEF RevokeSession, IInv, TypeOK, EntryRead, hooks, loop
<1>5. NoSessionMissing'
  BY <1>3 DEF RevokeSession, IInv, NoSessionMissing, Elements
<1>6. QED
  BY <1>3, <1>4, <1>5 DEF IInv

LEMMA CrashStep ==
  ASSUME IInv, Crash
  PROVE  IInv'
<1>1. sessions' \in Seq(Ids) /\ inherited' = Elements(sessions')
  BY EmptySeq DEF Crash, IInv, TypeOK
<1>2. inherited' \in SUBSET Ids
  BY <1>1, LenProperties, ElementOfSeq DEF Elements
<1>3. TypeOK' /\ EntryRead' /\ LastIsCurrent'
  BY <1>1, <1>2 DEF Crash, IInv, TypeOK, EntryRead, LastIsCurrent
<1>4. NoSessionMissing'
  BY <1>1 DEF NoSessionMissing
<1>5. QED
  BY <1>3, <1>4 DEF IInv

LEMMA NextIInv == IInv /\ [Next]_vars => IInv'
<1> SUFFICES ASSUME IInv, [Next]_vars PROVE IInv'
  OBVIOUS
<1>1. CASE ServerStep
  BY <1>1, RegisterStep, GetStep, QuietStep, PushStep, UnregisterStep
     DEF ServerStep
<1>2. CASE SessionCallback
  BY <1>2, CallbackStep
<1>3. CASE RevokeSession
  BY <1>3, RevokeStep
<1>4. CASE Crash
  BY <1>4, CrashStep
<1>5. CASE \E c \in Clients : NewClient(c) \/ ClientGone(c) \/ CloseClient(c)
  BY <1>5, QuietStep
<1>6. CASE UNCHANGED vars
  <2>1. TypeOK'
    BY <1>6 DEF vars, hooks, loop, manager, IInv, TypeOK
  <2>2. EntryRead' /\ LastIsCurrent' /\ NoSessionMissing'
    BY <1>6 DEF vars, manager, IInv, EntryRead, LastIsCurrent,
       NoSessionMissing, Elements
  <2>3. QED
    BY <2>1, <2>2 DEF IInv
<1>7. QED
  BY <1>1, <1>2, <1>3, <1>4, <1>5, <1>6 DEF Next

-----------------------------------------------------------------------------
(* The variables keep their types: the identifiers in the lists, the loop   *)
(* of clientGone() within the list it began with, and only clients that are *)
(* linked are marked as closed.                                             *)
THEOREM TypeCorrect == Spec => []TypeOK
<1>1. IInv => TypeOK
  BY DEF IInv
<1>2. QED
  BY <1>1, InitIInv, NextIInv, PTL DEF Spec

(* In the middle of any number of registrations, ends of sessions, signals  *)
(* and restarts, with or without a cleared list, activeSessionIDs has every *)
(* session of this process that is in force once the signals have been      *)
(* handled (Monitor::sessionMonitor(), newClient()).                        *)
THEOREM SessionsKnown == Spec => []NoSessionMissing
<1>1. IInv => NoSessionMissing
  BY DEF IInv
<1>2. QED
  BY <1>1, InitIInv, NextIInv, PTL DEF Spec
=============================================================================
