------------------------------ MODULE Idle_proofs ------------------------------
(***************************************************************************)
(* Theorems about the copies of the main thread (module Monitor) and the    *)
(* idle timeout of the clients (module Idle), for any clients, timeouts,    *)
(* resolution of the clock and number of signals on the way.                *)
(***************************************************************************)
EXTENDS Idle, FiniteSetTheorems, SequenceTheorems, TLAPS

(* There are signals only for those who have subscribed, and the last one   *)
(* has the service's value; a copy no signal will change is right from the  *)
(* Get on, unless a change was missed.                                      *)
TimeoutFollowed ==
    /\ boot \notin {"matchPower", "run"} => timeoutSignals = <<>>
    /\ timeoutSignals # <<>>
       => timeoutSignals[Len(timeoutSignals)] = setting
    /\ boot \in {"matchTimeout", "matchPower", "run"} /\ timeoutSignals = <<>>
       /\ "timeout" \notin missed
       => timeoutValue = setting

PowerFollowed ==
    /\ boot # "run" => powerSignals = <<>>
    /\ powerSignals # <<>> => powerSignals[Len(powerSignals)] = power
    /\ boot # "power" /\ powerSignals = <<>> /\ "power" \notin missed
       => power = "Other" \/ hostPowerState = power

(* The client of a visit is still there.                                    *)
VisitedLinked == visited \subseteq linked

IInv ==
    /\ TypeOK /\ VisitedLinked
    /\ TimeoutFollowed /\ PowerFollowed

-----------------------------------------------------------------------------
(* A queue of signals whose last has the value of now, as one is taken out. *)
LEMMA TakeSignal ==
  ASSUME NEW S, NEW q \in Seq(S), q # <<>>
  PROVE  /\ Head(q) \in S /\ Head(q) = q[1] /\ Tail(q) \in Seq(S)
         /\ Len(q) \in Nat \ {0} /\ Len(Tail(q)) = Len(q) - 1
         /\ Tail(q) # <<>> => Tail(q)[Len(Tail(q))] = q[Len(q)]
         /\ Tail(q) = <<>> => Head(q) = q[Len(q)]
         /\ \A n \in 1..Len(Tail(q)) : Tail(q)[n] = q[n + 1]
<1>1. Len(q) \in Nat \ {0}
  BY EmptySeq, LenProperties
<1>2. /\ Head(q) \in S /\ Head(q) = q[1] /\ Tail(q) \in Seq(S)
      /\ Len(Tail(q)) = Len(q) - 1
      /\ \A n \in 1..Len(Tail(q)) : Tail(q)[n] = q[n + 1]
  BY HeadTailProperties
<1>3. ASSUME Tail(q) # <<>> PROVE Tail(q)[Len(Tail(q))] = q[Len(q)]
  <2>1. Len(Tail(q)) \in Nat \ {0}
    BY <1>2, <1>3, EmptySeq, LenProperties
  <2>2. QED
    BY <1>1, <1>2, <2>1
<1>4. ASSUME Tail(q) = <<>> PROVE Head(q) = q[Len(q)]
  <2>1. Len(Tail(q)) = 0
    BY <1>4, EmptySeq
  <2>2. Len(Tail(q)) = Len(q) - 1
    BY <1>2
  <2>3. Len(q) = 1
    BY <1>1, <2>1, <2>2
  <2>4. QED
    BY <1>2, <2>3
<1>5. QED
  BY <1>1, <1>2, <1>3, <1>4

LEMMA AddSignal ==
  ASSUME NEW S, NEW q \in Seq(S), NEW v \in S
  PROVE  /\ Append(q, v) \in Seq(S) /\ Append(q, v) # <<>>
         /\ Append(q, v)[Len(Append(q, v))] = v
         /\ Len(q) \in Nat /\ Len(Append(q, v)) = Len(q) + 1
         /\ \A n \in 1..Len(q) : Append(q, v)[n] = q[n]
<1>1. /\ Append(q, v) \in Seq(S) /\ Len(Append(q, v)) = Len(q) + 1
      /\ Append(q, v)[Len(q) + 1] = v
      /\ \A n \in 1..Len(q) : Append(q, v)[n] = q[n]
  BY AppendProperties
<1>2. Len(q) \in Nat
  BY LenProperties
<1>3. QED
  BY <1>1, <1>2

MonitorInv == MonitorTypeOK /\ TimeoutFollowed /\ PowerFollowed

(* A process that has just started.                                         *)
LEMMA NewMonitor ==
  ASSUME boot = "power", setting \in Timeouts, power \in Powers,
         timeoutSignals = <<>>, powerSignals = <<>>,
         missed = {}, timeoutValue = Default, hostPowerState = "Unknown"
  PROVE  MonitorInv
<1>1. /\ timeoutSignals \in Seq(Timeouts) /\ powerSignals \in Seq(Powers)
  BY EmptySeq
<1>2. MonitorTypeOK
  BY <1>1 DEF MonitorTypeOK
<1>3. TimeoutFollowed /\ PowerFollowed
  BY DEF TimeoutFollowed, PowerFollowed
<1>4. QED
  BY <1>2, <1>3 DEF MonitorInv

-----------------------------------------------------------------------------
(* The steps of module Monitor.                                             *)
LEMMA StartUpStep ==
  ASSUME MonitorInv, StartUp
  PROVE  MonitorInv'
<1> USE MonitorAssumption
    DEF MonitorInv, MonitorTypeOK, TimeoutFollowed, PowerFollowed,
     GoOn, PowerRead, services, signals, mirror
<1>1. CASE PowerStatusInit
  BY <1>1 DEF PowerStatusInit
<1>2. CASE SessionTimeoutInit
  BY <1>2 DEF SessionTimeoutInit
<1>3. CASE AddTimeoutMatch
  BY <1>3 DEF AddTimeoutMatch
<1>4. CASE AddPowerMatch
  BY <1>4 DEF AddPowerMatch
<1>5. QED
  BY <1>1, <1>2, <1>3, <1>4 DEF StartUp

LEMMA CallbackStep ==
  ASSUME MonitorInv, timeoutCallback \/ pwrStatCallback
  PROVE  MonitorInv'
<1>1. CASE timeoutCallback
  <2>1. timeoutSignals \in Seq(Timeouts) /\ timeoutSignals # <<>>
    BY <1>1 DEF timeoutCallback, MonitorInv, MonitorTypeOK
  <2>2. MonitorTypeOK' /\ TimeoutFollowed'
    BY <1>1, <2>1, TakeSignal
       DEF timeoutCallback, MonitorInv, MonitorTypeOK, TimeoutFollowed, services
  <2>3. PowerFollowed'
    BY <1>1 DEF timeoutCallback, MonitorInv, PowerFollowed, services
  <2>4. QED
    BY <2>2, <2>3 DEF MonitorInv
<1>2. CASE pwrStatCallback
  <2>1. powerSignals \in Seq(Powers) /\ powerSignals # <<>>
    BY <1>2 DEF pwrStatCallback, MonitorInv, MonitorTypeOK
  <2>2. MonitorTypeOK' /\ PowerFollowed'
    BY <1>2, <2>1, TakeSignal, MonitorAssumption
       DEF pwrStatCallback, MonitorInv, MonitorTypeOK, PowerFollowed, PowerRead,
           services
  <2>3. TimeoutFollowed'
    BY <1>2 DEF pwrStatCallback, MonitorInv, TimeoutFollowed, services
  <2>4. QED
    BY <2>2, <2>3 DEF MonitorInv
<1>3. QED
  BY <1>1, <1>2

LEMMA ServiceStep ==
  ASSUME MonitorInv,
         \/ \E v \in Timeouts : SetTimeout(v)
         \/ \E v \in Powers : SetPower(v)
  PROVE  MonitorInv'
<1> USE DEF MonitorInv, MonitorTypeOK, TimeoutFollowed, PowerFollowed,
     services, signals, mirror
<1>1. ASSUME NEW v \in Timeouts, SetTimeout(v) PROVE MonitorInv'
  <2>1. CASE boot \in {"matchPower", "run"}
    <3>1. /\ timeoutSignals' = Append(timeoutSignals, v)
          /\ missed' = missed \ {"timeout"}
      BY <1>1, <2>1 DEF SetTimeout
    <3>2. /\ timeoutSignals' \in Seq(Timeouts) /\ timeoutSignals' # <<>>
          /\ timeoutSignals'[Len(timeoutSignals')] = v
      BY <3>1, AddSignal
    <3>3. /\ setting' = v
          /\ UNCHANGED <<boot, power, powerSignals, timeoutValue,
                         hostPowerState>>
      BY <1>1 DEF SetTimeout
    <3>4. QED
      BY <2>1, <3>1, <3>2, <3>3
  <2>2. CASE boot = "matchTimeout"
    <3>1. /\ UNCHANGED <<boot, power, powerSignals, timeoutSignals,
                         timeoutValue, hostPowerState>>
          /\ setting' = v
          /\ missed' = missed \cup {"timeout"}
      BY <1>1, <2>2 DEF SetTimeout
    <3>2. QED
      BY <2>2, <3>1
  <2>3. CASE boot \in {"power", "timeout"}
    <3>1. /\ UNCHANGED <<boot, power, powerSignals, timeoutSignals, missed,
                         timeoutValue, hostPowerState>>
          /\ setting' = v
      BY <1>1, <2>3 DEF SetTimeout
    <3>2. QED
      BY <2>3, <3>1
  <2>4. QED
    BY <2>1, <2>2, <2>3
<1>2. ASSUME NEW v \in Powers, SetPower(v) PROVE MonitorInv'
  <2>1. CASE boot = "run"
    <3>1. /\ powerSignals' = Append(powerSignals, v)
          /\ missed' = missed \ {"power"}
      BY <1>2, <2>1 DEF SetPower
    <3>2. /\ powerSignals' \in Seq(Powers) /\ powerSignals' # <<>>
          /\ powerSignals'[Len(powerSignals')] = v
      BY <3>1, AddSignal
    <3>3. /\ power' = v
          /\ UNCHANGED <<boot, setting, timeoutSignals, timeoutValue,
                         hostPowerState>>
      BY <1>2 DEF SetPower
    <3>4. QED
      BY <2>1, <3>1, <3>2, <3>3
  <2>2. CASE boot \in {"timeout", "matchTimeout", "matchPower"}
    <3>1. /\ UNCHANGED <<boot, setting, powerSignals, timeoutSignals,
                         timeoutValue, hostPowerState>>
          /\ power' = v
          /\ missed' = missed \cup {"power"}
      BY <1>2, <2>2 DEF SetPower
    <3>2. QED
      BY <2>2, <3>1
  <2>3. CASE boot = "power"
    <3>1. /\ UNCHANGED <<boot, setting, powerSignals, timeoutSignals, missed,
                         timeoutValue, hostPowerState>>
          /\ power' = v
      BY <1>2, <2>3 DEF SetPower
    <3>2. QED
      BY <2>3, <3>1
  <2>4. QED
    BY <2>1, <2>2, <2>3
<1>3. QED
  BY <1>1, <1>2

LEMMA MonitorStep == MonitorInv /\ MonitorNext => MonitorInv'
  BY StartUpStep, CallbackStep, ServiceStep DEF MonitorNext

LEMMA RestartStep ==
  ASSUME MonitorInv, Restart
  PROVE  MonitorInv'
<1>1. /\ timeoutSignals' \in Seq(Timeouts) /\ powerSignals' \in Seq(Powers)
  BY EmptySeq DEF Restart
<1>2. MonitorTypeOK'
  BY <1>1 DEF Restart, MonitorInv, MonitorTypeOK, services
<1>3. TimeoutFollowed' /\ PowerFollowed'
  BY DEF Restart, TimeoutFollowed, PowerFollowed
<1>4. QED
  BY <1>2, <1>3 DEF MonitorInv

LEMMA MonitorUnchanged ==
  ASSUME MonitorInv, UNCHANGED monitor
  PROVE  MonitorInv'
  BY DEF monitor, MonitorInv, MonitorTypeOK, TimeoutFollowed, PowerFollowed,
     services, signals, mirror

-----------------------------------------------------------------------------
(* The steps of module Idle, as to the clients and the visit.               *)
IdleInv ==
    /\ linked \in SUBSET Clients
    /\ closed \in SUBSET linked
    /\ quiet \in [Clients -> 0..MaxAge]
    /\ ledKnown \in BOOLEAN
    /\ pc \in {"round", "next", "compare"}
    /\ todo \in SUBSET linked
    /\ visited \in SUBSET Clients /\ Cardinality(visited) <= 1
    /\ lag \in 0..MaxLag
    /\ VisitedLinked

LEMMA Parts == IInv <=> MonitorInv /\ IdleInv
  BY DEF IInv, TypeOK, MonitorInv, IdleInv

LEMMA FewVisited ==
  /\ Cardinality({}) <= 1
  /\ \A c : Cardinality({c}) <= 1
<1>1. Cardinality({}) = 0
  BY FS_EmptySet
<1>2. ASSUME NEW c PROVE Cardinality({c}) <= 1
  <2>1. Cardinality({c}) = 1
    BY FS_Singleton
  <2>2. QED
    BY <2>1
<1>3. Cardinality({}) <= 1
  BY <1>1
<1>4. QED
  BY <1>2, <1>3

LEMMA NewVisits ==
  ASSUME linked = {}, closed = {}, quiet = [c \in Clients |-> 0],
         ledKnown = FALSE, pc = "round", todo = {}, visited = {}, lag = 0
  PROVE  IdleInv
<1>1. 0 \in 0..MaxAge /\ 0 \in 0..MaxLag
  BY IdleAssumption
<1>2. quiet \in [Clients -> 0..MaxAge]
  BY <1>1
<1>3. Cardinality(visited) <= 1
  BY FewVisited
<1>4. QED
  BY <1>1, <1>2, <1>3 DEF IdleInv, VisitedLinked

LEMMA Fresh ==
  ASSUME IdleInv, NEW c \in Clients
  PROVE  [quiet EXCEPT ![c] = 0] \in [Clients -> 0..MaxAge]
<1>1. 0 \in 0..MaxAge
  BY IdleAssumption
<1>2. QED
  BY <1>1 DEF IdleInv

LEMMA ServerStep ==
  ASSUME IdleInv, NEW c \in Clients,
         NewClient(c) \/ ClientGone(c) \/ UserEvent(c)
  PROVE  IdleInv'
<1> USE Fresh DEF visit
<1>1. CASE NewClient(c)
  BY <1>1 DEF NewClient, IdleInv, VisitedLinked
<1>2. CASE ClientGone(c)
  BY <1>2 DEF ClientGone, IdleInv, VisitedLinked
<1>3. CASE UserEvent(c)
  BY <1>3 DEF UserEvent, IdleInv, VisitedLinked
<1>4. QED
  BY <1>1, <1>2, <1>3

LEMMA VisitStep ==
  ASSUME IdleInv, NEW c \in Clients, Visit(c)
  PROVE  IdleInv'
<1> USE FewVisited DEF clients
<1>0. 0 \in 0..MaxLag
  BY IdleAssumption
<1>1. CASE ReadClock(c)
  BY <1>0, <1>1 DEF ReadClock, Goto, IdleInv, VisitedLinked
<1>2. CASE CloseIdle(c)
  BY <1>0, <1>2 DEF CloseIdle, EndVisit, IdleInv, VisitedLinked
<1>3. CASE KeepActive(c)
  <2>1. quiet' \in [Clients -> 0..MaxAge]
    BY <1>3, Fresh DEF KeepActive, FakeKeys, IdleInv
  <2>2. QED
    BY <1>0, <1>3, <2>1 DEF KeepActive, EndVisit, IdleInv, VisitedLinked
<1>4. QED
  BY <1>1, <1>2, <1>3 DEF Visit

LEMMA TickStep ==
  ASSUME IdleInv, Tick
  PROVE  IdleInv'
<1>1. lag' \in 0..MaxLag
  BY IdleAssumption DEF Tick, IdleInv
<1>2. ASSUME NEW c \in Clients
      PROVE  (IF c \in linked /\ quiet[c] < MaxAge THEN quiet[c] + 1
              ELSE quiet[c]) \in 0..MaxAge
  <2>1. quiet[c] \in 0..MaxAge
    BY DEF IdleInv
  <2>2. QED
    BY <2>1, IdleAssumption
<1>3. quiet' \in [Clients -> 0..MaxAge]
  BY <1>2 DEF Tick
<1>4. QED
  BY <1>1, <1>3 DEF Tick, IdleInv, VisitedLinked

LEMMA OtherStep ==
  ASSUME IdleInv, LedReport \/ BeginSend \/ EndSend \/ Crash
  PROVE  IdleInv'
<1>1. CASE LedReport \/ BeginSend \/ EndSend
  BY <1>1 DEF LedReport, BeginSend, EndSend, Goto, clients, visit, IdleInv,
     VisitedLinked
<1>2. CASE Crash
  <2>1. 0 \in 0..MaxAge /\ 0 \in 0..MaxLag
    BY IdleAssumption
  <2>2. QED
    BY <1>2, <2>1, FewVisited DEF Crash, IdleInv, VisitedLinked
<1>3. QED
  BY <1>1, <1>2

LEMMA InitIInv == Init => IInv
<1> SUFFICES ASSUME Init PROVE IInv
  OBVIOUS
<1>1. MonitorInv
  BY NewMonitor DEF Init, MonitorInit
<1>2. IdleInv
  BY NewVisits DEF Init, IdleInit
<1>3. QED
  BY <1>1, <1>2, Parts

LEMMA NextIInv == IInv /\ [Next]_vars => IInv'
<1> SUFFICES ASSUME MonitorInv, IdleInv, [Next]_vars
             PROVE  MonitorInv' /\ IdleInv'
  BY Parts, PTL
<1>1. CASE Others(MonitorNext)
  <2>1. MonitorInv'
    BY <1>1, MonitorStep DEF Others
  <2>2. IdleInv'
    BY <1>1 DEF Others, clients, visit, IdleInv, VisitedLinked
  <2>3. QED
    BY <2>1, <2>2
<1>2. CASE Crash
  BY <1>2, RestartStep, OtherStep DEF Crash
<1>3. ASSUME NEW c \in Clients,
             NewClient(c) \/ ClientGone(c) \/ UserEvent(c)
      PROVE  MonitorInv' /\ IdleInv'
  BY <1>3, ServerStep, MonitorUnchanged DEF NewClient, ClientGone, UserEvent
<1>4. ASSUME NEW c \in Clients, Visit(c)
      PROVE  MonitorInv' /\ IdleInv'
  BY <1>4, VisitStep, MonitorUnchanged
     DEF Visit, ReadClock, CloseIdle, KeepActive
<1>5. CASE LedReport \/ BeginSend \/ EndSend
  BY <1>5, OtherStep, MonitorUnchanged DEF LedReport, BeginSend, EndSend
<1>6. CASE Tick
  BY <1>6, TickStep, MonitorUnchanged DEF Tick
<1>7. CASE UNCHANGED vars
  BY <1>7, MonitorUnchanged DEF vars, clients, visit, IdleInv, VisitedLinked
<1>8. QED
  BY <1>1, <1>2, <1>3, <1>4, <1>5, <1>6, <1>7 DEF Next

-----------------------------------------------------------------------------
(* Division by a constant, and the wrap of uint64_t.                        *)
LEMMA Quotient ==
  ASSUME NEW t \in Nat
  PROVE  /\ t \div Second \in Nat /\ (t \div Second) * Second <= t
         /\ t < Second => t \div Second = 0
  BY IdleAssumption

LEMMA Wrapped ==
  ASSUME NEW n \in Nat
  PROVE  n % Modulus \in Nat /\ n % Modulus <= n
  BY IdleAssumption

(* The comparison that closes a client is right but for an activity a       *)
(* second or more after the clock was read.                                 *)
LEMMA IdleIsInactive ==
  ASSUME IInv, NEW c \in Clients, Idle(c)
  PROVE  quiet[c] >= timeoutValue * Second \/ lag - quiet[c] >= Second
<1>1. /\ quiet[c] \in Nat /\ lag \in Nat /\ timeoutValue \in Nat
      /\ Second \in Nat \ {0}
  BY IdleAssumption, MonitorAssumption DEF IInv, TypeOK, MonitorTypeOK
<1>2. CASE quiet[c] >= lag
  <2> DEFINE t == quiet[c] - lag
  <2>1. t \in Nat /\ t <= quiet[c]
    BY <1>1, <1>2
  <2>2. (t \div Second) % Modulus >= timeoutValue
    BY <2>1 DEF Idle, timeSinceLastActive, WholeSeconds
  <2>3. t \div Second \in Nat /\ (t \div Second) * Second <= t
    BY <2>1, Quotient
  <2> HIDE DEF t
  <2>4. t \div Second >= timeoutValue
    BY <1>1, <2>2, <2>3, Wrapped
  <2>5. ASSUME NEW q \in Nat, q >= timeoutValue
        PROVE  q * Second >= timeoutValue * Second
    BY <1>1, <2>5
  <2>6. (t \div Second) * Second >= timeoutValue * Second
    BY <2>3, <2>4, <2>5
  <2>7. ASSUME NEW p \in Nat, NEW r \in Nat, p >= r, p <= t
        PROVE  quiet[c] >= r
    BY <1>1, <2>1, <2>7
  <2>8. /\ (t \div Second) * Second \in Nat /\ timeoutValue * Second \in Nat
    BY <1>1, <2>3
  <2>9. QED
    BY <2>3, <2>6, <2>7, <2>8
<1>3. CASE quiet[c] < lag /\ lag - quiet[c] < Second
  <2>1. lag - quiet[c] \in Nat /\ ~(quiet[c] - lag >= 0)
        /\ -(quiet[c] - lag) = lag - quiet[c]
    BY <1>1, <1>3
  <2>2. (lag - quiet[c]) \div Second = 0
    BY <1>3, <2>1, Quotient
  <2>3. WholeSeconds(quiet[c] - lag) = 0
    BY <2>1, <2>2 DEF WholeSeconds
  <2>4. timeSinceLastActive(c) = 0
    BY <2>3, IdleAssumption DEF timeSinceLastActive
  <2>5. timeoutValue = 0
    BY <1>1, <2>4 DEF Idle
  <2>6. QED
    BY <1>1, <2>5
<1>4. QED
  BY <1>1, <1>2, <1>3

-----------------------------------------------------------------------------
(* The variables keep their types; only clients that are linked are marked  *)
(* as closed or are still to be visited.                                    *)
THEOREM TypeCorrect == Spec => []TypeOK
<1>1. IInv => TypeOK
  BY DEF IInv
<1>2. QED
  BY <1>1, InitIInv, NextIInv, PTL DEF Spec

(* timeoutValue and hostPowerState are what the services have, once their   *)
(* signals have been handled, but for the cases CopiesAreRight names.       *)
THEOREM CopiesRight == Spec => []CopiesAreRight
<1>1. IInv => CopiesAreRight
  BY DEF IInv, TimeoutFollowed, PowerFollowed, CopiesAreRight
<1>2. QED
  BY <1>1, InitIInv, NextIInv, PTL DEF Spec

(* sendFrame() closes no client before it has been inactive for the         *)
(* timeout, but for the case ActiveStays names.                             *)
THEOREM ActiveClientsStay == Spec => ActiveStays
<1>1. IInv /\ [Next]_vars
      => [\A c \in Clients :
             c \in closed' \ closed
             => \/ quiet[c] >= timeoutValue * Second
                \/ lag - quiet[c] >= Second]_vars
  <2> SUFFICES ASSUME IInv, Next, NEW c \in Clients, c \in closed' \ closed
               PROVE  \/ quiet[c] >= timeoutValue * Second
                      \/ lag - quiet[c] >= Second
    OBVIOUS
  <2>1. CloseIdle(c)
    <3>1. \E d \in Clients : CloseIdle(d) /\ c \in visited /\ c = d
      BY DEF Next, Others, Crash, NewClient, ClientGone, UserEvent, Visit,
         ReadClock, CloseIdle, KeepActive, LedReport, BeginSend, EndSend, Tick,
         clients
    <3>2. QED
      BY <3>1
  <2>2. QED
    BY <2>1, IdleIsInactive DEF CloseIdle
<1>2. QED
  BY <1>1, InitIInv, NextIInv, PTL DEF Spec, ActiveStays
=============================================================================
