------------------------------- MODULE Monitor -------------------------------
(***************************************************************************)
(* The main thread: Manager::run() (ikvm_manager.cpp) asks two services     *)
(* once for the session timeout and the host's power state                  *)
(* (ikvm_utils.cpp), subscribes to their signals, starts the two other      *)
(* threads and from then on follows the signals (ikvm_monitor.cpp).  Its    *)
(* copies are timeoutValue, which sendFrame() compares with (Idle), and     *)
(* hostPowerState, which chooses the picture of a host without signal.      *)
(*                                                                         *)
(* A service answers a Get with its value of that moment, or with an error; *)
(* it signals each change, in order, to those who have subscribed.  Any     *)
(* call that throws ends the process, and systemd starts it again: Restart. *)
(*                                                                         *)
(* The callbacks that ask for a screenshot are in VideoLoop, those of the   *)
(* sessions in Sessions.                                                    *)
(***************************************************************************)
EXTENDS Naturals, Sequences

CONSTANTS
    Timeouts,      \* the values of SessionTimeOut, in seconds
    Default,       \* DEFAULT_TIMEOUT_VALUE
    Powers,        \* the values of CurrentPowerState
    MaxSignals     \* bound: signals on their way

ASSUME MonitorAssumption ==
    /\ Timeouts \subseteq Nat /\ Timeouts # {}
    /\ Default \in Nat
    /\ Powers \subseteq {"On", "Off", "Other"} /\ Powers # {}
    /\ MaxSignals \in Nat

VARIABLES
    boot,              \* where the main thread is in Manager::run()
    setting, power,    \* the services' values
    timeoutSignals,    \* their signals on the way to us
    powerSignals,
    missed,            \* properties whose last change nobody told us of
    timeoutValue, hostPowerState

services == <<setting, power>>
signals == <<timeoutSignals, powerSignals>>
mirror == <<timeoutValue, hostPowerState>>
monitor == <<boot, services, signals, missed, mirror>>

MonitorTypeOK ==
    /\ boot \in {"power", "timeout", "matchTimeout", "matchPower", "run"}
    /\ setting \in Timeouts
    /\ power \in Powers
    /\ timeoutSignals \in Seq(Timeouts)
    /\ powerSignals \in Seq(Powers)
    /\ missed \in SUBSET {"timeout", "power"}
    /\ timeoutValue \in Timeouts \cup {Default}
    /\ hostPowerState \in {"On", "Off", "Unknown"}

MonitorInit ==
    /\ boot = "power"
    /\ setting \in Timeouts /\ power \in Powers
    /\ timeoutSignals = <<>> /\ powerSignals = <<>>
    /\ missed = {}
    /\ timeoutValue = Default /\ hostPowerState = "Unknown"

(* The services outlive the process, and nothing else.                      *)
Restart ==
    /\ boot' = "power"
    /\ UNCHANGED services
    /\ timeoutSignals' = <<>> /\ powerSignals' = <<>>
    /\ missed' = {}
    /\ timeoutValue' = Default /\ hostPowerState' = "Unknown"

GoOn(from, to) == boot = from /\ boot' = to

-----------------------------------------------------------------------------
(* What the copy of the power state is for a value that comes, and what     *)
(* powerStatusInit() and pwrStatCallback() make of a value they do not know.*)
PowerRead(value, unknown) == IF value = "Other" THEN unknown ELSE value

(* powerStatusInit(): every failure is caught.                              *)
PowerStatusInit ==
    /\ GoOn("power", "timeout")
    /\ \/ /\ hostPowerState' = PowerRead(power, "Unknown")
          /\ UNCHANGED missed
       \/ /\ hostPowerState' = "Unknown"
          /\ missed' = missed \cup {"power"}
    /\ UNCHANGED <<services, signals, timeoutValue>>

(* Faulty variant: the answer is not taken over.                            *)
SessionTimeoutInitUnread ==
    /\ GoOn("timeout", "matchTimeout")
    /\ UNCHANGED <<services, signals, missed, mirror>>

(* sessionTimeout(); an error reply leaves the default.                     *)
SessionTimeoutInit ==
    /\ GoOn("timeout", "matchTimeout")
    /\ \/ /\ timeoutValue' = setting
          /\ UNCHANGED missed
       \/ /\ missed' = missed \cup {"timeout"}
          /\ UNCHANGED timeoutValue
    /\ UNCHANGED <<services, signals, hostPowerState>>

(* Monitor::sessionTimeout() and powerStatMonitor(): from here on changes   *)
(* are signalled to us, and wait until io.run().                            *)
AddTimeoutMatch ==
    /\ GoOn("matchTimeout", "matchPower")
    /\ UNCHANGED <<services, signals, missed, mirror>>

AddPowerMatch ==
    /\ GoOn("matchPower", "run")
    /\ UNCHANGED <<services, signals, missed, mirror>>

InFlight == Len(timeoutSignals) + Len(powerSignals)

(* The services change their values.  A change is missed between our Get    *)
(* and our match; the next that is signalled makes up for it.               *)
SetTimeout(v) ==
    /\ v # setting
    /\ setting' = v
    /\ CASE boot \in {"power", "timeout"} ->
              UNCHANGED <<timeoutSignals, missed>>
         [] boot = "matchTimeout" ->
              /\ missed' = missed \cup {"timeout"}
              /\ UNCHANGED timeoutSignals
         [] boot \in {"matchPower", "run"} ->
              /\ InFlight < MaxSignals
              /\ timeoutSignals' = Append(timeoutSignals, v)
              /\ missed' = missed \ {"timeout"}
    /\ UNCHANGED <<boot, power, powerSignals, mirror>>

SetPower(v) ==
    /\ v # power
    /\ power' = v
    /\ CASE boot = "power" ->
              UNCHANGED <<powerSignals, missed>>
         [] boot \in {"timeout", "matchTimeout", "matchPower"} ->
              /\ missed' = missed \cup {"power"}
              /\ UNCHANGED powerSignals
         [] boot = "run" ->
              /\ InFlight < MaxSignals
              /\ powerSignals' = Append(powerSignals, v)
              /\ missed' = missed \ {"power"}
    /\ UNCHANGED <<boot, setting, timeoutSignals, mirror>>

-----------------------------------------------------------------------------
(* io.run() calls the callbacks, signal by signal.                          *)
timeoutCallback ==
    /\ boot = "run" /\ timeoutSignals # <<>>
    /\ timeoutValue' = Head(timeoutSignals)
    /\ timeoutSignals' = Tail(timeoutSignals)
    /\ UNCHANGED <<boot, services, powerSignals, missed, hostPowerState>>

pwrStatCallback ==
    /\ boot = "run" /\ powerSignals # <<>>
    /\ hostPowerState' = PowerRead(Head(powerSignals), hostPowerState)
    /\ powerSignals' = Tail(powerSignals)
    /\ UNCHANGED <<boot, services, timeoutSignals, missed, timeoutValue>>

StartUp ==
    \/ PowerStatusInit \/ SessionTimeoutInit
    \/ AddTimeoutMatch \/ AddPowerMatch

MonitorNext ==
    \/ StartUp \/ timeoutCallback \/ pwrStatCallback
    \/ \E v \in Timeouts : SetTimeout(v)
    \/ \E v \in Powers : SetPower(v)

-----------------------------------------------------------------------------
(* A change of a property while we start, before our Get or after our       *)
(* match, is not lost, and once every signal has been handled the copies    *)
(* are right; only a change between our Get and our match, or a Get that    *)
(* failed, leaves one wrong until the property changes again.  A power      *)
(* state that is neither on nor off is not taken over.                      *)
CopiesAreRight ==
    boot = "run" =>
        /\ timeoutSignals = <<>> /\ "timeout" \notin missed
           => timeoutValue = setting
        /\ powerSignals = <<>> /\ "power" \notin missed
           => power = "Other" \/ hostPowerState = power
=============================================================================
