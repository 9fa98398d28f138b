------------------------------- MODULE Sessions -------------------------------
(***************************************************************************)
(* The KVM sessions of the clients (ikvm_server.cpp, ikvm_monitor.cpp).  The *)
(* server thread registers a client's session with the session manager when *)
(* it comes and unregisters it when it goes; the main thread replaces        *)
(* activeSessionIDs by the list of every PropertiesChanged signal; the video *)
(* thread closes clients whose session is not in activeSessionIDs.           *)
(*                                                                         *)
(* The session manager is not under src/: it keeps a list of sessions in    *)
(* the order of their registration, answers calls, and sends the list after *)
(* each change.  Signals arrive in order, but on another connection than    *)
(* the answers.  A D-Bus call that fails throws in a hook: Crash.           *)
(*                                                                         *)
(* The vector has no lock.  Each of its uses is a step here; two that        *)
(* overlap in time are undefined behaviour and not modelled.                *)
(***************************************************************************)
EXTENDS Naturals, Sequences, FiniteSets

CONSTANTS
    Clients,
    MaxSession     \* bound: the session manager refuses more registrations

ASSUME SessionsAssumption == MaxSession \in Nat

VARIABLES
    pc,                 \* where the server thread is
    linked,             \* the clients in libvncserver's list
    known,              \* the clients with a ClientData
    hooked,             \* the clients a hook is being called for
    sessionId,          \* theirs in the ClientData; 0: none
    closed,             \* the clients the video thread has closed
    activeSessionIDs,
    latestEntry,        \* vec.back() of newClient()
    began,              \* the list clientGone() began to iterate over
    at,                 \* and the position in it
    sessions,           \* the session manager's list
    lastSession,        \* the last session identifier it gave
    signals,            \* the signals on their way to the main thread
    inherited           \* sessions an earlier process left in that list

hooks == <<linked, known, hooked>>
loop == <<began, at>>
manager == <<sessions, lastSession, signals, inherited>>
vars == <<pc, hooks, sessionId, closed, activeSessionIDs, latestEntry, loop,
          manager>>

Ids == 1..MaxSession
Elements(s) == {s[i] : i \in 1..Len(s)}

TypeOK ==
    /\ pc \in {"events", "register", "get", "adopt", "push", "gone"}
    /\ linked \in SUBSET Clients
    /\ known \in SUBSET Clients
    /\ hooked \in SUBSET Clients
    /\ sessionId \in [Clients -> {0} \cup Ids]
    /\ closed \in SUBSET linked
    /\ activeSessionIDs \in Seq(Ids)
    /\ latestEntry \in {0} \cup Ids
    /\ began \in Seq(Ids)
    /\ at \in 1..Len(began) + 1
    /\ sessions \in Seq(Ids)
    /\ lastSession \in {0} \cup Ids
    /\ signals \in Seq(Seq(Ids))
    /\ inherited \in SUBSET Ids

Init ==
    /\ pc = "events"
    /\ linked = {} /\ known = {} /\ hooked = {} /\ closed = {}
    /\ sessionId = [c \in Clients |-> 0]
    /\ activeSessionIDs = <<>>
    /\ latestEntry = 0
    /\ began = <<>> /\ at = 1
    /\ sessions = <<>> /\ lastSession = 0 /\ signals = <<>>
    /\ inherited = {}

Goto(from, to) == pc = from /\ pc' = to

(* The session manager's list changes, and it says so.                      *)
Announce(list) ==
    /\ sessions' = list
    /\ signals' = IF list = sessions THEN signals ELSE Append(signals, list)

(* No session is in the list twice.                                         *)
Without(list, id) ==
    IF id \in Elements(list)
    THEN LET n == CHOOSE n \in 1..Len(list) : list[n] = id
         IN SubSeq(list, 1, n - 1) \o SubSeq(list, n + 1, Len(list))
    ELSE list

-----------------------------------------------------------------------------
(* The server thread: libvncserver accepts c and calls newClient().         *)
NewClient(c) ==
    /\ c \notin linked \cup known
    /\ Goto("events", "register")
    /\ linked' = linked \cup {c}
    /\ known' = known \cup {c}
    /\ hooked' = {c}
    /\ sessionId' = [sessionId EXCEPT ![c] = 0]
    /\ UNCHANGED <<closed, activeSessionIDs, latestEntry, loop, manager>>

(* SessionRegister; refused, the client stays without a session.            *)
Register ==
    \/ /\ lastSession < MaxSession
       /\ Goto("register", "get")
       /\ lastSession' = lastSession + 1
       /\ Announce(Append(sessions, lastSession + 1))
       /\ UNCHANGED <<hooks, sessionId, closed, activeSessionIDs, latestEntry,
                      loop, inherited>>
    \/ /\ Goto("register", "events")
       /\ hooked' = {}
       /\ UNCHANGED <<linked, known, sessionId, closed, activeSessionIDs,
                      latestEntry, loop, manager>>

(* Get of KvmSessionInfo, a call of its own.                                *)
GetSessionInfo ==
    \/ /\ sessions = <<>>
       /\ Goto("get", "events")
       /\ hooked' = {}
       /\ UNCHANGED <<linked, known, sessionId, closed, activeSessionIDs,
                      latestEntry, loop, manager>>
    \/ /\ sessions # <<>>
       /\ Goto("get", "adopt")
       /\ latestEntry' = sessions[Len(sessions)]
       /\ UNCHANGED <<hooks, sessionId, closed, activeSessionIDs, loop,
                      manager>>

AdoptSession ==
    /\ Goto("adopt", "push")
    /\ sessionId' = [c \in Clients |->
                       IF c \in hooked THEN latestEntry ELSE sessionId[c]]
    /\ UNCHANGED <<hooks, closed, activeSessionIDs, latestEntry, loop, manager>>

(* Faulty variant: the new session replaces the others.                     *)
PushSessionAlone ==
    /\ Goto("push", "events")
    /\ hooked' = {}
    /\ activeSessionIDs' = <<latestEntry>>
    /\ latestEntry' = 0
    /\ UNCHANGED <<linked, known, sessionId, closed, loop, manager>>

PushSession ==
    /\ Goto("push", "events")
    /\ hooked' = {}
    /\ activeSessionIDs' = Append(activeSessionIDs, latestEntry)
    /\ latestEntry' = 0
    /\ UNCHANGED <<linked, known, sessionId, closed, loop, manager>>

(* Faulty variant: a client stays marked as closed when it has gone.        *)
ClientGoneStaysClosed(c) ==
    /\ c \in linked
    /\ Goto("events", "gone")
    /\ linked' = linked \ {c}
    /\ hooked' = {c}
    /\ began' = activeSessionIDs
    /\ at' = 1
    /\ UNCHANGED <<known, sessionId, closed, activeSessionIDs, latestEntry,
                   manager>>

(* libvncserver finds a connection closed, by the client or by sendFrame(), *)
(* unlinks the client and calls clientGone().                               *)
ClientGone(c) ==
    /\ c \in linked
    /\ Goto("events", "gone")
    /\ linked' = linked \ {c}
    /\ hooked' = {c}
    /\ closed' = closed \ {c}
    /\ began' = activeSessionIDs
    /\ at' = 1
    /\ UNCHANGED <<known, sessionId, activeSessionIDs, latestEntry, manager>>

(* One pass of its loop: SessionUnregister for an element that is this      *)
(* client's session.  If the list was replaced during an earlier call, the  *)
(* iterators are invalid and the element may be anything.                   *)
Unregister ==
    /\ pc = "gone" /\ at <= Len(began)
    /\ at' = at + 1
    /\ \E c \in hooked :
          \/ /\ began # activeSessionIDs \/ began[at] = sessionId[c]
             /\ Announce(Without(sessions, sessionId[c]))
          \/ /\ began # activeSessionIDs \/ began[at] # sessionId[c]
             /\ UNCHANGED <<sessions, signals>>
    /\ UNCHANGED <<pc, hooks, sessionId, closed, activeSessionIDs, latestEntry,
                   began, lastSession, inherited>>

Forget ==
    /\ at > Len(began)
    /\ Goto("gone", "events")
    /\ known' = known \ hooked
    /\ hooked' = {}
    /\ began' = <<>> /\ at' = 1
    /\ UNCHANGED <<linked, sessionId, closed, activeSessionIDs, latestEntry,
                   manager>>

ServerStep ==
    \/ Register \/ GetSessionInfo \/ AdoptSession \/ PushSession
    \/ Unregister \/ Forget

-----------------------------------------------------------------------------
(* Faulty variant: an empty list is taken for none.                         *)
SessionCallbackIgnoresEmpty ==
    /\ signals # <<>>
    /\ activeSessionIDs' = IF Head(signals) = <<>> THEN activeSessionIDs
                           ELSE Head(signals)
    /\ signals' = Tail(signals)
    /\ UNCHANGED <<pc, hooks, sessionId, closed, latestEntry, loop, sessions,
                   lastSession, inherited>>

(* The main thread: Monitor's sessionCallback.                              *)
SessionCallback ==
    /\ signals # <<>>
    /\ activeSessionIDs' = Head(signals)
    /\ signals' = Tail(signals)
    /\ UNCHANGED <<pc, hooks, sessionId, closed, latestEntry, loop, sessions,
                   lastSession, inherited>>

(* The video thread: sendFrame(), with a frame, reaches c.                  *)
CloseClient(c) ==
    /\ c \in (linked \cap known) \ closed
    /\ sessionId[c] # 0
    /\ sessionId[c] \notin Elements(activeSessionIDs)
    /\ closed' = closed \cup {c}
    /\ UNCHANGED <<pc, hooks, sessionId, activeSessionIDs, latestEntry, loop,
                   manager>>

(* Another service ends a session.                                          *)
RevokeSession ==
    /\ \E id \in Elements(sessions) : Announce(Without(sessions, id))
    /\ UNCHANGED <<pc, hooks, sessionId, closed, activeSessionIDs, latestEntry,
                   loop, lastSession, inherited>>

(* An uncaught exception.  The unit's ExecStop asks the session manager to   *)
(* clear its list and ignores a failure; systemd starts the daemon anew,    *)
(* which no earlier signal reaches and which does not ask for the list.     *)
Crash ==
    /\ pc \in {"register", "get", "gone"}
    /\ pc' = "events"
    /\ linked' = {} /\ known' = {} /\ hooked' = {} /\ closed' = {}
    /\ sessionId' = [c \in Clients |-> 0]
    /\ activeSessionIDs' = <<>>
    /\ latestEntry' = 0
    /\ began' = <<>> /\ at' = 1
    /\ sessions' \in {<<>>, sessions} /\ signals' = <<>>
    /\ inherited' = Elements(sessions')
    /\ UNCHANGED lastSession

Next ==
    \/ ServerStep \/ SessionCallback \/ RevokeSession \/ Crash
    \/ \E c \in Clients : NewClient(c) \/ ClientGone(c) \/ CloseClient(c)

Spec == Init /\ [][Next]_vars

(* Every thread runs.  Frames keep coming for sendFrame() to visit the       *)
(* clients with, and every rfbProcessEvents() looks at every connection.    *)
FairSpec ==
    /\ Spec
    /\ WF_vars(SessionCallback)
    /\ WF_vars(ServerStep)
    /\ \A c \in Clients :
          WF_vars(CloseClient(c)) /\ SF_vars(c \in closed /\ ClientGone(c))

-----------------------------------------------------------------------------
(* However registrations, ends of sessions and signals overlap, no session  *)
(* of this process is missing from the list for good: each that is in force *)
(* is in it once the signals on their way have been handled.  (Until then a *)
(* signal from before a registration takes the new session out again.)      *)
(* Sessions an earlier process left are not looked up before a signal comes.*)
NoSessionMissing ==
    signals = <<>>
    => Elements(sessions) \ inherited \subseteq Elements(activeSessionIDs)

(* c's session was ended by another service, outside any registration.      *)
Revoked(c) ==
    /\ c \in linked \cap known /\ pc = "events"
    /\ sessionId[c] \notin {0} \cup Elements(sessions)
    /\ signals # <<>>

(* A client whose session another service ends is disconnected, whatever    *)
(* clients register or leave meanwhile and whatever signals are on the way. *)
RevokedDisconnected ==
    \A c \in Clients : Revoked(c) ~> c \notin linked

=============================================================================
