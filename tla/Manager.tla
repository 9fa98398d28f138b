------------------------------- MODULE Manager -------------------------------
(***************************************************************************)
(* The hand-off of ikvm::Manager (ikvm_manager.cpp): serverThread and       *)
(* statusUpdateThread, their two flags, the mutex `lock' and the condition  *)
(* variable `sync'.  What the threads do between the hand-offs              *)
(* (server.run(), the video round, the resize) is one step here; modules    *)
(* Video and Screen model it.                                               *)
(*                                                                         *)
(* A thread is at one of these points of its loop:                          *)
(*   run | work      outside the hand-off: server.run(), the video round    *)
(*   clear, resize   the video thread's resize branch                       *)
(*   set, wait       about to lock in set...Done(), in wait...()            *)
(*   setting, testing   holding the lock there                              *)
(*   asleep          inside sync.wait(), or notified and not yet relocked   *)
(***************************************************************************)
CONSTANTS Server, Video, None   \* the two threads; no holder of the lock

ASSUME ThreadAssumption == Server # Video /\ None \notin {Server, Video}

VARIABLES
    pc,           \* where each thread is
    lock,         \* the thread that holds Manager::lock, or None
    waiting,      \* the threads in sync.wait() that were not notified
    serverDone,   \* Manager::serverDone
    videoDone,    \* Manager::videoDone, as the server thread reads it
    unflushed,    \* the unlocked `videoDone = false' is not visible yet
    resizing      \* what needsResize() answered in this video round

vars == <<pc, lock, waiting, serverDone, videoDone, unflushed, resizing>>

Threads == {Server, Video}

Locked == {"setting", "testing"}

ServerPoints == {"run", "set", "setting", "wait", "testing", "asleep"}

VideoPoints ==
    {"work", "clear", "resize", "set", "setting", "wait", "testing", "asleep"}

(* Besides the types: exactly the thread inside a locked scope holds lock.  *)
TypeOK ==
    /\ pc \in [Threads -> ServerPoints \cup VideoPoints]
    /\ pc[Server] \in ServerPoints
    /\ pc[Video] \in VideoPoints
    /\ lock \in Threads \cup {None}
    /\ \A t \in Threads : lock = t <=> pc[t] \in Locked
    /\ waiting \in SUBSET Threads
    /\ serverDone \in BOOLEAN
    /\ videoDone \in BOOLEAN
    /\ unflushed \in BOOLEAN
    /\ resizing \in BOOLEAN

(* The constructor and the start of both threads.                           *)
Init ==
    /\ pc = [t \in Threads |-> IF t = Server THEN "run" ELSE "work"]
    /\ lock = None
    /\ waiting = {}
    /\ serverDone = FALSE
    /\ videoDone = TRUE
    /\ unflushed = FALSE
    /\ resizing = FALSE

Goto(t, from, to) == pc[t] = from /\ pc' = [pc EXCEPT ![t] = to]

-----------------------------------------------------------------------------
(* server.run() returns.                                                    *)
RunRfb ==
    /\ Goto(Server, "run", "set")
    /\ UNCHANGED <<lock, waiting, serverDone, videoDone, unflushed, resizing>>

(* The video round up to and including the answer of needsResize().         *)
VideoRound(needed) ==
    /\ Goto(Video, "work", IF needed THEN "wait" ELSE "set")
    /\ resizing' = needed
    /\ UNCHANGED <<lock, waiting, serverDone, videoDone, unflushed>>

(* `manager->videoDone = false' is written without the lock, a data race    *)
(* with the test in waitVideo(): the other thread may see the old value     *)
(* until the store reaches it.                                              *)
ClearVideoDone ==
    /\ Goto(Video, "clear", "resize")
    /\ unflushed' = TRUE
    /\ UNCHANGED <<lock, waiting, serverDone, videoDone, resizing>>

FlushClear ==
    /\ unflushed
    /\ unflushed' = FALSE
    /\ videoDone' = FALSE
    /\ UNCHANGED <<pc, lock, waiting, serverDone, resizing>>

(* Faulty variant: the resize branch ends without setVideoDone().           *)
ResizeForgetsVideoDone ==
    /\ Goto(Video, "resize", "work")
    /\ UNCHANGED <<lock, waiting, serverDone, videoDone, unflushed, resizing>>

(* video.resize() and server.resize() return.                               *)
Resize ==
    /\ Goto(Video, "resize", "set")
    /\ UNCHANGED <<lock, waiting, serverDone, videoDone, unflushed, resizing>>

-----------------------------------------------------------------------------
(* The unique_lock of set...Done() and of wait...().                        *)
Acquire(t) ==
    /\ lock = None
    /\ \/ Goto(t, "set", "setting")
       \/ Goto(t, "wait", "testing")
       \/ t \notin waiting /\ Goto(t, "asleep", "testing")
    /\ lock' = t
    /\ UNCHANGED <<waiting, serverDone, videoDone, unflushed, resizing>>

(* Faulty variant: the flag is set and nobody is told.                      *)
NotifyNobody == UNCHANGED waiting

NotifyAll == waiting' = {}

(* Faulty variant: the scope of the lock is left without unlocking.         *)
SetServerDoneStaysLocked ==
    /\ Goto(Server, "setting", "wait")
    /\ serverDone' = TRUE
    /\ NotifyAll
    /\ UNCHANGED <<lock, videoDone, unflushed, resizing>>

(* Set the flag, notify_all(), and unlock at the end of the scope.          *)
SetServerDone ==
    /\ Goto(Server, "setting", "wait")
    /\ serverDone' = TRUE
    /\ NotifyAll
    /\ lock' = None
    /\ UNCHANGED <<videoDone, unflushed, resizing>>

(* This store supersedes a clear that was never seen.                       *)
SetVideoDone ==
    /\ Goto(Video, "setting", IF resizing THEN "work" ELSE "wait")
    /\ videoDone' = TRUE
    /\ unflushed' = FALSE
    /\ NotifyAll
    /\ lock' = None
    /\ UNCHANGED <<serverDone, resizing>>

(* sync.wait(): unlock and go to sleep in one step.                         *)
Sleep(t) ==
    /\ Goto(t, "testing", "asleep")
    /\ waiting' = waiting \cup {t}
    /\ lock' = None
    /\ UNCHANGED <<serverDone, videoDone, unflushed, resizing>>

(* Faulty variant: waitVideo() resets its flag, as waitServer() does.       *)
PassVideoResets ==
    /\ videoDone
    /\ Goto(Server, "testing", "run")
    /\ videoDone' = FALSE
    /\ lock' = None
    /\ UNCHANGED <<waiting, serverDone, unflushed, resizing>>

PassVideo ==
    /\ videoDone
    /\ Goto(Server, "testing", "run")
    /\ lock' = None
    /\ UNCHANGED <<waiting, serverDone, videoDone, unflushed, resizing>>

(* Faulty variant: waitServer() does not reset its flag.                    *)
PassServerKeeps ==
    /\ serverDone
    /\ Goto(Video, "testing", IF resizing THEN "clear" ELSE "work")
    /\ lock' = None
    /\ UNCHANGED <<waiting, serverDone, videoDone, unflushed, resizing>>

PassServer ==
    /\ serverDone
    /\ Goto(Video, "testing", IF resizing THEN "clear" ELSE "work")
    /\ serverDone' = FALSE
    /\ lock' = None
    /\ UNCHANGED <<waiting, videoDone, unflushed, resizing>>

WaitVideo == PassVideo \/ (~videoDone /\ Sleep(Server))

WaitServer == PassServer \/ (~serverDone /\ Sleep(Video))

(* A condition variable may wake a thread nobody notified.                  *)
SpuriousWakeup(t) ==
    /\ t \in waiting
    /\ waiting' = waiting \ {t}
    /\ UNCHANGED <<pc, lock, serverDone, videoDone, unflushed, resizing>>

-----------------------------------------------------------------------------
ServerStep == RunRfb \/ SetServerDone \/ WaitVideo

VideoStep ==
    \/ \E needed \in BOOLEAN : VideoRound(needed)
    \/ ClearVideoDone \/ Resize \/ SetVideoDone \/ WaitServer

Next ==
    \/ ServerStep
    \/ VideoStep
    \/ FlushClear
    \/ \E t \in Threads : Acquire(t) \/ SpuriousWakeup(t)

Spec == Init /\ [][Next]_vars

(* The kernel runs both threads, server.run() and the video operations have *)
(* timeouts of about a second, and a mutex with one other contender, which  *)
(* leaves for such an operation between two locks, is obtained in the end.  *)
Fairness ==
    /\ WF_vars(ServerStep)
    /\ WF_vars(VideoStep)
    /\ \A t \in Threads : SF_vars(Acquire(t))

FairSpec == Spec /\ Fairness

-----------------------------------------------------------------------------
(* No lost wakeup: a thread that sleeps un-notified in sync.wait() sleeps   *)
(* on a flag that is still false, although one of the writes to the flags   *)
(* takes no lock.                                                           *)
NoLostWakeup ==
    /\ Server \in waiting => ~videoDone
    /\ Video \in waiting => ~serverDone

(* The two waits never face each other: the threads are never both asleep   *)
(* with nobody left to notify them.                                         *)
NeverBothAsleep == waiting # Threads

(* What the threads have done, as RoundSync sees it: an RFB round ends when *)
(* serverDone is set, a resize begins when it is consumed for one.          *)
InRfbRound == pc[Server] \in {"run", "set", "setting"}

InResize ==
    \/ pc[Video] \in {"clear", "resize"}
    \/ resizing /\ pc[Video] \in {"set", "setting"}

RS == INSTANCE RoundSync WITH
    rfb <- IF InRfbRound THEN "busy" ELSE "idle",
    fresh <- serverDone,
    video <- IF InResize THEN "resizing" ELSE "working",
    barrier <- ~videoDone

(* The code implements the abstract hand-off, its fairness included: one    *)
(* finished RFB round is consumed per video round and no RFB round starts   *)
(* behind a barrier, and neither thread waits for ever.                     *)
ImplementsRoundSync == RS!FairSpec

(* Each thread comes back to its work for ever.                             *)
BothThreadsKeepWorking ==
    /\ []<>(pc[Server] = "run")
    /\ []<>(pc[Video] = "work")

-----------------------------------------------------------------------------
(* ikvm_manager.hpp:56 says that waitServer() "Blocks until RFB operations  *)
(* complete": when it returns for a resize, the server thread is not in the *)
(* middle of server.run(), whose framebuffer the resize is about to swap.   *)
ResizeWaitsForRfb == [][PassServer /\ resizing => pc[Server] # "run"]_vars
=============================================================================
