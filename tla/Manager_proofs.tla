--------------------------- MODULE Manager_proofs ---------------------------
(***************************************************************************)
(* Theorems about the hand-off of module Manager.                           *)
(***************************************************************************)
EXTENDS Manager, TLAPS

(* The threads in sync.wait() are at the point they went to sleep.          *)
SleepersAsleep == \A t \in waiting : pc[t] = "asleep"

(* videoDone is false, or about to be seen false, only while the video      *)
(* thread is between the clear and setVideoDone() of its resize branch.     *)
ClearedOnlyInResize ==
    /\ ~videoDone \/ unflushed => InResize /\ pc[Video] # "clear"
    /\ unflushed => videoDone

BranchRemembered == pc[Video] \in {"clear", "resize"} => resizing

(* The inductive invariant: NoLostWakeup alone says nothing of a thread     *)
(* that was notified, nor of the clear that takes no lock.                  *)
IInv ==
    /\ TypeOK
    /\ SleepersAsleep
    /\ NoLostWakeup
    /\ ClearedOnlyInResize
    /\ BranchRemembered

LEMMA InitIInv == Init => IInv
  BY ThreadAssumption DEF Init, IInv, TypeOK, SleepersAsleep, NoLostWakeup,
     ClearedOnlyInResize, BranchRemembered, InResize, Threads, Locked,
     ServerPoints, VideoPoints

(* The server thread's steps.                                               *)
LEMMA ServerStepIInv == IInv /\ ServerStep => IInv'
<1> SUFFICES ASSUME IInv, ServerStep PROVE IInv'
  OBVIOUS
<1> USE ThreadAssumption DEF IInv, TypeOK, SleepersAsleep, NoLostWakeup,
     ClearedOnlyInResize, BranchRemembered, InResize, Threads, Locked,
     ServerPoints, VideoPoints, Goto
<1>1. CASE RunRfb
  BY <1>1 DEF RunRfb
<1>2. CASE SetServerDone
  BY <1>2 DEF SetServerDone, NotifyAll
<1>3. CASE PassVideo
  BY <1>3 DEF PassVideo
<1>4. CASE ~videoDone /\ Sleep(Server)
  BY <1>4 DEF Sleep
<1>5. QED
  BY <1>1, <1>2, <1>3, <1>4 DEF ServerStep, WaitVideo

(* The video thread's steps.                                                *)
LEMMA VideoStepIInv == IInv /\ VideoStep => IInv'
<1> SUFFICES ASSUME IInv, VideoStep PROVE IInv'
  OBVIOUS
<1> USE ThreadAssumption DEF IInv, TypeOK, SleepersAsleep, NoLostWakeup,
     ClearedOnlyInResize, BranchRemembered, InResize, Threads, Locked,
     ServerPoints, VideoPoints, Goto
<1>1. ASSUME NEW needed \in BOOLEAN, VideoRound(needed) PROVE IInv'
  BY <1>1 DEF VideoRound
<1>2. CASE ClearVideoDone
  BY <1>2 DEF ClearVideoDone
<1>3. CASE Resize
  BY <1>3 DEF Resize
<1>4. CASE SetVideoDone
  BY <1>4 DEF SetVideoDone, NotifyAll
<1>5. CASE PassServer
  BY <1>5 DEF PassServer
<1>6. CASE ~serverDone /\ Sleep(Video)
  BY <1>6 DEF Sleep
<1>7. QED
  BY <1>1, <1>2, <1>3, <1>4, <1>5, <1>6 DEF VideoStep, WaitServer

(* The steps of the mutex, of the condition variable and of the memory.     *)
LEMMA SharedStepIInv ==
  ASSUME IInv, FlushClear \/ \E t \in Threads : Acquire(t) \/ SpuriousWakeup(t)
  PROVE  IInv'
<1> USE ThreadAssumption DEF IInv, TypeOK, SleepersAsleep, NoLostWakeup,
     ClearedOnlyInResize, BranchRemembered, InResize, Threads, Locked,
     ServerPoints, VideoPoints, Goto
<1>1. CASE FlushClear
  BY <1>1 DEF FlushClear
<1>2. ASSUME NEW t \in Threads, Acquire(t) PROVE IInv'
  BY <1>2 DEF Acquire
<1>3. ASSUME NEW t \in Threads, SpuriousWakeup(t) PROVE IInv'
  BY <1>3 DEF SpuriousWakeup
<1>4. QED
  BY <1>1, <1>2, <1>3

LEMMA StutterIInv == IInv /\ UNCHANGED vars => IInv'
  BY DEF IInv, TypeOK, SleepersAsleep, NoLostWakeup, ClearedOnlyInResize,
     BranchRemembered, InResize, vars

THEOREM IInvHolds == Spec => []IInv
<1>1. IInv /\ [Next]_vars => IInv'
  BY ServerStepIInv, VideoStepIInv, SharedStepIInv, StutterIInv DEF Next
<1>2. QED
  BY InitIInv, <1>1, PTL DEF Spec

(* The threads keep to their points of the loop, and lock is held by the    *)
(* thread inside a locked scope and by no other.                            *)
THEOREM TypeCorrect == Spec => []TypeOK
<1>1. IInv => TypeOK
  BY DEF IInv
<1>2. QED
  BY IInvHolds, <1>1, PTL

(* No wakeup is lost.                                                       *)
THEOREM WakeupsKept == Spec => []NoLostWakeup
<1>1. IInv => NoLostWakeup
  BY DEF IInv
<1>2. QED
  BY IInvHolds, <1>1, PTL

(* The two waits never face each other.                                     *)
THEOREM NotBothAsleep == Spec => []NeverBothAsleep
<1>1. IInv => NeverBothAsleep
  <2> SUFFICES ASSUME IInv, waiting = Threads PROVE FALSE
    BY DEF NeverBothAsleep
  <2>1. pc[Video] = "asleep" /\ ~videoDone
    BY DEF IInv, SleepersAsleep, NoLostWakeup, Threads
  <2>2. QED
    BY <2>1 DEF IInv, ClearedOnlyInResize, InResize
<1>2. QED
  BY IInvHolds, <1>1, PTL

-----------------------------------------------------------------------------
(* A step of the code is a step of RoundSync or changes nothing it sees.    *)
LEMMA StepRefines == IInv /\ [Next]_vars => [RS!Next]_(RS!vars)
<1> SUFFICES ASSUME IInv, [Next]_vars PROVE RS!Next \/ UNCHANGED RS!vars
  OBVIOUS
<1> USE ThreadAssumption DEF IInv, TypeOK, InRfbRound, InResize, Threads,
     ServerPoints, VideoPoints, Goto
<1>1. CASE RunRfb
  BY <1>1 DEF RunRfb, RS!vars
<1>2. CASE SetServerDone
  <2>1. RS!EndRfb
    BY <1>2 DEF SetServerDone, RS!EndRfb
  <2>2. QED
    BY <2>1 DEF RS!Next
<1>3. CASE PassVideo
  <2>1. RS!BeginRfb
    BY <1>3 DEF PassVideo, RS!BeginRfb
  <2>2. QED
    BY <2>1 DEF RS!Next
<1>4. ASSUME NEW t \in Threads, Sleep(t) PROVE UNCHANGED RS!vars
  BY <1>4 DEF Sleep, RS!vars
<1>5. ASSUME NEW needed \in BOOLEAN, VideoRound(needed)
      PROVE  UNCHANGED RS!vars
  BY <1>5 DEF VideoRound, RS!vars
<1>6. CASE ClearVideoDone
  BY <1>6 DEF ClearVideoDone, RS!vars
<1>7. CASE Resize
  BY <1>7 DEF Resize, BranchRemembered, RS!vars
<1>8. CASE SetVideoDone
  <2>1. CASE resizing
    <3>1. RS!EndResize
      BY <1>8, <2>1 DEF SetVideoDone, RS!EndResize
    <3>2. QED
      BY <3>1 DEF RS!Next
  <2>2. CASE ~resizing
    BY <1>8, <2>2 DEF SetVideoDone, ClearedOnlyInResize, RS!vars
  <2>3. QED
    BY <2>1, <2>2
<1>9. CASE PassServer
  <2>1. CASE resizing
    <3>1. RS!BeginResize
      BY <1>9, <2>1 DEF PassServer, RS!BeginResize
    <3>2. QED
      BY <3>1 DEF RS!Next
  <2>2. CASE ~resizing
    <3>1. RS!EndVideoRound
      BY <1>9, <2>2 DEF PassServer, RS!EndVideoRound
    <3>2. QED
      BY <3>1 DEF RS!Next
  <2>3. QED
    BY <2>1, <2>2
<1>10. CASE FlushClear
  <2>1. RS!RaiseBarrier
    BY <1>10 DEF FlushClear, ClearedOnlyInResize, RS!RaiseBarrier
  <2>2. QED
    BY <2>1 DEF RS!Next
<1>11. ASSUME NEW t \in Threads, Acquire(t) PROVE UNCHANGED RS!vars
  BY <1>11 DEF Acquire, RS!vars
<1>12. ASSUME NEW t \in Threads, SpuriousWakeup(t) PROVE UNCHANGED RS!vars
  BY <1>12 DEF SpuriousWakeup, RS!vars
<1>13. CASE UNCHANGED vars
  BY <1>13 DEF vars, RS!vars
<1>14. QED
  BY <1>1, <1>2, <1>3, <1>4, <1>5, <1>6, <1>7, <1>8, <1>9, <1>10, <1>11,
     <1>12, <1>13 DEF Next, ServerStep, VideoStep, WaitVideo, WaitServer

(* The code implements RoundSync: the video thread consumes a finished RFB  *)
(* round per round of its own, and no RFB round starts behind the barrier.  *)
THEOREM RefinesRoundSync == Spec => RS!Spec
<1>1. Init => RS!Init
  BY ThreadAssumption DEF Init, RS!Init, InRfbRound, InResize, Threads
<1>2. QED
  BY <1>1, IInvHolds, StepRefines, PTL DEF Spec, RS!Spec
=============================================================================
