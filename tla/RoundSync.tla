------------------------------ MODULE RoundSync ------------------------------
(***************************************************************************)
(* What the hand-off between the two threads of ikvm::Manager promises,     *)
(* without the mutex, the condition variable or any line of code:           *)
(*                                                                         *)
(*   - the server thread runs RFB rounds, one at a time; a round that ends  *)
(*     leaves a `fresh' token, which does not accumulate;                   *)
(*   - the video thread closes each of its rounds by consuming a token, so  *)
(*     it never gets ahead of the RFB rounds;                               *)
(*   - a round that has to resize consumes its token first; the barrier it  *)
(*     then raises keeps new RFB rounds from starting until it is done.     *)
(*                                                                         *)
(* The barrier does not stop an RFB round that is already running.          *)
(***************************************************************************)
VARIABLES
    rfb,      \* the server thread: in a round of RFB processing or not
    fresh,    \* an RFB round ended since the video thread last consumed one
    video,    \* the video thread: capturing and sending, or resizing
    barrier   \* no new RFB round may start

vars == <<rfb, fresh, video, barrier>>

TypeOK ==
    /\ rfb \in {"busy", "idle"}
    /\ fresh \in BOOLEAN
    /\ video \in {"working", "resizing"}
    /\ barrier \in BOOLEAN

Init ==
    /\ rfb = "busy"
    /\ fresh = FALSE
    /\ video = "working"
    /\ barrier = FALSE

BeginRfb ==
    /\ rfb = "idle"
    /\ ~barrier
    /\ rfb' = "busy"
    /\ UNCHANGED <<fresh, video, barrier>>

EndRfb ==
    /\ rfb = "busy"
    /\ rfb' = "idle"
    /\ fresh' = TRUE
    /\ UNCHANGED <<video, barrier>>

EndVideoRound ==
    /\ video = "working"
    /\ fresh
    /\ fresh' = FALSE
    /\ UNCHANGED <<rfb, video, barrier>>

BeginResize ==
    /\ video = "working"
    /\ fresh
    /\ fresh' = FALSE
    /\ video' = "resizing"
    /\ UNCHANGED <<rfb, barrier>>

RaiseBarrier ==
    /\ video = "resizing"
    /\ ~barrier
    /\ barrier' = TRUE
    /\ UNCHANGED <<rfb, fresh, video>>

EndResize ==
    /\ video = "resizing"
    /\ video' = "working"
    /\ barrier' = FALSE
    /\ UNCHANGED <<rfb, fresh>>

Next ==
    \/ BeginRfb
    \/ EndRfb
    \/ EndVideoRound
    \/ BeginResize
    \/ RaiseBarrier
    \/ EndResize

Spec == Init /\ [][Next]_vars

(* Both threads keep going round: neither is starved by the other.          *)
Fairness ==
    /\ WF_vars(BeginRfb)
    /\ WF_vars(EndRfb)
    /\ WF_vars(EndVideoRound \/ BeginResize)
    /\ WF_vars(EndResize)

FairSpec == Spec /\ Fairness
=============================================================================
