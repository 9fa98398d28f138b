------------------------------ MODULE FrameQueue ------------------------------
(***************************************************************************)
(* What ikvm::Video promises of the frames between the device that captures *)
(* them and Server::sendFrame(), without buffers and indices: they leave in *)
(* the order they were captured in, each once and as it was captured.  The  *)
(* device has room for so many, captures while someone watches, and forgets *)
(* the frames only when nobody does.                                        *)
(***************************************************************************)
EXTENDS Naturals, Sequences

CONSTANTS
    Frames,
    Capacity       \* the buffers of the device

VARIABLES
    queue,         \* the captured frames, oldest first
    watched        \* some client is connected

vars == <<queue, watched>>

Init ==
    /\ queue = <<>>
    /\ watched = FALSE

Put(f) ==
    /\ watched
    /\ Len(queue) < Capacity
    /\ queue' = Append(queue, f)
    /\ UNCHANGED watched

Take ==
    /\ queue # <<>>
    /\ queue' = Tail(queue)
    /\ UNCHANGED watched

Forget ==
    /\ ~watched
    /\ queue' = <<>>
    /\ UNCHANGED watched

Watch ==
    /\ watched' = ~watched
    /\ UNCHANGED queue

Next ==
    \/ \E f \in Frames : Put(f)
    \/ Take \/ Forget \/ Watch

Spec == Init /\ [][Next]_vars
=============================================================================
