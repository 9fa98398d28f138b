--------------------------------- MODULE Input ---------------------------------
(***************************************************************************)
(* What the keyboard and the pointer of class ikvm::Input (ikvm_input.cpp)  *)
(* share: the two threads that use them, the tries of a write to a device,  *)
(* and whether some client is connected, that is, whether the HID gadget    *)
(* was to be connected.                                                     *)
(***************************************************************************)
EXTENDS Naturals

CONSTANTS
    RetryMax,      \* HID_REPORT_RETRY_MAX
    Server, Video  \* the threads

ASSUME InputAssumption ==
    /\ RetryMax \in Nat \ {0}
    /\ Server # Video

VARIABLE watched   \* some client is connected

Threads == {Server, Video}

=============================================================================
