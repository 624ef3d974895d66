------------------------------- MODULE RxFifo -------------------------------
(***************************************************************************)
(* What the receive path of the driver promises to the input task: the MAC *)
(* offers frames one at a time, a frame is kept at most once and only while *)
(* fewer than Capacity frames wait, and the waiting frames are taken in     *)
(* their order of arrival, unchanged.  A frame may be lost only before it   *)
(* has been kept.  RxRing implements this with a ring of pbufs, an          *)
(* interrupt handler and a DMA descriptor.                                  *)
(***************************************************************************)
EXTENDS Naturals, Sequences

CONSTANT Capacity

VARIABLES
  waiting,   \* the numbers of the frames kept and not yet taken, oldest first
  arrived,   \* how many frames the MAC has offered
  offered    \* whether the newest frame still awaits its verdict

vars == <<waiting, arrived, offered>>

Init == /\ waiting = <<>>
        /\ arrived = 0
        /\ offered = FALSE

Offer == /\ ~offered
         /\ arrived' = arrived + 1
         /\ offered' = TRUE
         /\ UNCHANGED waiting

Keep == /\ offered
        /\ Len(waiting) < Capacity
        /\ waiting' = Append(waiting, arrived)
        /\ offered' = FALSE
        /\ UNCHANGED arrived

Lose == /\ offered
        /\ offered' = FALSE
        /\ UNCHANGED <<waiting, arrived>>

Take == /\ waiting # <<>>
        /\ waiting' = Tail(waiting)
        /\ UNCHANGED <<arrived, offered>>

Next == Offer \/ Keep \/ Lose \/ Take

Spec == Init /\ [][Next]_vars
=============================================================================
