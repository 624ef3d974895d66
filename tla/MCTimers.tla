------------------------------ MODULE MCTimers ------------------------------
(* Instances of Timers for TLC: two cyclic timers, the TCP timer and one     *)
(* callback of an application, with intervals of a few milliseconds.         *)
EXTENDS Timers, TLC

CONSTANTS arp_timer, ip_reass_timer, app_timer

MCCyclic == <<ip_reass_timer, arp_timer>>

MCInterval == ip_reass_timer :> 2 @@ arp_timer :> 3 @@ Tcp :> 2 @@ app_timer :> 2

=============================================================================
