------------------------------ MODULE MCRxRing ------------------------------
(* Instances of RxRing for TLC.                                            *)
EXTENDS RxRing, TLC

\* Nothing in RxRing tells one pbuf of the pool from another.
PbufSymmetry == Permutations(Pbuf)

=============================================================================
