----------------------------- MODULE MCSockets -----------------------------
(* Instances of Sockets for TLC: one task reads one connection and writes to *)
(* another, a second one only writes.                                        *)
EXTENDS Sockets, TLC

CONSTANTS t1, t2, s1, s2, s3

MCReadSet  == t1 :> {s1} @@ t2 :> {}
MCWriteSet == t1 :> {s2} @@ t2 :> {s3}

=============================================================================
