----------------------------- MODULE Deadlines ------------------------------
(***************************************************************************)
(* What the timeout list of lwIP promises: pending timeouts with the time   *)
(* each has left, served in the order of that time, and in the order they    *)
(* were set where it is equal.                                              *)
(***************************************************************************)
EXTENDS Naturals, Sequences

CONSTANTS
  Handler,  \* the callbacks a timeout can name
  Msecs     \* the times a timeout is set for

VARIABLE due  \* the pending timeouts, [h |-> callback, left |-> milliseconds]

Init == due = <<>>

\* ms milliseconds of every deadline have gone
Less(q, ms) == [i \in DOMAIN q |-> [q[i] EXCEPT !.left = @ - ms]]

\* A timeout is set behind those that are due no later.
Set(h, ms) ==
  \E k \in 0 .. Len(due) :
    /\ \A i \in 1 .. k : due[i].left <= ms
    /\ \A i \in k + 1 .. Len(due) : due[i].left > ms
    /\ due' = SubSeq(due, 1, k) \o <<[h |-> h, left |-> ms]>> \o SubSeq(due, k + 1, Len(due))

\* The first timeout that names h is taken back.
Cancel(h) ==
  \E i \in DOMAIN due :
    /\ due[i].h = h
    /\ \A j \in 1 .. i - 1 : due[j].h # h
    /\ due' = SubSeq(due, 1, i - 1) \o SubSeq(due, i + 1, Len(due))

\* Time passes, but never beyond the first deadline.
Pass ==
  /\ due # <<>>
  /\ \E ms \in 1 .. Head(due).left : due' = Less(due, ms)

\* The first timeout expires; what it had left passes for the others.
Expire ==
  /\ due # <<>>
  /\ due' = Less(Tail(due), Head(due).left)

Next ==
  \/ \E h \in Handler : (\E ms \in Msecs : Set(h, ms)) \/ Cancel(h)
  \/ Pass
  \/ Expire

Spec == Init /\ [][Next]_due

=============================================================================
