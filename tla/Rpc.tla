-------------------------------- MODULE Rpc --------------------------------
(***************************************************************************)
(* What the tcpip thread promises to the tasks that call it: a task asks,   *)
(* its question is answered once, and it returns with that answer before it *)
(* asks again.  TcpipCalls implements this with a mailbox, messages from a  *)
(* pool or from the caller's stack, and a binary semaphore for each call.   *)
(* It lets a call be answered at once or later; Netconn, which follows the  *)
(* calls of one task into their handlers and the callbacks of TCP, is shown *)
(* to answer in that way.                                                   *)
(***************************************************************************)
CONSTANT Tasks

VARIABLE call    \* how far the call of each task is

Init == call = [t \in Tasks |-> "none"]

Move(t, from, to) == call[t] = from /\ call' = [call EXCEPT ![t] = to]

Ask(t)    == Move(t, "none", "asked")
Answer(t) == Move(t, "asked", "answered")
Return(t) == Move(t, "answered", "none")

Next == \E t \in Tasks : Ask(t) \/ Answer(t) \/ Return(t)

Spec == Init /\ [][Next]_call
=============================================================================
