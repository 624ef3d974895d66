----------------------------- MODULE TcpipCalls -----------------------------
(***************************************************************************)
(* How the other tasks reach the tcpip thread (api/tcpip.c): netconn calls   *)
(* with a message on the caller's stack, calls through a message of the pool *)
(* MEMP_TCPIP_MSG_API (netconn_gethostbyname, lwip_getsockopt and            *)
(* lwip_setsockopt), packets of the interface task in messages of the pool   *)
(* MEMP_TCPIP_MSG_INPKT, and its request to reclaim pbufs when the pool of   *)
(* pbufs is empty (core/pbuf.c).  Messages wait in one mailbox, a FreeRTOS   *)
(* queue of pointers; the post of sys_arch.c gives up after 10 s.            *)
(*                                                                          *)
(* A message on a stack is named by its task.  What a message asks for is    *)
(* left out: the stack answers at once or later, from a callback or a timer. *)
(* Each task has a semaphore of its own, as one task uses a netconn.         *)
(***************************************************************************)
EXTENDS Naturals, Sequences, FiniteSets, SequencesExt

CONSTANTS
  Tasks,      \* the tasks that call the stack
  ApiMsgs,    \* the messages of MEMP_TCPIP_MSG_API
  InpktMsgs,  \* the messages of MEMP_TCPIP_MSG_INPKT
  NoMsg,      \* no message
  MboxSize    \* TCPIP_MBOX_SIZE

PoolMsgs == ApiMsgs \cup InpktMsgs
Msg == PoolMsgs \cup Tasks

ASSUME MsgAssumption ==
  /\ IsFiniteSet(Msg) /\ NoMsg \notin Msg
  /\ ApiMsgs \cap InpktMsgs = {} /\ PoolMsgs \cap Tasks = {}
ASSUME MboxAssumption == MboxSize \in Nat

VARIABLES
  pc,        \* where each task is in its call
  msg,       \* the message each task is about to post
  sem,       \* the binary semaphore each task waits for
  refused,   \* tasks that wait although tcpip_callback answered ERR_MEM
  ctx,       \* whom the callback of a pool message wakes; NoMsg: pbuf_free_ooseq
  mbox,      \* the mailbox of the tcpip thread
  tpc,       \* where the tcpip thread is
  cur,       \* the message it handles
  later,     \* tasks the stack will answer later
  freeMsgs,  \* the messages free in the two pools
  ipc, imsg, \* the interface task and the message in its hands
  pbuf_free_ooseq_pending

tasks  == <<pc, msg, sem, refused>>
thread == <<tpc, cur, later>>
iface  == <<ipc, imsg>>
vars   == <<tasks, thread, iface, ctx, mbox, freeMsgs, pbuf_free_ooseq_pending>>

Init ==
  /\ pc = [t \in Tasks |-> "idle"] /\ msg = [t \in Tasks |-> NoMsg]
  /\ sem = [t \in Tasks |-> FALSE] /\ refused = {}
  /\ ctx = [m \in ApiMsgs |-> NoMsg]
  /\ mbox = <<>>
  /\ tpc = "fetch" /\ cur = NoMsg /\ later = {}
  /\ freeMsgs = PoolMsgs
  /\ ipc = "idle" /\ imsg = NoMsg
  /\ pbuf_free_ooseq_pending = FALSE

Room == Len(mbox) < MboxSize

-----------------------------------------------------------------------------
(* A task that calls the stack. *)

tcpip_apimsg(t) ==
  /\ pc[t] = "idle"
  /\ pc' = [pc EXCEPT ![t] = "post"]
  /\ msg' = [msg EXCEPT ![t] = t]
  /\ UNCHANGED <<sem, refused, ctx, mbox, thread, freeMsgs, iface, pbuf_free_ooseq_pending>>

\* The callers ignore the result and wait in any case.
tcpip_callback(t) ==
  /\ pc[t] = "idle"
  /\ \/ \E m \in freeMsgs \cap ApiMsgs :
          /\ freeMsgs' = freeMsgs \ {m}
          /\ ctx' = [ctx EXCEPT ![m] = t]
          /\ msg' = [msg EXCEPT ![t] = m]
          /\ pc' = [pc EXCEPT ![t] = "post"]
          /\ UNCHANGED refused
     \/ /\ freeMsgs \cap ApiMsgs = {}
        /\ refused' = refused \cup {t}
        /\ pc' = [pc EXCEPT ![t] = "wait"]
        /\ UNCHANGED <<freeMsgs, ctx, msg>>
  /\ UNCHANGED <<sem, mbox, thread, iface, pbuf_free_ooseq_pending>>

\* sys_mbox_post: a message is dropped after ten seconds in front of a full mailbox,
\* and its caller waits all the same.
Post(t) ==
  /\ pc[t] = "post"
  /\ mbox' = IF Room THEN Append(mbox, msg[t]) ELSE mbox
  /\ msg' = [msg EXCEPT ![t] = NoMsg]
  /\ pc' = [pc EXCEPT ![t] = "wait"]
  /\ UNCHANGED <<sem, refused, ctx, thread, freeMsgs, iface, pbuf_free_ooseq_pending>>

Return(t) ==
  /\ pc[t] = "wait" /\ sem[t]
  /\ sem' = [sem EXCEPT ![t] = FALSE]
  /\ pc' = [pc EXCEPT ![t] = "idle"]
  /\ UNCHANGED <<msg, refused, ctx, mbox, thread, freeMsgs, iface, pbuf_free_ooseq_pending>>

-----------------------------------------------------------------------------
(* The interface task. *)

\* One message serves all packets.
SlipInputAlloc ==
  /\ ipc = "idle"
  /\ \E m \in InpktMsgs : imsg' = m
  /\ ipc' = "trypost"
  /\ UNCHANGED <<tasks, ctx, mbox, thread, freeMsgs, pbuf_free_ooseq_pending>>

\* tcpip_input with a free message; without one the packet is refused
InputAlloc ==
  /\ ipc = "idle"
  /\ \E m \in freeMsgs \cap InpktMsgs :
       freeMsgs' = freeMsgs \ {m} /\ imsg' = m
  /\ ipc' = "trypost"
  /\ UNCHANGED <<tasks, ctx, mbox, thread, pbuf_free_ooseq_pending>>

InputTryPost ==
  /\ ipc = "trypost"
  /\ IF Room THEN mbox' = Append(mbox, imsg) /\ UNCHANGED freeMsgs
             ELSE freeMsgs' = freeMsgs \cup {imsg} /\ UNCHANGED mbox
  /\ ipc' = "idle" /\ imsg' = NoMsg
  /\ UNCHANGED <<tasks, ctx, thread, pbuf_free_ooseq_pending>>

\* pbuf_alloc has found the pool of pbufs empty and no request is under way
pbuf_pool_is_empty ==
  /\ ipc = "idle" /\ ~pbuf_free_ooseq_pending
  /\ pbuf_free_ooseq_pending' = TRUE
  /\ ipc' = "reclaim"
  /\ UNCHANGED <<tasks, ctx, mbox, thread, freeMsgs, imsg>>

\* A request that gets no message leaves the flag set.
SlipReclaimAlloc ==
  /\ ipc = "reclaim"
  /\ \/ \E m \in freeMsgs \cap ApiMsgs :
          /\ freeMsgs' = freeMsgs \ {m} /\ imsg' = m
          /\ ctx' = [ctx EXCEPT ![m] = NoMsg]
          /\ ipc' = "reclaimpost"
     \/ /\ freeMsgs \cap ApiMsgs = {}
        /\ ipc' = "idle"
        /\ UNCHANGED <<freeMsgs, imsg, ctx>>
  /\ UNCHANGED <<tasks, mbox, thread, pbuf_free_ooseq_pending>>

ReclaimAlloc ==
  /\ ipc = "reclaim"
  /\ \/ \E m \in freeMsgs \cap ApiMsgs :
          /\ freeMsgs' = freeMsgs \ {m} /\ imsg' = m
          /\ ctx' = [ctx EXCEPT ![m] = NoMsg]
          /\ ipc' = "reclaimpost"
          /\ UNCHANGED pbuf_free_ooseq_pending
     \/ /\ freeMsgs \cap ApiMsgs = {}
        /\ ipc' = "idle"
        /\ pbuf_free_ooseq_pending' = FALSE
        /\ UNCHANGED <<freeMsgs, imsg, ctx>>
  /\ UNCHANGED <<tasks, mbox, thread>>

ReclaimTryPost ==
  /\ ipc = "reclaimpost"
  /\ IF Room THEN mbox' = Append(mbox, imsg) /\ UNCHANGED <<freeMsgs, pbuf_free_ooseq_pending>>
             ELSE /\ freeMsgs' = freeMsgs \cup {imsg}
                  /\ pbuf_free_ooseq_pending' = FALSE
                  /\ UNCHANGED mbox
  /\ ipc' = "idle" /\ imsg' = NoMsg
  /\ UNCHANGED <<tasks, ctx, thread>>

-----------------------------------------------------------------------------
(* The tcpip thread. *)

Fetch ==
  /\ tpc = "fetch" /\ mbox # <<>>
  /\ cur' = Head(mbox) /\ mbox' = Tail(mbox)
  /\ tpc' = "call"
  /\ UNCHANGED <<tasks, ctx, later, freeMsgs, iface, pbuf_free_ooseq_pending>>

\* the task a message comes from, NoMsg for packets and requests
Asker(m) == IF m \in Tasks THEN m ELSE IF m \in ApiMsgs THEN ctx[m] ELSE NoMsg

\* A question that is put off is answered at once as well.
SlipAnswerTwice(t) ==
  /\ sem' = [sem EXCEPT ![t] = TRUE]
  /\ UNCHANGED later \/ later' = later \cup {t}

\* An error path of the function ends without the acknowledgement.
SlipNoAnswer(t) ==
  \/ sem' = [sem EXCEPT ![t] = TRUE] /\ UNCHANGED later
  \/ UNCHANGED <<later, sem>>

\* TCPIP_APIMSG_ACK or sys_sem_signal in the function, or a callback is left behind
Answer(t) ==
  \/ sem' = [sem EXCEPT ![t] = TRUE] /\ UNCHANGED later
  \/ later' = later \cup {t} /\ UNCHANGED sem

\* The thread frees every message it has handled.
SlipCall ==
  /\ tpc = "call"
  /\ IF Asker(cur) \in Tasks THEN Answer(Asker(cur)) ELSE UNCHANGED <<sem, later>>
  /\ pbuf_free_ooseq_pending' =
       (pbuf_free_ooseq_pending /\ ~(cur \in ApiMsgs /\ ctx[cur] = NoMsg))
  /\ tpc' = "free"
  /\ UNCHANGED <<cur, pc, msg, refused, ctx, mbox, freeMsgs, iface>>

\* A callback: the function, then memp_free; a netconn call: only the function,
\* as its message is gone once the caller runs again.
Call ==
  /\ tpc = "call"
  /\ IF Asker(cur) \in Tasks THEN Answer(Asker(cur)) ELSE UNCHANGED <<sem, later>>
  /\ pbuf_free_ooseq_pending' =
       (pbuf_free_ooseq_pending /\ ~(cur \in ApiMsgs /\ ctx[cur] = NoMsg))
  /\ IF cur \in PoolMsgs THEN tpc' = "free" /\ UNCHANGED cur
                         ELSE tpc' = "fetch" /\ cur' = NoMsg
  /\ UNCHANGED <<pc, msg, refused, ctx, mbox, freeMsgs, iface>>

\* The branch for packets does not free its message.
SlipFree ==
  /\ tpc = "free"
  /\ freeMsgs' = IF cur \in InpktMsgs THEN freeMsgs ELSE freeMsgs \cup {cur}
  /\ tpc' = "fetch" /\ cur' = NoMsg
  /\ UNCHANGED <<tasks, ctx, mbox, later, iface, pbuf_free_ooseq_pending>>

Free ==
  /\ tpc = "free"
  /\ freeMsgs' = freeMsgs \cup {cur}
  /\ tpc' = "fetch" /\ cur' = NoMsg
  /\ UNCHANGED <<tasks, ctx, mbox, later, iface, pbuf_free_ooseq_pending>>

\* The callback is not taken off once it has answered.
SlipAnswerLater(t) ==
  /\ t \in later
  /\ tpc = "fetch" \/ (tpc = "call" /\ cur \in InpktMsgs)
  /\ sem' = [sem EXCEPT ![t] = TRUE]
  /\ UNCHANGED <<pc, msg, refused, ctx, mbox, thread, freeMsgs, iface, pbuf_free_ooseq_pending>>

\* do_dns_found, do_connected, do_writemore, do_close_internal: from a timer or a packet
AnswerLater(t) ==
  /\ t \in later
  /\ tpc = "fetch" \/ (tpc = "call" /\ cur \in InpktMsgs)
  /\ later' = later \ {t}
  /\ sem' = [sem EXCEPT ![t] = TRUE]
  /\ UNCHANGED <<pc, msg, refused, ctx, mbox, tpc, cur, freeMsgs, iface, pbuf_free_ooseq_pending>>

-----------------------------------------------------------------------------
Caller(t) == tcpip_apimsg(t) \/ tcpip_callback(t) \/ Post(t) \/ Return(t)
Interface == InputAlloc \/ InputTryPost \/ pbuf_pool_is_empty \/ ReclaimAlloc \/ ReclaimTryPost
Thread    == Fetch \/ Call \/ Free \/ \E t \in Tasks : AnswerLater(t)

Next == Thread \/ Interface \/ \E t \in Tasks : Caller(t)

Spec == Init /\ [][Next]_vars

\* Ready tasks get to run.  That an answer put off ever comes is not assumed: it hangs on
\* the peer, and on the states of the connection that Netconn models.
FairSpec ==
  /\ Spec
  /\ WF_vars(Fetch) /\ WF_vars(Call) /\ WF_vars(Free)
  /\ WF_vars(InputTryPost) /\ WF_vars(ReclaimAlloc) /\ WF_vars(ReclaimTryPost)
  /\ \A t \in Tasks : WF_vars(Post(t)) /\ WF_vars(Return(t))

-----------------------------------------------------------------------------
(* Properties. *)

TypeOK ==
  /\ pc \in [Tasks -> {"idle", "post", "wait"}] /\ msg \in [Tasks -> Msg \cup {NoMsg}]
  /\ sem \in [Tasks -> BOOLEAN] /\ refused \subseteq Tasks
  /\ ctx \in [ApiMsgs -> Tasks \cup {NoMsg}]
  /\ mbox \in Seq(Msg)
  /\ tpc \in {"fetch", "call", "free"} /\ cur \in Msg \cup {NoMsg} /\ later \subseteq Tasks
  /\ freeMsgs \subseteq PoolMsgs
  /\ ipc \in {"idle", "trypost", "reclaim", "reclaimpost"}
  /\ imsg \in PoolMsgs \cup {NoMsg}
  /\ pbuf_free_ooseq_pending \in BOOLEAN

Queued == {mbox[i] : i \in DOMAIN mbox}
Posting == {msg[t] : t \in Tasks}

\* A message is in one place: free, with the task that posts it, once in the
\* mailbox, or with the tcpip thread; none is freed twice or reused too soon, and
\* the thread is done with a message on a stack when its task can run (tcpip.c:88-142).
OneHolder ==
  /\ \A i, j \in DOMAIN mbox : mbox[i] = mbox[j] => i = j
  /\ \A t, u \in Tasks : msg[t] = msg[u] => t = u \/ msg[t] = NoMsg
  /\ \A m \in Queued : m \notin freeMsgs \cup Posting \cup {cur, imsg}
  /\ \A m \in freeMsgs : m \notin Posting \cup {cur, imsg}
  /\ \A m \in Posting : m \notin {cur, imsg} \/ m = NoMsg
  /\ cur = imsg => cur = NoMsg

\* No message of a pool gets lost on the way (tcpip.c:109, 124, 130, 136, 192, 228).
NoMsgLost == PoolMsgs \subseteq freeMsgs \cup Posting \cup Queued \cup {cur, imsg}

\* A post finds room, so that sys_mbox_post does not give up and drop a message
\* whose sender counts on it (sys_arch.c:205-212): the mailbox is as long as there
\* are messages.
AlwaysRoom ==
  (ipc \in {"trypost", "reclaimpost"} \/ \E t \in Tasks : pc[t] = "post") => Room

\* the messages that will wake a task
InFlight(t) == {m \in Msg : Asker(m) = t /\ (m \in Queued \/ (tpc = "call" /\ m = cur))}

\* A task that waits has one thing that will wake it, its message, an answer put off,
\* or the signal, and no other task has any: a binary semaphore would keep a
\* second signal for the next call of the task (tcpip.c:317-319, api_msg.c:1527-1564).
OneWaker ==
  \A t \in Tasks :
    /\ pc[t] = "wait" /\ t \notin refused => InFlight(t) # {} \/ t \in later \/ sem[t]
    /\ pc[t] # "wait" \/ t \in refused => InFlight(t) = {} /\ t \notin later /\ ~sem[t]
    /\ InFlight(t) # {} => t \notin later /\ ~sem[t]
    /\ t \in later => ~sem[t]
    /\ \A m, n \in InFlight(t) : m = n

\* While the flag keeps further requests away, one is under way: the flag never
\* sticks, whatever step of the request fails (pbuf.c:94-99, 118-125, 160-170).
ReclaimPending ==
  pbuf_free_ooseq_pending =>
    \/ ipc \in {"reclaim", "reclaimpost"}
    \/ \E m \in ApiMsgs : ctx[m] = NoMsg /\ (m \in Queued \/ (tpc = "call" /\ m = cur))

\* No task waits for an answer to a message it never got.  That takes a pool with two
\* messages more than there are tasks that call: beside theirs, one may be the request
\* to reclaim pbufs and one may not be freed yet, though its caller has its answer and
\* may call again (tcpip.c:134-137, 211-219; api_lib.c:772; sockets.c:1664, 2081).
NeverRefused == refused = {}

Calls == INSTANCE Rpc WITH
  call <- [t \in Tasks |-> IF pc[t] = "idle" THEN "none"
                           ELSE IF sem[t] THEN "answered" ELSE "asked"]

\* A call is answered once, after it was asked, and ends with that answer.
ImplementsRpc == Calls!Spec

\* Every call comes back, or the stack has put its answer off, whatever the mailbox, the
\* pools and the other tasks do meanwhile; and one whose answer was put off comes back as
\* soon as the stack gives it.  The other exception is a call whose tcpip_callback got no
\* message: its caller ignores ERR_MEM and waits (tcpip.c:134-137, 316-319;
\* api_lib.c:772-773, sockets.c:1664-1665, 2081-2082).  Which of the answers put off
\* come is the matter of Netconn's CallsReturn.
CallsReturn ==
  \A t \in Tasks :
    (pc[t] = "wait" /\ t \notin refused) ~> (pc[t] = "idle" \/ t \in later)
=============================================================================
