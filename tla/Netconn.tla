------------------------------ MODULE Netconn ------------------------------
(***************************************************************************)
(* One TCP netconn between the task that uses it (api/api_lib.c), the        *)
(* handlers of its messages in the tcpip thread (api/api_msg.c) and the      *)
(* callbacks of its pcb (core/tcp_in.c, core/tcp.c).  The task blocks on     *)
(* op_completed, or on recvmbox in netconn_recv; a handler that cannot       *)
(* answer leaves the message in current_msg to the callbacks.                *)
(*                                                                          *)
(* A handler or a callback is one step, as both run in the tcpip thread; the *)
(* post of a message, its handling and the return are steps of their own     *)
(* (the mailbox is TcpipCalls).  FIN_WAIT is FIN_WAIT_1 and FIN_WAIT_2.      *)
(* recvmbox never fills: a message holds a pbuf of the pool, which           *)
(* has fewer than the 4096 places of the mailbox.  Listening, UDP and raw    *)
(* netconns, and addresses, are left out.                                    *)
(***************************************************************************)
EXTENDS Naturals, Sequences

CONSTANT MaxUnread  \* bound: messages that wait in recvmbox when data arrive
ASSUME UnreadAssumption == MaxUnread \in Nat

VARIABLES
  phase,     \* where the task is in its call
  call,      \* the call
  fatal,     \* its answer is an error that last_err keeps
  sem,       \* op_completed
  conn,      \* struct netconn
  recvmbox,
  pcb        \* the tcp_pcb, with what its callbacks are set to

vars == <<phase, call, fatal, sem, conn, recvmbox, pcb>>

Shuts  == {"shut_rd", "shut_wr", "close", "delete"}
Calls  == Shuts \cup {"connect", "connect_nb", "write", "write_nb"}
Recved == {"recved", "recved_end"}     \* do_recv after data, after the end of data

Active == {"SYN_SENT", "ESTABLISHED", "CLOSE_WAIT", "FIN_WAIT", "CLOSING", "LAST_ACK"}
Pcb  == [state : Active \cup {"CLOSED", "TIME_WAIT", "freed"},
         rxclosed : BOOLEAN, arg : BOOLEAN, recv : BOOLEAN, sent : BOOLEAN,
         poll : BOOLEAN, err : BOOLEAN]
Conn == [state : {"NONE", "WRITE", "CONNECT", "CLOSE"},
         current_msg : BOOLEAN, nonblocking_connect : BOOLEAN,
         pcb : BOOLEAN,            \* conn->pcb.tcp is not NULL
         partly : BOOLEAN,         \* write_offset is not 0
         last_err : BOOLEAN,       \* last_err is fatal
         mbox : BOOLEAN]           \* recvmbox is valid

setup_tcp(p) == [p EXCEPT !.arg = TRUE, !.recv = TRUE, !.sent = TRUE, !.poll = TRUE,
                          !.err = TRUE]

\* A netconn of netconn_new, or one that accept_function made
Init ==
  /\ phase = "idle" /\ call = "close" /\ fatal = FALSE /\ sem = FALSE
  /\ recvmbox = <<>>
  /\ conn = [state |-> "NONE", current_msg |-> FALSE, nonblocking_connect |-> FALSE,
             pcb |-> TRUE, partly |-> FALSE, last_err |-> FALSE, mbox |-> TRUE]
  /\ \E s \in {"CLOSED", "ESTABLISHED"} :
       pcb = setup_tcp([state |-> s, rxclosed |-> FALSE, arg |-> FALSE, recv |-> FALSE,
                        sent |-> FALSE, poll |-> FALSE, err |-> FALSE])

-----------------------------------------------------------------------------
(* The task. *)

Ask(c) ==
  /\ phase = "idle"
  /\ phase' = "posted" /\ call' = c
  /\ UNCHANGED <<fatal, sem, conn, recvmbox, pcb>>

\* netconn_recv_data looks at last_err before it waits
Recv ==
  /\ phase = "idle" /\ conn.mbox /\ ~conn.last_err
  /\ phase' = "fetch"
  /\ UNCHANGED <<call, fatal, sem, conn, recvmbox, pcb>>

Fetch ==
  /\ phase = "fetch" /\ recvmbox # <<>>
  /\ recvmbox' = Tail(recvmbox)
  /\ phase' = "posted"
  /\ call' = IF Head(recvmbox) = "data" THEN "recved" ELSE "recved_end"
  /\ UNCHANGED <<fatal, sem, conn, pcb>>

\* A call returns; NETCONN_SET_SAFE_ERR; netconn_delete frees the netconn.
Return ==
  /\ phase = "inside" /\ sem
  /\ sem' = FALSE
  /\ phase' = IF call = "delete" THEN "gone" ELSE "idle"
  /\ conn' = [conn EXCEPT !.last_err = @ \/ fatal \/ call = "recved_end"]
  /\ fatal' = FALSE
  /\ UNCHANGED <<call, recvmbox, pcb>>

-----------------------------------------------------------------------------
(* tcp_close and tcp_shutdown: the pcbs they can leave, and whether they can fail    *)
(* (tcp_send_fin without memory; a transmit side that is not open).                   *)

Both(c) == c \in {"close", "delete"}

Shut(p, c) ==
  LET at(ss) == {[p EXCEPT !.state = s] : s \in ss}
      rx(ss) == {[p EXCEPT !.state = s, !.rxclosed = TRUE] : s \in ss}
  IN CASE c = "shut_rd" -> rx({p.state})
       [] c = "shut_wr" -> at(CASE p.state = "ESTABLISHED" -> {"FIN_WAIT"}
                                [] p.state = "CLOSE_WAIT" -> {"LAST_ACK"}
                                [] OTHER -> {})
       [] OTHER -> rx(CASE p.state \in {"CLOSED", "SYN_SENT"} -> {"freed"}
                        [] p.state = "ESTABLISHED" -> {"FIN_WAIT", "TIME_WAIT"}
                        [] p.state = "CLOSE_WAIT" -> {"LAST_ACK", "freed"}
                        [] OTHER -> {p.state})

ShutFails(p, c) == \/ c = "shut_wr"
                   \/ Both(c) /\ p.state \in {"ESTABLISHED", "CLOSE_WAIT"}

\* The pcb of a netconn that goes away still refers to it.
SlipQuiet(p, c) ==
  [p EXCEPT !.poll = @ /\ ~Both(c), !.err = @ /\ ~Both(c),
            !.recv = @ /\ c = "shut_wr", !.sent = @ /\ c = "shut_rd"]

\* The callbacks that do_close_internal takes off before it tries
Quiet(p, c) ==
  [p EXCEPT !.arg  = @ /\ ~Both(c), !.poll = @ /\ ~Both(c), !.err = @ /\ ~Both(c),
            !.recv = @ /\ c = "shut_wr", !.sent = @ /\ c = "shut_rd"]

\* A close that fails leaves the callbacks off.
SlipRestored(p, c) == [p EXCEPT !.rxclosed = @ \/ Both(c)]

Restored(p, c) == [p EXCEPT !.rxclosed = @ \/ Both(c), !.arg = TRUE, !.sent = TRUE,
                            !.poll = TRUE, !.err = TRUE]

\* do_close_internal for netconn c: it answers, or a callback tries again.
CloseDone(c) ==
  /\ \E p \in Shut(Quiet(pcb, call), call) : pcb' = p
  /\ conn' = [c EXCEPT !.state = "NONE", !.current_msg = FALSE,
                       !.pcb = @ /\ ~Both(call)]
  /\ sem' = TRUE
CloseFailed(c) ==
  /\ ShutFails(pcb, call)
  /\ pcb' = Restored(Quiet(pcb, call), call)
  /\ conn' = c
  /\ UNCHANGED sem

\* do_writemore: all is written, or an error ends it, or it waits for space.
WriteDone(c) ==
  /\ conn' = [c EXCEPT !.state = "NONE", !.current_msg = FALSE, !.partly = FALSE]
  /\ sem' = TRUE
WriteWaits(c) ==
  /\ call = "write" /\ pcb.state \in {"ESTABLISHED", "CLOSE_WAIT"}
  /\ \E b \in BOOLEAN : conn' = [c EXCEPT !.partly = @ \/ b]
  /\ UNCHANGED sem

-----------------------------------------------------------------------------
(* The handlers of the messages. *)

\* The netconn refers to a pcb that TCP has freed: what a handler does then is undefined,
\* and left out.
Dangling == conn.pcb /\ pcb.state = "freed"

Handled == phase = "posted" /\ ~Dangling /\ phase' = "inside"

\* An answer without any effect
Answer(isFatal) ==
  /\ sem' = TRUE /\ fatal' = isFatal
  /\ UNCHANGED <<conn, pcb, recvmbox>>

do_connect ==
  /\ Handled /\ call \in {"connect", "connect_nb"}
  /\ \/ ~conn.pcb /\ Answer(TRUE)
     \/ conn.pcb /\ conn.state # "NONE" /\ Answer(FALSE)
     \/ /\ conn.pcb /\ conn.state = "NONE"        \* tcp_connect refuses, or runs short
        /\ pcb' = setup_tcp(pcb) /\ sem' = TRUE
        /\ UNCHANGED <<conn, fatal, recvmbox>>
     \/ /\ conn.pcb /\ conn.state = "NONE" /\ pcb.state = "CLOSED"
        /\ pcb' = [setup_tcp(pcb) EXCEPT !.state = "SYN_SENT"]
        /\ LET nb == call = "connect_nb" IN
             /\ conn' = [conn EXCEPT !.state = "CONNECT", !.nonblocking_connect = nb,
                                     !.current_msg = ~nb]
             /\ sem' = nb
        /\ UNCHANGED <<fatal, recvmbox>>
  /\ UNCHANGED call

do_write ==
  /\ Handled /\ call \in {"write", "write_nb"}
  /\ LET c == [conn EXCEPT !.state = "WRITE", !.current_msg = TRUE, !.partly = FALSE]
     IN \/ conn.last_err /\ Answer(TRUE)
        \/ ~conn.last_err /\ conn.state # "NONE" /\ Answer(FALSE)
        \/ ~conn.last_err /\ conn.state = "NONE" /\ ~conn.pcb /\ Answer(TRUE)
        \/ /\ ~conn.last_err /\ conn.state = "NONE" /\ conn.pcb
           /\ WriteDone(c) \/ WriteWaits(c)
           /\ fatal' = (pcb.state \notin {"ESTABLISHED", "CLOSE_WAIT"})  \* ERR_CONN
           /\ UNCHANGED <<pcb, recvmbox>>
  /\ UNCHANGED call

\* do_close, and do_delconn, which also closes a netconn that is connecting and
\* drains one without a pcb
Open == \/ conn.state = "NONE"
        \/ call = "delete" /\ conn.state = "CONNECT"
do_close ==
  /\ Handled /\ call \in Shuts
  /\ LET drains == call # "shut_wr"
         kept   == [conn EXCEPT !.mbox = @ /\ ~drains]
         c      == [kept EXCEPT !.state = "CLOSE", !.current_msg = TRUE]
     IN \/ /\ (~Open \/ ~conn.pcb) /\ call # "delete" /\ Answer(FALSE)
        \/ /\ Open /\ ~conn.pcb /\ call = "delete"
           /\ conn' = kept /\ recvmbox' = <<>> /\ sem' = TRUE
           /\ UNCHANGED <<fatal, pcb>>
        \/ /\ Open /\ conn.pcb
           /\ CloseDone(c) \/ CloseFailed(c)
           /\ recvmbox' = IF drains THEN <<>> ELSE recvmbox
           /\ UNCHANGED fatal
  /\ UNCHANGED call

do_recv == /\ Handled /\ call \in Recved
           /\ Answer(FALSE)
           /\ UNCHANGED call

-----------------------------------------------------------------------------
(* The callbacks of the pcb. *)

Blocked == conn.state \in {"WRITE", "CLOSE", "CONNECT"} /\ ~conn.nonblocking_connect

\* Whoever starts an operation that can fail is woken.
SlipDies ==
  /\ pcb' = [pcb EXCEPT !.state = "freed"]
  /\ IF pcb.err
     THEN /\ conn' = [conn EXCEPT !.state = "NONE", !.pcb = FALSE, !.last_err = TRUE,
                                  !.current_msg = FALSE, !.nonblocking_connect = FALSE]
          /\ recvmbox' = IF conn.mbox THEN Append(recvmbox, "end") ELSE recvmbox
          /\ sem' = (sem \/ conn.state # "NONE")
     ELSE UNCHANGED <<conn, recvmbox, sem>>
  /\ UNCHANGED <<phase, call, fatal>>

\* TCP_EVENT_ERR, err_tcp: the netconn loses its pcb; the caller and a reader learn of it.
Dies ==
  /\ pcb' = [pcb EXCEPT !.state = "freed"]
  /\ IF pcb.err
     THEN /\ conn' = [conn EXCEPT !.state = "NONE", !.pcb = FALSE, !.last_err = TRUE,
                                  !.current_msg = FALSE, !.nonblocking_connect = FALSE]
          /\ recvmbox' = IF conn.mbox THEN Append(recvmbox, "end") ELSE recvmbox
          /\ sem' = (sem \/ Blocked)
     ELSE UNCHANGED <<conn, recvmbox, sem>>
  /\ UNCHANGED <<phase, call, fatal>>

\* A reset, or tcp_slowtmr gives up
Reset == pcb.state \in Active /\ Dies

\* do_connected
Connected ==
  /\ pcb.state = "SYN_SENT"
  /\ pcb' = [setup_tcp(pcb) EXCEPT !.state = "ESTABLISHED"]
  /\ sem' = (sem \/ ~conn.nonblocking_connect)
  /\ conn' = [conn EXCEPT !.state = "NONE", !.current_msg = FALSE,
                          !.nonblocking_connect = FALSE]
  /\ UNCHANGED <<phase, call, fatal, recvmbox>>

\* recv_tcp, to which the end of the data is a message NULL
recv_tcp(m) ==
  recvmbox' = IF pcb.recv /\ conn.mbox THEN Append(recvmbox, m) ELSE recvmbox

\* Data for a receive side already closed abort the connection.
Data ==
  /\ pcb.state \in {"ESTABLISHED", "FIN_WAIT"} /\ Len(recvmbox) < MaxUnread
  /\ IF pcb.rxclosed THEN Dies
     ELSE recv_tcp("data") /\ UNCHANGED <<phase, call, fatal, sem, conn, pcb>>

\* A FIN that comes again is reported again.
SlipFin ==
  /\ pcb.state \in {"ESTABLISHED", "FIN_WAIT"}
  /\ recv_tcp("end")
  /\ UNCHANGED <<phase, call, fatal, sem, conn, pcb>>

\* tcp_process for a FIN; in FIN_WAIT_1 ours may not have been acknowledged yet.
Fin ==
  /\ \/ pcb.state = "ESTABLISHED" /\ pcb' = [pcb EXCEPT !.state = "CLOSE_WAIT"]
     \/ /\ pcb.state = "FIN_WAIT"
        /\ \E s \in {"CLOSING", "TIME_WAIT"} : pcb' = [pcb EXCEPT !.state = s]
  /\ recv_tcp("end")
  /\ UNCHANGED <<phase, call, fatal, sem, conn>>

\* The acknowledgement of our FIN when both sides have closed at once
ClosingAcked ==
  /\ pcb.state = "CLOSING"
  /\ pcb' = [pcb EXCEPT !.state = "TIME_WAIT"]
  /\ UNCHANGED <<phase, call, fatal, sem, conn, recvmbox>>

\* TF_CLOSED: the last acknowledgement; the error callback only if the receive side
\* was left open
LastAck ==
  /\ pcb.state = "LAST_ACK"
  /\ IF pcb.rxclosed
     THEN pcb' = [pcb EXCEPT !.state = "freed"]
          /\ UNCHANGED <<phase, call, fatal, sem, conn, recvmbox>>
     ELSE Dies

\* tcp_slowtmr frees a pcb after 2 MSL and tells nobody.
TimeWaitEnds ==
  /\ pcb.state = "TIME_WAIT"
  /\ pcb' = [pcb EXCEPT !.state = "freed"]
  /\ UNCHANGED <<phase, call, fatal, sem, conn, recvmbox>>

\* sent_tcp and poll_tcp go on with what the caller waits for.
Again ==
  /\ pcb.state \in Active /\ (pcb.poll \/ pcb.sent) /\ pcb.arg
  /\ \/ /\ conn.state = "WRITE"
        /\ WriteDone(conn) \/ WriteWaits(conn)
        /\ UNCHANGED pcb
     \/ /\ conn.state = "CLOSE"
        /\ CloseDone(conn) \/ CloseFailed(conn)
  /\ UNCHANGED <<phase, call, fatal, recvmbox>>

Next ==
  \/ \E c \in Calls : Ask(c)
  \/ Recv \/ Fetch \/ Return
  \/ do_connect \/ do_write \/ do_close \/ do_recv
  \/ Reset \/ Connected \/ Data \/ Fin \/ ClosingAcked \/ LastAck \/ TimeWaitEnds
  \/ Again

Spec == Init /\ [][Next]_vars

\* The threads run.  A peer answers or TCP gives up on it, so that a connection attempt
\* and a wait for the last acknowledgement end, and so does the want of buffers that a
\* write or a close waits for.  tcp_slowtmr ends TIME_WAIT.
FairSpec ==
  /\ Spec
  /\ WF_vars(do_connect \/ do_write \/ do_close \/ do_recv) /\ WF_vars(Return)
  /\ WF_vars(pcb.state = "SYN_SENT" /\ (Connected \/ Reset))
  /\ WF_vars(pcb.state = "CLOSING" /\ (ClosingAcked \/ Reset))
  /\ WF_vars(pcb.state = "LAST_ACK" /\ (LastAck \/ Reset))
  /\ WF_vars(TimeWaitEnds)
  /\ WF_vars(Again /\ sem')

-----------------------------------------------------------------------------
TypeOK ==
  /\ phase \in {"idle", "posted", "inside", "fetch", "gone"}
  /\ call \in Calls \cup Recved
  /\ fatal \in BOOLEAN /\ sem \in BOOLEAN
  /\ conn \in Conn /\ pcb \in Pcb
  /\ recvmbox \in Seq({"data", "end"})
  /\ Len(recvmbox) <= MaxUnread + 2      \* the end of the data, and an error

\* netconn_shutdown of a transmit side that TCP has not open: tcp_shutdown answers
\* ERR_CONN each time it is tried.
Stuck == /\ conn.state = "CLOSE" /\ call = "shut_wr"
         /\ pcb.state \notin {"ESTABLISHED", "CLOSE_WAIT"}

\* A task inside a call has its answer, or the netconn holds its message and the pcb
\* still has the callbacks that will answer it; no answer is left over for a later
\* call.  A reader in front of an empty mailbox has a pcb that will tell it the end; one
\* who reads a netconn that never connected (CLOSED) waits for a connection that its own
\* task would have to ask for, and nobody ever tells it anything.
CallerWakes ==
  /\ sem => phase = "inside" /\ ~conn.current_msg
  /\ phase = "inside" /\ ~sem =>
       /\ conn.current_msg
       /\ Stuck \/ Dangling \/
            /\ pcb.state \in Active /\ pcb.arg /\ pcb.err
            /\ conn.state # "CONNECT" => pcb.poll
            /\ conn.state = "CONNECT" => pcb.state = "SYN_SENT"
  /\ phase = "fetch" /\ recvmbox = <<>> =>
       /\ pcb.state \in {"CLOSED", "SYN_SENT", "ESTABLISHED", "FIN_WAIT"}
       /\ pcb.arg /\ pcb.recv /\ pcb.err

\* What the callbacks and handlers assert of the netconn: a live pcb calls back with a
\* netconn that exists and refers to it; the netconn holds a message exactly while it
\* writes, closes or waits for a blocking connect; nothing is half written otherwise.
CallbacksSound ==
  /\ pcb.state # "freed" /\ (pcb.recv \/ pcb.sent \/ pcb.poll \/ pcb.err) => pcb.arg
  /\ pcb.state # "freed" /\ pcb.arg => conn.pcb /\ phase # "gone"
  /\ conn.current_msg <=> Blocked
  /\ conn.state = "CONNECT" => pcb.state = "SYN_SENT"
  /\ conn.pcb /\ ~conn.current_msg => ~conn.partly
  /\ phase = "gone" => ~conn.pcb /\ ~conn.mbox

\* What the task of a netconn sees of its calls is what Rpc promises, whoever gives the
\* answer: the handler, or sent_tcp, poll_tcp, do_connected or err_tcp later.  A call is
\* answered once, after it was posted, and an answer never waits for a later call
\* (sys_sem_signal and TCPIP_APIMSG_ACK, api_msg.c:398-404, 811, 972, 1033, 1327, 1390).
Served == INSTANCE Rpc WITH
  Tasks <- {"task"},
  call <- [t \in {"task"} |-> IF phase \notin {"posted", "inside"} THEN "none"
                              ELSE IF sem THEN "answered" ELSE "asked"]

ImplementsRpc == Served!Spec

\* The end of the data is the last thing a reader finds: no data come behind it in
\* recvmbox, nor once the reader has taken it, until do_recv returns and last_err keeps
\* it from reading again (api_msg.c:216-262, 349-376; api_lib.c:356-399).
EndIsLast ==
  /\ \A i, j \in DOMAIN recvmbox : i < j /\ recvmbox[i] = "end" => recvmbox[j] = "end"
  /\ phase \in {"posted", "inside"} /\ call = "recved_end" =>
       \A i \in DOMAIN recvmbox : recvmbox[i] = "end"

\* Every call returns, but for a shutdown of a transmit side that is not open.
CallsReturn ==
  phase \in {"posted", "inside"} ~> (phase \in {"idle", "gone"} \/ Stuck \/ Dangling)

\* api_msg.c says that a close that did not succeed is tried again from poll_tcp or
\* from sent_tcp (api_msg.c:822-823): every call comes back, those on a netconn that
\* never connects included.
EveryCallReturns ==
  [](pcb.state = "CLOSED") => (phase \in {"posted", "inside"} ~> phase \in {"idle", "gone"})
=============================================================================
