------------------------------ MODULE Sockets ------------------------------
(***************************************************************************)
(* The socket layer of lwIP (api/sockets.c) between the tasks and the tcpip  *)
(* thread: the counters of events per socket, select with its list of        *)
(* waiting tasks, event_callback, which the tcpip thread and the tasks run    *)
(* at the same time, and the hand-over of an accepted connection to its       *)
(* socket while data already arrive for it.                                   *)
(*                                                                          *)
(* One action is one stretch between SYS_ARCH_PROTECT and SYS_ARCH_UNPROTECT. *)
(* A task uses only the sockets it owns, as lwIP demands.  A connection is    *)
(* named by the socket it gets; what is sent is left out, and so are a        *)
(* connection that dies (err_tcp) and lwip_shutdown.                          *)
(***************************************************************************)
EXTENDS Integers, Sequences, FiniteSets, SequencesExt

CONSTANTS
  Tasks,     \* the tasks that use sockets
  Tcpip,     \* the tcpip thread
  Socks,     \* the entries of sockets[]
  ReadSet,   \* the sockets each task selects for reading
  WriteSet,  \* the sockets each task selects for writing
  Lasting,   \* bound: the sockets that are connected all the time
  MaxMsgs    \* bound: messages in one recvmbox

Runners == Tasks \cup {Tcpip}
Set(t) == ReadSet[t] \cup WriteSet[t]

ASSUME SetAssumption ==
  /\ Tcpip \notin Tasks /\ Lasting \subseteq Socks /\ MaxMsgs \in Nat
  /\ ReadSet \in [Tasks -> SUBSET Socks] /\ WriteSet \in [Tasks -> SUBSET Socks]
  /\ \A t, u \in Tasks : t # u => Set(t) \cap Set(u) = {}

VARIABLES
  conn,      \* the netconn of a socket: "none", "backlog" before alloc_socket,
             \* "alloc" while netconn.socket is still negative, "open", "closing"
  early,     \* -1 - netconn.socket: events counted before there is a socket
  recvmbox,  \* number of messages in the mailbox of each netconn
  rcvevent, sendevent, lastdata, select_waiting,
  select_cb_list,       \* the tasks in the list, its head first
  sem, sem_signalled,   \* of the select_cb of each task
  pc, todo,             \* where each task is, the sockets its call has yet to deal with
  found, timedout,      \* nready after the second scan, waitres
  event,                \* the event_callback each runner is in
  outdated              \* runners whose last_select_cb_ctr is not select_cb_ctr

sockets == <<conn, early, recvmbox, rcvevent, sendevent, lastdata>>
selects == <<select_waiting, select_cb_list, sem, sem_signalled>>
locals  == <<pc, todo, found, timedout>>
vars    == <<sockets, selects, locals, event, outdated>>

\* what a runner is doing in event_callback, and where its task goes on after it
NoEvent == [at |-> "none"]
Event(evt, s, t, then) ==
  [at |-> "set", evt |-> evt, s |-> s, task |-> t, then |-> then]

Init ==
  /\ conn = [s \in Socks |-> IF s \in Lasting THEN "open" ELSE "none"]
  /\ early = [s \in Socks |-> 0]
  /\ recvmbox = [s \in Socks |-> 0] /\ rcvevent = [s \in Socks |-> 0]
  /\ sendevent = [s \in Socks |-> s \in Lasting] /\ lastdata = [s \in Socks |-> FALSE]
  /\ select_waiting = [s \in Socks |-> 0] /\ select_cb_list = <<>>
  /\ sem = [t \in Tasks |-> FALSE] /\ sem_signalled = [t \in Tasks |-> FALSE]
  /\ pc = [t \in Tasks |-> "idle"] /\ todo = [t \in Tasks |-> {}]
  /\ found = [t \in Tasks |-> FALSE] /\ timedout = [t \in Tasks |-> FALSE]
  /\ event = [r \in Runners |-> NoEvent] /\ outdated = {}

-----------------------------------------------------------------------------
(* event_callback. *)

\* lines 1334-1350: does the event wake a task that waits for s?
SlipWakes(t, s) == s \in Set(t)

Wakes(t, s) == (s \in ReadSet[t] /\ rcvevent'[s] > 0) \/ (s \in WriteSet[t] /\ sendevent'[s])

\* The mark is set, but the semaphore is not given.
SlipVisit(t, s) ==
  /\ sem_signalled' = [sem_signalled EXCEPT ![t] = @ \/ Wakes(t, s)]
  /\ UNCHANGED sem

\* one round of the loop, at the entry of task t
Visit(t, s) ==
  LET do_signal == ~sem_signalled[t] /\ Wakes(t, s)
  IN  /\ sem_signalled' = [sem_signalled EXCEPT ![t] = @ \/ do_signal]
      /\ sem' = [sem EXCEPT ![t] = @ \/ do_signal]

\* The thread calls back again for the same call.
CallsAgain(r, evt, then) ==
  /\ event' = [event EXCEPT ![r] = Event(evt, @.s, @.task, then)]
  /\ UNCHANGED pc

\* The callback is over: do_close_internal has more to tell, else the task it was called
\* for goes on.
Finish(r) ==
  CASE event[r].then = "rcvplus"  -> CallsAgain(r, "RCVPLUS", "sendplus")
    [] event[r].then = "sendplus" -> CallsAgain(r, "SENDPLUS", "freesocket")
    [] OTHER ->
       /\ pc' = IF event[r].task \in Tasks THEN [pc EXCEPT ![event[r].task] = event[r].then]
                ELSE pc
       /\ event' = [event EXCEPT ![r] = NoEvent]

\* Runner r looks at the entry scb and stops in the gap behind it, or is done.
Walk(r, scb) ==
  /\ IF scb \in Tasks
     THEN /\ Visit(scb, event[r].s)
          /\ event' = [event EXCEPT ![r] = [at |-> "walk", s |-> event[r].s,
                        task |-> event[r].task, then |-> event[r].then, scb |-> scb]]
          /\ UNCHANGED pc
     ELSE Finish(r) /\ UNCHANGED <<sem, sem_signalled>>
  /\ outdated' = outdated \ {r}

First == IF select_cb_list = <<>> THEN Tcpip ELSE Head(select_cb_list)

Place(scb) == CHOOSE i \in DOMAIN select_cb_list : select_cb_list[i] = scb

\* the entry behind scb; Tcpip stands for the end of the list
Behind(scb) ==
  IF Place(scb) = Len(select_cb_list) THEN Tcpip ELSE select_cb_list[Place(scb) + 1]

\* lines 1266-1331: a connection without a socket only counts, else the event is
\* noted and, when somebody waits for the socket, the list is walked
SetEvent(r) ==
  LET e == event[r]  s == event[r].s IN
  /\ e.at = "set"
  /\ IF conn[s] \in {"backlog", "alloc"}
     THEN /\ early' = [early EXCEPT ![s] = IF e.evt = "RCVPLUS" THEN @ + 1 ELSE @]
          /\ Finish(r)
          /\ UNCHANGED <<rcvevent, sendevent, sem, sem_signalled, outdated>>
     ELSE /\ rcvevent' = [rcvevent EXCEPT ![s] =
                CASE e.evt = "RCVPLUS" -> @ + 1 [] e.evt = "RCVMINUS" -> @ - 1 [] OTHER -> @]
          /\ sendevent' = [sendevent EXCEPT ![s] =
                CASE e.evt = "SENDPLUS" -> TRUE [] e.evt = "SENDMINUS" -> FALSE [] OTHER -> @]
          /\ Walk(r, IF select_waiting[s] = 0 THEN Tcpip ELSE First)
          /\ UNCHANGED early
  /\ UNCHANGED <<conn, recvmbox, lastdata, select_waiting, select_cb_list, todo, found, timedout>>

\* lines 1372-1377: on to the next entry, or again from the first
NextEntry(r) ==
  /\ event[r].at = "walk"
  /\ UNCHANGED <<sockets, select_waiting, select_cb_list, todo, found, timedout>>
  /\ Walk(r, IF r \in outdated THEN First ELSE Behind(event[r].scb))

-----------------------------------------------------------------------------
(* The tcpip thread: a handler posts to the netconn's mailbox, then calls back. *)

Idle(r) == event[r].at = "none"

CallBack(r, evt, s, t, then) ==
  /\ Idle(r)
  /\ event' = [event EXCEPT ![r] = Event(evt, s, t, then)]

\* accept_function has put a new netconn into the acceptmbox
NewConn(s) ==
  /\ conn[s] = "none"
  /\ conn' = [conn EXCEPT ![s] = "backlog"]
  /\ early' = [early EXCEPT ![s] = 0]
  /\ recvmbox' = [recvmbox EXCEPT ![s] = 0]
  /\ UNCHANGED <<rcvevent, sendevent, lastdata, selects, locals, event, outdated>>

\* recv_tcp, recv_udp, recv_raw
Deliver(s) ==
  /\ conn[s] \in {"backlog", "alloc", "open"} /\ recvmbox[s] < MaxMsgs
  /\ \E t \in Tasks : s \in ReadSet[t]
  /\ CallBack(Tcpip, "RCVPLUS", s, Tcpip, "idle")
  /\ recvmbox' = [recvmbox EXCEPT ![s] = @ + 1]
  /\ UNCHANGED <<conn, early, rcvevent, sendevent, lastdata, selects, locals, outdated>>

\* sent_tcp, poll_tcp: there is room to send
Sent(s) ==
  /\ conn[s] = "open"
  /\ CallBack(Tcpip, "SENDPLUS", s, Tcpip, "idle")
  /\ UNCHANGED <<sockets, selects, locals, outdated>>

-----------------------------------------------------------------------------
(* A task and its sockets: accept, receive, send, close. *)

At(t, place) == pc[t] = place
Goto(t, place) == pc' = [pc EXCEPT ![t] = place]

Mine(t) == Set(t)

\* A task waits for the callback of its call on s, and takes its call up again.
Call(t, s) == Goto(t, "event") /\ todo' = [todo EXCEPT ![t] = {s}]
Ends(t, s, place) ==
  /\ At(t, place) /\ s \in todo[t]
  /\ Goto(t, "idle") /\ todo' = [todo EXCEPT ![t] = {}]

\* alloc_socket for a connection netconn_accept has taken from the acceptmbox
AllocSocket(t, s) ==
  /\ At(t, "idle") /\ conn[s] = "backlog" /\ s \in Mine(t)
  /\ conn' = [conn EXCEPT ![s] = "alloc"]
  /\ rcvevent' = [rcvevent EXCEPT ![s] = 0]
  /\ sendevent' = [sendevent EXCEPT ![s] = TRUE]
  /\ lastdata' = [lastdata EXCEPT ![s] = FALSE]
  /\ select_waiting' = [select_waiting EXCEPT ![s] = 0]
  /\ Goto(t, "alloc") /\ todo' = [todo EXCEPT ![t] = {s}]
  /\ UNCHANGED <<early, recvmbox, select_cb_list, sem, sem_signalled, found, timedout, event, outdated>>

\* The first count is taken for an event, too.
SlipAdopt(t, s) ==
  /\ Ends(t, s, "alloc")
  /\ rcvevent' = [rcvevent EXCEPT ![s] = @ + early[s] + 1]
  /\ early' = [early EXCEPT ![s] = 0]
  /\ conn' = [conn EXCEPT ![s] = "open"]
  /\ UNCHANGED <<recvmbox, sendevent, lastdata, selects, found, timedout, event, outdated>>

\* the end of lwip_accept: rcvevent += -1 - newconn->socket, and the socket is set
Adopt(t, s) ==
  /\ Ends(t, s, "alloc")
  /\ rcvevent' = [rcvevent EXCEPT ![s] = @ + early[s]]
  /\ early' = [early EXCEPT ![s] = 0]
  /\ conn' = [conn EXCEPT ![s] = "open"]
  /\ UNCHANGED <<recvmbox, sendevent, lastdata, selects, found, timedout, event, outdated>>

\* netconn_recv: a message is taken, then the event counted; or what was left is read
Recv(t, s) ==
  /\ At(t, "idle") /\ conn[s] = "open" /\ s \in Mine(t)
  /\ \/ /\ ~lastdata[s] /\ recvmbox[s] > 0
        /\ recvmbox' = [recvmbox EXCEPT ![s] = @ - 1]
        /\ CallBack(t, "RCVMINUS", s, t, "received")
        /\ Call(t, s)
        /\ UNCHANGED lastdata
     \/ /\ lastdata[s]
        /\ lastdata' = [lastdata EXCEPT ![s] = FALSE]
        /\ UNCHANGED <<recvmbox, event, pc, todo>>
  /\ UNCHANGED <<conn, early, rcvevent, sendevent, selects, found, timedout, outdated>>

\* the end of lwip_recvfrom: the buffer is used up, or kept for the next call
Received(t, s) ==
  /\ Ends(t, s, "received")
  /\ lastdata' \in {lastdata, [lastdata EXCEPT ![s] = TRUE]}
  /\ UNCHANGED <<conn, early, recvmbox, rcvevent, sendevent, selects, found, timedout, event, outdated>>

\* do_writemore fills the send buffer, in the tcpip thread while the task waits
Write(t, s) ==
  /\ At(t, "idle") /\ conn[s] = "open" /\ s \in Mine(t)
  /\ CallBack(Tcpip, "SENDMINUS", s, t, "written")
  /\ Call(t, s)
  /\ UNCHANGED <<sockets, selects, found, timedout, outdated>>

Written(t, s) ==
  /\ Ends(t, s, "written")
  /\ UNCHANGED <<sockets, selects, found, timedout, event, outdated>>

\* lwip_close: do_delconn tells of the end, of an error first, while the task waits, then
\* free_socket
Close(t, s) ==
  /\ At(t, "idle") /\ conn[s] = "open" /\ s \in Mine(t) \ Lasting
  /\ CallBack(Tcpip, "ERROR", s, t, "rcvplus")
  /\ conn' = [conn EXCEPT ![s] = "closing"]
  /\ Call(t, s)
  /\ UNCHANGED <<early, recvmbox, rcvevent, sendevent, lastdata, selects, found, timedout, outdated>>

FreeSocket(t, s) ==
  /\ Ends(t, s, "freesocket")
  /\ conn' = [conn EXCEPT ![s] = "none"]
  /\ lastdata' = [lastdata EXCEPT ![s] = FALSE]
  /\ recvmbox' = [recvmbox EXCEPT ![s] = 0]
  /\ UNCHANGED <<early, rcvevent, sendevent, selects, found, timedout, event, outdated>>

-----------------------------------------------------------------------------
(* lwip_select. *)

\* lwip_selscan at one socket
Ready(t, s) ==
  /\ conn[s] # "none"
  /\ \/ s \in ReadSet[t] /\ (lastdata[s] \/ rcvevent[s] > 0)
     \/ s \in WriteSet[t] /\ sendevent[s]

Loop(t, place) == Goto(t, place) /\ todo' = [todo EXCEPT ![t] = Set(t)]

\* The first scan finds nothing; one that does ends the call at once.
Select(t) ==
  /\ At(t, "idle") /\ Set(t) # {}
  /\ \A s \in Set(t) : conn[s] = "open" /\ ~Ready(t, s)
  /\ Goto(t, "insert")
  /\ UNCHANGED <<sockets, selects, todo, found, timedout, event, outdated>>

\* select_cb_ctr++
Changed == outdated' = {r \in Runners : event[r].at = "walk"}

\* The task is on the list, but the sockets do not know.
SlipInsert(t) ==
  /\ At(t, "insert")
  /\ select_cb_list' = <<t>> \o select_cb_list
  /\ Changed
  /\ Loop(t, "rescan")
  /\ UNCHANGED <<sockets, select_waiting, sem, sem_signalled, found, timedout, event>>

Insert(t) ==
  /\ At(t, "insert")
  /\ select_cb_list' = <<t>> \o select_cb_list
  /\ Changed
  /\ Loop(t, "count")
  /\ UNCHANGED <<sockets, select_waiting, sem, sem_signalled, found, timedout, event>>

\* one socket of a loop over the sets, and where the task goes after the last one
Visited(t, s, place) ==
  /\ s \in todo[t]
  /\ IF todo[t] = {s} THEN Loop(t, place)
     ELSE todo' = [todo EXCEPT ![t] = @ \ {s}] /\ UNCHANGED pc

\* The task waits as soon as it is counted.
SlipCount(t, s) ==
  /\ At(t, "count")
  /\ select_waiting' = [select_waiting EXCEPT ![s] = @ + 1]
  /\ Visited(t, s, "wait")
  /\ UNCHANGED <<sockets, select_cb_list, sem, sem_signalled, found, timedout, event, outdated>>

Count(t, s) ==
  /\ At(t, "count")
  /\ select_waiting' = [select_waiting EXCEPT ![s] = @ + 1]
  /\ Visited(t, s, "rescan")
  /\ UNCHANGED <<sockets, select_cb_list, sem, sem_signalled, found, timedout, event, outdated>>

Rescan(t, s) ==
  /\ At(t, "rescan")
  /\ found' = [found EXCEPT ![t] = @ \/ Ready(t, s)]
  /\ Visited(t, s, IF found'[t] THEN "uncount" ELSE "wait")
  /\ UNCHANGED <<sockets, selects, timedout, event, outdated>>

SemTaken(t) ==
  /\ At(t, "wait") /\ sem[t]
  /\ sem' = [sem EXCEPT ![t] = FALSE]
  /\ Goto(t, "uncount")
  /\ UNCHANGED <<sockets, select_waiting, select_cb_list, sem_signalled, todo, found, timedout, event, outdated>>

\* A timeout takes the short way out.
SlipTimeout(t) ==
  /\ At(t, "wait") /\ ~sem[t]
  /\ timedout' = [timedout EXCEPT ![t] = TRUE]
  /\ Goto(t, "unlink")
  /\ UNCHANGED <<sockets, selects, todo, found, event, outdated>>

Timeout(t) ==
  /\ At(t, "wait") /\ ~sem[t]
  /\ timedout' = [timedout EXCEPT ![t] = TRUE]
  /\ Goto(t, "uncount")
  /\ UNCHANGED <<sockets, selects, todo, found, event, outdated>>

Uncount(t, s) ==
  /\ At(t, "uncount")
  /\ select_waiting' = [select_waiting EXCEPT ![s] = @ - 1]
  /\ Visited(t, s, "unlink")
  /\ UNCHANGED <<sockets, select_cb_list, sem, sem_signalled, found, timedout, event, outdated>>

\* sys_sem_free; after a timeout the call ends.  The select_cb is gone.
Leave(t) ==
  /\ sem' = [sem EXCEPT ![t] = FALSE]
  /\ sem_signalled' = [sem_signalled EXCEPT ![t] = FALSE]
  /\ found' = [found EXCEPT ![t] = FALSE] /\ timedout' = [timedout EXCEPT ![t] = FALSE]
  /\ todo' = [todo EXCEPT ![t] = {}]
  /\ Goto(t, IF timedout[t] THEN "idle" ELSE "scan")

\* The counter of changes is left alone.
SlipUnlink(t) ==
  /\ At(t, "unlink")
  /\ select_cb_list' = RemoveAt(select_cb_list, Place(t))
  /\ UNCHANGED outdated
  /\ Leave(t)
  /\ UNCHANGED <<sockets, select_waiting, event>>

Unlink(t) ==
  /\ At(t, "unlink")
  /\ select_cb_list' = RemoveAt(select_cb_list, Place(t))
  /\ Changed
  /\ Leave(t)
  /\ UNCHANGED <<sockets, select_waiting, event>>

\* the last scan, and the answer
Scan(t) ==
  /\ At(t, "scan")
  /\ Goto(t, "idle")
  /\ UNCHANGED <<sockets, selects, todo, found, timedout, event, outdated>>

-----------------------------------------------------------------------------
Stack == \E s \in Socks : NewConn(s) \/ Deliver(s) \/ Sent(s)

CallbackStep(r) == SetEvent(r) \/ NextEntry(r)

Use(t) ==
  \E s \in Socks :
    \/ AllocSocket(t, s) \/ Adopt(t, s)
    \/ Recv(t, s) \/ Received(t, s) \/ Write(t, s) \/ Written(t, s)
    \/ Close(t, s) \/ FreeSocket(t, s)

Selecting(t) ==
  \/ Insert(t) \/ SemTaken(t) \/ Unlink(t) \/ Scan(t)
  \/ \E s \in Socks : Count(t, s) \/ Rescan(t, s) \/ Uncount(t, s)

Next ==
  \/ Stack
  \/ \E r \in Runners : CallbackStep(r)
  \/ \E t \in Tasks : Use(t) \/ Select(t) \/ Selecting(t) \/ Timeout(t)

Spec == Init /\ [][Next]_vars

\* Ready tasks get to run; select calls may wait without a timeout.
FairSpec ==
  /\ Spec
  /\ \A r \in Runners : WF_vars(CallbackStep(r))
  /\ \A t \in Tasks : WF_vars(Selecting(t))

-----------------------------------------------------------------------------
(* Properties. *)

Places == {"idle", "alloc", "event", "received", "written", "freesocket", "insert", "count", "rescan",
           "wait", "uncount", "unlink", "scan"}

After == {"idle", "received", "written", "rcvplus", "sendplus", "freesocket"}

Evt == {"ERROR", "RCVPLUS", "RCVMINUS", "SENDPLUS", "SENDMINUS"}

EventRec ==
  {NoEvent}
  \cup [at : {"set"}, evt : Evt,
        s : Socks, task : Runners, then : After]
  \cup [at : {"walk"}, s : Socks, task : Runners, then : After, scb : Tasks]

TypeOK ==
  /\ conn \in [Socks -> {"none", "backlog", "alloc", "open", "closing"}]
  /\ early \in [Socks -> Nat] /\ recvmbox \in [Socks -> 0 .. MaxMsgs]
  /\ rcvevent \in [Socks -> Int] /\ select_waiting \in [Socks -> Nat]
  /\ sendevent \in [Socks -> BOOLEAN] /\ lastdata \in [Socks -> BOOLEAN]
  /\ select_cb_list \in Seq(Tasks)
  /\ sem \in [Tasks -> BOOLEAN] /\ sem_signalled \in [Tasks -> BOOLEAN]
  /\ pc \in [Tasks -> Places] /\ todo \in [Tasks -> SUBSET Socks]
  /\ found \in [Tasks -> BOOLEAN] /\ timedout \in [Tasks -> BOOLEAN]
  /\ event \in [Runners -> EventRec]
  /\ outdated \subseteq Runners

\* how often an event of this kind is about to be counted for s
Coming(evt, s) ==
  Cardinality({r \in Runners : event[r].at = "set" /\ event[r].evt = evt /\ event[r].s = s})

\* The counter select looks at is what waits in the mailbox, up to the callbacks under
\* way, also for data that came before the socket existed (sockets.c:392-400,
\* 1269-1303): a counter off by one makes select miss data or a read block for ever.
\* This is of a connection that lives and is shut down by its close alone.  err_tcp counts
\* an event before it posts NULL with a trypost that may fail (api_msg.c:371-381), and
\* lwip_shutdown counts one that has no message (api_msg.c:804-806): they are outside the
\* model, and a counter is ahead of the mailbox for good after them.
EventsMatchMbox ==
  \A s \in Socks :
    LET counted == IF conn[s] = "open" THEN rcvevent[s] ELSE early[s]
    IN  conn[s] \in {"backlog", "alloc", "open"} =>
          counted + Coming("RCVPLUS", s) - Coming("RCVMINUS", s) = recvmbox[s]

\* the entries a runner has not looked at yet
Ahead(r) ==
  IF r \in outdated THEN ToSet(select_cb_list)
  ELSE {select_cb_list[i] : i \in Place(event[r].scb) + 1 .. Len(select_cb_list)}

\* A task that sleeps in select while a socket of its set is ready is woken: it has its
\* semaphore, or some event_callback for that socket is still on its way to its entry,
\* however its two scans and its counting fall between the event and the look at
\* select_waiting (sockets.c:1116-1190, 1318-1378).
NoLostWakeup ==
  \A t \in Tasks : \A s \in Set(t) :
    At(t, "wait") /\ Ready(t, s) =>
      \/ sem[t]
      \/ \E r \in Runners : event[r].at = "walk" /\ event[r].s = s /\ t \in Ahead(r)

\* A runner that will follow the next pointer of an entry stands at one that is in the
\* list, so it never touches the stack of a task that has left select
\* (sockets.c:1205-1219, 1368-1376).
WalkOnList ==
  \A r \in Runners :
    event[r].at = "walk" /\ r \notin outdated => event[r].scb \in ToSet(select_cb_list)

\* select_waiting counts the tasks that wait for a socket, so that the short cut of
\* event_callback is taken only if there is none and a socket is given up only
\* with a count of zero (sockets.c:1160-1203, 1318).
WaitingCounted ==
  \A s \in Socks :
    LET counted == {t \in Tasks : s \in Set(t) /\
          (\/ pc[t] = "count" /\ s \notin todo[t]
           \/ pc[t] \in {"rescan", "wait"}
           \/ pc[t] = "uncount" /\ s \in todo[t])}
    IN  select_waiting[s] = Cardinality(counted)

\* A select that was woken finds a socket ready in its last scan: no wake-up without
\* a reason, although events are counted down and up again behind its back
\* (sockets.c:1222-1231, 1332-1356).
SelectFindsReady ==
  \A t \in Tasks : At(t, "scan") => \E s \in Set(t) : Ready(t, s)

\* A select with a ready socket returns, unless others change the list for ever:
\* each change sends event_callback back to the first entry (sockets.c:1373-1376).
SelectReturns ==
  \/ \A t \in Tasks :
       (At(t, "wait") /\ \E s \in Set(t) : Ready(t, s)) ~> ~At(t, "wait")
  \/ []<><<\E t \in Tasks : Insert(t) \/ Unlink(t)>>_vars

=============================================================================
