------------------------------- MODULE Timers -------------------------------
(***************************************************************************)
(* The timeouts of lwIP (core/timers.c), which the tcpip thread serves while *)
(* it waits for messages: the delta list next_timeout, its pool, the cyclic  *)
(* timers, the TCP timer that runs only while there are connections, the     *)
(* timeouts applications set through messages, and the wait itself, with     *)
(* the elapsed time that sys_arch_mbox_fetch measures in ticks of 1 ms.      *)
(*                                                                          *)
(* The work of a callback is left out except for the timeouts it sets; a     *)
(* message is known by its effect on timeouts, chosen when it is handled.    *)
(* The operators named Slip... are plausible slips in the code.             *)
(***************************************************************************)
EXTENDS Integers, Sequences, FiniteSets, SequencesExt, FiniteSetsExt

CONSTANTS
  Cyclic,    \* the timers sys_timeouts_init starts, in its order
  Tcp,       \* tcpip_tcp_timer
  App,       \* callbacks applications hand to tcpip_timeout
  NoHandler, \* no callback is running
  Interval,  \* milliseconds each callback is set for
  PoolSize,  \* MEMP_NUM_SYS_TIMEOUT
  MaxMsgs,   \* bound: messages waiting in the mailbox
  Longest    \* bound: where elapsed stops, no less than any interval

Handler == ToSet(Cyclic) \cup App \cup {Tcp}

ASSUME HandlerAssumption ==
  /\ Cyclic \in Seq(Handler)
  /\ \A i, j \in DOMAIN Cyclic : Cyclic[i] = Cyclic[j] => i = j
  /\ ToSet(Cyclic) \cap App = {} /\ Tcp \notin ToSet(Cyclic) \cup App
  /\ NoHandler \notin Handler
ASSUME IntervalAssumption ==
  /\ Interval \in [Handler -> Nat]
  /\ \A h \in ToSet(Cyclic) \cup {Tcp} : Interval[h] > 0
  /\ Longest \in Nat /\ \A h \in Handler : Interval[h] <= Longest
ASSUME PoolAssumption == PoolSize \in Nat /\ Len(Cyclic) <= PoolSize /\ MaxMsgs \in Nat

VARIABLES
  next_timeout,            \* the list: time is relative to the entry before;
                           \* age and msgs are histories: ticks and messages
                           \* since the timeout was set, up to Interval
  tcpip_tcp_timer_active,
  pcbs,                    \* tcp_active_pcbs or tcp_tw_pcbs is not empty
  mbox,                    \* number of messages waiting
  thread,                  \* where the tcpip thread is
  running,                 \* the callback it runs, or NoHandler
  elapsed,                 \* ticks since the wait began, up to Longest
  exhausted                \* history: sys_timeout once found the pool empty

vars == <<next_timeout, tcpip_tcp_timer_active, pcbs, mbox, thread, running,
          elapsed, exhausted>>

-----------------------------------------------------------------------------
(* The list. *)

Entry(h, ms) == [h |-> h, time |-> ms, age |-> 0, msgs |-> 0]

\* what the first k entries add up to
Ahead(q, k) ==
  LET sum[i \in 0 .. Len(q)] == IF i = 0 THEN 0 ELSE sum[i - 1] + q[i].time
  IN  sum[k]

\* how many entries are due no later than ms from now
Place(q, ms) ==
  CHOOSE k \in 0 .. Len(q) : Ahead(q, k) <= ms /\ (k < Len(q) => Ahead(q, k + 1) > ms)

\* the first entry moved ms closer to the one before it
Closer(q, ms) == IF q = <<>> THEN q ELSE [q EXCEPT ![1].time = @ - ms]

\* A new entry goes in front of those that are due at the same time.
SlipInsert(q, h, ms) ==
  LET k   == Cardinality({i \in DOMAIN q : Ahead(q, i) < ms})
      new == Entry(h, ms - Ahead(q, k))
  IN  SubSeq(q, 1, k) \o <<new>> \o Closer(SubSeq(q, k + 1, Len(q)), new.time)

Insert(q, h, ms) ==
  LET k   == Place(q, ms)
      new == Entry(h, ms - Ahead(q, k))
  IN  SubSeq(q, 1, k) \o <<new>> \o Closer(SubSeq(q, k + 1, Len(q)), new.time)

sys_timeout(h) ==
  /\ next_timeout' = IF Len(next_timeout) < PoolSize
                     THEN Insert(next_timeout, h, Interval[h])
                     ELSE next_timeout
  /\ exhausted' = (exhausted \/ Len(next_timeout) >= PoolSize)

\* the list without its i-th entry, whose time goes to the next
Without(q, i) ==
  SubSeq(q, 1, i - 1) \o Closer(SubSeq(q, i + 1, Len(q)), -q[i].time)

\* The first entry that names h is taken out.
sys_untimeout(h) ==
  \/ \E i \in DOMAIN next_timeout :
       /\ next_timeout[i].h = h /\ \A j \in 1 .. i - 1 : next_timeout[j].h # h
       /\ next_timeout' = Without(next_timeout, i)
  \/ /\ \A i \in DOMAIN next_timeout : next_timeout[i].h # h
     /\ UNCHANGED next_timeout

Init ==
  /\ next_timeout = <<>>
  /\ tcpip_tcp_timer_active = FALSE /\ pcbs = FALSE
  /\ mbox = 0
  /\ thread = "init" /\ running = NoHandler
  /\ elapsed = 0 /\ exhausted = FALSE

\* The cyclic timers are started one by one, then the tcpip thread runs.
sys_timeouts_init ==
  /\ thread = "init"
  /\ IF Len(next_timeout) < Len(Cyclic)
     THEN sys_timeout(Cyclic[Len(next_timeout) + 1]) /\ UNCHANGED thread
     ELSE thread' = "again" /\ UNCHANGED <<next_timeout, exhausted>>
  /\ UNCHANGED <<tcpip_tcp_timer_active, pcbs, mbox, running, elapsed>>

-----------------------------------------------------------------------------
(* The environment. *)

Post ==
  /\ thread # "init" /\ mbox < MaxMsgs
  /\ mbox' = mbox + 1
  /\ UNCHANGED <<next_timeout, tcpip_tcp_timer_active, pcbs, thread, running, elapsed, exhausted>>

\* A tick passes wherever the thread is; other tasks may keep it from running.
Tick ==
  /\ elapsed' = IF thread = "blocked" THEN Min({elapsed + 1, Longest}) ELSE elapsed
  /\ next_timeout' = [i \in DOMAIN next_timeout |->
       [next_timeout[i] EXCEPT !.age = Min({@ + 1, Interval[next_timeout[i].h]})]]
  /\ UNCHANGED <<tcpip_tcp_timer_active, pcbs, mbox, thread, running, exhausted>>

-----------------------------------------------------------------------------
(* sys_timeouts_mbox_fetch, in the tcpip thread. *)

\* xQueueReceive blocks, for the time of the first entry or for ever.
Block ==
  /\ thread = "again"
  /\ next_timeout # <<>> => Head(next_timeout).time > 0
  /\ thread' = "blocked" /\ elapsed' = 0
  /\ UNCHANGED <<next_timeout, tcpip_tcp_timer_active, pcbs, mbox, running, exhausted>>

\* sys_arch_mbox_fetch answers the time it has waited.
SlipTimeNeeded == elapsed

\* A message that was already there counts as a millisecond of waiting.
TimeNeeded == Max({elapsed, 1})

Older(q) == [i \in DOMAIN q |->
  [q[i] EXCEPT !.msgs = Min({@ + 1, Interval[q[i].h]})]]

\* The wait is taken off without a look at how much the first entry has left.
SlipReceived(q) == Closer(Older(q), TimeNeeded)

\* The whole wait is taken off the first entry and every later one keeps its
\* distance, but what goes beyond the first entry is forgotten.
Received(q) ==
  IF q = <<>> THEN q ELSE Closer(Older(q), Min({TimeNeeded, Head(q).time}))

Receive ==
  /\ thread = "blocked" /\ mbox > 0
  /\ mbox' = mbox - 1
  /\ next_timeout' = Received(next_timeout)
  /\ thread' = "message" /\ elapsed' = 0
  /\ UNCHANGED <<tcpip_tcp_timer_active, pcbs, running, exhausted>>

\* The wait is given up a tick before it is over.
SlipTimedOut ==
  /\ next_timeout # <<>>
  /\ \/ thread = "again" /\ Head(next_timeout).time = 0
     \/ thread = "blocked" /\ mbox = 0 /\ elapsed + 1 >= Head(next_timeout).time

TimedOut ==
  /\ next_timeout # <<>>
  /\ \/ thread = "again" /\ Head(next_timeout).time = 0
     \/ thread = "blocked" /\ mbox = 0 /\ elapsed >= Head(next_timeout).time

Expire ==
  /\ TimedOut
  /\ running' = Head(next_timeout).h
  /\ next_timeout' = Tail(next_timeout)
  /\ thread' = "handler" /\ elapsed' = 0
  /\ UNCHANGED <<tcpip_tcp_timer_active, pcbs, mbox, exhausted>>

-----------------------------------------------------------------------------
(* The callbacks. *)

Runs(h) == thread = "handler" /\ running = h

Again == thread' = "again" /\ running' = NoHandler

\* The entry is given back to the pool only after the callback.
SlipCyclicTimer(h) ==
  /\ Runs(h)
  /\ IF Len(next_timeout) + 1 < PoolSize
     THEN sys_timeout(h)
     ELSE UNCHANGED next_timeout /\ exhausted' = TRUE
  /\ Again
  /\ UNCHANGED <<tcpip_tcp_timer_active, pcbs, mbox, elapsed>>

\* A cyclic timer sets itself again after its work.
CyclicTimer(h) ==
  /\ Runs(h)
  /\ sys_timeout(h)
  /\ Again
  /\ UNCHANGED <<tcpip_tcp_timer_active, pcbs, mbox, elapsed>>

AppTimer(h) ==
  /\ Runs(h)
  /\ Again
  /\ UNCHANGED <<next_timeout, tcpip_tcp_timer_active, pcbs, mbox, elapsed, exhausted>>

\* tcp_tmr may close connections or let callbacks open others.
TcpWork == pcbs' \in (IF pcbs THEN BOOLEAN ELSE {FALSE})

\* The timer stops and the flag stays.
SlipTcpTimerStops ==
  /\ Runs(Tcp)
  /\ TcpWork /\ ~pcbs'
  /\ Again
  /\ UNCHANGED <<next_timeout, tcpip_tcp_timer_active, mbox, elapsed, exhausted>>

TcpTimerStops ==
  /\ Runs(Tcp)
  /\ TcpWork /\ ~pcbs'
  /\ tcpip_tcp_timer_active' = FALSE
  /\ Again
  /\ UNCHANGED <<next_timeout, mbox, elapsed, exhausted>>

TcpTimerRestarts ==
  /\ Runs(Tcp)
  /\ TcpWork /\ pcbs'
  /\ sys_timeout(Tcp)
  /\ Again
  /\ UNCHANGED <<tcpip_tcp_timer_active, mbox, elapsed>>

-----------------------------------------------------------------------------
(* The messages. *)

\* TCPIP_MSG_TIMEOUT
MsgTimeout(h) ==
  /\ thread = "message"
  /\ sys_timeout(h)
  /\ Again
  /\ UNCHANGED <<tcpip_tcp_timer_active, pcbs, mbox, elapsed>>

\* TCPIP_MSG_UNTIMEOUT
MsgUntimeout(h) ==
  /\ thread = "message"
  /\ sys_untimeout(h)
  /\ Again
  /\ UNCHANGED <<tcpip_tcp_timer_active, pcbs, mbox, elapsed, exhausted>>

\* A message registers a connection: TCP_REG calls tcp_timer_needed.
MsgTcpReg ==
  /\ thread = "message"
  /\ pcbs' = TRUE
  /\ tcpip_tcp_timer_active' = TRUE
  /\ IF tcpip_tcp_timer_active
     THEN UNCHANGED <<next_timeout, exhausted>>
     ELSE sys_timeout(Tcp)
  /\ Again
  /\ UNCHANGED <<mbox, elapsed>>

\* A message removes the last connection: TCP_RMV leaves the timer alone.
MsgTcpRmv ==
  /\ thread = "message" /\ pcbs
  /\ pcbs' = FALSE
  /\ Again
  /\ UNCHANGED <<next_timeout, tcpip_tcp_timer_active, mbox, elapsed, exhausted>>

MsgOther ==
  /\ thread = "message"
  /\ Again
  /\ UNCHANGED <<next_timeout, tcpip_tcp_timer_active, pcbs, mbox, elapsed, exhausted>>

Message ==
  \/ \E h \in App : MsgTimeout(h) \/ MsgUntimeout(h)
  \/ MsgTcpReg \/ MsgTcpRmv \/ MsgOther

Callback ==
  \/ \E h \in ToSet(Cyclic) : CyclicTimer(h)
  \/ \E h \in App : AppTimer(h)
  \/ TcpTimerStops \/ TcpTimerRestarts

Thread == Block \/ Receive \/ Expire \/ Callback \/ Message

Next == Post \/ Tick \/ sys_timeouts_init \/ Thread

Spec == Init /\ [][Next]_vars

\* The start-up goes on, the tcpip thread is scheduled when it can run, and the tick
\* counts.
FairSpec == Spec /\ WF_vars(sys_timeouts_init) /\ WF_vars(Thread) /\ WF_vars(Tick)

-----------------------------------------------------------------------------
(* Properties. *)

Upto(h) == 0 .. Interval[h]

TypeOK ==
  /\ next_timeout \in Seq([h : Handler, time : Nat, age : Nat, msgs : Nat])
  /\ Len(next_timeout) <= PoolSize
  /\ \A i \in DOMAIN next_timeout :
       LET e == next_timeout[i] IN
       e.time \in Upto(e.h) /\ e.age \in Upto(e.h) /\ e.msgs \in Upto(e.h)
  /\ tcpip_tcp_timer_active \in BOOLEAN /\ pcbs \in BOOLEAN
  /\ mbox \in 0 .. MaxMsgs
  /\ thread \in {"init", "again", "blocked", "message", "handler"}
  /\ running \in Handler \cup {NoHandler}
  /\ (running # NoHandler) = (thread = "handler")
  /\ elapsed \in 0 .. Longest /\ exhausted \in BOOLEAN

Pending(h) == Cardinality({i \in DOMAIN next_timeout : next_timeout[i].h = h})

\* Once started, a cyclic timer never dies and is never started twice, even when applications
\* have taken the whole pool: the entry it frees is there for it when it sets
\* itself again (timers.c:444-459, 118-145).
CyclicAlive ==
  thread # "init" =>
    \A h \in ToSet(Cyclic) : Pending(h) + (IF Runs(h) THEN 1 ELSE 0) = 1

\* The flag tells whether the TCP timer is scheduled (timers.c:69, 78-110): it is
\* scheduled at most once and, unless the pool ran empty, exactly while the flag
\* is set; connections never wait for a timer that nobody has started.
TcpTimerFlag ==
  LET scheduled == Pending(Tcp) + (IF Runs(Tcp) THEN 1 ELSE 0) IN
  /\ scheduled <= 1
  /\ scheduled = 1 => tcpip_tcp_timer_active
  /\ ~exhausted => (tcpip_tcp_timer_active <=> scheduled = 1)
  /\ pcbs => tcpip_tcp_timer_active

AppPending == {i \in DOMAIN next_timeout : next_timeout[i].h \in App}

\* init.c only lets a build through whose pool has an entry for each timer of lwIP
\* (init.c:107-110).  So sys_timeout finds the pool empty only while applications hold
\* all that lwIP does not need itself: in every other case its assertion holds
\* (timers.c:270-274, lwipopts.h:241-244).
PoolShared ==
  [][exhausted' # exhausted =>
       Cardinality(AppPending) >= PoolSize - (Len(Cyclic) + 1)]_vars

Expiring == thread # "handler" /\ thread' = "handler"

\* A timeout expires no sooner than the time it was set for (timers.c:251-258).
NeverEarly ==
  [][Expiring => Head(next_timeout).age >= Interval[Head(next_timeout).h]]_vars

\* A timeout expires early by at most one millisecond for each message that was
\* fetched since it was set (timers.c:466-474, sys_arch.c:253-257).
EarlyByMessages ==
  [][Expiring => LET e == Head(next_timeout) IN e.age + e.msgs >= Interval[e.h]]_vars

\* Every cyclic timer expires again and again, whatever the load of messages.
CyclicFire == \A h \in ToSet(Cyclic) : []<>Runs(h)

Deadline == INSTANCE Deadlines WITH
  Msecs <- {Interval[h] : h \in Handler},
  due <- [i \in DOMAIN next_timeout |->
            [h |-> next_timeout[i].h, left |-> Ahead(next_timeout, i)]]

\* The list keeps the order and the distances of the deadlines through every
\* insertion, removal, partial wait and expiry.
ImplementsDeadlines == Deadline!Spec

=============================================================================
