# Verification of FreeLwIP for Nios II

This directory holds TLA+ models of the program in this repository: lwIP 1.4.1
on FreeRTOS 7.2 for the Altera Nios II with the triple-speed Ethernet MAC (TSE)
and its scatter-gather DMA (SGDMA). The program's own code is the glue that makes
the three work together: the Ethernet interface and its receive ring, the
interface task, the `sys_arch` layer and the Nios II port of FreeRTOS. lwIP, the
kernel and the drivers are vendored; they are modelled where the glue depends on
how they behave.

Paths below are short for `src/freeRTOS_lwIP_src/...`; `arch/`, `core/` and
`api/` are under `lwip/FreeRTOS/src/`. The kernel and the drivers are read
in `src/FPGA/software/FreeLwIP_bsp/`.

Run a model with `tlc -config rx_ring.cfg MCRxRing`, check proofs with
`tlapm RxRingProofs.tla`. `PROJECT.json` lists runs, mutants, the map from
definitions to source lines, findings, hazards and theorems.

## 1. The system

| component | state it keeps | operations |
|---|---|---|
| TSE receive path: `arch/lwip_tse_mac.c`, `arch/altera_tse_ethernetif.c` | the ring `lwipRxPbuf` with `lwipRxIndex` (task), `lwipRxIndexIsr` (handler) and `lwipRxCount`; the RX descriptor; `rx_semaphore` | `tse_sgdma_rx_isr`/`tse_mac_rcv` (interrupt), `low_level_input`, `ethernetif_input`, `tse_mac_init`, `tse_mac_raw_send` |
| interface task and link monitor: `arch/lwip_main.c` | `current_state`, `link_alive`, netif flags, `upCount` | `lwip_initialize`, `lwip_handle_interfaces`, `lwip_handle_ethernet_input`, `lwip_check_link_status` |
| tcpip thread: `api/tcpip.c` | its mailbox; messages from two pools | `tcpip_thread`, `tcpip_input`, `tcpip_apimsg`, `tcpip_callback`, `tcpip_timeout`, `tcpip_netifapi` |
| timeouts: `core/timers.c` | the delta list `next_timeout`, `tcpip_tcp_timer_active`, the timeout pool | `sys_timeout`, `sys_untimeout`, `sys_timeouts_mbox_fetch`, cyclic callbacks, `tcp_timer_needed` |
| OS adaptation: `arch/sys_arch.c` | FreeRTOS queues and semaphores | `sys_sem_*`, `sys_mbox_*`, waits that measure elapsed ticks |
| Nios II port: `nios2_freertos_port/port.c`, `port_asm.S` | `lastContext`, the frames of tasks switched out, status.PIE | masking and unmasking, save and restore of contexts, tick, first task |
| FreeRTOS kernel: `tasks.c`, `queue.c` | TCBs with `uxCriticalNesting`, ready and event lists, queues | critical sections, yields, queue send and receive |
| drivers: `altera_avalon_sgdma.c`, `altera_avalon_tse.c` | descriptors and device registers | asynchronous read, interrupt entry, MDIO |
| netconn and sockets: `api/api_lib.c`, `api_msg.c`, `sockets.c` | each netconn with its `state`, `current_msg`, `recvmbox`, `op_completed`; the socket table with its event counters; the list of tasks in `select` | `netconn_*` and `lwip_*` calls, their handlers `do_*`, the callbacks of the pcb, `event_callback` |
| protocol core: `core/*.c`, `core/ipv4/*.c`, `netif/etharp.c` | PCBs, ARP table, pools, DHCP leases | vendored lwIP |
| demo applications, FPGA design, bare-metal examples | | examples and generated files |

How they interact. The SGDMA writes a frame into the pbuf of the slot
`lwipRxIndexIsr` and interrupts. The handler counts the frame and moves on, or
drops it when the ring is full, gives `rx_semaphore` and starts the next read.
The interface task waits for the semaphore for at most 100 ms, swaps the oldest
pbuf of the ring for a fresh one and hands it to `tcpip_input`, which posts a
message to the tcpip thread. That thread processes one message at a time and
runs timeouts while it waits for the next. When no packet waits, the interface
task looks at the link and may run `tse_mac_init` again, which resets the DMA
under the feet of the handler; it then sets the link of the netif, which restarts
the DHCP client that the tcpip thread also runs. An application calls the stack
with a message on its own stack, or with one of a pool, and blocks on a semaphore
until the tcpip thread, a callback of TCP or a timer signals it. Events of a
netconn reach `select` through `event_callback`, which runs in the tcpip thread and
in the calling task. All of it relies on the masking of interrupts in
`port.c`, which tasks and the handler share through one word.

What is hard here: the handler interleaves with the task at any point outside a
masked section; a restart of the MAC comes between any two interrupts; pools run
empty; time is measured by ticks that pass while the thread does something else;
a task can be switched out inside a critical section. A caller sleeps until
somebody else finishes its call, whatever happens to the connection meanwhile;
`select` must not miss an event between its look and its sleep; two tasks change
one byte of flags.

What makes each component correct:

- receive path: one owner for every pbuf, the DMA only in a pbuf nobody else
  uses, kept frames delivered once and in order, reception never stops, nothing leaks;
- masking: a critical section is never interrupted; outside it a task is
  interruptible; the handler is never interrupted;
- timeouts: order and distance of deadlines, no timer dies or doubles, none
  starves, none fires early;
- tcpip thread: every call gets its answer, every message is freed once;
- link monitor: the stack sees each change of the link, and only then;
- netconns: a blocked caller is woken, once, and for its own call; a callback never
  finds a netconn that was deleted;
- sockets: the counter that `select` looks at is what waits in the mailbox; nobody
  sleeps while its socket is ready; no task in `select` is touched after it left.

## 2. The modules

### RxFifo, RxRing, MCRxRing, RxRingProofs: the receive path

`RxRing` has one action for each step that can be interleaved: the arrival of a frame
(`FrameReceived`), the whole interrupt handler (`RxIsrError`, `RxIsrFull`, `RxIsrKeep`:
it runs with interrupts masked, so it is atomic for the task), and the task's steps
between which an interrupt can come: the wait (`SemTaken`, `SemTimeout`), the check of
the count and the allocation (`InputNothing`, `InputAlloc`), the masked swap
(`InputSwap`), the delivery, the return with the count, the link check with the reset
and restart of the DMA (`ResetDma`, `Rearm`). A reset may come when an interrupt is latched
already: the handler then still runs, and starts the engine before `tse_mac_init` does.
`RearmFails` is its early return (`lwip_tse_mac.c:212-226`): the engine stays as the reset
left it, and nobody looks at the result. `TcpipFetch`, `TcpipDone` and `Release`
give pbufs back from the stack. The names of variables are the code's; `pc` is the
task's place, `nextPkt` and `p` its locals, `payload` the frame each pbuf holds,
numbered in the order of arrival. `Stage` lists the frames by the place they have
reached, for `FramesInOrder`.

The engine is idle once it has raised its interrupt, as the drivers assume
(`tse_mac_aRxRead` gives up on a busy one). Checksums and the transmit path are left out,
and of the length of a packet all but whether it is 0: `low_level_input` forgets such a
packet (`altera_tse_ethernetif.c:134-135`). Whether the engine reports a good frame of that
length is up to the hardware, hence the constant `EmptyFrames`. A pbuf is one packet (the
MAC never receives a chain).

`OnlyKnownLeaks` says which steps may leave a pbuf with nobody: that one and the refusal
by `tcpip_input` that `ethernetif_input` ignores (finding 1). `NoLeak`, that every pbuf is
somewhere, is false of the code. Lost pbufs add up until only those in the ring are left
(`Drained`) and the ring is never emptied again, which is why `EveryFrameTaken` exempts that
state.

`RxFifo` is what the receive path promises: a queue of at most `Capacity` frames
that offers, keeps, loses and takes frames. A frame is lost when it is faulty,
when the queue is full, or when the MAC is reset. `ImplementsFifo` says that
`RxRing` implements it with `Capacity = N - 1`: the ring keeps one slot for the
DMA, and the waiting frames are the payloads from `lwipRxIndex` on.

### PortCritical, PortCriticalProofs: interrupt masking

PIE, `lastContext`, the nesting count in each TCB and the PIE bit of each saved
frame (`estatus`). Every masked stretch of code that cannot be interrupted is one
action (`MaskedSection`). The next task is chosen freely. `yielded` is a history
variable: it separates what holds only while no task is switched out inside a
critical section (`MaskingSound`) from what always holds (`CriticalMasked`).
An interrupt nested in the handler is not followed further: `MaskingSound` says
when none can come.

### Deadlines, Timers, TimersProofs, MCTimers: timeouts

`Timers` models the tcpip thread as far as timeouts go: `Block`, `Receive` and
`Expire` are the branches of `sys_timeouts_mbox_fetch`, the callbacks and messages
set and cancel timeouts. `Tick` happens anywhere, so time passes while a message
is handled and the list does not see it, as in the code. `Insert` finds the
position by the sums the code accumulates as it walks the list. The start-up
(`sys_timeouts_init`) sets the cyclic timers one by one, before the thread serves
anything; `elapsed` stops at the bound `Longest`.
Each entry carries two histories, the ticks and the messages since it was set.

`Deadlines` is the promise: a queue of pending timeouts by time left, ties in the order
they were set. The refinement mapping sums the differences of the list.

### Rpc, TcpipCalls, TcpipCallsProofs: calls into the tcpip thread

`Rpc` is the promise: a task asks, is answered once and returns with that answer.
`TcpipCalls` has a task's call in the steps another task can come between: taking a
message (`tcpip_apimsg` uses one on its stack, named by the task; `tcpip_callback` one
of `MEMP_TCPIP_MSG_API`), the post, the wait. The tcpip thread fetches, calls the
function and frees the message in three steps; the function answers at once or
leaves the answer to a callback (`later`, `AnswerLater`). The interface task posts
packets with `sys_mbox_trypost` and asks for out-of-sequence pbufs when the pool of
pbufs is empty, one request at a time by `pbuf_free_ooseq_pending`. Which of the answers put off come is not this module's matter:
no fairness is given to `AnswerLater`, and `CallsReturn` ends at an answer put off.

`refused` names the tasks that wait although `tcpip_callback` gave them no message:
`netconn_gethostbyname`, `lwip_getsockopt` and `lwip_setsockopt` ignore `ERR_MEM`
(`api_lib.c:772-773`, `sockets.c:1664-1665`, `2081-2082`). `CallsReturn` exempts
them too. The committed configuration has `LWIP_DNS` 0 and a pool of
eight, and no program of the repository has nine callers of socket options.

### Sockets, SocketsProofs, MCSockets: event counters and select

One action is one stretch between `SYS_ARCH_PROTECT` and `SYS_ARCH_UNPROTECT`.
`event_callback` runs for a *runner*, a task or the tcpip thread: `SetEvent` counts the
event and, when somebody waits for the socket, looks at the first entry of the list;
`NextEntry` goes on from the gap between two entries, or starts again when
`select_cb_ctr` has changed. The counter itself is left out: `outdated` holds the
runners whose copy differs, which is all a comparison can tell. `lwip_select` is
`Select` (the first scan), `Insert`, `Count`, `Rescan`, then `SemTaken` or `Timeout`,
`Uncount`, `Unlink` and `Scan`, with one step per socket in its loops. A connection may
receive data while it is in the backlog and while `lwip_accept` has a socket but has
not set `netconn.socket` yet: `early` is `-1 - netconn.socket`. A close calls back three
times, for an error, for the reader and for the writer (`Finish`, `CallsAgain`), before the
task goes on. A connection that dies is left out (`err_tcp`), and so is `lwip_shutdown`: both
count an event that need not have a message, so that `EventsMatchMbox` is of
connections that live and are ended by their close. Each socket belongs to
one task, as lwIP demands; without that `sockets.c:1198` follows a NULL pointer.

### LinkMonitor, LinkMonitorProofs: one interface, from start to service

The tcpip thread adds the interface, waits for the auto-negotiation, creates the
interface task and starts DHCP; the interface task watches the link. Both change
`netif->flags` by a load and a store; each change is two actions (`Load` in the one,
`Store` in the other), so the changes of one task can undo those of the other. `lost` is the
history of such accidents and `known` says whether the interface task has acted on a
status yet. Both appear only as exemptions in the liveness properties, which thus
say that nothing *else* goes wrong. `current_state` starts as any value, as
`mem_malloc` clears nothing. The DHCP client has the states that
`dhcp_network_changed`, `dhcp_bind`, `dhcp_handle_nak` and `dhcp_release` tell apart.
`dhcp_start` gives it to the interface before it clears it (`Publish`, `Clear`,
`StartDiscover`), so the interface task may find any state in it. What a restart sends in
that gap, through a client without a pcb, is not modelled. A lease is refused (`DhcpNak`)
or given up after the last try (`DhcpRelease`); both take the interface down and ask again.

### Netconn, NetconnProofs: one TCP netconn

One netconn, the task that uses it, the handlers of its messages and the callbacks
of its pcb. The handlers (`do_connect`, `do_write`, `do_close` which also is
`do_delconn`, `do_recv`) and the callbacks (`Connected`, `Data`, `Fin`, `Reset`,
`LastAck`, `Again` for `sent_tcp` and `poll_tcp`) are single steps, as all run in the tcpip
thread; the post, the handling and the return of a call are apart, so the pcb can die
in between. FIN_WAIT stands for FIN_WAIT_1 and FIN_WAIT_2; a FIN leads from it to TIME_WAIT
or, when both sides close at once, to CLOSING. `pcb` holds which callbacks are set, which is what `do_close_internal`
takes off and puts back. Two states are exempt by name: `Stuck`, a shutdown of a
transmit side that is not open (finding 4), and `Dangling`, a netconn whose pcb
`tcp_slowtmr` has freed after TIME_WAIT without telling it (`tcp.c:1010`, a hazard
in the list: what the next call does is undefined).

### Slips

Operators whose names begin with `Slip` are plausible errors in the code they
precede. No specification uses them; each property is run once against a model
with one of them in place and must fail, which shows that it looks at something.

## 3. The runs

| run | asks | result |
|---|---|---|
| `rx_ring` | order of frames up to the stack, ownership, the DMA target, tokens, which steps lose a pbuf; refinement of `RxFifo` | holds, about 571 000 states |
| `rx_live` | the frames are taken, the DMA restarts | holds, about 167 000 states |
| `rx_leak` | does a refused packet come back? | violated, finding 1 |
| `port` | masking with three tasks, nesting of two | holds, about 1 000 states |
| `port_yield` | does a task get interrupts back after its outermost exit? | violated, finding 2 |
| `timers` | order, life, flag, earliness and firing of timeouts | holds, about 70 000 states |
| `timers_early` | does a timeout ever expire too soon? | violated, finding 3 |
| `tcpip` | messages, answers of calls into the tcpip thread; refinement of `Rpc`; a call returns or has its answer put off | holds, about 18 000 states |
| `sockets` | event counters, the select list, lost and needless wake-ups; `select` returns | holds, about 151 000 states |
| `link` | the flag of the link follows the cable; the service comes and stays | holds, about 269 000 states |
| `netconn` | blocked callers, callbacks, the end of the data; every call of a netconn returns | holds, about 4 100 states |
| `netconn_shutdown` | on a netconn that never connected, is a close that fails always tried again? | violated, finding 4 |

Bounds. Three slots let the handler's index lap the task's and give a ring that is
empty, partly full and full. In `rx_ring` three pbufs lie beyond the ring, so that frames
can be with the stack, in its mailbox, in the hands of the task and in the ring at the same
time, and the pool still runs empty while packets are in flight; five frames fill the
ring and wrap both indices; two restarts can hit the handler before and after each other.
Two messages (`InpktMax`) give a mailbox with an order, and make `tcpip_input` refuse
the third packet, as 32 messages do with 52 pbufs in the code. `rx_live` is smaller for the
sake of liveness but has all of it too: two slots, two pbufs beyond them, one message, so that
`tcpip_input` refuses the second packet, frames of length 0, and a restart of the MAC.
`rx_leak` switches frames of length 0 off, so that the refusal alone is to blame.
Three tasks are needed for a task that yields inside a critical section, one that
clears `lastContext` and one that is interrupted. Timers of 2, 2, 2 and 3 ms give
ties, insertions at every place and cancellations; a pool of four runs empty when
the application sets its timeout twice; `MaxMsgs` is one because messages are
only counted and can be posted again at once. Histories and `elapsed` stop at the
longest interval, where no comparison can tell more.

`tcpip`: two tasks compete for two messages of the API pool with the interface task's
requests, so the pool runs empty in a call and in a request; the mailbox of five is as
long as there are messages, the least for which no post fails. The code has 8 and 32
messages and a mailbox of 4096. `sockets`: one task reads a connection that is accepted
and closed again and writes to another, so its select has two sockets; a second task
selects too, so the list has two entries and changes under a walk; two messages give a
counter that goes up and down. `link`: three changes of the cable give out-in-out from
either start, one NAK or lease given up hits a restart of the client, and three retries are
used up.
`netconn`: three unread messages give data before and behind the end of data and the
message of an error. A bound on unread data stops only the arrival of more.

Deadlock is checked except in `link`, which comes to rest when the cable is settled,
and in `netconn` and `netconn_shutdown`, where a deleted netconn is the end and a task
may have nothing left to ask.

Fairness. `RxRing!FairSpec`: the handler is taken when its interrupt is pending
(it is the only one of its level), the interface task and the tcpip thread run at
`TCPIP_THREAD_PRIO` and are scheduled when ready, and applications end by freeing
the packets they hold. Nothing is assumed of the arrival of frames, the MAC's
restarts or the choice between delivery outcomes. `Timers!FairSpec`: the tcpip
thread is scheduled when it can run and the tick counts; nothing is assumed of
messages, which may arrive without end; the start-up goes on.
`TcpipCalls!FairSpec`: ready tasks run; nothing is assumed of answers put off, as
finding 4 is one that never comes. `Sockets!FairSpec`: a callback and a select
under way go on; nobody need send, receive, close or time out. `SelectReturns` has
one exception, list changes without end. `LinkMonitor!FairSpec`: the two threads
and the poll of `lwip_initialize` run; a DHCP server that is asked again and again
answers once, and so does a PHY that has a link. The cable is free.
`Netconn!FairSpec`: handlers run and calls return; a connection attempt, a wait
for the last acknowledgement and CLOSING end, by the peer or by the retries of
TCP; `tcp_slowtmr` ends TIME_WAIT; what a write or a close waits for comes in the
end, which is an assumption on the peer, since one with a closed window can hold a
write as long as it likes. A peer need never send, so `Fetch` has no fairness.

## 4. What is proved

For any number of slots, pbufs, frames, restarts and messages
(`NAssumption`: at least two slots; `NoPbufAssumption`; `EmptyFramesAssumption`;
`BoundAssumption`: the bounds are naturals), `RxRingProofs` proves type correctness,
`IndicesAgree`, `DmaPrivate`, `OneOwner`, `NoTokenLost`, `FramesInOrder` and the
refinement of `RxFifo`. None of them is inductive alone. The invariant `IInv` adds:

- `Locals`: `nextPkt` is set exactly at the swap, where the count is positive
  (the handler can only have raised it since the check), `p` exactly at the delivery;
- `Descriptor`: while the engine is on, the descriptor points at the handler's
  slot, and a finished frame is the last that arrived. With `IndicesAgree`
  this slot is not among those that wait, and with `OneOwner` its pbuf is nowhere
  else: that is `DmaPrivate`;
- `Tokens`: the semaphore is never more than one ahead of the packets that wait,
  although polls take packets without tokens and failed allocations tokens without
  packets. A handler that gives the semaphore finds the ring not full, hence
  the semaphore below its maximum.

`FramesInOrder` needs one thing more, `OrderInv`: `Ordered` is its third part, and
`Fresh` says that the frame in the DMA's pbuf is younger than every frame on its way.
The steps then fall into three kinds: the frames that move on to the next stage are the
first of a stage (`InputSwap`, `TcpipFetch`), a frame is added behind all others
(`RxIsrKeep`), or frames leave. That no step writes over a frame on its way is
`DmaPrivate` once more.

`PortCriticalProofs` proves for any set of tasks and depth of nesting that
critical sections are masked (with `Saved`: a task switched out inside one resumes
masked), and that the one word is enough without yields inside critical sections
(with `Alone`: then only the running task is inside, every other resumes with
interrupts on, and the word is set exactly while it is needed).

`TcpipCallsProofs` proves, for any finite set of tasks and messages, type
correctness, `OneHolder`, `ReclaimPending` and the refinement of `Rpc`, and, when the
mailbox is at least as long as there are messages and callers
(`Cardinality(Msg) <= MboxSize`), `AlwaysRoom`, `NoMsgLost` and `OneWaker`. The refinement
needs no such condition: a lost message leaves its caller unanswered, which the
promise permits; that answers come is liveness. The inductive invariant `IInv` adds:

- `Hands`: a message is in the hands of a task exactly while it posts, in those of
  the tcpip thread while it calls or frees, and each is of the right kind;
- `Distinct` and `Holders`: the places where a message can be are disjoint; with
  this the mailbox is an injection into `Msg`, so that with one more message in the hands
  of a poster its length is below the number of messages: that is `AlwaysRoom`;
- `Owners`: a pool message in flight that will wake a task belongs to a task that
  waits, and no two belong to one;
- `Wakers`: the message of a task, an answer put off and the signal exclude each other,
  so no second signal stays in the binary semaphore for the next call.

`Awaited`, that a waiting task has one of the three, is invariant only while no
message is dropped, and gives the rest of `OneWaker`.

`CallersNeverRefused` is about size. If in addition the pool of API messages has two
more than there are tasks that call, no `tcpip_callback` is refused (`NeverRefused`).
Two more, since a task can use one message for its present call while the thread has not
freed the one of the call before, and the request for pbufs takes another: the thread
holds one message at a time (`FindsMessage` counts them), and `OneReclaim` says that
there is never a second request. With three messages for two tasks TLC finds a refusal.
So the eight messages of `lwipopts.h:263` are enough for six tasks that call, as far as
the uses modelled go: timeout messages and the loopback callback of `netif_poll` are not
counted.

`LeaksAreKnown` in `RxRingProofs` proves `OnlyKnownLeaks` for any sizes of ring, pool and
messages, with no assumption that there are enough messages: the code's 32 against 52
pbufs are within it. Each step is shown to keep what is owned, but for the two lines.

`NetconnProofs` proves, for any bound on unread data, type correctness, `CallerWakes`,
`CallbacksSound`, `EndIsLast` and that the calls of a netconn implement `Rpc`.
A step preserves these only from states that many steps and two
parties have shaped, so the invariant `IInv` says what they leave behind:

- `Attached`: a pcb that lives calls back its netconn or nobody, never by half;
- `Flags` and `Operation`: what the netconn does is what its task asked for, on a pcb in
  a state that permits it: a write has an open transmit side, a connect its SYN sent;
- `Caller`: a call under way has its answer or its message is kept, never both, so a
  second callback finds nothing to answer;
- `EndTold`: a task that may read has a pcb that will tell it the end, or the end waits
  in its mailbox; `Fits` says that there is room for it;
- `Deleted`: after the deletion nothing of the netconn is left.

The refinement of `Rpc` (`NetconnImplementsRpc`) follows from `Caller`: an answer is
given only to a message that is kept, so every handler and callback maps to `Answer` or
to a stutter. `TcpipCalls` assumes of the function it calls just that, an answer at once
or later and one of them; the two models meet in `Rpc`. `EndIsLast` needs `EndInv`: once
the end of the data is in the mailbox, or was taken from it, the pcb is in a state where
TCP has no more data (`StaysOver`), and the task does not read again, as `last_err` is
set before another call begins.

`SocketsProofs` proves, for any tasks, sockets, sets and length of the mailboxes, all six
invariants of the `sockets` run: types, `WalkOnList`, `NoLostWakeup`, `WaitingCounted`,
`SelectFindsReady` and `EventsMatchMbox`. It assumes what the module does: each socket
is used by one task. The inductive invariant `IInv` says:

- `ListOK`: the list holds the tasks between their insertion and their removal, each
  once, so an entry has one place and the entries behind it are those still to visit.
  A walk starts with all entries ahead of it and leaves none out (`FirstIs`, `WalkTo`);
- `Signals`: `sem_signalled` is set only together with the semaphore, and until the task
  has taken it, so an entry that is marked needs no second signal;
- `NoLost`: a task that has looked at a socket in its second scan, and not found it ready,
  is in the same position as one that sleeps: if the socket is ready, the task is signalled
  or ahead of a walk. `NoLostWakeup` is the part of it at the sleep;
- `Waiting`: the count of a socket is one exactly while its task counts, which is what
  makes a callback that sees zero free to skip the list;
- `Reasons`: whoever was woken or found something has a ready socket; it stays ready, as only
  the task itself, which is in `select`, could take the event back (`Quiet`, `Callbacks`);
- `Matches`: `EventsMatchMbox` with its two sums of callbacks under way, which are at most
  one each (`Plus`, `Minus`), and with a counter of zero before `lwip_accept` adds to it;
- `Loops` and `Callbacks`: which socket each call and each callback is about.

`TimersProofs` proves, for any callbacks, intervals and mailbox and any pool that holds
the cyclic timers, all safety of the `timers` run: types, `CyclicAlive`, `TcpTimerFlag`,
`EarlyByMessages` and the refinement of `Deadlines`. It assumes that callbacks are of
one kind each (`HandlerAssumption`) and that cyclic intervals are positive.
`PoolServesTimers` adds the compile-time check of `init.c:107-110`: when `sys_timeout`
finds the pool empty, applications hold all entries that lwIP's timers do not need
(`PoolShared`), as each callback of lwIP is pending at most once and the one that runs
has given its entry back. The argument has three layers:

- sums: `Ahead` is a recursive function, and what it adds up to is proved with a set
  that would have a least element (`UpTo`). Two lists whose entries have the same times
  on a stretch add up alike on it (`Alongside`); every change of the list is a
  few such stretches (`InsertIs`, `WithoutIs`, `TailIs`, `ReceivedIs`, `AgedIs`), so the
  time left of every other entry stays, or shrinks by the same amount for all;
- entries: with l left of an interval i, and e ticks of the present wait not yet taken
  off, an entry has seen i - l + e ticks and messages at least (`Keeps`). A message
  takes off at most one more than the wait, and counts as one. At the expiry nothing is
  left beyond e: that is `EarlyByMessages`;
- names: one entry more or less changes how often its own callback is pending and no
  other (`MoreIs`). `Started` and `TcpOnce` say of each callback of lwIP that it is
  pending once or running, `Room` that the entry of the callback that runs is free,
  so that setting itself again cannot fail; `Starting` is the same for the start-up.

`Waits` says that the list is not due when the thread blocks, so a wait cut short brings
the deadlines closer, as `Deadlines` demands.

`LinkMonitorProofs` proves the invariant of `LinkMonitor` for any number of retries, of
cable changes and of NAKs. Besides types it says when the interface task exists and that
a static address never has a DHCP client. The second part is not inductive, since
`Bound` and `Restarted` change the client without a look at the address: `ClientExists`
adds that a task on its way there has already passed a test that only DHCP passes.
`FlagsAreKept` is the safety behind `LinkFollows`: between two link checks the flag of
the link says what the interface task found, and the other two flags are as the start-up
set them, unless a store of the other task has undone a change (`lost`). `FlagInv` says
it for each step between load and store: `Changes` bounds what a register may change,
and `LinkFlag`, `UpFlag` and `DhcpFlag` say at which steps each flag is right.

Proved and not in a run: `IndicesAgree` and `AlwaysRoom`, on which other properties that
are in a run depend (`ImplementsFifo`, `NoMsgLost`), `PoolShared`, `FlagsKept`,
`NeverRefused` and the refinement of `Rpc` by `Netconn`. TLC agrees with each on the
constants of the runs, the last but one with four messages and a mailbox of eight.

Only model-checked: the liveness properties (`EveryFrameTaken`, `DmaRestarts`,
`CyclicFire`, `CallsReturn`, `SelectReturns`, `LinkFollows`, `ServiceComes`), which are
out of reach of the prover.

## 5. Findings

1. `altera_tse_ethernetif.c:202` ignores the result of `tcpip_input`; a refused packet
   is never freed (run `rx_leak`). The `NO_SYS` branch of the same function frees it.
2. `port.c:84-97` keeps one word for all tasks. The comment in
   `queue.c:605-608` says that a yield inside a critical section is taken care of by
   the kernel; with this port, another task can clear the word meanwhile and the
   task leaves its section with interrupts off (run `port_yield`).
3. `sys_arch.c:256-257` rounds a wait of no ticks up to one, so timers run fast under
   load (run `timers_early`), against `timers.c:257`. `EarlyByMessages` bounds the error
   by one tick a message, and the rounding is what keeps a stream of messages from
   starving the timers (`CyclicFire` fails without it).
4. `tcp.c:339-342` answers `ERR_CONN` to a shutdown of a transmit side that is not
   open, against `tcp.c:309`, each time it is asked, and `do_close_internal` takes any
   error for a lack of memory that passes (`api_msg.c:812-823`). `netconn_shutdown` on a
   netconn that never connected blocks for ever (run `netconn_shutdown`). Every other call
   returns under the fairness of section 3 (`CallsReturn`), unless its netconn is `Dangling`.

## 6. Not modelled, and the plan

What is left, in the order it would be taken up:

1. Listening netconns: the accept mailbox, the backlog, `accept_function` and a close
   of a listener with connections in its mailbox. UDP and raw netconns differ from
   TCP only in that their handlers answer at once.
2. `select` with a zero timeout (it never enters the list), the exception set and
   `errevent`, `lwip_shutdown`. Sockets shared by tasks are against lwIP's rules.
3. Two interfaces: `lwip_main.c:142` counts an interface that is up again at every
   poll, so that start-up may end before all are. The `system.h` in the repository was
   generated without a PHY count, so the number in use is not known.
4. `tse_mac_raw_send`: one descriptor for all senders, without a lock. The interface
   task sends too, from `netif_set_link_up`, so it can fill the descriptor between the
   tcpip thread's filling it and starting the engine. Its model needs
   what the SGDMA does with a used descriptor.
5. The ARP table, whose ageing and queueing is vendored lwIP.

Noted as hazards without a property: a busy DMA engine (it needs a
hardware model the sources do not give), an interrupt that nests in the handler, the two senders and the count
of interfaces above, a pcb freed after TIME_WAIT, and a socket closed by another task.

Left out for good: the demo applications, the FPGA design and generated files, the
bare-metal example, SNMP, PPP and SLIP (not configured), netifapi and core locking
(compiled out), and the protocol arithmetic of TCP/IP, which is vendored and has no
state shared with this glue beyond the calls modelled. These make up nearly all lines
of the repository, which also holds each part of lwIP in several copies.
