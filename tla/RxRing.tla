------------------------------- MODULE RxRing -------------------------------
(***************************************************************************)
(* The Ethernet receive path: the SGDMA engine, its interrupt handler       *)
(* (lwip_tse_mac.c), the ring of pbufs it shares with the input task        *)
(* (altera_tse_ethernetif.c, lwip_main.c), the counting semaphore between   *)
(* them, the hand-over to tcpip_thread (tcpip_input) and the re-arming of   *)
(* the engine by tse_mac_init when the link monitor restarts the MAC.       *)
(*                                                                          *)
(* The operators named Slip... are plausible slips in the code; the runs     *)
(* must tell them from the operator they precede.                            *)
(*                                                                          *)
(* A frame is its number of arrival.  The handler runs with interrupts      *)
(* masked and is one step; PortCritical studies when that is so.            *)
(***************************************************************************)
EXTENDS Integers, Sequences, FiniteSets

CONSTANTS
  N,          \* LWIP_RX_ETH_BUFFER, the slots of the ring
  Pbuf,       \* the pbufs of MEMP_PBUF_POOL
  NoPbuf,     \* the NULL pointer
  InpktMax,   \* MEMP_NUM_TCPIP_MSG_INPKT
  EmptyFrames, \* whether the engine may report a good frame of length 0
  MaxFrames,  \* bound: frames the MAC receives
  MaxReinit   \* bound: runs of tse_mac_init after the first

ASSUME NAssumption == N \in Nat \ {0, 1}
ASSUME NoPbufAssumption == NoPbuf \notin Pbuf
ASSUME EmptyFramesAssumption == EmptyFrames \in BOOLEAN
ASSUME BoundAssumption == InpktMax \in Nat /\ MaxFrames \in Nat /\ MaxReinit \in Nat

VARIABLES
  \* struct ethernetif and lwip_tse_info, shared by the handler and the task
  lwipRxPbuf, lwipRxIndex, lwipRxIndexIsr, lwipRxCount, rx_semaphore,
  \* the SGDMA engine and memory
  dma,        \* "off": reset, "failed": left so by tse_mac_init, "run": waits for a
              \* frame, "done": raises its interrupt
  desc,       \* the pbuf whose payload the RX descriptor points to
  payload,    \* the frame in each pbuf of the pool, 0 when none was written
  arrived,    \* frames received so far
  pool,       \* the free list of MEMP_PBUF_POOL
  \* the input task
  pc, nextPkt, p, reinits,
  \* tcpip_thread: its mailbox, the packet it processes, the pbufs queued in the stack
  mbox, inp, held

ringVars  == <<lwipRxPbuf, lwipRxIndex, lwipRxIndexIsr, lwipRxCount>>
dmaVars   == <<dma, desc, payload, arrived>>
taskVars  == <<pc, nextPkt, p, reinits>>
stackVars == <<mbox, inp, held>>
vars == <<ringVars, rx_semaphore, dmaVars, pool, taskVars, stackVars>>

Slot == 0 .. N - 1

\* ++index, and back to 0 at LWIP_RX_ETH_BUFFER
NextSlot(i) == IF i + 1 >= N THEN 0 ELSE i + 1

\* The slot of the k-th packet that waits in the ring (the oldest is the first).
WaitingSlot(k) == IF lwipRxIndex + k - 1 >= N THEN lwipRxIndex + k - 1 - N
                                              ELSE lwipRxIndex + k - 1

\* The frames that wait in the ring, oldest first.
Waiting == [k \in 1 .. lwipRxCount |-> payload[lwipRxPbuf[WaitingSlot(k)]]]

\* ethernetif_init: N pbufs of the pool fill the ring and tse_mac_init, the
\* first time, creates the semaphore, takes its N tokens and starts the DMA, if it
\* does not fail.
Init ==
  /\ lwipRxPbuf \in [Slot -> Pbuf]
  /\ \A i, j \in Slot : lwipRxPbuf[i] = lwipRxPbuf[j] => i = j
  /\ lwipRxIndex = 0 /\ lwipRxIndexIsr = 0 /\ lwipRxCount = 0
  /\ rx_semaphore = 0
  /\ dma \in {"run", "failed"} /\ desc = lwipRxPbuf[0]
  /\ payload = [b \in Pbuf |-> 0] /\ arrived = 0
  /\ pool = Pbuf \ {lwipRxPbuf[i] : i \in Slot}
  /\ pc = "init" /\ nextPkt = NoPbuf /\ p = NoPbuf /\ reinits = 0
  /\ mbox = <<>> /\ inp = NoPbuf /\ held = {}

-----------------------------------------------------------------------------
(* The MAC and the interrupt handler. *)

\* The engine writes a frame where the descriptor points and raises its interrupt.
FrameReceived ==
  /\ dma = "run" /\ arrived < MaxFrames
  /\ arrived' = arrived + 1
  /\ payload' = [payload EXCEPT ![desc] = arrived + 1]
  /\ dma' = "done"
  /\ UNCHANGED <<ringVars, rx_semaphore, desc, pool, taskVars, stackVars>>

\* The descriptor is rebuilt on the handler's slot and the DMA restarted.
StartRead(slot) == dma' = "run" /\ desc' = lwipRxPbuf[slot]

\* tse_sgdma_rx_isr for a frame the descriptor reports as faulty
RxIsrError ==
  /\ dma = "done"
  /\ StartRead(lwipRxIndexIsr)
  /\ UNCHANGED <<ringVars, rx_semaphore, payload, arrived, pool, taskVars, stackVars>>

\* The handler compares before it counts.
SlipRingFull == lwipRxCount >= N

RingFull == lwipRxCount + 1 >= N

\* A dropped frame moves the handler's index like a kept one.
SlipRxIsrFullMoves ==
  /\ dma = "done" /\ RingFull
  /\ lwipRxIndexIsr' = NextSlot(lwipRxIndexIsr)
  /\ StartRead(lwipRxIndexIsr)
  /\ UNCHANGED <<lwipRxPbuf, lwipRxIndex, lwipRxCount, rx_semaphore, payload, arrived,
                 pool, taskVars, stackVars>>

\* A dropped frame gives the semaphore like a kept one.
SlipRxIsrFullGives ==
  /\ dma = "done" /\ RingFull
  /\ rx_semaphore' = IF rx_semaphore < N THEN rx_semaphore + 1 ELSE rx_semaphore
  /\ StartRead(lwipRxIndexIsr)
  /\ UNCHANGED <<ringVars, payload, arrived, pool, taskVars, stackVars>>

\* A dropped frame returns without starting the next read.
SlipRxIsrFullStops ==
  /\ dma = "done" /\ RingFull
  /\ dma' = "off"
  /\ UNCHANGED <<ringVars, rx_semaphore, desc, payload, arrived, pool, taskVars, stackVars>>

\* tse_sgdma_rx_isr when the ring has no free slot: the frame is dropped
RxIsrFull ==
  /\ dma = "done" /\ RingFull
  /\ StartRead(lwipRxIndexIsr)
  /\ UNCHANGED <<ringVars, rx_semaphore, payload, arrived, pool, taskVars, stackVars>>

\* The descriptor is rebuilt before the index moves.
SlipRxIsrKeepStale ==
  /\ dma = "done" /\ ~RingFull
  /\ lwipRxCount' = lwipRxCount + 1
  /\ lwipRxIndexIsr' = NextSlot(lwipRxIndexIsr)
  /\ rx_semaphore' = IF rx_semaphore < N THEN rx_semaphore + 1 ELSE rx_semaphore
  /\ StartRead(lwipRxIndexIsr)
  /\ UNCHANGED <<lwipRxPbuf, lwipRxIndex, payload, arrived, pool, taskVars, stackVars>>

\* tse_sgdma_rx_isr for a good frame; a semaphore at its maximum is left as it is
RxIsrKeep ==
  /\ dma = "done" /\ ~RingFull
  /\ lwipRxCount' = lwipRxCount + 1
  /\ lwipRxIndexIsr' = NextSlot(lwipRxIndexIsr)
  /\ rx_semaphore' = IF rx_semaphore < N THEN rx_semaphore + 1 ELSE rx_semaphore
  /\ StartRead(lwipRxIndexIsr')
  /\ UNCHANGED <<lwipRxPbuf, lwipRxIndex, payload, arrived, pool, taskVars, stackVars>>

RxIsr == RxIsrError \/ RxIsrFull \/ RxIsrKeep

-----------------------------------------------------------------------------
(* The input task, lwip_handle_ethernet_input. *)

StartTask ==
  /\ pc = "init" /\ pc' = "wait"
  /\ UNCHANGED <<ringVars, rx_semaphore, dmaVars, pool, nextPkt, p, reinits, stackVars>>

\* sys_arch_sem_wait(&rcvsem, 100) takes a token ...
SemTaken ==
  /\ pc = "wait" /\ rx_semaphore > 0
  /\ rx_semaphore' = rx_semaphore - 1
  /\ pc' = "input"
  /\ UNCHANGED <<ringVars, dmaVars, pool, nextPkt, p, reinits, stackVars>>

\* The wait has no timeout.
SlipSemTimeout == FALSE /\ UNCHANGED vars

\* ... or gives up after 100 ms: its result is ignored and the ring polled
SemTimeout ==
  /\ pc = "wait" /\ rx_semaphore = 0
  /\ pc' = "input"
  /\ UNCHANGED <<ringVars, rx_semaphore, dmaVars, pool, nextPkt, p, reinits, stackVars>>

\* low_level_input returns NULL: the ring is empty, or the pool is and the
\* packet stays where it is
InputNothing ==
  /\ pc = "input" /\ (lwipRxCount <= 0 \/ pool = {})
  /\ pc' = "check"
  /\ UNCHANGED <<ringVars, rx_semaphore, dmaVars, pool, nextPkt, p, reinits, stackVars>>

\* low_level_input allocates the pbuf that will replace the packet
InputAlloc ==
  /\ pc = "input" /\ lwipRxCount > 0
  /\ \E b \in pool : nextPkt' = b /\ pool' = pool \ {b}
  /\ pc' = "swap"
  /\ UNCHANGED <<ringVars, rx_semaphore, dmaVars, p, reinits, stackVars>>

\* The packet is taken but its slot not refilled.
SlipInputSwap ==
  /\ pc = "swap"
  /\ p' = lwipRxPbuf[lwipRxIndex]
  /\ lwipRxIndex' = NextSlot(lwipRxIndex)
  /\ lwipRxCount' = lwipRxCount - 1
  /\ nextPkt' = NoPbuf
  /\ pc' = "deliver"
  /\ UNCHANGED <<lwipRxPbuf, lwipRxIndexIsr, rx_semaphore, dmaVars, pool, reinits, stackVars>>

\* low_level_input takes the packet, between enh_alt_irq_disable_all and
\* enh_alt_irq_enable_all, and returns it; one of length 0 it forgets and returns NULL,
\* with which ethernetif_input returns -1
InputSwap ==
  /\ pc = "swap"
  /\ lwipRxPbuf' = [lwipRxPbuf EXCEPT ![lwipRxIndex] = nextPkt]
  /\ lwipRxIndex' = NextSlot(lwipRxIndex)
  /\ lwipRxCount' = lwipRxCount - 1
  /\ nextPkt' = NoPbuf
  /\ \/ p' = lwipRxPbuf[lwipRxIndex] /\ pc' = "deliver"
     \/ EmptyFrames /\ p' = NoPbuf /\ pc' = "check"
  /\ UNCHANGED <<lwipRxIndexIsr, rx_semaphore, dmaVars, pool, reinits, stackVars>>

\* Messages of MEMP_TCPIP_MSG_INPKT in use: tcpip_thread frees one only after
\* it has processed the packet.
InpktUsed == Len(mbox) + (IF inp = NoPbuf THEN 0 ELSE 1)

\* ethernetif_input: an IP or ARP packet, tcpip_input posts it
DeliverPost ==
  /\ pc = "deliver" /\ InpktUsed < InpktMax
  /\ mbox' = Append(mbox, p)
  /\ p' = NoPbuf /\ pc' = "return"
  /\ UNCHANGED <<ringVars, rx_semaphore, dmaVars, pool, nextPkt, reinits, inp, held>>

\* ethernetif_input: tcpip_input returns ERR_MEM, which nobody looks at
DeliverFailed ==
  /\ pc = "deliver" /\ InpktUsed >= InpktMax
  /\ p' = NoPbuf /\ pc' = "return"
  /\ UNCHANGED <<ringVars, rx_semaphore, dmaVars, pool, nextPkt, reinits, stackVars>>

\* An unknown packet is only forgotten.
SlipDeliverUnknown ==
  /\ pc = "deliver"
  /\ p' = NoPbuf /\ pc' = "return"
  /\ UNCHANGED <<ringVars, rx_semaphore, dmaVars, pool, nextPkt, reinits, stackVars>>

\* ethernetif_input: another ethertype, the packet is freed
DeliverUnknown ==
  /\ pc = "deliver"
  /\ pool' = pool \union {p}
  /\ p' = NoPbuf /\ pc' = "return"
  /\ UNCHANGED <<ringVars, rx_semaphore, dmaVars, nextPkt, reinits, stackVars>>

\* ethernetif_input returns lwipRxCount; with packets left the link is not looked at
InputReturn ==
  /\ pc = "return"
  /\ pc' = IF lwipRxCount <= 0 THEN "check" ELSE "wait"
  /\ UNCHANGED <<ringVars, rx_semaphore, dmaVars, pool, nextPkt, p, reinits, stackVars>>

\* lwip_check_link_status finds nothing to do, or is done
CheckDone ==
  /\ pc = "check" /\ pc' = "wait"
  /\ UNCHANGED <<ringVars, rx_semaphore, dmaVars, pool, nextPkt, p, reinits, stackVars>>

\* tse_mac_init, called by lwip_wait_for_an at start-up or by the link check,
\* resets the RX SGDMA: a frame whose interrupt was not taken yet is lost, or its
\* interrupt is latched already and the handler runs all the same ...
ResetDma ==
  /\ pc \in {"init", "check"} /\ reinits < MaxReinit
  /\ reinits' = reinits + 1
  /\ dma' = "off" \/ (dma = "done" /\ UNCHANGED dma)
  /\ pc' = IF pc = "init" THEN "initReset" ELSE "checkReset"
  /\ UNCHANGED <<ringVars, rx_semaphore, desc, payload, arrived, pool, nextPkt, p, stackVars>>

\* tse_mac_init returns; interrupts are on all the time, so that one which is raised
\* has been served.
MacInitReturns ==
  /\ pc \in {"initReset", "checkReset"} /\ dma # "done"
  /\ pc' = IF pc = "initReset" THEN "init" ELSE "check"
  /\ UNCHANGED <<ringVars, rx_semaphore, payload, arrived, pool, nextPkt, p, reinits, stackVars>>

\* The engine is restarted on the task's slot.
SlipRearm == MacInitReturns /\ StartRead(lwipRxIndex)

\* ... tse_sgdma_read_init starts the engine again on the handler's slot ...
Rearm == MacInitReturns /\ StartRead(lwipRxIndexIsr)

\* ... unless the MAC has no 16-bit shift: ERR_IF, which nobody looks at, with the
\* engine as the reset, or a handler that ran after it, left it
RearmFails ==
  /\ MacInitReturns
  /\ dma' = IF dma = "off" THEN "failed" ELSE dma
  /\ UNCHANGED desc

InputTask ==
  \/ StartTask \/ SemTaken \/ SemTimeout
  \/ InputNothing \/ InputAlloc \/ InputSwap
  \/ DeliverPost \/ DeliverFailed \/ DeliverUnknown \/ InputReturn
  \/ CheckDone \/ Rearm \/ RearmFails

-----------------------------------------------------------------------------
(* tcpip_thread and the users of received packets. *)

\* sys_timeouts_mbox_fetch returns a TCPIP_MSG_INPKT
TcpipFetch ==
  /\ inp = NoPbuf /\ mbox # <<>>
  /\ inp' = Head(mbox) /\ mbox' = Tail(mbox)
  /\ UNCHANGED <<ringVars, rx_semaphore, dmaVars, pool, taskVars, held>>

\* ethernet_input frees the packet, or leaves it in a queue of the stack
TcpipDone ==
  /\ inp # NoPbuf /\ inp' = NoPbuf
  /\ \/ pool' = pool \union {inp} /\ UNCHANGED held
     \/ held' = held \union {inp} /\ UNCHANGED pool
  /\ UNCHANGED <<ringVars, rx_semaphore, dmaVars, taskVars, mbox>>

\* the last reader of a queued packet frees it
Release ==
  /\ \E b \in held : held' = held \ {b} /\ pool' = pool \union {b}
  /\ UNCHANGED <<ringVars, rx_semaphore, dmaVars, taskVars, mbox, inp>>

Next ==
  \/ FrameReceived \/ RxIsr
  \/ InputTask \/ ResetDma
  \/ TcpipFetch \/ TcpipDone \/ Release

Spec == Init /\ [][Next]_vars

\* The interrupt is taken, both threads are scheduled, and an application that
\* holds packets ends by freeing them.
FairSpec == /\ Spec
            /\ WF_vars(RxIsr) /\ WF_vars(InputTask)
            /\ WF_vars(TcpipFetch \/ TcpipDone) /\ WF_vars(Release)

-----------------------------------------------------------------------------
(* Properties. *)

InRing == {lwipRxPbuf[i] : i \in Slot}
InMbox == {mbox[k] : k \in 1 .. Len(mbox)}
InHand == {inp, p, nextPkt}

TypeOK ==
  /\ lwipRxPbuf \in [Slot -> Pbuf]
  /\ lwipRxIndex \in Slot /\ lwipRxIndexIsr \in Slot /\ lwipRxCount \in 0 .. N - 1
  /\ rx_semaphore \in 0 .. N
  /\ dma \in {"off", "failed", "run", "done"} /\ desc \in Pbuf
  /\ arrived \in 0 .. MaxFrames /\ payload \in [Pbuf -> 0 .. MaxFrames]
  /\ pool \in SUBSET Pbuf /\ held \in SUBSET Pbuf /\ mbox \in Seq(Pbuf)
  /\ pc \in {"init", "initReset", "wait", "input", "swap", "deliver", "return",
             "check", "checkReset"}
  /\ nextPkt \in Pbuf \union {NoPbuf} /\ p \in Pbuf \union {NoPbuf}
  /\ inp \in Pbuf \union {NoPbuf}
  /\ reinits \in 0 .. MaxReinit

\* The handler and the task advance two indices and a counter on their own
\* (lwip_tse_mac.c:554-569, altera_tse_ethernetif.c:122-127): the three always
\* describe the same ring, and one slot is always left for the DMA.
IndicesAgree ==
  /\ lwipRxIndexIsr = WaitingSlot(lwipRxCount + 1)
  /\ lwipRxCount < N

\* The engine only writes to a pbuf nobody reads, frees or hands over: neither a
\* packet that waits, nor one of the pool, of tcpip_thread or of the task, even
\* across a restart of the MAC (lwip_tse_mac.c:328-337, 581-587).
DmaPrivate ==
  dma \in {"run", "done"} =>
    /\ desc \notin pool \union held \union InMbox \union InHand
    /\ \A k \in 1 .. lwipRxCount : desc # lwipRxPbuf[WaitingSlot(k)]

\* No pbuf is in two places: the ring, the pool, the mailbox, the stack's queues
\* and the locals of the two threads never share one, so none is freed or
\* delivered twice (altera_tse_ethernetif.c:107-127, 202-206).
OneOwner ==
  /\ \A i, j \in Slot : lwipRxPbuf[i] = lwipRxPbuf[j] => i = j
  /\ \A k, l \in 1 .. Len(mbox) : mbox[k] = mbox[l] => k = l
  /\ \A b \in InRing : b \notin pool \union held \union InMbox \union InHand
  /\ \A b \in InMbox : b \notin pool \union held \union InHand
  /\ \A b \in pool : b \notin held \union InHand
  /\ \A b \in held : b \notin InHand
  /\ p # NoPbuf => p \notin {inp, nextPkt}
  /\ nextPkt # NoPbuf => nextPkt # inp

Owned == InRing \union pool \union held \union InMbox \union (InHand \ {NoPbuf})

\* Every pbuf is somewhere: a packet the stack refuses must go back to the pool
\* (the NO_SYS branch of ethernetif_input frees it, altera_tse_ethernetif.c:180-184).
NoLeak == Pbuf \subseteq Owned

\* Only two lines drop the last pointer to a pbuf: the call of netif->input whose result
\* nobody looks at, when every message for a packet is in use, and the one that forgets a
\* packet of length 0 (altera_tse_ethernetif.c:202, 134-135).  Whatever else goes wrong
\* between the ring and the stack (an empty pool, an unknown packet, a full ring, a
\* restart of the MAC between two steps) loses none (altera_tse_ethernetif.c:103-127).
OnlyKnownLeaks ==
  [][\A b \in Owned \ Owned' :
       \/ pc = "deliver" /\ b = p /\ InpktUsed >= InpktMax
       \/ pc = "swap" /\ b = lwipRxPbuf[lwipRxIndex] /\ EmptyFrames]_vars

\* The counting semaphore never saturates, so no xSemaphoreGiveFromISR is lost
\* although failed allocations and 100 ms polls let its count and the number of
\* waiting packets drift apart (lwip_tse_mac.c:103, 576).
NoTokenLost == dma = "done" /\ ~RingFull => rx_semaphore < N

Frames(B) == {payload[b] : b \in B \ {NoPbuf}}

Increasing(s) == \A k, l \in 1 .. Len(s) : k < l => s[k] < s[l]

\* The frames on their way, the furthest first: with the stack, in its mailbox, in
\* the hands of the input task, in the ring
Stage == <<Frames({inp}), Frames(InMbox), Frames({p}),
           {Waiting[k] : k \in 1 .. lwipRxCount}>>

\* From the DMA to the stack no frame overtakes another, comes twice or is written
\* over by a later one, whatever the handler, the task and the tcpip thread do between
\* and whichever frames are dropped (lwip_tse_mac.c:554-587,
\* altera_tse_ethernetif.c:107-127, tcpip.c:183-201).
FramesInOrder ==
  /\ Increasing(Waiting)
  /\ Increasing([k \in 1 .. Len(mbox) |-> payload[mbox[k]]])
  /\ \A i, j \in DOMAIN Stage : i < j => \A f \in Stage[i], g \in Stage[j] : f < g

Fifo == INSTANCE RxFifo WITH
  Capacity <- N - 1, waiting <- Waiting, arrived <- arrived, offered <- (dma = "done")

\* The ring, the handler and the task implement the bounded queue of RxFifo:
\* kept frames are taken once, in order and unchanged.
ImplementsFifo == Fifo!Spec

\* Nothing is left beyond the pbufs of the ring: low_level_input will never again find
\* one to put in place of a packet.
Drained == Owned = InRing

\* A frame the handler kept is always taken from the ring: a task that lost its
\* token to an empty pool polls again after 100 ms (lwip_main.c:445-451).  The one
\* exception is a pool that lost packets have drained for good, pbuf by pbuf.
EveryFrameTaken ==
  \A f \in 1 .. MaxFrames :
    (\E k \in 1 .. lwipRxCount : Waiting[k] = f)
      ~> (Drained \/ ~\E k \in 1 .. lwipRxCount : Waiting[k] = f)

\* Reception never stops for good: after each interrupt and each restart of the
\* MAC the engine runs again (lwip_tse_mac.c:337, 359), unless tse_mac_init gives up
\* half-way (lwip_tse_mac.c:212-226).
DmaRestarts == dma \in {"off", "done"} ~> dma \in {"run", "failed"}

=============================================================================
