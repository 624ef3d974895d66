---------------------------- MODULE PortCritical ----------------------------
(***************************************************************************)
(* Interrupt masking in the Nios II port of FreeRTOS: the PIE bit of the    *)
(* status register, the saved status of every task that is switched out,    *)
(* the nesting count the kernel keeps per task and the one lastContext word *)
(* of enh_alt_irq_disable_all and enh_alt_irq_enable_all (port.c), which    *)
(* the kernel's critical sections, the receive task and the receive         *)
(* interrupt handler all share.                                             *)
(*                                                                          *)
(* The scheduler's choice of the next task is left open.  An interrupt that *)
(* would nest inside the receive handler is not followed: IsrMasked says    *)
(* when one could come.  The operators named Slip... are plausible slips in  *)
(* the code; the runs must tell them from the operator they precede.        *)
(***************************************************************************)
EXTENDS Integers

CONSTANTS
  Task,      \* the tasks of the kernel
  MaxNest    \* bound: depth of nested critical sections

ASSUME MaxNestAssumption == MaxNest \in Nat \ {0}

VARIABLES
  PIE,                \* status.PIE: the CPU takes interrupts
  lastContext,        \* the PIE bit of lastContext
  pxCurrentTCB,       \* the running task
  uxCriticalNesting,  \* in each TCB
  estatus,            \* the PIE bit in the frame each switched-out task resumes with
  handler,            \* where the receive handler is: "none", "entered", "unlocked"
  armed,              \* whether tse_mac_init has started the receive DMA
  yielded             \* history: some task was switched out inside a critical section

vars == <<PIE, lastContext, pxCurrentTCB, uxCriticalNesting, estatus, handler, armed, yielded>>

\* vTaskStartScheduler masks interrupts once, outside any critical section, and
\* the first task starts from its initial frame, portINITIAL_ESTATUS.
Init ==
  /\ PIE = TRUE /\ lastContext = TRUE
  /\ pxCurrentTCB \in Task
  /\ uxCriticalNesting = [t \in Task |-> 0]
  /\ estatus = [t \in Task |-> TRUE]
  /\ handler = "none" /\ armed = FALSE /\ yielded = FALSE

TaskRuns == handler = "none"

-----------------------------------------------------------------------------
(* port.c *)

enh_alt_irq_disable_all ==
  /\ lastContext' = (lastContext \/ PIE)
  /\ PIE' = FALSE

\* The mask is restored from the word but the word is not cleared.
SlipEnableAll ==
  /\ PIE' = lastContext
  /\ UNCHANGED lastContext

enh_alt_irq_enable_all ==
  /\ PIE' = lastContext
  /\ lastContext' = FALSE

\* enh_alt_irq_disable_all and then enh_alt_irq_enable_all, with nothing between
\* that can be interrupted
MaskedSection ==
  /\ PIE' = (lastContext \/ PIE)
  /\ lastContext' = FALSE

-----------------------------------------------------------------------------
(* The running task. *)

\* vTaskEnterCritical
EnterCritical ==
  /\ TaskRuns /\ uxCriticalNesting[pxCurrentTCB] < MaxNest
  /\ enh_alt_irq_disable_all
  /\ uxCriticalNesting' = [uxCriticalNesting EXCEPT ![pxCurrentTCB] = @ + 1]
  /\ UNCHANGED <<pxCurrentTCB, estatus, handler, armed, yielded>>

\* The exit does not look whether a section was entered.
SlipExitUnbalanced ==
  /\ TaskRuns
  /\ uxCriticalNesting' = [uxCriticalNesting EXCEPT ![pxCurrentTCB] = @ - 1]
  /\ IF uxCriticalNesting[pxCurrentTCB] = 1
     THEN enh_alt_irq_enable_all
     ELSE UNCHANGED <<PIE, lastContext>>
  /\ UNCHANGED <<pxCurrentTCB, estatus, handler, armed, yielded>>

\* Interrupts come back at every exit, not at the outermost.
SlipExitCritical ==
  /\ TaskRuns /\ uxCriticalNesting[pxCurrentTCB] > 0
  /\ uxCriticalNesting' = [uxCriticalNesting EXCEPT ![pxCurrentTCB] = @ - 1]
  /\ enh_alt_irq_enable_all
  /\ UNCHANGED <<pxCurrentTCB, estatus, handler, armed, yielded>>

\* vTaskExitCritical
ExitCritical ==
  /\ TaskRuns /\ uxCriticalNesting[pxCurrentTCB] > 0
  /\ uxCriticalNesting' = [uxCriticalNesting EXCEPT ![pxCurrentTCB] = @ - 1]
  /\ IF uxCriticalNesting[pxCurrentTCB] = 1
     THEN enh_alt_irq_enable_all
     ELSE UNCHANGED <<PIE, lastContext>>
  /\ UNCHANGED <<pxCurrentTCB, estatus, handler, armed, yielded>>

\* low_level_input masks interrupts by itself around the swap of the ring's slot
RingSwap ==
  /\ TaskRuns /\ armed /\ uxCriticalNesting[pxCurrentTCB] = 0
  /\ MaskedSection
  /\ UNCHANGED <<pxCurrentTCB, uxCriticalNesting, estatus, handler, armed, yielded>>

\* tse_mac_init: sys_sem_new goes through a critical section, then the DMA starts
ArmReceive ==
  /\ TaskRuns /\ ~armed /\ uxCriticalNesting[pxCurrentTCB] = 0
  /\ MaskedSection
  /\ armed' = TRUE
  /\ UNCHANGED <<pxCurrentTCB, uxCriticalNesting, estatus, handler, yielded>>

\* The context of the running task is saved with the status it had, and that of
\* the chosen task restored with its own.
SwitchTo(t) ==
  /\ estatus' = [estatus EXCEPT ![pxCurrentTCB] = PIE]
  /\ pxCurrentTCB' = t
  /\ PIE' = estatus'[t]

\* portYIELD, a trap, which save_context serves whether or not PIE is set
Yield ==
  /\ TaskRuns /\ uxCriticalNesting[pxCurrentTCB] = 0
  /\ \E t \in Task : SwitchTo(t)
  /\ UNCHANGED <<lastContext, uxCriticalNesting, handler, armed, yielded>>

\* portYIELD_WITHIN_API between taskENTER_CRITICAL and taskEXIT_CRITICAL, as in
\* xQueueGenericSend, xQueueGenericReceive and xTaskResumeAll
YieldInCritical ==
  /\ TaskRuns /\ uxCriticalNesting[pxCurrentTCB] > 0
  /\ \E t \in Task \ {pxCurrentTCB} : SwitchTo(t)
  /\ yielded' = TRUE
  /\ UNCHANGED <<lastContext, uxCriticalNesting, handler, armed>>

-----------------------------------------------------------------------------
(* Interrupts. *)

\* vPortSysTickHandler switches to any ready task
Tick ==
  /\ TaskRuns /\ PIE
  /\ \E t \in Task : SwitchTo(t)
  /\ UNCHANGED <<lastContext, uxCriticalNesting, handler, armed, yielded>>

\* The receive interrupt: save_context, alt_irq_handler, alt_avalon_sgdma_irq
RxInterrupt ==
  /\ TaskRuns /\ PIE /\ armed
  /\ estatus' = [estatus EXCEPT ![pxCurrentTCB] = PIE]
  /\ PIE' = FALSE
  /\ handler' = "entered"
  /\ UNCHANGED <<lastContext, pxCurrentTCB, uxCriticalNesting, armed, yielded>>

\* tse_mac_rcv masks and unmasks interrupts around the ring's counters
RxLock ==
  /\ handler = "entered"
  /\ MaskedSection
  /\ handler' = "unlocked"
  /\ UNCHANGED <<pxCurrentTCB, uxCriticalNesting, estatus, armed, yielded>>

\* portEND_SWITCHING_ISR may choose another task; its frame is restored
RxReturn ==
  /\ handler = "unlocked"
  /\ \E t \in Task : pxCurrentTCB' = t /\ PIE' = estatus[t]
  /\ handler' = "none"
  /\ UNCHANGED <<lastContext, uxCriticalNesting, estatus, armed, yielded>>

Next ==
  \/ EnterCritical \/ ExitCritical \/ RingSwap \/ ArmReceive
  \/ Yield \/ YieldInCritical
  \/ Tick \/ RxInterrupt \/ RxLock \/ RxReturn

Spec == Init /\ [][Next]_vars

-----------------------------------------------------------------------------
(* Properties. *)

TypeOK ==
  /\ PIE \in BOOLEAN /\ lastContext \in BOOLEAN
  /\ pxCurrentTCB \in Task
  /\ uxCriticalNesting \in [Task -> 0 .. MaxNest]
  /\ estatus \in [Task -> BOOLEAN]
  /\ handler \in {"none", "entered", "unlocked"}
  /\ armed \in BOOLEAN /\ yielded \in BOOLEAN

\* A task inside a critical section is never interrupted, however deep it nests,
\* whoever ran between its yields and whatever is left in lastContext
\* (tasks.c:2444-2473, port.c:86-97).
CriticalMasked == TaskRuns /\ uxCriticalNesting[pxCurrentTCB] > 0 => ~PIE

\* A task outside every critical section can be interrupted: the outermost
\* taskEXIT_CRITICAL gives interrupts back (queue.c:605-613).
TasksEnabled == TaskRuns /\ uxCriticalNesting[pxCurrentTCB] = 0 => PIE

\* The receive handler never runs with interrupts enabled: the frames of
\* port_asm.S do not nest, and alt_avalon_sgdma_irq masks interrupts around it
\* (altera_avalon_sgdma.c:747-757).
IsrMasked == ~TaskRuns => ~PIE

\* The one shared word serves any number of tasks and the handler as long as no
\* task is switched out inside a critical section.
MaskingSound == ~yielded => TasksEnabled /\ IsrMasked

=============================================================================
