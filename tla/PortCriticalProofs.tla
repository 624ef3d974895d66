------------------------- MODULE PortCriticalProofs -------------------------
(***************************************************************************)
(* Proofs about PortCritical for any set of tasks and any depth of nesting. *)
(***************************************************************************)
EXTENDS PortCritical, TLAPS

USE MaxNestAssumption

\* A task switched out inside a critical section resumes masked, and only a task
\* outside every critical section is interrupted by the receive handler.
Saved ==
  /\ \A t \in Task : t # pxCurrentTCB /\ uxCriticalNesting[t] > 0 => ~estatus[t]
  /\ ~TaskRuns => uxCriticalNesting[pxCurrentTCB] = 0

MaskedInv == TypeOK /\ CriticalMasked /\ Saved

\* The parts of TypeOK that hold Boolean values, apart from the counts.
LEMMA TypeInit == Init => TypeOK
<1> SUFFICES ASSUME Init PROVE TypeOK
  OBVIOUS
<1>1. PIE \in BOOLEAN /\ lastContext \in BOOLEAN /\ armed \in BOOLEAN /\ yielded \in BOOLEAN
  BY Zenon DEF Init
<1>2. estatus \in [Task -> BOOLEAN]
  BY Zenon DEF Init
<1>3. uxCriticalNesting \in [Task -> 0 .. MaxNest]
  BY DEF Init
<1> QED
  BY <1>1, <1>2, <1>3 DEF Init, TypeOK

LEMMA TypeNext == TypeOK /\ [Next]_vars => TypeOK'
<1> SUFFICES ASSUME TypeOK, [Next]_vars PROVE TypeOK'
  OBVIOUS
<1>1. PIE' \in BOOLEAN /\ lastContext' \in BOOLEAN
  BY Zenon DEF TypeOK, Next, vars, EnterCritical, ExitCritical, RingSwap, ArmReceive, Yield,
     YieldInCritical, Tick, RxInterrupt, RxLock, RxReturn, SwitchTo, MaskedSection,
     enh_alt_irq_disable_all, enh_alt_irq_enable_all
<1>2. estatus' \in [Task -> BOOLEAN]
  BY Zenon DEF TypeOK, Next, vars, EnterCritical, ExitCritical, RingSwap, ArmReceive, Yield,
     YieldInCritical, Tick, RxInterrupt, RxLock, RxReturn, SwitchTo
<1>3. uxCriticalNesting' \in [Task -> 0 .. MaxNest]
  BY DEF TypeOK, Next, vars, EnterCritical, ExitCritical, RingSwap, ArmReceive, Yield,
     YieldInCritical, Tick, RxInterrupt, RxLock, RxReturn
<1>4. pxCurrentTCB' \in Task
  BY Zenon DEF TypeOK, Next, vars, EnterCritical, ExitCritical, RingSwap, ArmReceive, Yield,
     YieldInCritical, Tick, RxInterrupt, RxLock, RxReturn, SwitchTo
<1>5. handler' \in {"none", "entered", "unlocked"} /\ armed' \in BOOLEAN /\ yielded' \in BOOLEAN
  BY Zenon DEF TypeOK, Next, vars, EnterCritical, ExitCritical, RingSwap, ArmReceive, Yield,
     YieldInCritical, Tick, RxInterrupt, RxLock, RxReturn
<1> QED
  BY Zenon, <1>1, <1>2, <1>3, <1>4, <1>5 DEF TypeOK

\* The masking state keeps its types, and no task nests below zero or past the bound.
THEOREM PortTypeCorrect == Spec => []TypeOK
BY TypeInit, TypeNext, PTL DEF Spec

LEMMA MaskedInit == Init => MaskedInv
<1> SUFFICES ASSUME Init PROVE CriticalMasked /\ Saved
  BY TypeInit DEF MaskedInv
<1>1. \A t \in Task : uxCriticalNesting[t] = 0
  BY Zenon DEF Init
<1> QED
  BY <1>1 DEF Init, CriticalMasked, Saved, TaskRuns

LEMMA MaskedNext == MaskedInv /\ [Next]_vars => MaskedInv'
<1> SUFFICES ASSUME MaskedInv, [Next]_vars PROVE CriticalMasked' /\ Saved'
  BY TypeNext DEF MaskedInv
<1>t. TypeOK'
  BY TypeNext DEF MaskedInv
<1> USE DEF MaskedInv, TypeOK, CriticalMasked, Saved, TaskRuns
<1>1. CASE EnterCritical
  BY <1>1 DEF EnterCritical, enh_alt_irq_disable_all
<1>2. CASE ExitCritical
  BY <1>2 DEF ExitCritical, enh_alt_irq_enable_all
<1>3. CASE RingSwap
  BY <1>3 DEF RingSwap, MaskedSection
<1>4. CASE ArmReceive
  BY <1>4 DEF ArmReceive, MaskedSection
<1>5. CASE Yield
  BY <1>5 DEF Yield, SwitchTo
<1>6. CASE YieldInCritical
  BY <1>6 DEF YieldInCritical, SwitchTo
<1>7. CASE Tick
  BY <1>7 DEF Tick, SwitchTo
<1>8. CASE RxInterrupt
  BY <1>8 DEF RxInterrupt
<1>9. CASE RxLock
  BY <1>9 DEF RxLock, MaskedSection
<1>10. CASE RxReturn
  BY <1>10 DEF RxReturn
<1>11. CASE UNCHANGED vars
  BY <1>11 DEF vars
<1> QED
  BY <1>1, <1>2, <1>3, <1>4, <1>5, <1>6, <1>7, <1>8, <1>9, <1>10, <1>11 DEF Next

\* However tasks nest, yield and are interrupted, the running task is masked
\* inside every critical section.
THEOREM CriticalSectionsAreMasked == Spec => []CriticalMasked
<1>1. MaskedInv => CriticalMasked
  BY DEF MaskedInv
<1> QED
  BY MaskedInit, MaskedNext, <1>1, PTL DEF Spec

-----------------------------------------------------------------------------
(* Without a switch inside a critical section. *)

\* Only the running task can be inside a critical section and every other task
\* resumes with interrupts on; once the receive DMA is armed, the word is set
\* exactly while the running task is inside.
Alone ==
  /\ \A t \in Task : t # pxCurrentTCB => uxCriticalNesting[t] = 0 /\ estatus[t]
  /\ TaskRuns => PIE = (uxCriticalNesting[pxCurrentTCB] = 0)
  /\ TaskRuns /\ uxCriticalNesting[pxCurrentTCB] > 0 => lastContext
  /\ armed /\ uxCriticalNesting[pxCurrentTCB] = 0 => ~lastContext
  /\ ~TaskRuns => /\ armed /\ ~PIE /\ estatus[pxCurrentTCB]
                  /\ uxCriticalNesting[pxCurrentTCB] = 0

SoundInv == TypeOK /\ (~yielded => Alone)

LEMMA SoundInit == Init => SoundInv
<1> SUFFICES ASSUME Init PROVE Alone \/ yielded
  BY TypeInit DEF SoundInv
<1>1. \A t \in Task : uxCriticalNesting[t] = 0
  BY DEF Init
<1> QED
  BY <1>1 DEF Init, Alone, TaskRuns

LEMMA SoundNext == MaskedInv /\ SoundInv /\ [Next]_vars => SoundInv'
<1> SUFFICES ASSUME MaskedInv, SoundInv, [Next]_vars PROVE Alone' \/ yielded'
  BY MaskedNext DEF MaskedInv, SoundInv
<1>t. TypeOK'
  BY MaskedNext DEF MaskedInv
<1> USE <1>t DEF SoundInv, TypeOK, Alone, TaskRuns
<1>1. CASE EnterCritical
  BY <1>1 DEF EnterCritical, enh_alt_irq_disable_all
<1>2. CASE ExitCritical
  BY <1>2 DEF ExitCritical, enh_alt_irq_enable_all
<1>3. CASE RingSwap
  BY <1>3 DEF RingSwap, MaskedSection
<1>4. CASE ArmReceive
  BY <1>4 DEF ArmReceive, MaskedSection
<1>5. CASE Yield
  BY <1>5 DEF Yield, SwitchTo
<1>6. CASE YieldInCritical
  BY <1>6 DEF YieldInCritical
<1>7. CASE Tick
  BY <1>7 DEF Tick, SwitchTo
<1>8. CASE RxInterrupt
  BY <1>8 DEF RxInterrupt
<1>9. CASE RxLock
  BY <1>9 DEF RxLock, MaskedSection
<1>10. CASE RxReturn
  BY <1>10 DEF RxReturn
<1>11. CASE UNCHANGED vars
  BY <1>11 DEF vars
<1> QED
  BY <1>1, <1>2, <1>3, <1>4, <1>5, <1>6, <1>7, <1>8, <1>9, <1>10, <1>11 DEF Next

\* As long as no task yields inside a critical section, one shared word is enough
\* for any number of tasks and the handler.
THEOREM OneWordIsSoundWithoutYields == Spec => []MaskingSound
<1>1. SoundInv => MaskingSound
  BY DEF SoundInv, MaskingSound, Alone, TasksEnabled, IsrMasked
<1> QED
  BY MaskedInit, MaskedNext, SoundInit, SoundNext, <1>1, PTL DEF Spec

=============================================================================
